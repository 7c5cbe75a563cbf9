--------------------------- MODULE StreamLifecycle --------------------------
(***************************************************************************)
(* The video streams of one camera, from request to teardown: the maps of  *)
(* src/src/camera.ts (streams, pendingStreams, creating, streamGen), the   *)
(* DirectStream instances of src/src/direct-stream.ts, and the push table  *)
(* and session of src/src/controller-emulator.ts that command the camera.  *)
(*                                                                         *)
(* An action is a callback or continuation with every call it makes.       *)
(* Instances are slots: one is reused when nothing of its stream is left.  *)
(***************************************************************************)
EXTENDS Naturals, FiniteSets

CONSTANTS
    Tracks,     \* the camera's video tracks, one push port each
    Insts,      \* DirectStream slots
    TrackOf,    \* slot -> the track its streams are for
    Profiles,   \* audio serializer profiles
    Default,    \* the codec of a camera that never was commanded ('aac')
    Literal,    \* the configured host is an IP literal, not a hostname
    Lossy,      \* the management link can die before its session closes
    NoInst, NoProfile

ASSUME StreamConstants ==
    /\ TrackOf \in [Insts -> Tracks]
    /\ Default \in Profiles
    /\ Literal \in BOOLEAN /\ Lossy \in BOOLEAN
    /\ NoInst \notin Insts /\ NoProfile \notin Profiles

VARIABLES
    \* UnifiCamera
    released, selected, advertised, streams, pending, creating,
    \* DirectStream
    profile, phase, stopped, routed, feed, stale,
    \* ControllerEmulator
    session, active, codec,
    \* the management link and the camera itself
    linkUp, pushing, camCodec

camera == <<released, selected, advertised>>
maps == <<streams, pending, creating>>
run == <<phase, stopped, routed, feed>>
table == <<active, codec>>
device == <<pushing, camCodec>>
vars == <<camera, maps, profile, run, stale, session, table, linkUp, device>>

NoMap == [t \in Tracks |-> NoInst]
Present(map) == {map[t] : t \in Tracks} \ {NoInst}

\* start() has not settled.
Starting(i) == phase[i] \in {"resolving", "registering", "waiting"}

\* Nothing refers to the slot any more.
Free(i) ==
    /\ phase[i] \in {"over", "built"}
    /\ stopped[i]
    /\ i \notin Present(streams)
    /\ feed[i] # "promoting"

\* The creation that awaits start() continues before the next event.
Quiet == \A i \in Insts : phase[i] # "started"

\* Without a DNS lookup, streams created one after the other reach and leave
\* the await of register() in that order: an abandoned one goes first.
InOrder(i) ==
    Literal /\ ~stopped[i] =>
        \A j \in Insts \ {i} :
            ~(TrackOf[j] = TrackOf[i] /\ phase[j] \in {"resolving", "registering"})

Init ==
    /\ released = FALSE
    /\ selected = NoProfile
    /\ advertised \in SUBSET Tracks
    /\ streams = NoMap /\ pending = NoMap /\ creating = NoMap
    /\ profile = [i \in Insts |-> Default]
    /\ phase = [i \in Insts |-> "over"]
    /\ stopped = [i \in Insts |-> TRUE]
    /\ routed = {}
    /\ feed = [i \in Insts |-> "none"]
    /\ stale = {}
    /\ session = "none"
    /\ active = {}
    /\ codec = Default
    /\ linkUp = FALSE
    \* what an earlier controller may have left behind
    /\ pushing \in SUBSET Tracks
    /\ camCodec \in [Tracks -> Profiles]

-----------------------------------------------------------------------------
(* Commands to the camera *)

\* A ChangeVideoSettings command reaches the camera unless the link is dead.
\* It is partial: only the tracks it names change.
Command(on, off, c) ==
    IF session # "none" /\ linkUp
    THEN /\ pushing' = (pushing \ off) \cup on
         /\ camCodec' = [t \in Tracks |-> IF t \in on \cup off THEN c ELSE camCodec[t]]
    ELSE UNCHANGED device

\* stopStream() for each track of T.
StopPushes(T) ==
    /\ active' = active \ T
    /\ Command({}, T, codec)
    /\ UNCHANGED codec

\* startStream(): the other tracks that nobody pushes are parked with the
\* same codec, live ones are left out of the command.
StartPush(t, c) ==
    /\ active' = active \cup {t}
    /\ codec' = c
    /\ Command({t}, Tracks \ (active \cup {t}), c)

-----------------------------------------------------------------------------
(* Streams ending, each kind of end used by several callers below *)

\* What stop() leaves of a feed: a serve still being built ends by itself.
Dropped(f) == IF f = "promoting" THEN f ELSE "none"

\* Maps after the creations of S settled: each removes only what is its own.
Without(map, S) == [t \in Tracks |-> IF map[t] \in S THEN NoInst ELSE map[t]]

\* DirectStream.stop() of the streams in S, while slot n, if any, starts a new
\* one.  A start() that waits for readiness rejects at once and stops again,
\* to no further effect; one that awaits DNS or the listener, and a serve
\* being built, find out later.
StopAll(S, n) ==
    /\ stopped' = [i \in Insts |-> i # n /\ (stopped[i] \/ i \in S)]
    /\ phase' = [i \in Insts |->
                    IF i = n THEN "resolving"
                    ELSE IF i \in S /\ phase[i] = "waiting" THEN "over" ELSE phase[i]]
    /\ feed' = [i \in Insts |-> IF i \in S THEN Dropped(feed[i]) ELSE feed[i]]
    /\ routed' = routed \ S
    /\ StopPushes({TrackOf[i] : i \in S})

\* start() of i throws: its catch stops the stream, its creation unwinds.
Fail(i) ==
    /\ stopped' = [stopped EXCEPT ![i] = TRUE]
    /\ phase' = [phase EXCEPT ![i] = "over"]
    /\ feed' = [feed EXCEPT ![i] = Dropped(@)]
    /\ routed' = routed \ {i}
    /\ StopPushes({TrackOf[i]})
    /\ pending' = Without(pending, {i})
    /\ creating' = Without(creating, {i})
    /\ UNCHANGED <<streams, stale>>

\* Every stream the maps know, built or in creation.
Known == Present(streams) \cup Present(pending)

\* Faulty: the creations under way stay in their map, to be joined.
ResetKeepsCreating ==
    /\ StopAll(Known, NoInst)
    /\ streams' = NoMap /\ pending' = NoMap /\ UNCHANGED creating
    /\ stale' = stale \cup {i \in Insts : Starting(i) \/ phase[i] = "started"}

\* resetStreams(): a new generation, the maps forget everything.
Reset ==
    /\ StopAll(Known, NoInst)
    /\ streams' = NoMap /\ pending' = NoMap /\ creating' = NoMap
    /\ stale' = stale \cup {i \in Insts : Starting(i) \/ phase[i] = "started"}

-----------------------------------------------------------------------------
(* UnifiCamera *)

\* Faulty: the new profile only concerns the streams to come.
AdoptLazily(p) ==
    /\ Quiet
    /\ ~released
    /\ selected' = p
    /\ UNCHANGED <<released, advertised, maps, profile, run, stale, session, table,
                   linkUp, device>>

\* adoptAudioProfile(): a changed profile replaces every stream at once.
Adopt(p) ==
    /\ Quiet
    /\ ~released
    /\ selected' = p
    /\ IF selected \in {NoProfile, p} /\ \A i \in Known : profile[i] = p
       THEN UNCHANGED <<maps, run, stale, table, device>>
       ELSE Reset
    /\ UNCHANGED <<released, advertised, profile, session, linkUp>>

\* A change of channel, codec, host or login, or of the camera behind the
\* host.  All but the channel also forget the selected profile.
ResetForSettings ==
    /\ ~released
    /\ selected' \in {selected, NoProfile}
    /\ Reset
    /\ UNCHANGED <<released, advertised, profile, session, linkUp>>

\* The substream setting: built streams no longer advertised are stopped.
Advertise(T) ==
    /\ Quiet
    /\ ~released
    /\ T # advertised
    /\ advertised' = T
    /\ LET S == {streams[t] : t \in Tracks \ T} \ {NoInst}
       IN StopAll(S, NoInst) /\ streams' = Without(streams, S)
    /\ UNCHANGED <<released, selected, pending, creating, profile, stale, session, linkUp>>

\* release(): the camera object is done.
Release ==
    /\ ~released
    /\ released' = TRUE
    /\ Reset
    /\ UNCHANGED <<selected, advertised, profile, session, linkUp>>

\* A creation is under way that another caller of getOrCreateStream awaits too.
Joins(t) == creating[t] # NoInst

\* getOrCreateStream(t) by a caller that holds the selected profile and finds
\* no usable stream.  A profile conflict discards all streams, a dead built
\* stream only itself (one that stalled may not have noticed yet).  Joining a
\* creation changes nothing; otherwise one starts in a free slot.
Request(t) ==
    /\ Quiet
    /\ ~released
    /\ selected # NoProfile
    /\ LET conflict == \E i \in {pending[t], streams[t]} \ {NoInst} :
                            profile[i] # selected
           S == IF conflict THEN Known ELSE {streams[t]} \ {NoInst}
       IN /\ conflict \/ ~Joins(t)
          /\ \E n \in {i \in Insts : TrackOf[i] = t /\ Free(i)} :
                /\ StopAll(S, n)
                /\ profile' = [profile EXCEPT ![n] = selected]
                /\ streams' = Without(streams, S)
                /\ pending' = [Without(pending, S) EXCEPT ![t] = n]
                /\ creating' = [Without(creating, S) EXCEPT ![t] = n]
                /\ stale' = (IF conflict THEN stale \cup {i \in Insts : Starting(i)}
                             ELSE stale) \ {n}
    /\ UNCHANGED <<camera, session, linkUp>>

\* Faulty: the setting is not looked at again after start().
WantedByGeneration(i) == i \notin stale

\* The generation is current and the track still advertised.
Wanted(i) == i \notin stale /\ TrackOf[i] \in advertised

\* The creation continues after start() of i resolved: publish it, or discard
\* it because it was superseded, is not advertised any more, or because the
\* camera published another codec than requested.
Settle(i) ==
    /\ phase[i] = "started"
    /\ pending' = Without(pending, {i})
    /\ creating' = Without(creating, {i})
    /\ \/ /\ Wanted(i)
          /\ phase' = [phase EXCEPT ![i] = "built"]
          /\ streams' = [streams EXCEPT ![TrackOf[i]] = i]
          /\ UNCHANGED <<stopped, routed, feed, table, device>>
       \/ /\ phase' = [phase EXCEPT ![i] = "over"]
          /\ stopped' = [stopped EXCEPT ![i] = TRUE]
          /\ routed' = routed \ {i}
          /\ feed' = [feed EXCEPT ![i] = Dropped(@)]
          /\ StopPushes({TrackOf[i]})
          /\ UNCHANGED streams
    /\ UNCHANGED <<camera, profile, stale, session, linkUp>>

\* reapDeadStreams(): the stopped ones and any that stalled.
Reap ==
    /\ Quiet
    /\ ~released
    /\ \E S \in SUBSET {i \in Present(streams) : creating[TrackOf[i]] = NoInst} :
        /\ S # {}
        /\ \A i \in Present(streams) \ S : ~stopped[i] \/ creating[TrackOf[i]] # NoInst
        /\ StopAll(S, NoInst)
        /\ streams' = Without(streams, S)
    /\ UNCHANGED <<camera, pending, creating, profile, stale, session, linkUp>>

-----------------------------------------------------------------------------
(* DirectStream *)

\* start() after the DNS lookup, answered or not.
Resolved(i) ==
    /\ Quiet
    /\ phase[i] = "resolving"
    /\ InOrder(i)
    /\ IF stopped[i]
       THEN Fail(i)
       ELSE /\ phase' = [phase EXCEPT ![i] = "registering"]
            /\ UNCHANGED <<maps, stopped, routed, feed, stale, table, device>>
    /\ UNCHANGED <<camera, profile, session, linkUp>>

\* Faulty: stop() during register() goes unnoticed.
RegisteredUnchecked(i) ==
    /\ Quiet
    /\ phase[i] = "registering"
    /\ session # "none"
    /\ phase' = [phase EXCEPT ![i] = "waiting"]
    /\ routed' = routed \cup {i}
    /\ StartPush(TrackOf[i], profile[i])
    /\ UNCHANGED <<camera, maps, profile, stopped, feed, stale, session, linkUp>>

\* start() after register(): a stopped stream takes its route back, without a
\* management session the command throws, else the camera is told to push.
Registered(i) ==
    /\ Quiet
    /\ phase[i] = "registering"
    /\ InOrder(i)
    /\ IF stopped[i] \/ session = "none"
       THEN Fail(i)
       ELSE /\ phase' = [phase EXCEPT ![i] = "waiting"]
            /\ routed' = routed \cup {i}
            /\ StartPush(TrackOf[i], profile[i])
            /\ UNCHANGED <<maps, stopped, feed, stale>>
    /\ UNCHANGED <<camera, profile, session, linkUp>>

\* Faulty: there is no ready timer.
StartFailsToListen(i) ==
    /\ Quiet
    /\ phase[i] = "registering"
    /\ Fail(i)
    /\ UNCHANGED <<camera, profile, session, linkUp>>

\* register() rejects, or no stable push came within 25 seconds.
StartFails(i) ==
    /\ Quiet
    /\ phase[i] \in {"registering", "waiting"}
    /\ InOrder(i)
    /\ Fail(i)
    /\ UNCHANGED <<camera, profile, session, linkUp>>

FeedStep(i, f) ==
    /\ Quiet
    /\ feed' = [feed EXCEPT ![i] = f]
    /\ UNCHANGED <<camera, maps, profile, stopped, routed, stale, session, table, linkUp, device>>

\* onCamera(): the push of the track arrives and is adopted as a candidate.
Candidate(i) ==
    /\ feed[i] = "none" /\ i \in routed /\ TrackOf[i] \in pushing
    /\ FeedStep(i, "candidate")
    /\ UNCHANGED phase

\* The candidate closes, or is idle when its settle time is up.
CandidateDrops(i) ==
    /\ feed[i] = "candidate"
    /\ FeedStep(i, "none")
    /\ UNCHANGED phase

\* promote(): the settle timer finds a healthy candidate.
Promote(i) ==
    /\ feed[i] = "candidate"
    /\ FeedStep(i, "promoting")
    /\ UNCHANGED phase

\* promote() after startNativeServe: start() resolves.  A stream stopped
\* meanwhile destroys the new serve, or finds that it was not built.
ServeReady(i) ==
    /\ feed[i] = "promoting"
    /\ FeedStep(i, IF stopped[i] THEN "none" ELSE "served")
    /\ phase' = IF stopped[i] THEN phase ELSE [phase EXCEPT ![i] = "started"]

\* An established feed is lost, or its serve cannot start.
FeedDrops(i) ==
    /\ Quiet
    /\ ~stopped[i]
    /\ feed[i] \in {"promoting", "served"}
    /\ IF phase[i] = "waiting" THEN Fail(i)
       ELSE StopAll({i}, NoInst) /\ UNCHANGED <<maps, stale>>
    /\ UNCHANGED <<camera, profile, session, linkUp>>

-----------------------------------------------------------------------------
(* Management session *)

\* A camera connects, possibly before its old session was seen to close.
SessionOpens ==
    /\ Quiet
    /\ session' = "connected"
    /\ linkUp' = TRUE
    /\ UNCHANGED <<camera, maps, profile, run, stale, table, device>>

\* Faulty: the camera's old destinations are left as they are.
AuthenticateOnly ==
    /\ Quiet
    /\ session = "connected" /\ linkUp
    /\ session' = "authenticated"
    /\ UNCHANGED <<camera, maps, profile, run, stale, table, linkUp, device>>

\* The handshake completes: quiesceSubstreams parks every track that nobody
\* streams, with the codec selected last.
Authenticate ==
    /\ Quiet
    /\ session = "connected" /\ linkUp
    /\ session' = "authenticated"
    /\ Command({}, Tracks \ active, codec)
    /\ UNCHANGED <<camera, maps, profile, run, stale, table, linkUp>>

SessionCloses ==
    /\ Quiet
    /\ session # "none"
    /\ session' = "none"
    /\ linkUp' = FALSE
    /\ UNCHANGED <<camera, maps, profile, run, stale, table, device>>

\* The camera is gone or half-open; the session does not know yet.
LinkDies ==
    /\ Quiet
    /\ Lossy
    /\ linkUp
    /\ linkUp' = FALSE
    /\ UNCHANGED <<camera, maps, profile, run, stale, session, table, device>>

-----------------------------------------------------------------------------
CameraNext ==
    \/ \E p \in Profiles : Adopt(p)
    \/ ResetForSettings
    \/ \E T \in SUBSET Tracks : Advertise(T)
    \/ Release
    \/ \E t \in Tracks : Request(t)
    \/ \E i \in Insts : Settle(i)
    \/ Reap

StreamNext ==
    \E i \in Insts :
        \/ Resolved(i) \/ Registered(i) \/ StartFails(i)
        \/ Candidate(i) \/ CandidateDrops(i) \/ Promote(i)
        \/ ServeReady(i) \/ FeedDrops(i)

SessionNext == SessionOpens \/ Authenticate \/ SessionCloses \/ LinkDies

Next == CameraNext \/ StreamNext \/ SessionNext

Spec == Init /\ [][Next]_vars

\* Lookups and listens return, the ready timer and the serve's own discovery
\* timeout fire, continuations run.  Nothing is asked of the camera.
Fairness ==
    \A i \in Insts :
        /\ SF_vars(Resolved(i))
        /\ SF_vars(Registered(i))
        /\ SF_vars(StartFails(i))
        /\ SF_vars(ServeReady(i))
        /\ WF_vars(Settle(i))

FairSpec == Spec /\ Fairness

-----------------------------------------------------------------------------
FieldTypes ==
    /\ released \in BOOLEAN
    /\ selected \in Profiles \cup {NoProfile}
    /\ advertised \subseteq Tracks
    /\ {streams, pending, creating} \subseteq [Tracks -> Insts \cup {NoInst}]
    /\ profile \in [Insts -> Profiles]
    /\ phase \in [Insts -> {"resolving", "registering", "waiting",
                            "started", "built", "over"}]
    /\ stopped \in [Insts -> BOOLEAN]
    /\ routed \subseteq Insts /\ stale \subseteq Insts
    /\ feed \in [Insts -> {"none", "candidate", "promoting", "served"}]
    /\ session \in {"none", "connected", "authenticated"}
    /\ active \subseteq Tracks /\ pushing \subseteq Tracks
    /\ codec \in Profiles
    /\ linkUp \in BOOLEAN
    /\ camCodec \in [Tracks -> Profiles]

\* The fields hold what they should, and a creation is in the two maps of
\* creations or in neither: it is what a caller joins exactly as long as it is
\* what resetStreams() would stop.
TypeOK == FieldTypes /\ creating = pending

Commanded(i) == ~stopped[i] /\ phase[i] \in {"waiting", "started", "built"}

\* Creation is serialised per track: two running streams never compete for
\* one push port ("Serialize creation per channel", getVideoStream).
OneStreamPerTrack ==
    \A i, j \in Insts : ~stopped[i] /\ ~stopped[j] /\ TrackOf[i] = TrackOf[j] => i = j

\* Every running stream can be found and stopped: a reset, a release or the
\* reaper misses none, whatever raced with its creation.
RunningIsKnown == \A i \in Insts : ~stopped[i] => i \in Known

\* The emulator pushes a track only on behalf of a running stream, so nothing
\* leaves the camera pushing a track nobody consumes.
PushHasStream == \A t \in active : \E i \in Insts : Commanded(i) /\ TrackOf[i] = t

\* A running stream's push stays commanded until that stream itself stops: a
\* stream that lost a race does not take the winner's push down.
StreamKeepsPush == \A i \in Insts : Commanded(i) => TrackOf[i] \in active

\* A stopped stream has no route that could receive the camera's push.
StoppedIsUnrouted == \A i \in routed : ~stopped[i]

\* A serve that became ready after stop() is not kept.
StoppedServesNothing == \A i \in Insts : stopped[i] => feed[i] # "served"

\* A released camera runs no stream and commands no push.
ReleasedIsQuiet == released => active = {} /\ \A i \in Insts : stopped[i]

\* No race between requests, start(), stop(), resets and release() duplicates
\* a stream, loses one, or leaves a part of one behind.
StreamsAccountedFor ==
    /\ OneStreamPerTrack /\ RunningIsKnown
    /\ StoppedIsUnrouted /\ StoppedServesNothing
    /\ ReleasedIsQuiet

\* Built streams belong to advertised tracks, also when the substream setting
\* changed while they were being created.
BuiltIsAdvertised ==
    \A t \in Tracks : streams[t] # NoInst /\ ~stopped[streams[t]] => t \in advertised

\* All running streams request the profile that is selected.
ProfilesAgree ==
    \A i \in Insts : ~stopped[i] => profile[i] = selected

\* The camera pushes no track the emulator does not know to be active, after
\* any number of reconnects and whatever an earlier controller configured.
CameraObeys == session = "authenticated" /\ linkUp => pushing \subseteq active

\* A command that was sent stands: every active track is really pushed.
CommandStands == session = "authenticated" => active \subseteq pushing

\* As long as a stream runs its track is in the push table, and the camera
\* does push what the table says.
StreamIsPushed == StreamKeepsPush /\ CommandStands

\* The camera has one audio encoder: every serializer of an adopted camera,
\* live or parked, is configured with the same codec.
OneCodec ==
    session = "authenticated" /\ linkUp =>
        \A t, u \in Tracks : camCodec[t] = camCodec[u]

\* The camera's serializers are in the hands of the running streams: all request
\* the selected profile, are pushed with it, and no track has another codec.
StreamsOwnEncoder == ProfilesAgree /\ StreamIsPushed /\ OneCodec

\* Nothing is left behind or lost: every stream is accounted for and advertised,
\* and every push belongs to one.
NothingLeftBehind == StreamsAccountedFor /\ PushHasStream /\ BuiltIsAdvertised

\* Every start() settles and every serve under construction is disposed of or
\* published, so no caller waits for ever.
StartSettles ==
    \A i \in Insts : /\ Starting(i) ~> ~Starting(i)
                     /\ feed[i] = "promoting" ~> feed[i] # "promoting"

\* The stream layer implements track ownership.
Owner(t) ==
    LET S == {i \in Insts : ~stopped[i] /\ TrackOf[i] = t}
    IN IF S = {} THEN NoInst ELSE CHOOSE i \in S : TRUE

Ownership == INSTANCE TrackOwnership
                WITH owner <- [t \in Tracks |-> Owner(t)], commanded <- active

\* No step takes a push away from a stream that goes on owning its track.
ImplementsOwnership == Ownership!Spec
=============================================================================
