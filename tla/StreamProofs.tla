---------------------------- MODULE StreamProofs ---------------------------
(***************************************************************************)
(* Proofs about the streams of a camera and its stable audio endpoint.     *)
(*                                                                         *)
(* StreamLifecycle, for every set of tracks, of stream slots and of        *)
(* profiles: no race between requests, start(), stop(), resets and         *)
(* release() duplicates, loses or leaves behind a stream or a push, the    *)
(* camera obeys the push table, and, where starts keep their order, the    *)
(* streams implement TrackOwnership.                                       *)
(*                                                                         *)
(* AudioEndpoint, for every set of listeners and of sessions: the port has *)
(* one owner, and no open session hangs on a dead muxer.  A listener that  *)
(* is neither wanted nor waited for is closed (ListenersInOrder), and a    *)
(* session knows a muxer by the tap that the muxer has of it               *)
(* (TapsInOrder).                                                          *)
(***************************************************************************)
EXTENDS StreamLifecycle, AudioEndpoint, SequenceTheorems, FiniteSetTheorems, TLAPS

(* StreamLifecycle: the inductive invariant. *)

\* The creation of i has not settled.
InCreation(i) == Starting(i) \/ phase[i] = "started"

\* The maps name streams of their own track: streams built ones, pending and
\* creating the same current creations, and no track has both.
MapsOwn ==
    /\ creating = pending
    /\ \A t \in Tracks : streams[t] # NoInst =>
           TrackOf[streams[t]] = t /\ phase[streams[t]] = "built"
    /\ \A t \in Tracks : pending[t] # NoInst =>
           /\ TrackOf[pending[t]] = t /\ InCreation(pending[t])
           /\ pending[t] \notin stale
           /\ streams[t] = NoInst

\* A creation is its track's, or knows that it was superseded.
CreationsCount == \A i \in Insts : InCreation(i) => i \in stale \/ pending[TrackOf[i]] = i

\* What a stream has at each stage of its start, and what stop() leaves.
Stages ==
    \A i \in Insts :
        IF stopped[i]
        THEN phase[i] # "waiting" /\ feed[i] \in {"none", "promoting"} /\ i \notin routed
        ELSE /\ phase[i] # "over"
             /\ phase[i] \in {"resolving", "registering"} => feed[i] = "none" /\ i \notin routed
             /\ phase[i] = "waiting" => feed[i] # "served"
             /\ phase[i] \in {"started", "built"} => feed[i] = "served"

\* A start that resolves is stopped before its creation goes on only together
\* with every other stream.
StoppedTogether ==
    \A j \in Insts : phase[j] = "started" /\ stopped[j] => \A i \in Insts : stopped[i]

\* With an IP literal, an abandoned start is over before its successor on the
\* track commands the camera.
StartsInOrder ==
    Literal => \A i, j \in Insts :
        Commanded(i) /\ TrackOf[i] = TrackOf[j] /\ i # j =>
            phase[j] \notin {"resolving", "registering"}

KeepsPush == Literal => StreamKeepsPush

\* release() stops everything, and nothing starts after it.
ReleasedIsStopped == released => \A i \in Insts : stopped[i]

\* The last codec commanded is every commanded stream's.
CodecAgrees == \A i \in Insts : Commanded(i) => profile[i] = codec

\* A link that fails only by closing loses no command: the camera pushes what
\* the table says, with the codec the emulator remembers.
NothingLost ==
    ~Lossy =>
        /\ linkUp <=> session # "none"
        /\ active \subseteq pushing
        /\ \A t \in active : camCodec[t] = codec
        /\ session = "authenticated" => \A t \in Tracks : camCodec[t] = codec

IInv ==
    /\ FieldTypes /\ MapsOwn /\ CreationsCount /\ RunningIsKnown /\ Stages
    /\ StoppedTogether /\ ReleasedIsStopped /\ BuiltIsAdvertised /\ ProfilesAgree
    /\ PushHasStream /\ StartsInOrder /\ KeepsPush /\ CodecAgrees
    /\ CameraObeys /\ NothingLost
-----------------------------------------------------------------------------
(* What several actions do. *)

\* The types of what stop() and start() change: the streams, the push table.
RunTypes ==
    /\ stopped \in [Insts -> BOOLEAN]
    /\ phase \in [Insts -> {"resolving", "registering", "waiting", "started", "built", "over"}]
    /\ feed \in [Insts -> {"none", "candidate", "promoting", "served"}]
    /\ routed \subseteq Insts

TableTypes ==
    /\ active \subseteq Tracks /\ pushing \subseteq Tracks
    /\ codec \in Profiles /\ camCodec \in [Tracks -> Profiles]


\* A track has one stream in the maps, and so one running stream.
LEMMA OneKnownPerTrack ==
    ASSUME FieldTypes, MapsOwn
    PROVE  /\ Known \subseteq Insts
           /\ \A i, j \in Known : TrackOf[i] = TrackOf[j] => i = j
  BY StreamConstants DEF FieldTypes, MapsOwn, Known, Present

\* What runs is in the maps, so a track has one running stream.
LEMMA RunningIsUnique ==
    ASSUME FieldTypes, MapsOwn, RunningIsKnown
    PROVE  OneStreamPerTrack
  BY OneKnownPerTrack DEF OneStreamPerTrack, RunningIsKnown

\* stop() of any streams, and a start in a free slot.
LEMMA StopAllKeeps ==
    ASSUME FieldTypes, Stages, NEW S \in SUBSET Insts, NEW n \in Insts \cup {NoInst},
           n \in Insts => Free(n), StopAll(S, n)
    PROVE  /\ RunTypes'
           /\ \A i \in Insts \ {n} :
                  /\ stopped'[i] = (stopped[i] \/ i \in S)
                  /\ phase'[i] = IF i \in S /\ phase[i] = "waiting" THEN "over" ELSE phase[i]
           /\ Stages'
  <1>1. stopped' \in [Insts -> BOOLEAN] /\ routed' \subseteq Insts
    BY DEF StopAll, FieldTypes, RunTypes, TableTypes
  <1>2. phase' \in [Insts -> {"resolving", "registering", "waiting",
                              "started", "built", "over"}]
    BY DEF StopAll, FieldTypes, RunTypes, TableTypes
  <1>3. feed' \in [Insts -> {"none", "candidate", "promoting", "served"}]
    BY DEF StopAll, FieldTypes, RunTypes, TableTypes, Dropped
  <1>4. ASSUME NEW i \in Insts, i # n
        PROVE  /\ stopped'[i] = (stopped[i] \/ i \in S)
               /\ phase'[i] = IF i \in S /\ phase[i] = "waiting" THEN "over" ELSE phase[i]
               /\ feed'[i] = IF i \in S THEN Dropped(feed[i]) ELSE feed[i]
               /\ i \in routed' <=> i \in routed /\ i \notin S
    BY <1>4 DEF StopAll, FieldTypes, RunTypes, TableTypes
  <1>5. ASSUME n \in Insts
        PROVE  ~stopped'[n] /\ phase'[n] = "resolving" /\ feed'[n] = "none" /\ n \notin routed'
    BY <1>5 DEF StopAll, FieldTypes, RunTypes, TableTypes, Free, Stages, Dropped
  <1>6. Stages'
    <2> DEFINE Stage(s, p, f, r) ==
                   IF s THEN p # "waiting" /\ f \in {"none", "promoting"} /\ ~r
                   ELSE /\ p # "over"
                        /\ p \in {"resolving", "registering"} => f = "none" /\ ~r
                        /\ p = "waiting" => f # "served"
                        /\ p \in {"started", "built"} => f = "served"
    <2>1. \A i \in Insts : Stage(stopped[i], phase[i], feed[i], i \in routed)
      BY DEF Stages
    <2>2. ASSUME NEW i \in Insts
          PROVE  Stage(stopped'[i], phase'[i], feed'[i], i \in routed')
      <3>1. CASE i = n
        BY <1>5, <3>1
      <3>2. CASE i # n /\ i \notin S
        BY <1>4, <2>1, <3>2
      <3>3. CASE i # n /\ i \in S
        <4>1. stopped'[i] /\ i \notin routed' /\ phase'[i] # "waiting"
          BY <1>4, <3>3
        <4>2. feed'[i] = Dropped(feed[i]) /\ feed[i] \in {"none", "candidate", "promoting", "served"}
          BY <1>4, <3>3 DEF FieldTypes, RunTypes, TableTypes
        <4>3. feed'[i] \in {"none", "promoting"}
          BY <4>2 DEF Dropped
        <4>4. QED
          BY <4>1, <4>3
      <3>4. QED
        BY <3>1, <3>2, <3>3
    <2>3. QED
      BY <2>2 DEF Stages
  <1>7. QED
    BY <1>1, <1>2, <1>3, <1>4, <1>6 DEF RunTypes

\* start() that throws.
LEMMA FailKeeps ==
    ASSUME FieldTypes, Stages, NEW i \in Insts, Fail(i)
    PROVE  /\ RunTypes'
           /\ Stages'
  BY DEF Fail, FieldTypes, RunTypes, TableTypes, Stages, Dropped

\* The commands of stops keep the tables' types.
LEMMA StopPushesTypes ==
    ASSUME FieldTypes, NEW T \in SUBSET Tracks, StopPushes(T)
    PROVE  TableTypes'
  BY DEF StopPushes, Command, device, FieldTypes, RunTypes, TableTypes

\* And so does the command of a start.
LEMMA StartPushTypes ==
    ASSUME FieldTypes, NEW t \in Tracks, NEW c \in Profiles, StartPush(t, c)
    PROVE  TableTypes'
  BY DEF StartPush, Command, device, FieldTypes, RunTypes, TableTypes

\* Deleting streams from a map leaves a map.
LEMMA WithoutTypes ==
    ASSUME NEW map \in [Tracks -> Insts \cup {NoInst}], NEW S
    PROVE  Without(map, S) \in [Tracks -> Insts \cup {NoInst}]
  BY DEF Without

\* Whoever stops a stream that throws, the types stand.
LEMMA FailTypes ==
    ASSUME FieldTypes, Stages, NEW i \in Insts, Fail(i), UNCHANGED <<camera, profile, session, linkUp>>
    PROVE  FieldTypes'
  <1>1. StopPushes({TrackOf[i]}) /\ TrackOf[i] \in Tracks
    BY StreamConstants DEF Fail
  <1>2. TableTypes'
    BY <1>1, StopPushesTypes
  <1>3. {pending', creating', streams'} \subseteq [Tracks -> Insts \cup {NoInst}]
    BY WithoutTypes DEF Fail, FieldTypes, RunTypes, TableTypes
  <1>4. /\ RunTypes' /\ stale' = stale
    BY FailKeeps DEF Fail
  <1>5. UNCHANGED <<released, selected, advertised, profile, session, linkUp>>
    BY DEF camera
  <1>6. QED
    BY <1>2, <1>3, <1>4, <1>5 DEF FieldTypes, RunTypes, TableTypes

\* The tracks of streams.
LEMMA TracksOfTypes == ASSUME NEW S \in SUBSET Insts PROVE {TrackOf[i] : i \in S} \subseteq Tracks
  BY StreamConstants

\* resetStreams() stops every stream and forgets it.
LEMMA ResetStopsAll ==
    ASSUME FieldTypes, Stages, MapsOwn, RunningIsKnown, Reset
    PROVE  /\ \A i \in Insts : stopped'[i] /\ phase'[i] # "waiting"
                               /\ (phase'[i] = phase[i] \/ phase'[i] = "over")
           /\ active' \subseteq active
           /\ {pending', streams', creating'} = {NoMap}
           /\ Stages'
  <1>1. Known \in SUBSET Insts
    BY OneKnownPerTrack
  <1>2. StopAll(Known, NoInst) /\ {pending', streams', creating'} = {NoMap}
    BY DEF Reset
  <1>3. Stages'
    BY <1>1, <1>2, StopAllKeeps, StreamConstants
  <1>4. \A i \in Insts : stopped'[i]
    BY <1>2, StreamConstants DEF StopAll, RunningIsKnown
  <1>5. \A i \in Insts : phase'[i] = phase[i] \/ phase'[i] = "over"
    BY <1>2, StreamConstants DEF StopAll, FieldTypes, RunTypes, TableTypes
  <1>6. active' \subseteq active
    BY <1>2 DEF StopAll, StopPushes
  <1>7. QED
    BY <1>2, <1>3, <1>4, <1>5, <1>6 DEF Stages

\* resetStreams() keeps the types of all it changes.
LEMMA ResetTypes ==
    ASSUME FieldTypes, Stages, MapsOwn, Reset
    PROVE  /\ RunTypes' /\ stale' \subseteq Insts
           /\ {streams', pending', creating'} \subseteq [Tracks -> Insts \cup {NoInst}]
           /\ TableTypes'
  <1>1. Known \in SUBSET Insts /\ StopAll(Known, NoInst)
    BY OneKnownPerTrack DEF Reset
  <1>2. StopPushes({TrackOf[i] : i \in Known}) /\ {TrackOf[i] : i \in Known} \in SUBSET Tracks
    BY <1>1, TracksOfTypes DEF StopAll
  <1>3. /\ stale' \subseteq Insts
        /\ {streams', pending', creating'} \subseteq [Tracks -> Insts \cup {NoInst}]
    BY DEF Reset, NoMap, FieldTypes, RunTypes, TableTypes
  <1>4. QED
    BY <1>1, <1>2, <1>3, StopAllKeeps, StopPushesTypes, StreamConstants
-----------------------------------------------------------------------------
(* Kinds of steps, as far as the streams and the push table are concerned. *)

\* Built streams are stopped, and the maps forget them now or later.
StopsBuilt(S) ==
    /\ Quiet
    /\ \A i \in S : phase[i] = "built" /\ (~stopped[i] \/ i \in Present(streams))
    /\ StopAll(S, NoInst)
    /\ streams' \in {streams, Without(streams, S)}
    /\ UNCHANGED <<pending, creating, profile, stale>>

\* getOrCreateStream() starts a stream in slot n, after stopping either every
\* stream, or the one that is published for a track without a creation.
Starts(t, S, n) ==
    /\ TrackOf[n] = t /\ Free(n) /\ StopAll(S, n)
    /\ S = Known \/ (S = {streams[t]} \ {NoInst} /\ pending[t] = NoInst)
    /\ profile' = [profile EXCEPT ![n] = selected]
    /\ streams' = Without(streams, S)
    /\ pending' = [Without(pending, S) EXCEPT ![t] = n]
    /\ creating' = [Without(creating, S) EXCEPT ![t] = n]
    /\ stale' \subseteq Insts

\* A start() throws.
Throws(i) ==
    /\ Quiet
    /\ phase[i] \in {"resolving", "registering", "waiting"}
    /\ Fail(i)
    /\ UNCHANGED profile

\* A start() goes on to register(), and from there to the command.
Resolves(i) ==
    /\ Quiet /\ ~stopped[i] /\ phase[i] = "resolving"
    /\ phase' = [phase EXCEPT ![i] = "registering"]
    /\ UNCHANGED <<maps, profile, stopped, routed, feed, stale, table>>

Commands(i) ==
    /\ Quiet /\ ~stopped[i] /\ phase[i] = "registering" /\ InOrder(i)
    /\ phase' = [phase EXCEPT ![i] = "waiting"]
    /\ routed' = routed \cup {i}
    /\ active' = active \cup {TrackOf[i]} /\ codec' = profile[i]
    /\ UNCHANGED <<maps, profile, stopped, feed, stale>>

\* The feed of a stream changes; with the serve of a running one start() resolves.
Feeds(i) ==
    /\ Quiet
    /\ \E f \in {"none", "candidate", "promoting", "served"} :
           /\ feed' = [feed EXCEPT ![i] = f]
           /\ f = "candidate" => feed[i] = "none" /\ i \in routed
           /\ f = "promoting" => feed[i] = "candidate"
           /\ f = "none" => feed[i] = "candidate" \/ stopped[i]
           /\ f = "served" <=> feed[i] = "promoting" /\ ~stopped[i]
           /\ phase' = IF f = "served" THEN [phase EXCEPT ![i] = "started"] ELSE phase
    /\ UNCHANGED <<maps, profile, stopped, routed, stale, table>>

\* A request that creates a stream is a start in a free slot.
LEMMA RequestStarts ==
    ASSUME FieldTypes, MapsOwn, NEW t \in Tracks, Request(t)
    PROVE  \E S \in SUBSET Insts, n \in Insts : Starts(t, S, n)
  <1> DEFINE conflict == \E i \in {pending[t], streams[t]} \ {NoInst} : profile[i] # selected
             S == IF conflict THEN Known ELSE {streams[t]} \ {NoInst}
  <1>1. S \in SUBSET Insts
    BY OneKnownPerTrack DEF FieldTypes
  <1>2. PICK n \in Insts :
            /\ TrackOf[n] = t /\ Free(n) /\ StopAll(S, n)
            /\ profile' = [profile EXCEPT ![n] = selected]
            /\ streams' = Without(streams, S)
            /\ pending' = [Without(pending, S) EXCEPT ![t] = n]
            /\ creating' = [Without(creating, S) EXCEPT ![t] = n]
            /\ stale' = (IF conflict THEN stale \cup {i \in Insts : Starting(i)}
                         ELSE stale) \ {n}
    BY DEF Request
  <1>3. conflict \/ pending[t] = NoInst
    BY DEF Request, Joins, MapsOwn
  <1>4. stale' \subseteq Insts
    BY <1>2 DEF FieldTypes
  <1>5. S = Known \/ (S = {streams[t]} \ {NoInst} /\ pending[t] = NoInst)
    <2> HIDE DEF conflict
    <2>1. QED
      BY <1>3
  <1> HIDE DEF conflict, S
  <1>6. QED
    BY <1>1, <1>2, <1>4, <1>5 DEF Starts

\* Every step is of one of these kinds.
LEMMA StepKinds ==
    ASSUME FieldTypes, MapsOwn, Stages, [Next]_vars
    PROVE  \/ Reset /\ UNCHANGED profile
           \/ \E S \in SUBSET Insts : StopsBuilt(S)
           \/ \E t \in Tracks : Request(t)
           \/ \E i \in Insts : Settle(i) \/ Throws(i) \/ Resolves(i) \/ Commands(i) \/ Feeds(i)
           \/ UNCHANGED <<maps, profile, run, stale, table>>
  <1> DEFINE Idle == UNCHANGED <<maps, profile, run, stale, table>>
             Kind == \E i \in Insts : Throws(i) \/ Resolves(i) \/ Commands(i) \/ Feeds(i)
             Stops == \E S \in SUBSET Insts : StopsBuilt(S)
             Res == Reset /\ UNCHANGED profile
  <1>1. ASSUME NEW p \in Profiles, Adopt(p) PROVE Res \/ Idle
    BY <1>1 DEF Adopt
  <1>2. CASE ResetForSettings \/ Release
    BY <1>2 DEF ResetForSettings, Release
  <1>3. ASSUME NEW T \in SUBSET Tracks, Advertise(T) PROVE Stops
    <2> DEFINE S == {streams[t] : t \in Tracks \ T} \ {NoInst}
    <2>1. S \in SUBSET Insts /\ \A i \in S : phase[i] = "built" /\ i \in Present(streams)
      BY DEF FieldTypes, MapsOwn, Present
    <2>2. StopsBuilt(S)
      BY <1>3, <2>1 DEF Advertise, StopsBuilt
    <2>3. QED
      BY <2>1, <2>2
  <1>4. CASE Reap
    <2>1. PICK S \in SUBSET Present(streams) : StopAll(S, NoInst) /\ streams' = Without(streams, S)
      BY <1>4 DEF Reap
    <2>2. S \in SUBSET Insts /\ \A i \in S : phase[i] = "built"
      BY DEF FieldTypes, MapsOwn, Present
    <2>3. StopsBuilt(S)
      BY <1>4, <2>1, <2>2 DEF Reap, StopsBuilt
    <2>4. QED
      BY <2>2, <2>3
  <1>5. ASSUME NEW i \in Insts, Resolved(i) PROVE Throws(i) \/ Resolves(i)
    BY <1>5 DEF Resolved, Throws, Resolves
  <1>6. ASSUME NEW i \in Insts, Registered(i) PROVE Throws(i) \/ Commands(i)
    BY <1>6 DEF Registered, Throws, Commands, StartPush
  <1>7. ASSUME NEW i \in Insts, StartFails(i) PROVE Throws(i)
    BY <1>7 DEF StartFails, Throws
  <1>8. ASSUME NEW i \in Insts, Candidate(i) PROVE Feeds(i)
    BY <1>8 DEF Candidate, FeedStep, Feeds
  <1>9. ASSUME NEW i \in Insts, CandidateDrops(i) PROVE Feeds(i)
    BY <1>9 DEF CandidateDrops, FeedStep, Feeds
  <1>10. ASSUME NEW i \in Insts, Promote(i) PROVE Feeds(i)
    BY <1>10 DEF Promote, FeedStep, Feeds
  <1>11. ASSUME NEW i \in Insts, ServeReady(i) PROVE Feeds(i)
    BY <1>11 DEF ServeReady, FeedStep, Feeds
  <1>12. ASSUME NEW i \in Insts, FeedDrops(i) PROVE Throws(i) \/ Stops
    <2>1. CASE phase[i] = "waiting"
      BY <1>12, <2>1 DEF FeedDrops, Throws
    <2>2. CASE phase[i] # "waiting"
      <3>1. phase[i] = "built"
        BY <1>12, <2>2 DEF FeedDrops, Stages, FieldTypes, Quiet
      <3>2. StopsBuilt({i})
        BY <1>12, <2>2, <3>1 DEF FeedDrops, StopsBuilt, maps
      <3>3. QED
        BY <3>2
    <2>3. QED
      BY <2>1, <2>2
  <1>13. CASE SessionNext \/ UNCHANGED vars
    BY <1>13 DEF SessionNext, SessionOpens, Authenticate, SessionCloses, LinkDies, vars
  <1>14. QED
    BY <1>1, <1>2, <1>3, <1>4, <1>5, <1>6, <1>7, <1>8, <1>9, <1>10, <1>11, <1>12, <1>13
       DEF Next, CameraNext, StreamNext
-----------------------------------------------------------------------------
(* Types and maps. *)

\* Every step keeps the types.
LEMMA TypeNext ==
    ASSUME FieldTypes, MapsOwn, Stages, [Next]_vars
    PROVE  FieldTypes'
  <1>1. ASSUME NEW p \in Profiles, Adopt(p) PROVE FieldTypes'
    <2>1. CASE Reset
      BY <1>1, <2>1, ResetTypes DEF Adopt, FieldTypes, RunTypes, TableTypes
    <2>2. CASE UNCHANGED <<maps, run, stale, table, device>>
      BY <1>1, <2>2 DEF Adopt, FieldTypes, RunTypes, TableTypes, maps, run, table, device
    <2>3. QED
      BY <1>1, <2>1, <2>2 DEF Adopt
  <1>2. CASE ResetForSettings
    BY <1>2, ResetTypes DEF ResetForSettings, FieldTypes, RunTypes, TableTypes
  <1>3. CASE Release
    BY <1>3, ResetTypes DEF Release, FieldTypes, RunTypes, TableTypes
  <1>4. ASSUME NEW T \in SUBSET Tracks, Advertise(T) PROVE FieldTypes'
    <2> DEFINE S == {streams[u] : u \in Tracks \ T} \ {NoInst}
    <2>1. S \in SUBSET Insts /\ StopAll(S, NoInst) /\ streams' = Without(streams, S)
      BY <1>4 DEF Advertise, FieldTypes, RunTypes, TableTypes
    <2> HIDE DEF S
    <2>2. StopPushes({TrackOf[i] : i \in S}) /\ {TrackOf[i] : i \in S} \in SUBSET Tracks
      BY <2>1, TracksOfTypes DEF StopAll
    <2>3. streams' \in [Tracks -> Insts \cup {NoInst}]
      BY <2>1, WithoutTypes DEF FieldTypes, RunTypes, TableTypes
    <2>4. TableTypes'
      BY <2>2, StopPushesTypes
    <2>5. RunTypes'
      BY <2>1, StopAllKeeps, StreamConstants
    <2>6. QED
      BY <1>4, <2>3, <2>4, <2>5 DEF Advertise, FieldTypes, RunTypes, TableTypes
  <1>5. ASSUME NEW t \in Tracks, Request(t) PROVE FieldTypes'
    <2>1. PICK S \in SUBSET Insts, n \in Insts : Starts(t, S, n)
      BY <1>5, RequestStarts
    <2>2. profile' \in [Insts -> Profiles] /\ stale' \subseteq Insts
      BY <1>5, <2>1 DEF Request, Starts, FieldTypes, RunTypes, TableTypes
    <2>3. {streams', pending', creating'} \subseteq [Tracks -> Insts \cup {NoInst}]
      BY <2>1, WithoutTypes DEF Starts, FieldTypes, RunTypes, TableTypes
    <2>4. StopPushes({TrackOf[i] : i \in S}) /\ {TrackOf[i] : i \in S} \in SUBSET Tracks
      BY <2>1, TracksOfTypes DEF Starts, StopAll
    <2>5. TableTypes'
      BY <2>4, StopPushesTypes
    <2>6. RunTypes'
      BY <2>1, StopAllKeeps DEF Starts
    <2>7. QED
      BY <1>5, <2>2, <2>3, <2>5, <2>6 DEF Request, camera, FieldTypes, RunTypes, TableTypes
  <1>6. ASSUME NEW i \in Insts, Settle(i) PROVE FieldTypes'
    <2>1. {pending', creating', streams'} \subseteq [Tracks -> Insts \cup {NoInst}]
      BY <1>6, WithoutTypes, StreamConstants DEF Settle, FieldTypes, RunTypes, TableTypes
    <2>2. TableTypes'
      BY <1>6, StopPushesTypes, StreamConstants DEF Settle, FieldTypes, TableTypes, table, device
    <2>3. QED
      BY <1>6, <2>1, <2>2 DEF Settle, FieldTypes, RunTypes, TableTypes, camera, Dropped
  <1>7. CASE Reap
    <2>1. PICK S \in SUBSET Present(streams) : StopAll(S, NoInst) /\ streams' = Without(streams, S)
      BY <1>7 DEF Reap
    <2>2. S \in SUBSET Insts
      BY DEF Present, FieldTypes, RunTypes, TableTypes
    <2>3. StopPushes({TrackOf[i] : i \in S}) /\ {TrackOf[i] : i \in S} \in SUBSET Tracks
      BY <2>1, <2>2, TracksOfTypes DEF StopAll
    <2>4. streams' \in [Tracks -> Insts \cup {NoInst}]
      BY <2>1, WithoutTypes DEF FieldTypes, RunTypes, TableTypes
    <2>5. TableTypes'
      BY <2>3, StopPushesTypes
    <2>6. RunTypes'
      BY <2>1, <2>2, StopAllKeeps, StreamConstants
    <2>7. QED
      BY <1>7, <2>4, <2>5, <2>6 DEF Reap, camera, FieldTypes, RunTypes, TableTypes
  <1>8. ASSUME NEW i \in Insts, Resolved(i) PROVE FieldTypes'
    <2>1. CASE Fail(i)
      BY <1>8, <2>1, FailTypes DEF Resolved
    <2>2. CASE ~Fail(i)
      BY <1>8, <2>2 DEF Resolved, FieldTypes, RunTypes, TableTypes, camera, maps, table, device
    <2>3. QED
      BY <2>1, <2>2
  <1>9. ASSUME NEW i \in Insts, Registered(i) PROVE FieldTypes'
    <2>1. CASE Fail(i)
      BY <1>9, <2>1, FailTypes DEF Registered
    <2>2. CASE ~Fail(i)
      <3>1. StartPush(TrackOf[i], profile[i]) /\ TrackOf[i] \in Tracks /\ profile[i] \in Profiles
        BY <1>9, <2>2, StreamConstants DEF Registered, FieldTypes, RunTypes, TableTypes
      <3>2. TableTypes'
        BY <3>1, StartPushTypes
      <3>3. QED
        BY <1>9, <2>2, <3>2 DEF Registered, FieldTypes, RunTypes, TableTypes, camera, maps
    <2>3. QED
      BY <2>1, <2>2
  <1>10. ASSUME NEW i \in Insts, StartFails(i) PROVE FieldTypes'
    BY <1>10, FailTypes DEF StartFails
  <1>11. ASSUME NEW i \in Insts, Candidate(i) \/ CandidateDrops(i) \/ Promote(i)
         PROVE  FieldTypes'
    BY <1>11 DEF FieldTypes, Candidate, CandidateDrops, Promote, FeedStep, camera, maps, table, device
  <1>12. ASSUME NEW i \in Insts, ServeReady(i) PROVE FieldTypes'
    BY <1>12 DEF FieldTypes, RunTypes, TableTypes, ServeReady, FeedStep, camera, maps, table, device
  <1>13. ASSUME NEW i \in Insts, FeedDrops(i) PROVE FieldTypes'
    <2>1. CASE Fail(i)
      BY <1>13, <2>1, FailTypes DEF FeedDrops
    <2>2. CASE ~Fail(i)
      <3>1. StopAll({i}, NoInst)
        BY <1>13, <2>2 DEF FeedDrops
      <3>2. StopPushes({TrackOf[j] : j \in {i}}) /\ {TrackOf[j] : j \in {i}} \in SUBSET Tracks
        BY <3>1, StreamConstants DEF StopAll
      <3>3. TableTypes'
        BY <3>2, StopPushesTypes
      <3>4. RunTypes'
        BY <3>1, StopAllKeeps, StreamConstants
      <3>5. QED
        BY <1>13, <2>2, <3>3, <3>4 DEF FeedDrops, FieldTypes, RunTypes, TableTypes, camera, maps
    <2>3. QED
      BY <2>1, <2>2
  <1>14. CASE SessionNext
    <2>1. CASE Authenticate
      BY <1>14, <2>1 DEF Authenticate, Command, FieldTypes, camera, maps, run, table, device
    <2>2. CASE SessionOpens \/ SessionCloses \/ LinkDies
      BY <1>14, <2>2
         DEF SessionOpens, SessionCloses, LinkDies, FieldTypes, camera, maps, run, table,
             device
    <2>3. QED
      BY <1>14, <2>1, <2>2 DEF SessionNext
  <1>15. CASE UNCHANGED vars
    BY <1>15 DEF FieldTypes, RunTypes, TableTypes, vars, camera, maps, run, table, device
  <1>16. QED
    BY <1>1, <1>2, <1>3, <1>4, <1>5, <1>6, <1>7, <1>8, <1>9, <1>10, <1>11, <1>12, <1>13,
       <1>14, <1>15
       DEF Next, CameraNext, StreamNext

\* Every step keeps the maps in agreement with the streams they name.
LEMMA MapsOwnNext ==
    ASSUME FieldTypes, MapsOwn, CreationsCount, RunningIsKnown, Stages, StoppedTogether, [Next]_vars
    PROVE  MapsOwn'
  <1>1. CASE Reset /\ UNCHANGED profile
    BY <1>1, ResetStopsAll
       DEF MapsOwn, InCreation, Starting, Reset, StopAll, StopPushes, NoMap
  <1>2. ASSUME NEW S \in SUBSET Insts, StopsBuilt(S) PROVE MapsOwn'
    BY <1>2, SMTT(30)
        DEF FieldTypes, MapsOwn, InCreation, Starting, StopsBuilt, StopAll, StopPushes,
           Without
  <1>3. ASSUME NEW t \in Tracks, Request(t) PROVE MapsOwn'
    BY <1>3
       DEF FieldTypes, MapsOwn, InCreation, Starting, Request, StopAll, Without, Known,
           Present
  <1>4. ASSUME NEW i \in Insts, Settle(i) PROVE MapsOwn'
    BY <1>4
       DEF FieldTypes, MapsOwn, CreationsCount, InCreation, Starting, Settle, Without,
           Wanted
  <1>5. ASSUME NEW i \in Insts, Throws(i) PROVE MapsOwn'
    BY <1>5 DEF MapsOwn, InCreation, Starting, Throws, Fail, StopPushes, Without
  <1>6. ASSUME NEW i \in Insts, Resolves(i) PROVE MapsOwn'
    BY <1>6 DEF MapsOwn, InCreation, Starting, Resolves, maps, table
  <1>7. ASSUME NEW i \in Insts, Commands(i) PROVE MapsOwn'
    BY <1>7 DEF MapsOwn, InCreation, Starting, Commands, maps
  <1>8. ASSUME NEW i \in Insts, Feeds(i) PROVE MapsOwn'
    BY <1>8, StreamConstants
       DEF FieldTypes, MapsOwn, Stages, InCreation, Starting, Feeds, maps, table, Quiet
  <1>9. CASE UNCHANGED <<maps, profile, run, stale, table>>
    BY <1>9 DEF MapsOwn, InCreation, Starting, maps, run, table
  <1>10. QED
    BY <1>1, <1>2, <1>3, <1>4, <1>5, <1>6, <1>7, <1>8, <1>9, StepKinds

\* A creation stays its track's until it settles or is superseded.
LEMMA CreationsCountNext ==
    ASSUME FieldTypes, MapsOwn, CreationsCount, RunningIsKnown, Stages, StoppedTogether, [Next]_vars
    PROVE  CreationsCount'
  <1>1. CASE Reset /\ UNCHANGED profile
    BY <1>1, ResetStopsAll
       DEF CreationsCount, InCreation, Starting, Reset, StopAll, StopPushes, NoMap
  <1>2. ASSUME NEW S \in SUBSET Insts, StopsBuilt(S) PROVE CreationsCount'
    BY <1>2, StreamConstants
       DEF FieldTypes, CreationsCount, InCreation, Starting, StopsBuilt, StopAll,
           StopPushes, Without
  <1>3. ASSUME NEW t \in Tracks, Request(t) PROVE CreationsCount'
    BY <1>3, StreamConstants
       DEF MapsOwn, CreationsCount, InCreation, Starting, Request, StopAll, Without,
           Joins, Quiet
  <1>4. ASSUME NEW i \in Insts, Settle(i) PROVE CreationsCount'
    BY <1>4, StreamConstants
       DEF FieldTypes, CreationsCount, InCreation, Starting, Settle, Without
  <1>5. ASSUME NEW i \in Insts, Throws(i) PROVE CreationsCount'
    <2> SUFFICES ASSUME NEW j \in Insts, InCreation(j)'
                 PROVE  j \in stale' \/ pending'[TrackOf[j]] = j
      BY DEF CreationsCount
    <2>1. j # i /\ InCreation(j)
      BY <1>5 DEF Throws, Fail, InCreation, Starting, FieldTypes
    <2>2. stale' = stale /\ pending' = Without(pending, {i})
      BY <1>5 DEF Throws, Fail
    <2>3. QED
      BY <2>1, <2>2, StreamConstants DEF CreationsCount, Without
  <1>6. ASSUME NEW i \in Insts, Resolves(i) PROVE CreationsCount'
    BY <1>6 DEF CreationsCount, InCreation, Starting, Resolves, maps, table
  <1>7. ASSUME NEW i \in Insts, Commands(i) PROVE CreationsCount'
    BY <1>7 DEF CreationsCount, InCreation, Starting, Commands, maps
  <1>8. ASSUME NEW i \in Insts, Feeds(i) PROVE CreationsCount'
    BY <1>8, StreamConstants
       DEF FieldTypes, Stages, CreationsCount, InCreation, Starting, Feeds, maps, table,
           Dropped
  <1>9. CASE UNCHANGED <<maps, profile, run, stale, table>>
    BY <1>9 DEF CreationsCount, InCreation, Starting, maps, run, table
  <1>10. QED
    BY <1>1, <1>2, <1>3, <1>4, <1>5, <1>6, <1>7, <1>8, <1>9, StepKinds

\* A stream leaves the maps no sooner than it stops.
LEMMA RunningIsKnownNext ==
    ASSUME FieldTypes, MapsOwn, CreationsCount, RunningIsKnown, Stages, StoppedTogether, [Next]_vars
    PROVE  RunningIsKnown'
  <1>1. CASE Reset /\ UNCHANGED profile
    BY <1>1, ResetStopsAll DEF CreationsCount, RunningIsKnown
  <1>2. ASSUME NEW S \in SUBSET Insts, StopsBuilt(S) PROVE RunningIsKnown'
    <2> SUFFICES ASSUME NEW i \in Insts, ~stopped'[i]
                 PROVE  i \in Known'
      BY DEF RunningIsKnown
    <2>1. ~stopped[i] /\ i \notin S
      BY <1>2, StopAllKeeps, StreamConstants DEF StopsBuilt, RunTypes
    <2>2. CASE i \in Present(pending)
      BY <1>2, <2>2 DEF StopsBuilt, Known, Present
    <2>3. CASE i \in Present(streams)
      BY <1>2, <2>1, <2>3 DEF StopsBuilt, Known, Present, Without
    <2>4. QED
      BY <2>1, <2>2, <2>3 DEF RunningIsKnown, Known
  <1>3. ASSUME NEW t \in Tracks, Request(t), NEW i \in Insts, ~stopped'[i] PROVE i \in Known'
    <2>1. PICK S \in SUBSET Insts, n \in Insts : Starts(t, S, n)
      BY <1>3, RequestStarts
    <2>2. CASE i = n
      BY <2>1, <2>2, StreamConstants DEF Starts, Known, Present, Without
    <2>3. CASE i # n
      <3>1. ~stopped[i] /\ i \notin S
        <4>1. StopAll(S, n) /\ Free(n)
          BY <2>1 DEF Starts
        <4>2. stopped'[i] = (stopped[i] \/ i \in S)
          BY <2>3, <4>1, StopAllKeeps
        <4>3. QED
          BY <1>3, <4>2
      <3>2. i \in Known
        BY <3>1 DEF RunningIsKnown
      <3>3. pending[t] = NoInst
        BY <2>1, <3>1, <3>2 DEF Starts
      <3>4. CASE i \in Present(pending)
        BY <2>1, <3>1, <3>3, <3>4 DEF Starts, Known, Present, Without
      <3>5. CASE i \in Present(streams)
        BY <2>1, <3>1, <3>5 DEF Starts, Known, Present, Without
      <3>6. QED
        BY <3>2, <3>4, <3>5 DEF Known
    <2>4. QED
      BY <2>2, <2>3
  <1>4. ASSUME NEW i \in Insts, Settle(i) PROVE RunningIsKnown'
    BY <1>4
       DEF FieldTypes, MapsOwn, RunningIsKnown, StoppedTogether, Known, Present, Settle,
           Without
  <1>5. ASSUME NEW i \in Insts, Throws(i) PROVE RunningIsKnown'
    BY <1>5
       DEF FieldTypes, RunningIsKnown, Known, Present, Throws, Fail, StopPushes, Without
  <1>6. ASSUME NEW i \in Insts, Resolves(i) PROVE RunningIsKnown'
    BY <1>6 DEF RunningIsKnown, Known, Present, Resolves, maps, table
  <1>7. ASSUME NEW i \in Insts, Commands(i) PROVE RunningIsKnown'
    BY <1>7 DEF RunningIsKnown, Known, Present, Commands, maps
  <1>8. ASSUME NEW i \in Insts, Feeds(i) PROVE RunningIsKnown'
    BY <1>8 DEF RunningIsKnown, Known, Present, Feeds, maps, table
  <1>9. CASE UNCHANGED <<maps, profile, run, stale, table>>
    BY <1>9 DEF RunningIsKnown, Known, Present, maps, run, table
  <1>10. QED
    BY <1>1, <1>2, <1>3, <1>4, <1>5, <1>6, <1>7, <1>8, <1>9, StepKinds DEF RunningIsKnown

\* Every step keeps phase, feed and route of a stream in agreement.
LEMMA StagesNext ==
    ASSUME FieldTypes, MapsOwn, CreationsCount, RunningIsKnown, Stages, StoppedTogether, [Next]_vars
    PROVE  Stages'
  <1>1. CASE Reset /\ UNCHANGED profile
    BY <1>1, ResetStopsAll
  <1>2. ASSUME NEW S \in SUBSET Insts, StopsBuilt(S) PROVE Stages'
    BY <1>2, StopAllKeeps, StreamConstants DEF StopsBuilt
  <1>3. ASSUME NEW t \in Tracks, Request(t) PROVE Stages'
    BY <1>3 DEF FieldTypes, Stages, Request, StopAll, Free, Dropped
  <1>4. ASSUME NEW i \in Insts, Settle(i) PROVE Stages'
    BY <1>4, StreamConstants
       DEF FieldTypes, Stages, Settle, StopPushes, Without, Wanted, run, table, camera,
           Dropped
  <1>5. ASSUME NEW i \in Insts, Throws(i) PROVE Stages'
    BY <1>5, StreamConstants
       DEF FieldTypes, Stages, Throws, Fail, StopPushes, Without, Dropped
  <1>6. ASSUME NEW i \in Insts, Resolves(i) PROVE Stages'
    BY <1>6, ResetStopsAll, OneKnownPerTrack
       DEF RunningIsKnown, Stages, StoppedTogether, Resolves, StopAll, StopPushes
  <1>7. ASSUME NEW i \in Insts, Commands(i) PROVE Stages'
    BY <1>7 DEF FieldTypes, Stages, Commands, maps
  <1>8. ASSUME NEW i \in Insts, Feeds(i) PROVE Stages'
    BY <1>8 DEF FieldTypes, Stages, Feeds, maps, table
  <1>9. CASE UNCHANGED <<maps, profile, run, stale, table>>
    BY <1>9 DEF Stages, maps, run, table
  <1>10. QED
    BY <1>1, <1>2, <1>3, <1>4, <1>5, <1>6, <1>7, <1>8, <1>9, StepKinds

\* A settled start is stopped only by what stops every stream.
LEMMA StoppedTogetherNext ==
    ASSUME FieldTypes, MapsOwn, CreationsCount, RunningIsKnown, Stages, StoppedTogether, [Next]_vars
    PROVE  StoppedTogether'
  <1>1. CASE Reset /\ UNCHANGED profile
    BY <1>1, ResetStopsAll, OneKnownPerTrack
       DEF RunningIsKnown, Stages, StoppedTogether
  <1>2. ASSUME NEW S \in SUBSET Insts, StopsBuilt(S) PROVE StoppedTogether'
    BY <1>2, StreamConstants DEF StoppedTogether, StopsBuilt, StopAll
  <1>3. ASSUME NEW t \in Tracks, Request(t) PROVE StoppedTogether'
    BY <1>3 DEF StoppedTogether, Request, StopAll, Quiet
  <1>4. ASSUME NEW i \in Insts, Settle(i) PROVE StoppedTogether'
    BY <1>4
       DEF FieldTypes, StoppedTogether, Settle, StopPushes, Without, Wanted, run, table
  <1>5. ASSUME NEW i \in Insts, Throws(i) PROVE StoppedTogether'
    BY <1>5 DEF StoppedTogether, Throws, StopAll, StopPushes, Fail, Known
  <1>6. ASSUME NEW i \in Insts, Resolves(i) PROVE StoppedTogether'
    BY <1>6 DEF StoppedTogether, Resolves, StopAll
  <1>7. ASSUME NEW i \in Insts, Commands(i) PROVE StoppedTogether'
    BY <1>7 DEF StoppedTogether, Commands, StopAll
  <1>8. ASSUME NEW i \in Insts, Feeds(i) PROVE StoppedTogether'
    BY <1>8 DEF StoppedTogether, Feeds, StopAll
  <1>9. CASE UNCHANGED <<maps, profile, run, stale, table>>
    BY <1>9 DEF StoppedTogether, maps, run, table
  <1>10. QED
    BY <1>1, <1>2, <1>3, <1>4, <1>5, <1>6, <1>7, <1>8, <1>9, StepKinds

\* After release() no step starts a stream.
LEMMA ReleasedIsStoppedNext ==
    ASSUME FieldTypes, MapsOwn, RunningIsKnown, Stages, ReleasedIsStopped, [Next]_vars
    PROVE  ReleasedIsStopped'
  <1>1. ASSUME NEW p \in Profiles, Adopt(p) PROVE ReleasedIsStopped'
    <2>1. CASE Reset
      BY <1>1, <2>1, ResetStopsAll DEF ReleasedIsStopped, Adopt
    <2>2. CASE UNCHANGED <<maps, run, stale, table, device>>
      BY <1>1, <2>2 DEF ReleasedIsStopped, Adopt
    <2>3. QED
      BY <1>1, <2>1, <2>2 DEF Adopt
  <1>2. CASE ResetForSettings
    BY <1>2, ResetStopsAll DEF ReleasedIsStopped, ResetForSettings
  <1>3. CASE Release
    BY <1>3, ResetStopsAll DEF ReleasedIsStopped, Release
  <1>4. ASSUME NEW T \in SUBSET Tracks, Advertise(T) PROVE ReleasedIsStopped'
    BY <1>4 DEF Stages, ReleasedIsStopped, Advertise
  <1>5. ASSUME NEW t \in Tracks, Request(t) PROVE ReleasedIsStopped'
    BY <1>5
       DEF ReleasedIsStopped, Request, StopAll, StopPushes, Without, Free, Known,
           Present, Joins, camera
  <1>6. ASSUME NEW i \in Insts, Settle(i) PROVE ReleasedIsStopped'
    BY <1>6
       DEF FieldTypes, ReleasedIsStopped, Settle, StopPushes, Without, Wanted, run, table,
           camera
  <1>7. CASE Reap
    BY <1>7 DEF ReleasedIsStopped, Reap, StopAll, Without, Present, camera
  <1>8. ASSUME NEW i \in Insts, Resolved(i) PROVE ReleasedIsStopped'
    BY <1>8 DEF FieldTypes, ReleasedIsStopped, Resolved, Fail, Without, camera, maps
  <1>9. ASSUME NEW i \in Insts, Registered(i) PROVE ReleasedIsStopped'
    BY <1>9 DEF FieldTypes, ReleasedIsStopped, Registered, Fail, Without, camera, maps
  <1>10. ASSUME NEW i \in Insts, StartFails(i) PROVE ReleasedIsStopped'
    BY <1>10 DEF ReleasedIsStopped, StartFails, Fail, Without, camera
  <1>11. ASSUME NEW i \in Insts, Candidate(i) \/ CandidateDrops(i) \/ Promote(i)
         PROVE  ReleasedIsStopped'
    BY <1>11
       DEF ReleasedIsStopped, Candidate, CandidateDrops, Promote, FeedStep, maps,
           camera, table
  <1>12. ASSUME NEW i \in Insts, ServeReady(i) PROVE ReleasedIsStopped'
    BY <1>12 DEF ReleasedIsStopped, ServeReady, FeedStep, maps, camera, table
  <1>13. ASSUME NEW i \in Insts, FeedDrops(i) PROVE ReleasedIsStopped'
    BY <1>13 DEF ReleasedIsStopped, FeedDrops, Fail, StopAll, Without, camera, maps
  <1>14. CASE SessionNext
    BY <1>14
       DEF ReleasedIsStopped, SessionNext, SessionOpens, Authenticate, SessionCloses,
           LinkDies, camera, run
  <1>15. CASE UNCHANGED vars
    BY <1>15 DEF ReleasedIsStopped, maps, run, table, camera, vars
  <1>16. QED
    BY <1>1, <1>2, <1>3, <1>4, <1>5, <1>6, <1>7, <1>8, <1>9, <1>10, <1>11, <1>12, <1>13,
       <1>14, <1>15
       DEF Next, CameraNext, StreamNext

\* A stream is published only while its track is advertised.
LEMMA BuiltIsAdvertisedNext ==
    ASSUME FieldTypes, MapsOwn, RunningIsKnown, Stages, BuiltIsAdvertised, [Next]_vars
    PROVE  BuiltIsAdvertised'
  <1>1. ASSUME NEW p \in Profiles, Adopt(p) PROVE BuiltIsAdvertised'
    <2>1. CASE Reset
      BY <1>1, <2>1, ResetStopsAll DEF BuiltIsAdvertised, NoMap, Adopt
    <2>2. CASE UNCHANGED <<maps, run, stale, table, device>>
      BY <1>1, <2>2 DEF BuiltIsAdvertised, NoMap, Adopt, Known, Present, maps, run
    <2>3. QED
      BY <1>1, <2>1, <2>2 DEF Adopt
  <1>2. CASE ResetForSettings
    BY <1>2, ResetStopsAll DEF BuiltIsAdvertised, NoMap, ResetForSettings
  <1>3. CASE Release
    BY <1>3, ResetStopsAll DEF BuiltIsAdvertised, NoMap, Release
  <1>4. ASSUME NEW T \in SUBSET Tracks, Advertise(T) PROVE BuiltIsAdvertised'
    BY <1>4
       DEF BuiltIsAdvertised, Advertise, Reset, StopAll, StopPushes, Without, Known,
           Present
  <1>5. ASSUME NEW t \in Tracks, Request(t) PROVE BuiltIsAdvertised'
    BY <1>5
       DEF FieldTypes, BuiltIsAdvertised, Request, StopAll, StopPushes, Without, Free,
           Known, Present, Joins, camera
  <1>6. ASSUME NEW i \in Insts, Settle(i) PROVE BuiltIsAdvertised'
    BY <1>6
       DEF FieldTypes, BuiltIsAdvertised, Settle, StopPushes, Without, Wanted, run, table,
           camera
  <1>7. CASE Reap
    BY <1>7 DEF FieldTypes, BuiltIsAdvertised, Reap, StopAll, Without, Present, camera
  <1>8. ASSUME NEW i \in Insts, Resolved(i) PROVE BuiltIsAdvertised'
    BY <1>8 DEF FieldTypes, BuiltIsAdvertised, Resolved, Fail, Without, camera, maps
  <1>9. ASSUME NEW i \in Insts, Registered(i) PROVE BuiltIsAdvertised'
    BY <1>9 DEF FieldTypes, BuiltIsAdvertised, Registered, Fail, Without, camera, maps
  <1>10. ASSUME NEW i \in Insts, StartFails(i) PROVE BuiltIsAdvertised'
    BY <1>10 DEF BuiltIsAdvertised, StartFails, Fail, Without, camera
  <1>11. ASSUME NEW i \in Insts, Candidate(i) \/ CandidateDrops(i) \/ Promote(i)
         PROVE  BuiltIsAdvertised'
    BY <1>11
       DEF BuiltIsAdvertised, Candidate, CandidateDrops, Promote, FeedStep, maps,
           camera, table
  <1>12. ASSUME NEW i \in Insts, ServeReady(i) PROVE BuiltIsAdvertised'
    BY <1>12 DEF BuiltIsAdvertised, ServeReady, FeedStep, maps, camera, table
  <1>13. ASSUME NEW i \in Insts, FeedDrops(i) PROVE BuiltIsAdvertised'
    BY <1>13
       DEF FieldTypes, BuiltIsAdvertised, FeedDrops, Fail, StopAll, Without, camera, maps
  <1>14. CASE SessionNext
    BY <1>14
       DEF BuiltIsAdvertised, SessionNext, SessionOpens, Authenticate, SessionCloses,
           LinkDies, maps, run, table, camera
  <1>15. CASE UNCHANGED vars
    BY <1>15 DEF BuiltIsAdvertised, maps, run, table, camera, vars
  <1>16. QED
    BY <1>1, <1>2, <1>3, <1>4, <1>5, <1>6, <1>7, <1>8, <1>9, <1>10, <1>11, <1>12, <1>13,
       <1>14, <1>15
       DEF Next, CameraNext, StreamNext

\* Running streams stay of the profile that is selected.
LEMMA ProfilesAgreeNext ==
    ASSUME FieldTypes, MapsOwn, RunningIsKnown, Stages, ProfilesAgree, [Next]_vars
    PROVE  ProfilesAgree'
  <1>1. ASSUME NEW p \in Profiles, Adopt(p) PROVE ProfilesAgree'
    <2>1. CASE Reset
      BY <1>1, <2>1, ResetStopsAll DEF ProfilesAgree, Adopt
    <2>2. CASE ~Reset
      <3>1. /\ selected \in {NoProfile, p} /\ \A i \in Known : profile[i] = p
            /\ UNCHANGED <<stopped, profile>>
        BY <1>1, <2>2 DEF Adopt, run
      <3>2. QED
        BY <1>1, <3>1 DEF RunningIsKnown, ProfilesAgree, Adopt
    <2>3. QED
      BY <2>1, <2>2
  <1>2. CASE ResetForSettings
    BY <1>2, ResetStopsAll DEF ProfilesAgree, ResetForSettings
  <1>3. CASE Release
    BY <1>3, ResetStopsAll DEF ProfilesAgree, Release
  <1>4. ASSUME NEW T \in SUBSET Tracks, Advertise(T) PROVE ProfilesAgree'
    BY <1>4, StreamConstants
       DEF FieldTypes, ProfilesAgree, Advertise, Reset, StopAll, StopPushes, Without,
           Known, Present
  <1>5. ASSUME NEW t \in Tracks, Request(t) PROVE ProfilesAgree'
    BY <1>5
       DEF FieldTypes, ProfilesAgree, Request, StopAll, StopPushes, Without, Free, Known,
           Present, Joins, camera
  <1>6. ASSUME NEW i \in Insts, Settle(i) PROVE ProfilesAgree'
    BY <1>6
       DEF FieldTypes, ProfilesAgree, Settle, StopPushes, Without, Wanted, run, table,
           camera
  <1>7. CASE Reap
    BY <1>7, StreamConstants
       DEF FieldTypes, ProfilesAgree, Reap, StopAll, Without, Present, camera
  <1>8. ASSUME NEW i \in Insts, Resolved(i) PROVE ProfilesAgree'
    BY <1>8 DEF FieldTypes, ProfilesAgree, Resolved, Fail, Without, camera, maps
  <1>9. ASSUME NEW i \in Insts, Registered(i) PROVE ProfilesAgree'
    BY <1>9 DEF FieldTypes, ProfilesAgree, Registered, Fail, Without, camera, maps
  <1>10. ASSUME NEW i \in Insts, StartFails(i) PROVE ProfilesAgree'
    BY <1>10 DEF ProfilesAgree, StartFails, Fail, Without, camera
  <1>11. ASSUME NEW i \in Insts, Candidate(i) \/ CandidateDrops(i) \/ Promote(i)
         PROVE  ProfilesAgree'
    BY <1>11
       DEF ProfilesAgree, Candidate, CandidateDrops, Promote, FeedStep, maps, camera,
           table
  <1>12. ASSUME NEW i \in Insts, ServeReady(i) PROVE ProfilesAgree'
    BY <1>12 DEF ProfilesAgree, ServeReady, FeedStep, maps, camera, table
  <1>13. ASSUME NEW i \in Insts, FeedDrops(i) PROVE ProfilesAgree'
    BY <1>13, StreamConstants
       DEF FieldTypes, ProfilesAgree, FeedDrops, Fail, StopAll, Without, camera, maps
  <1>14. CASE SessionNext
    BY <1>14
       DEF ProfilesAgree, SessionNext, SessionOpens, Authenticate, SessionCloses,
           LinkDies, maps, run, table, camera
  <1>15. CASE UNCHANGED vars
    BY <1>15 DEF ProfilesAgree, maps, run, table, camera, vars
  <1>16. QED
    BY <1>1, <1>2, <1>3, <1>4, <1>5, <1>6, <1>7, <1>8, <1>9, <1>10, <1>11, <1>12, <1>13,
       <1>14, <1>15
       DEF Next, CameraNext, StreamNext

\* The push table never names a track without a commanded stream.
LEMMA PushHasStreamNext ==
    ASSUME FieldTypes, MapsOwn, CreationsCount, RunningIsKnown, OneStreamPerTrack, Stages,
           StoppedTogether, ProfilesAgree, PushHasStream, StartsInOrder, KeepsPush, CodecAgrees,
           [Next]_vars
    PROVE  PushHasStream'
  <1>1. CASE Reset /\ UNCHANGED profile
    BY <1>1, ResetStopsAll
       DEF FieldTypes, PushHasStream, Commanded, Reset, StopAll, StopPushes, NoMap
  <1>2. ASSUME NEW S \in SUBSET Insts, StopsBuilt(S) PROVE PushHasStream'
    BY <1>2, StreamConstants
       DEF FieldTypes, PushHasStream, Commanded, StopsBuilt, StopAll, StopPushes, Without
  <1>3. ASSUME NEW t \in Tracks, Request(t) PROVE PushHasStream'
    BY <1>3 DEF FieldTypes, PushHasStream, Commanded, Request, StopAll, StopPushes, Free
  <1>4. ASSUME NEW i \in Insts, Settle(i) PROVE PushHasStream'
    BY <1>4
       DEF FieldTypes, PushHasStream, Commanded, Settle, StopPushes, Without, Wanted, run,
           table
  <1>5. ASSUME NEW i \in Insts, Throws(i) PROVE PushHasStream'
    BY <1>5 DEF PushHasStream, Commanded, Throws, Fail, StopPushes, Without
  <1>6. ASSUME NEW i \in Insts, Resolves(i) PROVE PushHasStream'
    BY <1>6 DEF PushHasStream, Commanded, Resolves, maps, table
  <1>7. ASSUME NEW i \in Insts, Commands(i) PROVE PushHasStream'
    BY <1>7 DEF FieldTypes, PushHasStream, Commanded, Commands, maps
  <1>8. ASSUME NEW i \in Insts, Feeds(i) PROVE PushHasStream'
    BY <1>8 DEF PushHasStream, Commanded, Feeds, maps, table
  <1>9. CASE UNCHANGED <<maps, profile, run, stale, table>>
    BY <1>9 DEF PushHasStream, Commanded, maps, run, table
  <1>10. QED
    BY <1>1, <1>2, <1>3, <1>4, <1>5, <1>6, <1>7, <1>8, <1>9, StepKinds

\* With an IP literal a superseded start never commands after its successor.
LEMMA StartsInOrderNext ==
    ASSUME FieldTypes, MapsOwn, CreationsCount, RunningIsKnown, OneStreamPerTrack, Stages,
           StoppedTogether, ProfilesAgree, PushHasStream, StartsInOrder, KeepsPush, CodecAgrees,
           [Next]_vars
    PROVE  StartsInOrder'
  <1>1. CASE Reset /\ UNCHANGED profile
    BY <1>1, ResetStopsAll
       DEF StartsInOrder, Commanded, Reset, StopAll, StopPushes, NoMap
  <1>2. ASSUME NEW S \in SUBSET Insts, StopsBuilt(S) PROVE StartsInOrder'
    BY <1>2, StreamConstants
       DEF FieldTypes, StartsInOrder, Commanded, StopsBuilt, StopAll, StopPushes, Without
  <1>3. ASSUME NEW t \in Tracks, Request(t) PROVE StartsInOrder'
    BY <1>3
       DEF FieldTypes, MapsOwn, RunningIsKnown, StartsInOrder, Commanded, Request,
           StopAll, Known, Present, Joins
  <1>4. ASSUME NEW i \in Insts, Settle(i) PROVE StartsInOrder'
    BY <1>4
       DEF FieldTypes, StartsInOrder, Commanded, Settle, StopPushes, Without, Wanted, run,
           table
  <1>5. ASSUME NEW i \in Insts, Throws(i) PROVE StartsInOrder'
    BY <1>5 DEF StartsInOrder, Commanded, Throws, Fail, StopPushes, Without
  <1>6. ASSUME NEW i \in Insts, Resolves(i) PROVE StartsInOrder'
    BY <1>6 DEF StartsInOrder, Commanded, Resolves, maps, table
  <1>7. ASSUME NEW i \in Insts, Commands(i) PROVE StartsInOrder'
    BY <1>7 DEF StartsInOrder, Commanded, Commands, InOrder
  <1>8. ASSUME NEW i \in Insts, Feeds(i) PROVE StartsInOrder'
    BY <1>8, StreamConstants
       DEF FieldTypes, Stages, StartsInOrder, Commanded, Feeds, maps, table, Dropped
  <1>9. CASE UNCHANGED <<maps, profile, run, stale, table>>
    BY <1>9 DEF StartsInOrder, Commanded, maps, run, table
  <1>10. QED
    BY <1>1, <1>2, <1>3, <1>4, <1>5, <1>6, <1>7, <1>8, <1>9, StepKinds

\* So nothing takes the push of a commanded stream out of the table.
LEMMA KeepsPushNext ==
    ASSUME FieldTypes, MapsOwn, CreationsCount, RunningIsKnown, OneStreamPerTrack, Stages,
           StoppedTogether, ProfilesAgree, PushHasStream, StartsInOrder, KeepsPush, CodecAgrees,
           [Next]_vars
    PROVE  KeepsPush'
  <1>1. CASE Reset /\ UNCHANGED profile
    BY <1>1, ResetStopsAll
       DEF KeepsPush, StreamKeepsPush, Commanded, Reset, StopAll, StopPushes, NoMap
  <1>2. ASSUME NEW S \in SUBSET Insts, StopsBuilt(S) PROVE KeepsPush'
    <2> SUFFICES ASSUME Literal, NEW i \in Insts, Commanded(i)'
                 PROVE  TrackOf[i] \in active'
      BY DEF KeepsPush, StreamKeepsPush
    <2>1. Commanded(i) /\ i \notin S
      <3>1. StopAll(S, NoInst) /\ NoInst \notin Insts
        BY <1>2, StreamConstants DEF StopsBuilt
      <3>2. /\ stopped'[i] = (stopped[i] \/ i \in S)
            /\ phase'[i] = IF i \in S /\ phase[i] = "waiting" THEN "over" ELSE phase[i]
        BY <3>1, StopAllKeeps
      <3>3. QED
        BY <3>2 DEF Commanded
    <2>2. \A j \in S : TrackOf[j] # TrackOf[i]
      BY <1>2, <2>1, OneKnownPerTrack DEF StopsBuilt, RunningIsKnown, Commanded, Known
    <2>3. active' = active \ {TrackOf[j] : j \in S}
      BY <1>2 DEF StopsBuilt, StopAll, StopPushes
    <2>4. QED
      BY <2>1, <2>2, <2>3 DEF KeepsPush, StreamKeepsPush
  <1>3. ASSUME NEW t \in Tracks, Request(t) PROVE KeepsPush'
    BY <1>3
       DEF FieldTypes, MapsOwn, RunningIsKnown, KeepsPush, StreamKeepsPush, Commanded,
           Request, StopAll, StopPushes, Free, Known, Present
  <1>4. ASSUME NEW i \in Insts, Settle(i) PROVE KeepsPush'
    BY <1>4
       DEF FieldTypes, OneStreamPerTrack, StoppedTogether, KeepsPush, StreamKeepsPush,
           Commanded, Settle, StopPushes, table
  <1>5. ASSUME NEW i \in Insts, Throws(i) PROVE KeepsPush'
    BY <1>5
       DEF FieldTypes, OneStreamPerTrack, Stages, StartsInOrder, KeepsPush,
           StreamKeepsPush, Commanded, Throws, Fail, StopPushes
  <1>6. ASSUME NEW i \in Insts, Resolves(i) PROVE KeepsPush'
    BY <1>6 DEF KeepsPush, StreamKeepsPush, Commanded, Resolves, maps, table
  <1>7. ASSUME NEW i \in Insts, Commands(i) PROVE KeepsPush'
    BY <1>7 DEF KeepsPush, StreamKeepsPush, Commanded, Commands, maps
  <1>8. ASSUME NEW i \in Insts, Feeds(i) PROVE KeepsPush'
    BY <1>8, StreamConstants
       DEF FieldTypes, Stages, KeepsPush, StreamKeepsPush, Commanded, Feeds, maps, table,
           Dropped
  <1>9. CASE UNCHANGED <<maps, profile, run, stale, table>>
    BY <1>9 DEF KeepsPush, StreamKeepsPush, Commanded, maps, run, table
  <1>10. QED
    BY <1>1, <1>2, <1>3, <1>4, <1>5, <1>6, <1>7, <1>8, <1>9, StepKinds

\* The codec in the table stays that of every commanded stream.
LEMMA CodecAgreesNext ==
    ASSUME FieldTypes, MapsOwn, CreationsCount, RunningIsKnown, OneStreamPerTrack, Stages,
           StoppedTogether, ProfilesAgree, PushHasStream, StartsInOrder, KeepsPush, CodecAgrees,
           [Next]_vars
    PROVE  CodecAgrees'
  <1>1. CASE Reset /\ UNCHANGED profile
    BY <1>1, ResetStopsAll
       DEF CodecAgrees, Commanded, Reset, StopAll, StopPushes, NoMap
  <1>2. ASSUME NEW S \in SUBSET Insts, StopsBuilt(S) PROVE CodecAgrees'
    BY <1>2 DEF CodecAgrees, Commanded, StopsBuilt, StopAll, StopPushes, Without
  <1>3. ASSUME NEW t \in Tracks, Request(t) PROVE CodecAgrees'
    BY <1>3 DEF FieldTypes, CodecAgrees, Commanded, Request, StopAll, StopPushes
  <1>4. ASSUME NEW i \in Insts, Settle(i) PROVE CodecAgrees'
    BY <1>4
       DEF FieldTypes, CodecAgrees, Commanded, Settle, StopPushes, Without, Wanted, run,
           table
  <1>5. ASSUME NEW i \in Insts, Throws(i) PROVE CodecAgrees'
    BY <1>5 DEF CodecAgrees, Commanded, Throws, Fail, StopPushes, Without
  <1>6. ASSUME NEW i \in Insts, Resolves(i) PROVE CodecAgrees'
    BY <1>6 DEF CodecAgrees, Commanded, Resolves, maps, table
  <1>7. ASSUME NEW i \in Insts, Commands(i) PROVE CodecAgrees'
    BY <1>7 DEF ProfilesAgree, CodecAgrees, Commanded, Commands
  <1>8. ASSUME NEW i \in Insts, Feeds(i) PROVE CodecAgrees'
    BY <1>8, StreamConstants
       DEF FieldTypes, Stages, CodecAgrees, Commanded, Feeds, maps, table, Dropped
  <1>9. CASE UNCHANGED <<maps, profile, run, stale, table>>
    BY <1>9 DEF CodecAgrees, Commanded, maps, run, table
  <1>10. QED
    BY <1>1, <1>2, <1>3, <1>4, <1>5, <1>6, <1>7, <1>8, <1>9, StepKinds

\* A step sends the camera the stops of some tracks, one start, what a session
\* brings, or nothing.
LEMMA DeviceSteps ==
    ASSUME FieldTypes, MapsOwn, [Next]_vars
    PROVE  \/ (\E T \in SUBSET Tracks : StopPushes(T)) /\ UNCHANGED <<session, linkUp>>
           \/ \E i \in Insts : /\ ~stopped[i] /\ session # "none"
                              /\ StartPush(TrackOf[i], profile[i])
                              /\ UNCHANGED <<session, linkUp>>
           \/ SessionNext
           \/ UNCHANGED <<session, table, linkUp, device>>
  <1> DEFINE Same == UNCHANGED <<session, linkUp>>
             Pushes(i) == StartPush(TrackOf[i], profile[i]) /\ session # "none" /\ Same
             Stops == (\E T \in SUBSET Tracks : StopPushes(T)) /\ Same
             Idle == UNCHANGED <<session, table, linkUp, device>>
  <1>1. ASSUME NEW S \in SUBSET Insts, NEW n, StopAll(S, n), Same PROVE Stops
    BY <1>1, TracksOfTypes DEF StopAll
  <1>2. ASSUME Reset, Same PROVE Stops
    BY <1>1, <1>2, OneKnownPerTrack DEF Reset
  <1>3. ASSUME NEW i \in Insts, Fail(i), Same PROVE Stops
    BY <1>3, StreamConstants DEF Fail
  <1>4. ASSUME NEW p \in Profiles, Adopt(p) PROVE Stops \/ Idle
    BY <1>2, <1>4 DEF Adopt
  <1>5. CASE ResetForSettings \/ Release
    BY <1>2, <1>5 DEF ResetForSettings, Release
  <1>6. ASSUME NEW T \in SUBSET Tracks, Advertise(T) PROVE Stops
    <2> DEFINE S == {streams[t] : t \in Tracks \ T} \ {NoInst}
    <2>1. S \in SUBSET Insts /\ StopAll(S, NoInst) /\ Same
      BY <1>6 DEF FieldTypes, Advertise
    <2> HIDE DEF S
    <2>2. QED
      BY <1>1, <2>1
  <1>7. ASSUME NEW t \in Tracks, Request(t) PROVE Stops
    <2>1. PICK S \in SUBSET Insts, n \in Insts : Starts(t, S, n)
      BY <1>7, RequestStarts
    <2>2. QED
      BY <1>1, <1>7, <2>1 DEF Starts, Request
  <1>8. ASSUME NEW i \in Insts, Settle(i) PROVE Stops \/ Idle
    BY <1>8, StreamConstants DEF Settle
  <1>9. CASE Reap
    <2>1. PICK S \in SUBSET Present(streams) : StopAll(S, NoInst)
      BY <1>9 DEF Reap
    <2>2. S \in SUBSET Insts
      BY DEF Present, FieldTypes
    <2>3. QED
      BY <1>1, <1>9, <2>1, <2>2 DEF Reap
  <1>10. ASSUME NEW i \in Insts, Resolved(i) \/ StartFails(i) \/ FeedDrops(i) PROVE Stops \/ Idle
    BY <1>1, <1>3, <1>10 DEF Resolved, StartFails, FeedDrops
  <1>11. ASSUME NEW i \in Insts, Registered(i)
         PROVE  Stops \/ (~stopped[i] /\ Pushes(i))
    <2>1. CASE Fail(i)
      BY <1>3, <1>11, <2>1 DEF Registered
    <2>2. CASE ~Fail(i)
      BY <1>11, <2>2 DEF Registered
    <2>3. QED
      BY <2>1, <2>2
  <1>12. ASSUME NEW i \in Insts, Candidate(i) \/ CandidateDrops(i) \/ Promote(i) \/ ServeReady(i)
         PROVE  Idle
    BY <1>12 DEF Candidate, CandidateDrops, Promote, ServeReady, FeedStep
  <1>13. CASE UNCHANGED vars
    BY <1>13 DEF vars
  <1>14. QED
    BY <1>4, <1>5, <1>6, <1>7, <1>8, <1>9, <1>10, <1>11, <1>12, <1>13
       DEF Next, CameraNext, StreamNext

\* No step parts the camera from the push table.
LEMMA CameraObeysNext ==
    ASSUME FieldTypes, MapsOwn, CameraObeys, [Next]_vars
    PROVE  CameraObeys'
  <1>1. ASSUME NEW T \in SUBSET Tracks, StopPushes(T), UNCHANGED <<session, linkUp>>
        PROVE  CameraObeys'
    BY <1>1 DEF CameraObeys, StopPushes, Command, device
  <1>2. ASSUME NEW i \in Insts, StartPush(TrackOf[i], profile[i]), UNCHANGED <<session, linkUp>>
        PROVE  CameraObeys'
    BY <1>2 DEF CameraObeys, StartPush, Command, device
  <1>3. CASE SessionNext
    BY <1>3
       DEF CameraObeys, FieldTypes, SessionNext, SessionOpens, Authenticate,
           SessionCloses, LinkDies, Command, table
  <1>4. CASE UNCHANGED <<session, table, linkUp, device>>
    BY <1>4 DEF CameraObeys, table, device
  <1>5. QED
    BY <1>1, <1>2, <1>3, <1>4, DeviceSteps

\* With a link that fails only by closing, no command is lost.
LEMMA NothingLostNext ==
    ASSUME FieldTypes, MapsOwn, PushHasStream, CodecAgrees, ProfilesAgree, NothingLost, [Next]_vars
    PROVE  NothingLost'
  <1>1. ASSUME NEW T \in SUBSET Tracks, StopPushes(T), UNCHANGED <<session, linkUp>>
        PROVE  NothingLost'
    BY <1>1 DEF NothingLost, FieldTypes, StopPushes, Command, device
  <1>2. ASSUME NEW i \in Insts, ~stopped[i], session # "none", StartPush(TrackOf[i], profile[i]),
               UNCHANGED <<session, linkUp>>
        PROVE  NothingLost'
    <2>1. TrackOf[i] \in Tracks /\ \A t \in active : codec = profile[i]
      BY <1>2, StreamConstants DEF PushHasStream, CodecAgrees, ProfilesAgree, Commanded
    <2>2. CASE session # "none" /\ linkUp
      BY <1>2, <2>1, <2>2 DEF NothingLost, FieldTypes, StartPush, Command
    <2>3. CASE ~(session # "none" /\ linkUp)
      BY <1>2, <2>1, <2>3 DEF NothingLost, FieldTypes, StartPush, Command, device
    <2>4. QED
      BY <2>2, <2>3
  <1>3. CASE SessionNext
    BY <1>3
       DEF NothingLost, FieldTypes, SessionNext, SessionOpens, Authenticate,
           SessionCloses, LinkDies, Command, table, device
  <1>4. CASE UNCHANGED <<session, table, linkUp, device>>
    BY <1>4 DEF NothingLost, table, device
  <1>5. QED
    BY <1>1, <1>2, <1>3, <1>4, DeviceSteps
-----------------------------------------------------------------------------
(* The invariant, and what follows. *)

\* The invariant holds at first, every step keeps it, and so it always holds.
LEMMA IInvInit == Init => IInv
  <1> SUFFICES ASSUME Init PROVE IInv
    OBVIOUS
  <1>1. FieldTypes
    BY StreamConstants DEF Init, FieldTypes, NoMap
  <1>2. /\ MapsOwn /\ CreationsCount /\ RunningIsKnown /\ Stages /\ StoppedTogether
        /\ ReleasedIsStopped /\ BuiltIsAdvertised /\ ProfilesAgree
    BY DEF Init, NoMap, MapsOwn, CreationsCount, InCreation, Starting, RunningIsKnown,
           Stages, StoppedTogether, ReleasedIsStopped, BuiltIsAdvertised, ProfilesAgree
  <1>3. /\ PushHasStream /\ StartsInOrder /\ KeepsPush /\ CodecAgrees
        /\ CameraObeys /\ NothingLost
    BY DEF Init, PushHasStream, StartsInOrder, KeepsPush, StreamKeepsPush, CodecAgrees,
           Commanded, CameraObeys, NothingLost
  <1>4. QED
    BY <1>1, <1>2, <1>3 DEF IInv

\* Every step preserves it,
LEMMA IInvNext == IInv /\ [Next]_vars => IInv'
  <1> SUFFICES ASSUME IInv, [Next]_vars PROVE IInv'
    OBVIOUS
  <1> USE DEF IInv
  <1>1. OneStreamPerTrack
    BY RunningIsUnique
  <1>2. /\ FieldTypes' /\ MapsOwn' /\ CreationsCount' /\ RunningIsKnown' /\ Stages'
        /\ StoppedTogether' /\ ReleasedIsStopped' /\ BuiltIsAdvertised' /\ ProfilesAgree'
    BY TypeNext, MapsOwnNext, CreationsCountNext, RunningIsKnownNext, StagesNext,
       StoppedTogetherNext, ReleasedIsStoppedNext, BuiltIsAdvertisedNext, ProfilesAgreeNext
  <1>3. /\ PushHasStream' /\ StartsInOrder' /\ KeepsPush' /\ CodecAgrees'
        /\ CameraObeys' /\ NothingLost'
    BY <1>1, PushHasStreamNext, StartsInOrderNext, KeepsPushNext, CodecAgreesNext,
       CameraObeysNext, NothingLostNext
  <1>4. QED
    BY <1>2, <1>3

\* so it always holds.
LEMMA Inductive == Spec => []IInv
  BY IInvInit, IInvNext, PTL DEF Spec

\* Every variable keeps its type: what start(), stop(), resets and release() of
\* direct-stream.ts and camera.ts write to the maps, the slots and the push table;
\* and the two maps of creations agree, whoever supersedes whom.
THEOREM TypeCorrect == Spec => []TypeOK
  <1>1. IInv => TypeOK
    BY DEF IInv, MapsOwn, TypeOK
  <1>2. QED
    BY <1>1, Inductive, PTL

\* No race of requests, superseded starts, drops, resets and release() leaves a
\* track with two running streams, a running stream outside of camera.ts's maps,
\* a route or a push without a stream, or anything at all after release().
THEOREM NothingIsLeftBehind == Spec => []NothingLeftBehind
  <1>1. IInv => NothingLeftBehind
    <2> SUFFICES ASSUME IInv PROVE NothingLeftBehind
      OBVIOUS
    <2>1. OneStreamPerTrack
      BY RunningIsUnique DEF IInv
    <2>2. StoppedIsUnrouted /\ StoppedServesNothing
      BY DEF IInv, FieldTypes, Stages, StoppedIsUnrouted, StoppedServesNothing
    <2>3. ReleasedIsQuiet
      BY DEF IInv, FieldTypes, ReleasedIsStopped, PushHasStream, Commanded, ReleasedIsQuiet
    <2>4. QED
      BY <2>1, <2>2, <2>3 DEF IInv, NothingLeftBehind, StreamsAccountedFor
  <1>2. QED
    BY <1>1, Inductive, PTL

\* While the emulator has an authenticated session over a live link, the camera
\* pushes no track that the push table of controller-emulator.ts does not list,
\* whatever sessions and commands were lost before.
THEOREM CameraStaysObedient == Spec => []CameraObeys
  <1>1. IInv => CameraObeys
    BY DEF IInv
  <1>2. QED
    BY <1>1, Inductive, PTL

\* If addresses need no resolution (so that starts keep their order) and a link
\* fails only by closing, every started stream has its push commanded, with its
\* codec, and all streams agree on the one codec the camera can encode.
THEOREM StreamsHoldEncoder == Literal /\ ~Lossy => (Spec => []StreamsOwnEncoder)
  <1> SUFFICES ASSUME Literal, ~Lossy PROVE Spec => []StreamsOwnEncoder
    OBVIOUS
  <1>1. IInv => StreamsOwnEncoder
    BY DEF IInv, KeepsPush, NothingLost, StreamsOwnEncoder, StreamIsPushed, CommandStands, OneCodec
  <1>2. QED
    BY <1>1, Inductive, PTL
-----------------------------------------------------------------------------
(* The refinement of TrackOwnership. *)

\* The owner of a track is its one running stream.
LEMMA OwnerIsTheRunning ==
    ASSUME OneStreamPerTrack, NEW t \in Tracks
    PROVE  /\ \A i \in Insts : ~stopped[i] /\ TrackOf[i] = t => Owner(t) = i
           /\ Owner(t) # NoInst =>
                  Owner(t) \in Insts /\ ~stopped[Owner(t)] /\ TrackOf[Owner(t)] = t
  BY DEF OneStreamPerTrack, Owner

\* A step that only stops streams and starts fresh ones hands tracks over.
LEMMA HandsOver ==
    ASSUME Literal, OneStreamPerTrack, OneStreamPerTrack', PushHasStream, PushHasStream',
           KeepsPush', FieldTypes, active' \subseteq active,
           \A i \in Insts : ~stopped[i] /\ ~stopped'[i] /\ Commanded(i) => Commanded(i)',
           \A i \in Insts : stopped[i] => ~Commanded(i)'
    PROVE  \E T \in SUBSET Tracks : Ownership!HandOver(T)
  <1> DEFINE T == {t \in Tracks : Owner(t)' # Owner(t)} \cup (active \ active')
             next == [t \in T |-> Owner(t)']
  <1>1. ASSUME NEW t \in Tracks
        PROVE  /\ \A i \in Insts : ~stopped'[i] /\ TrackOf[i] = t => Owner(t)' = i
               /\ Owner(t)' # NoInst => /\ Owner(t)' \in Insts /\ ~stopped'[Owner(t)']
                                        /\ TrackOf[Owner(t)'] = t
    BY DEF OneStreamPerTrack, Owner
  <1>2. T \in SUBSET Tracks
    BY DEF FieldTypes
  <1>3. ASSUME NEW t \in T, Owner(t)' # NoInst
        PROVE  stopped[Owner(t)']
    <2>1. t \in Tracks
      BY <1>2
    <2>2. CASE Owner(t)' # Owner(t)
      BY <1>1, <1>3, <2>1, <2>2, OwnerIsTheRunning
    <2>3. CASE t \in active \ active'
      <3>1. PICK i \in Insts : Commanded(i) /\ TrackOf[i] = t
        BY <2>3 DEF PushHasStream
      <3>2. stopped'[i]
        BY <2>3, <3>1 DEF KeepsPush, StreamKeepsPush, Commanded
      <3>3. QED
        BY <1>1, <1>3, <2>1, <3>1, <3>2 DEF Commanded, OneStreamPerTrack
    <2>4. QED
      BY <2>2, <2>3
  <1>4. \A t \in T : next[t] \notin {Owner(u) : u \in Tracks} \ {NoInst}
    BY <1>3, OwnerIsTheRunning
  <1>5. next \in [T -> Insts \cup {NoInst}]
    BY <1>1, <1>2
  <1>6. ASSUME NEW t \in active' PROVE Owner(t)' = Owner(t)
    <2>1. PICK i \in Insts : Commanded(i)' /\ TrackOf[i] = t
      BY <1>6 DEF PushHasStream
    <2>2. t \in Tracks /\ ~stopped[i] /\ ~stopped'[i]
      BY <2>1, StreamConstants DEF Commanded
    <2>3. QED
      BY <1>1, <2>1, <2>2, OwnerIsTheRunning
  <1>7. active' = active \ T
    BY <1>6
  <1> DEFINE owner == [t \in Tracks |-> Owner(t)]
  <1>8. \A t \in T : next[t] \notin {owner[u] : u \in Tracks} \ {NoInst}
    BY <1>4
  <1>9. owner' = [t \in Tracks |-> IF t \in T THEN next[t] ELSE owner[t]]
    <2>1. ASSUME NEW t \in Tracks PROVE Owner(t)' = IF t \in T THEN next[t] ELSE Owner(t)
      OBVIOUS
    <2>2. QED
      BY <2>1
  <1> HIDE DEF T, next
  <1>10. QED
    BY <1>2, <1>5, <1>7, <1>8, <1>9 DEF Ownership!HandOver

\* Of a step of another kind than Commands, for HandsOver.
LEMMA OthersOnlyStop ==
    ASSUME FieldTypes, MapsOwn, RunningIsKnown, Stages, [Next]_vars,
           \A i \in Insts : ~Commands(i)
    PROVE  /\ active' \subseteq active
           /\ \A i \in Insts : ~stopped[i] /\ ~stopped'[i] /\ Commanded(i) => Commanded(i)'
           /\ \A i \in Insts : stopped[i] => ~Commanded(i)'
  <1> DEFINE Only == /\ active' \subseteq active
                      /\ \A i \in Insts :
                             ~stopped[i] /\ ~stopped'[i] /\ Commanded(i) => Commanded(i)'
                     /\ \A i \in Insts : stopped[i] => ~Commanded(i)'
  <1>1. CASE Reset /\ UNCHANGED profile
    BY <1>1, ResetStopsAll DEF Commanded
  <1>2. ASSUME NEW S \in SUBSET Insts, StopsBuilt(S) PROVE Only
    <2>1. StopAll(S, NoInst)
      BY <1>2 DEF StopsBuilt
    <2>2. \A i \in Insts :
              /\ stopped'[i] = (stopped[i] \/ i \in S)
              /\ phase'[i] = IF i \in S /\ phase[i] = "waiting" THEN "over" ELSE phase[i]
      BY <2>1, StopAllKeeps, StreamConstants
    <2>3. QED
      BY <2>1, <2>2 DEF Commanded, StopAll, StopPushes
  <1>3. ASSUME NEW t \in Tracks, Request(t) PROVE Only
    <2>1. PICK S \in SUBSET Insts, n \in Insts : Starts(t, S, n)
      BY <1>3, RequestStarts
    <2>2. /\ active' \subseteq active /\ phase'[n] = "resolving" /\ stopped[n]
          /\ \A i \in Insts \ {n} :
                 /\ stopped'[i] = (stopped[i] \/ i \in S)
                 /\ phase'[i] = IF i \in S /\ phase[i] = "waiting" THEN "over" ELSE phase[i]
      BY <2>1 DEF Starts, StopAll, StopPushes, Free, FieldTypes
    <2>3. QED
      BY <2>2 DEF Commanded
  <1>4. ASSUME NEW i \in Insts, Settle(i) PROVE Only
    BY <1>4 DEF Settle, StopPushes, table, run, Commanded, FieldTypes
  <1>5. ASSUME NEW i \in Insts, Throws(i) PROVE Only
    BY <1>5 DEF Throws, Fail, StopPushes, Commanded, FieldTypes
  <1>6. ASSUME NEW i \in Insts, Resolves(i) PROVE Only
    BY <1>6 DEF Resolves, table, Commanded, FieldTypes
  <1>7. ASSUME NEW i \in Insts, Feeds(i) PROVE Only
    BY <1>7 DEF Feeds, table, Commanded, FieldTypes
  <1>8. CASE UNCHANGED <<maps, profile, run, stale, table>>
    BY <1>8 DEF run, table, Commanded
  <1>9. QED
    BY <1>1, <1>2, <1>3, <1>4, <1>5, <1>6, <1>7, <1>8, StepKinds

\* If addresses need no resolution, the stream maps, slots and push table
\* implement TrackOwnership: a track changes hands only to a fresh stream, and
\* is pushed only for the stream that owns it.
THEOREM StreamsImplementOwnership == Literal => (Spec => ImplementsOwnership)
  <1> SUFFICES ASSUME Literal PROVE Spec => ImplementsOwnership
    OBVIOUS
  <1>1. Init => Ownership!Init
    BY DEF Init, Ownership!Init, Owner
  <1>2. ASSUME IInv, IInv', [Next]_vars PROVE [Ownership!Next]_Ownership!vars
    <2>1. OneStreamPerTrack /\ OneStreamPerTrack'
      <3>1. OneStreamPerTrack
        BY <1>2, RunningIsUnique DEF IInv
      <3>2. OneStreamPerTrack'
        BY <1>2, StreamConstants
           DEF IInv, FieldTypes, MapsOwn, RunningIsKnown, Known, Present, OneStreamPerTrack
      <3>3. QED
        BY <3>1, <3>2
    <2>2. ASSUME NEW i \in Insts, Commands(i) PROVE Ownership!Command(TrackOf[i])
      <3>1. \A t \in Tracks : Owner(t)' = Owner(t)
        BY <2>2 DEF Commands, Owner
      <3>2. Owner(TrackOf[i]) = i /\ TrackOf[i] \in Tracks
        BY <2>1, <2>2, OwnerIsTheRunning, StreamConstants DEF Commands
      <3>3. QED
        BY <2>2, <3>1, <3>2, StreamConstants DEF Commands, Ownership!Command
    <2>3. CASE \A i \in Insts : ~Commands(i)
      <3>1. \E T \in SUBSET Tracks : Ownership!HandOver(T)
        BY <1>2, <2>1, <2>3, OthersOnlyStop, HandsOver DEF IInv
      <3>2. QED
        BY <3>1 DEF Ownership!Next
    <2>4. QED
      BY <2>2, <2>3, StreamConstants DEF Ownership!Next
  <1>3. QED
    BY <1>1, <1>2, Inductive, PTL DEF Spec, ImplementsOwnership, Ownership!Spec

-----------------------------------------------------------------------------
(* AudioEndpoint: the inductive invariant. *)

\* The sessions the model can have, and the types of the endpoint (the
\* listener), of the sessions and of the muxers.
Clients ==
    [st : {"none", "open", "closed"}, queue : Seq(Methods), busy : BOOLEAN,
     resolved : BOOLEAN, handle : Serves \cup {None}, tap : Serves \cup {None},
     played : BOOLEAN]

\* What waits is bounded, and only a DESCRIBE is waited for.
Waits(c) == /\ Len(c.queue) <= MaxQueue
            /\ c.busy => c.queue # << >> /\ Head(c.queue) = "DESCRIBE"

EndpointTypes ==
    /\ listener \in [Gens -> {"none", "opening", "up", "closing"}]
    /\ {server, starting, stopping} \subseteq Gens \cup {None}
    /\ again \in BOOLEAN

SessionTypes ==
    /\ sess \in [Sessions -> Clients]
    /\ \A s \in Sessions : Waits(sess[s])

MuxerTypes ==
    /\ alive \in BOOLEAN /\ serve \in 0..MaxServe
    /\ taps \in [Serves -> SUBSET Sessions]

\* The listener that is wanted is the one that starts or is up; while stop()
\* waits for one, none is wanted; any other is closed.
ListenersInOrder ==
    /\ server = starting
    /\ server # None => stopping = None /\ listener[server] \in {"opening", "up"}
    /\ stopping # None => listener[stopping] \in {"opening", "closing"}
    /\ \A g \in Gens \ {server, stopping} : listener[g] = "none"

\* What session s, with the fields c, knows of the muxers.
Tapped(s, c) ==
    /\ c.handle # None => c.handle <= serve
    /\ ~c.played => c.tap = None /\ \A i \in Serves : s \notin taps[i]
    /\ c.st = "none" => c = NoSession
    /\ c.st = "open" => /\ c.tap # None => s \in taps[c.tap]
                        /\ \A i \in Serves : s \in taps[i] => c.tap = i

\* Only the muxer that lives is tapped, by sessions that have played, and no
\* session knows a muxer that is not there yet.
TapsInOrder ==
    /\ alive => serve > 0
    /\ \A i \in Serves : taps[i] # {} => alive /\ i = serve
    /\ \A s \in Sessions : Tapped(s, sess[s])

\* What every step keeps.
AudioInv == EndpointTypes /\ SessionTypes /\ MuxerTypes /\ ListenersInOrder /\ TapsInOrder
-----------------------------------------------------------------------------
(* Sessions as values. *)

\* The fields of a session.
LEMMA ClientFields ==
    ASSUME NEW c \in Clients
    PROVE  /\ c.st \in {"none", "open", "closed"} /\ c.queue \in Seq(Methods)
           /\ c.busy \in BOOLEAN /\ c.resolved \in BOOLEAN /\ c.played \in BOOLEAN
           /\ c.handle \in Serves \cup {None} /\ c.tap \in Serves \cup {None}
  BY DEF Clients

\* A slot nobody has is a session of the model.
LEMMA NoSessionTypes ==
    /\ NoSession \in Clients /\ Waits(NoSession)
    /\ NoSession.st = "none" /\ NoSession.tap = None /\ NoSession.handle = None
    /\ NoSession.played = FALSE /\ NoSession.queue = << >> /\ NoSession.busy = FALSE
  <1>1. << >> \in Seq(Methods) /\ Len(<< >>) = 0 /\ MaxQueue \in Nat
    BY EmptySeq, AudioConstants
  <1>2. QED
    BY <1>1 DEF NoSession, Clients, Waits

\* What is closed keeps its requests and what it has played.
LEMMA ClosedTypes ==
    ASSUME NEW c \in Clients, Waits(c)
    PROVE  LET d == [c EXCEPT !.st = "closed", !.tap = None]
           IN  /\ d \in Clients /\ Waits(d) /\ d.st = "closed" /\ d.tap = None
               /\ d.played = c.played /\ d.handle = c.handle
               /\ d.queue = c.queue /\ d.busy = c.busy
  <1> DEFINE d == [c EXCEPT !.st = "closed", !.tap = None]
  <1>1. /\ d \in Clients /\ d.st = "closed" /\ d.tap = None
        /\ d.played = c.played /\ d.handle = c.handle /\ d.queue = c.queue /\ d.busy = c.busy
    BY DEF Clients
  <1>2. QED
    BY <1>1 DEF Waits

\* A request that was handled leaves the chain.
LEMMA HandledTypes ==
    ASSUME NEW c \in Clients, Waits(c), c.queue # << >>
    PROVE  LET d == Handled(c)
           IN  /\ d \in Clients /\ Len(d.queue) <= MaxQueue
               /\ d.st = c.st /\ d.tap = c.tap /\ d.played = c.played
               /\ d.handle = c.handle /\ d.busy = c.busy
  <1> DEFINE d == Handled(c)
  <1>1. /\ Tail(c.queue) \in Seq(Methods) /\ Len(Tail(c.queue)) = Len(c.queue) - 1
        /\ Len(c.queue) \in Nat
    BY ClientFields, HeadTailProperties, LenProperties
  <1>2. d.queue = Tail(c.queue) /\ d \in Clients
    BY <1>1 DEF Handled, Clients
  <1>3. /\ d.st = c.st /\ d.tap = c.tap /\ d.played = c.played
        /\ d.handle = c.handle /\ d.busy = c.busy
    BY DEF Handled, Clients
  <1>4. QED
    BY <1>1, <1>2, <1>3, AudioConstants DEF Waits

-----------------------------------------------------------------------------
(* The listener. *)

\* No method, listener or generation is None.
LEMMA NoneIsNone == /\ None \notin Gens /\ None \notin Nat /\ None \notin Serves
                    /\ MaxServe \in Nat /\ MaxQueue \in Nat
                    /\ Serves \subseteq Nat \ {0}
  BY AudioConstants DEF Serves

\* stop() is over and leaves a free port, or the start that waited for it.
LEMMA StoppedKeeps ==
    ASSUME EndpointTypes, ListenersInOrder,
           NEW ports \in [Gens -> {"none", "opening", "up", "closing"}],
           \A g \in Gens : ports[g] = "none", server = None, Stopped(ports)
    PROVE  EndpointTypes' /\ ListenersInOrder'
  <1>1. CASE ~again
    BY <1>1, NoneIsNone DEF EndpointTypes, ListenersInOrder, Stopped
  <1>2. CASE again
    <2>1. PICK g \in Gens : /\ server' = g /\ starting' = g
                            /\ listener' = [ports EXCEPT ![g] = "opening"]
      BY <1>2 DEF Stopped
    <2>2. stopping' = None /\ again' = FALSE
      BY DEF Stopped
    <2>3. EndpointTypes'
      BY <2>1, <2>2 DEF EndpointTypes
    <2>4. ListenersInOrder'
      BY <2>1, <2>2, NoneIsNone DEF ListenersInOrder
    <2>5. QED
      BY <2>3, <2>4
  <1>3. QED
    BY <1>1, <1>2

\* One listener goes up, fails, or has closed.
LEMMA ListeningNext ==
    ASSUME EndpointTypes, ListenersInOrder, Listening
    PROVE  EndpointTypes' /\ ListenersInOrder'
  <1>1. PICK g \in Gens : ListenUp(g) \/ ListenFails(g) \/ ListenerClosed(g)
    BY DEF Listening
  <1>2. ASSUME NEW p \in {"none", "up", "closing"},
               listener' = [listener EXCEPT ![g] = p],
               UNCHANGED <<starting, stopping, again, server>>,
               p = "up" => server = g, p = "closing" => stopping = g,
               p = "none" => server # g /\ stopping # g
        PROVE  EndpointTypes' /\ ListenersInOrder'
    BY <1>2, NoneIsNone DEF EndpointTypes, ListenersInOrder
  <1>3. listener[g] # "none" => g \in {server, stopping}
    BY DEF ListenersInOrder
  <1>4. CASE ListenUp(g)
    <2>1. CASE server = g
      <3>1. stopping # g
        BY <2>1, NoneIsNone DEF ListenersInOrder
      <3>2. listener' = [listener EXCEPT ![g] = "up"] /\ UNCHANGED <<starting, stopping, again, server>>
        BY <1>4, <2>1, <3>1 DEF ListenUp, StillWanted, Settled
      <3>3. QED
        BY <1>2, <2>1, <3>2
    <2>2. CASE server # g
      <3>1. listener' = [listener EXCEPT ![g] = "closing"] /\ UNCHANGED <<starting, stopping, again, server>>
        BY <1>4, <2>2 DEF ListenUp, StillWanted
      <3>2. stopping = g
        BY <1>3, <1>4, <2>2 DEF ListenUp
      <3>3. QED
        BY <1>2, <3>1, <3>2
    <2>3. QED
      BY <2>1, <2>2
  <1> DEFINE ports == [listener EXCEPT ![g] = "none"]
  <1>5. ports \in [Gens -> {"none", "opening", "up", "closing"}]
    BY DEF EndpointTypes
  <1>6. CASE stopping = g
    <2>1. server = None /\ \A d \in Gens : ports[d] = "none"
      BY <1>6, NoneIsNone DEF ListenersInOrder, EndpointTypes
    <2>2. ListenFails(g) \/ ListenerClosed(g) => Stopped(ports)
      BY <1>6 DEF ListenFails, ListenerClosed, Settled
    <2> HIDE DEF ports
    <2>3. QED
      BY <1>1, <1>4, <1>5, <2>1, <2>2, StoppedKeeps
  <1>7. CASE ListenFails(g) /\ stopping # g
    <2>1. /\ server = g /\ listener' = ports /\ server' = None /\ starting' = None
          /\ UNCHANGED <<stopping, again>>
      BY <1>3, <1>7 DEF ListenFails, ListenersInOrder
    <2>2. QED
      BY <2>1, NoneIsNone DEF EndpointTypes, ListenersInOrder
  <1>8. CASE ListenerClosed(g) /\ stopping # g
    <2>1. server = g /\ listener[g] = "closing"
      BY <1>3, <1>8 DEF ListenerClosed
    <2>2. QED
      BY <2>1, NoneIsNone DEF ListenersInOrder
  <1>9. QED
    BY <1>1, <1>4, <1>6, <1>7, <1>8

\* start() and stop().
LEMMA StartStopNext ==
    ASSUME EndpointTypes, ListenersInOrder, Start \/ Stop
    PROVE  EndpointTypes' /\ ListenersInOrder'
  <1>1. CASE Start
    <2>1. CASE stopping # None
      BY <1>1, <2>1 DEF Start, EndpointTypes, ListenersInOrder
    <2>2. CASE starting # None /\ stopping = None
      BY <1>1, <2>2 DEF Start, EndpointTypes, ListenersInOrder
    <2>3. CASE starting = None /\ stopping = None
      <3>1. PICK g \in Gens : Listen(g) /\ UNCHANGED again /\ UNCHANGED stopping
        BY <1>1, <2>3 DEF Start
      <3>2. QED
        BY <2>3, <3>1, NoneIsNone DEF Listen, EndpointTypes, ListenersInOrder
    <2>4. QED
      BY <2>1, <2>2, <2>3
  <1>2. CASE Stop
    <2>1. PICK g \in Gens : g = starting
      BY <1>2 DEF Stop, EndpointTypes
    <2>2. server = g /\ stopping = None /\ listener[g] \in {"opening", "up"}
      BY <1>2, <2>1, NoneIsNone DEF Stop, ListenersInOrder
    <2>3. /\ stopping' = g /\ server' = None /\ starting' = None /\ UNCHANGED again
          /\ listener' = IF listener[g] = "up" THEN [listener EXCEPT ![g] = "closing"] ELSE listener
      BY <1>2, <2>1 DEF Stop
    <2>4. listener' \in [Gens -> {"none", "opening", "up", "closing"}]
          /\ listener'[g] \in {"opening", "closing"}
          /\ \A d \in Gens \ {g} : listener'[d] = listener[d]
      BY <2>2, <2>3 DEF EndpointTypes
    <2>5. \A d \in Gens \ {g} : listener[d] = "none"
      BY <2>2, NoneIsNone DEF ListenersInOrder
    <2>6. EndpointTypes'
      BY <2>3, <2>4 DEF EndpointTypes
    <2>7. ListenersInOrder'
      BY <2>3, <2>4, <2>5, NoneIsNone DEF ListenersInOrder
    <2>8. QED
      BY <2>6, <2>7
  <1>3. QED
    BY <1>1, <1>2

\* The port is bound once, and by the listener that is known.
LEMMA OneIsBound ==
    ASSUME EndpointTypes, ListenersInOrder
    PROVE  OneListener
  <1> DEFINE bound == {g \in Gens : listener[g] # "none"}
  <1>1. bound \subseteq {server, stopping}
    BY DEF ListenersInOrder
  <1>2. server # None => server \in bound
    BY DEF ListenersInOrder, EndpointTypes
  <1>3. bound = {} \/ \E g \in Gens : bound = {g}
    BY NoneIsNone DEF ListenersInOrder, EndpointTypes
  <1>4. Cardinality(bound) <= 1
    <2> HIDE DEF bound
    <2>1. CASE bound = {}
      BY <2>1, FS_EmptySet
    <2>2. ASSUME NEW g \in Gens, bound = {g} PROVE Cardinality(bound) <= 1
      <3>1. Cardinality({g}) = 1
        BY FS_Singleton
      <3>2. QED
        BY <2>2, <3>1
    <2>3. QED
      BY <1>3, <2>1, <2>2
  <1>5. QED
    BY <1>1, <1>2, <1>4, Zenon DEF OneListener

-----------------------------------------------------------------------------
(* The sessions and the muxer. *)

\* What the sessions and the muxers keep.
SInv == SessionTypes /\ MuxerTypes /\ TapsInOrder

\* One session goes on, and the muxer does not.
LEMMA OneSession ==
    ASSUME SInv, NEW s \in Sessions, NEW x \in Clients, Waits(x), Tapped(s, x),
           sess' = [sess EXCEPT ![s] = x], UNCHANGED muxer
    PROVE  SInv'
  <1>1. /\ sess' \in [Sessions -> Clients] /\ sess'[s] = x
        /\ \A d \in Sessions \ {s} : sess'[d] = sess[d]
    BY DEF SInv, SessionTypes
  <1>2. UNCHANGED serve /\ UNCHANGED alive /\ UNCHANGED taps
    BY DEF muxer
  <1>3. SessionTypes'
    BY <1>1 DEF SInv, SessionTypes, Waits
  <1>4. MuxerTypes'
    BY <1>2 DEF SInv, MuxerTypes
  <1>5. \A d \in Sessions : Tapped(d, sess[d])'
    BY <1>1, <1>2 DEF SInv, TapsInOrder, Tapped
  <1>6. QED
    BY <1>2, <1>3, <1>4, <1>5 DEF SInv, TapsInOrder

\* A session that keeps its state and its tap is still in order.
LEMMA SameTap ==
    ASSUME SInv, NEW s \in Sessions, NEW x \in Clients, sess[s].st # "none",
           x.st = sess[s].st, x.tap = sess[s].tap, x.played = sess[s].played,
           x.handle # None => x.handle <= serve
    PROVE  Tapped(s, x)
  BY DEF SInv, TapsInOrder, Tapped

\* What is the head of a chain is of a session that somebody has.
LEMMA HeadIs ==
    ASSUME SInv, NEW s \in Sessions, NEW m, IsHead(s, m) \/ sess[s].busy
    PROVE  /\ sess[s] \in Clients /\ Waits(sess[s])
           /\ sess[s].queue # << >> /\ sess[s].st # "none"
           /\ sess[s].handle # None => sess[s].handle <= serve
  <1>1. sess[s] \in Clients /\ Waits(sess[s]) /\ Tapped(s, sess[s])
    BY DEF SInv, SessionTypes, TapsInOrder
  <1>2. sess[s].queue # << >>
    BY <1>1 DEF IsHead, Waits
  <1>3. sess[s].st # "none"
    BY <1>1, <1>2, NoSessionTypes DEF Tapped
  <1>4. QED
    BY <1>1, <1>2, <1>3 DEF Tapped

\* A session that goes on, or one that closes: its requests stay, less those
\* that were handled.
GoesOn(s) == sess'[s] = sess[s] /\ (sess[s].st = "open" => \A i \in Serves : s \in taps'[i] <=> s \in taps[i])
Closes(s) == /\ sess'[s].st = "closed" /\ sess'[s].tap = None
             /\ sess'[s].handle = sess[s].handle /\ sess'[s].played = sess[s].played

\* Sessions close, and take out their taps.
LEMMA SomeClose ==
    ASSUME SInv, sess' \in [Sessions -> Clients], \A s \in Sessions : Waits(sess'[s]),
           MuxerTypes', UNCHANGED serve, alive' => alive,
           \A i \in Serves : taps'[i] \subseteq taps[i] /\ (taps'[i] # {} => alive'),
           \A s \in Sessions : GoesOn(s) \/ Closes(s)
    PROVE  SInv'
  <1>1. SessionTypes'
    BY DEF SessionTypes, Waits
  <1>2. \A i \in Serves : taps'[i] # {} => alive' /\ i = serve'
    BY DEF SInv, TapsInOrder
  <1>3. ASSUME NEW s \in Sessions PROVE Tapped(s, sess[s])'
    <2>1. Tapped(s, sess[s]) /\ sess[s].tap \in Serves \cup {None}
      BY ClientFields DEF SInv, SessionTypes, TapsInOrder
    <2>2. CASE GoesOn(s)
      BY <2>1, <2>2 DEF GoesOn, Tapped
    <2>3. CASE Closes(s)
      BY <2>1, <2>3 DEF Closes, Tapped
    <2>4. QED
      BY <2>2, <2>3
  <1>4. QED
    BY <1>1, <1>2, <1>3 DEF SInv, TapsInOrder

\* close() of sessions.
LEMMA ClosingDoes ==
    ASSUME SInv, NEW S \in SUBSET Sessions, sess' = Closing(S)
    PROVE  /\ sess' \in [Sessions -> Clients] /\ \A s \in Sessions : Waits(sess'[s])
           /\ \A s \in S : Closes(s)
           /\ \A s \in Sessions \ S : sess'[s] = sess[s]
  <1>1. ASSUME NEW s \in Sessions
        PROVE  /\ sess'[s] \in Clients /\ Waits(sess'[s])
               /\ s \in S => Closes(s)
               /\ s \notin S => sess'[s] = sess[s]
    <2>1. sess[s] \in Clients /\ Waits(sess[s])
      BY DEF SInv, SessionTypes
    <2>2. QED
      BY <2>1, ClosedTypes DEF Closing, Closes
  <1>2. sess' \in [Sessions -> Clients]
    BY <1>1 DEF Closing
  <1>3. QED
    BY <1>1, <1>2

\* What is left of the taps.
LEMMA UntappedDoes ==
    ASSUME SInv, NEW S \in SUBSET Sessions, taps' = Untapped(S), UNCHANGED <<serve, alive>>
    PROVE  /\ MuxerTypes'
           /\ \A i \in Serves : /\ taps'[i] \subseteq taps[i] /\ (taps'[i] # {} => alive')
                                /\ \A s \in Sessions \ S : s \in taps'[i] <=> s \in taps[i]
  <1>1. /\ taps' \in [Serves -> SUBSET Sessions]
        /\ \A i \in Serves : /\ taps'[i] \subseteq taps[i]
                             /\ \A s \in Sessions \ S : s \in taps'[i] <=> s \in taps[i]
    BY DEF Untapped, SInv, MuxerTypes
  <1>2. \A i \in Serves : taps'[i] # {} => alive'
    BY <1>1 DEF SInv, TapsInOrder
  <1>3. QED
    BY <1>1, <1>2 DEF SInv, MuxerTypes

\* Together: the sessions in S end.
LEMMA CloseKeeps ==
    ASSUME SInv, NEW S \in SUBSET Sessions, CloseSessions(S)
    PROVE  SInv'
  <1>1. sess' = Closing(S) /\ taps' = Untapped(S) /\ UNCHANGED <<serve, alive>>
    BY DEF CloseSessions
  <1>2. \A s \in Sessions : GoesOn(s) \/ Closes(s)
    BY <1>1, ClosingDoes, UntappedDoes DEF GoesOn
  <1>3. QED
    BY <1>1, <1>2, ClosingDoes, UntappedDoes, SomeClose

\* The muxer dies, and who taps it is told.
LEMMA ServeDiesNext ==
    ASSUME SInv, ServeDies
    PROVE  SInv'
  <1> DEFINE S == taps[serve] \cap Open
  <1>1. serve \in Serves /\ S \subseteq Sessions
    BY NoneIsNone DEF SInv, MuxerTypes, TapsInOrder, ServeDies, Serves, Open
  <1>2. /\ UNCHANGED serve /\ alive' = FALSE /\ alive = TRUE
        /\ sess' = Closing(S) /\ taps' = [taps EXCEPT ![serve] = {}]
    BY DEF ServeDies, SInv, MuxerTypes
  <1>3. MuxerTypes'
    BY <1>1, <1>2 DEF SInv, MuxerTypes
  <1>4. \A i \in Serves : taps'[i] = {} /\ (taps[i] # {} => i = serve)
    BY <1>1, <1>2 DEF SInv, MuxerTypes, TapsInOrder
  <1>5. ASSUME NEW s \in Sessions, s \notin S PROVE GoesOn(s)
    <2>1. sess'[s] = sess[s]
      BY <1>1, <1>2, <1>5, ClosingDoes
    <2>2. sess[s].st = "open" => s \notin taps[serve]
      BY <1>5 DEF Open
    <2>3. QED
      BY <1>4, <2>1, <2>2 DEF GoesOn
  <1>6. \A s \in S : Closes(s)
    BY <1>1, <1>2, ClosingDoes
  <1>7. QED
    BY <1>1, <1>2, <1>3, <1>4, <1>5, <1>6, ClosingDoes, SomeClose

\* A client connects, sends a request, or leaves.
LEMMA ClientNext ==
    ASSUME SInv, NEW s \in Sessions, Client(s)
    PROVE  SInv' /\ UNCHANGED endpoint
  <1>0. sess[s] \in Clients /\ Waits(sess[s]) /\ Tapped(s, sess[s])
    BY DEF SInv, SessionTypes, TapsInOrder
  <1>1. CASE Connect(s)
    <2> DEFINE x == [NoSession EXCEPT !.st = "open"]
    <2>1. sess[s] = NoSession /\ UNCHANGED endpoint /\ UNCHANGED muxer
      BY <1>0, <1>1 DEF Connect, Tapped
    <2>2. x \in Clients /\ Waits(x) /\ x.st = "open" /\ x.tap = None /\ x.handle = None
          /\ x.played = FALSE
      BY NoSessionTypes DEF Clients, Waits, NoSession
    <2>3. sess' = [sess EXCEPT ![s] = x]
      BY <1>1, <2>1, Zenon DEF Connect
    <2>4. Tapped(s, x)
      BY <1>0, <2>1, <2>2, NoSessionTypes DEF Tapped
    <2> HIDE DEF x
    <2>5. QED
      BY <2>1, <2>2, <2>3, <2>4, OneSession
  <1>2. ASSUME NEW m \in Methods, Send(s, m) PROVE SInv' /\ UNCHANGED endpoint
    <2> DEFINE q == Append(sess[s].queue, m)
               x == [sess[s] EXCEPT !.queue = q]
    <2>1. /\ sess[s].st = "open" /\ Len(sess[s].queue) < MaxQueue
          /\ UNCHANGED endpoint /\ UNCHANGED muxer
      BY <1>2 DEF Send, Open
    <2>2. sess' = [sess EXCEPT ![s] = x]
      BY <1>2, Zenon DEF Send, Queued
    <2>3. /\ q \in Seq(Methods) /\ Len(q) = Len(sess[s].queue) + 1
          /\ sess[s].queue # << >> => Head(q) = Head(sess[s].queue)
      <3>1. sess[s].queue \in Seq(Methods)
        BY <1>0, ClientFields
      <3>2. /\ q \in Seq(Methods) /\ Len(q) = Len(sess[s].queue) + 1
            /\ \A i \in 1..Len(sess[s].queue) : q[i] = sess[s].queue[i]
        BY <3>1, AppendProperties
      <3>3. sess[s].queue # << >> => 1 \in 1..Len(sess[s].queue) /\ Head(sess[s].queue) = sess[s].queue[1]
        BY <3>1, EmptySeq, LenProperties, HeadTailProperties
      <3>4. Head(q) = q[1]
        BY <3>2, <3>1, EmptySeq, LenProperties, HeadTailProperties
      <3>5. QED
        BY <3>2, <3>3, <3>4
    <2> HIDE DEF q
    <2>4. /\ x \in Clients /\ x.queue = q /\ x.st = sess[s].st /\ x.tap = sess[s].tap
          /\ x.played = sess[s].played /\ x.handle = sess[s].handle /\ x.busy = sess[s].busy
      BY <1>0, <2>3 DEF Clients
    <2> HIDE DEF x
    <2>5. Waits(x)
      <3>1. Len(sess[s].queue) \in Nat /\ (q = << >> => Len(q) = 0)
        BY <1>0, ClientFields, LenProperties, EmptySeq
      <3>2. QED
        BY <1>0, <2>1, <2>3, <2>4, <3>1, NoneIsNone DEF Waits
    <2>6. Tapped(s, x)
      BY <1>0, <2>1, <2>4, SameTap DEF Tapped
    <2>7. QED
      BY <2>1, <2>2, <2>4, <2>5, <2>6, OneSession
  <1>3. CASE ClientEnds(s) \/ Backlogged(s)
    <2>1. s \in Open /\ CloseSessions({s}) /\ UNCHANGED endpoint
      BY <1>3 DEF ClientEnds, Backlogged
    <2>2. QED
      BY <2>1, CloseKeeps
  <1>4. QED
    BY <1>1, <1>2, <1>3 DEF Client

\* The chain of a session goes on: DESCRIBE.
LEMMA DescribeNext ==
    ASSUME SInv, NEW s \in Sessions,
           Describe(s) \/ ResolveFails(s) \/ \E audio \in BOOLEAN : Resolve(s, audio)
    PROVE  SInv' /\ UNCHANGED endpoint
  <1> DEFINE c == sess[s]
  <1>0. c \in Clients /\ Waits(c) /\ c.queue # << >> /\ c.st # "none"
        /\ (c.handle # None => c.handle <= serve)
    BY HeadIs DEF Describe, IsNext, ResolveFails, Resolve
  <1>1. LET d == Handled(c)
        IN  /\ d \in Clients /\ Len(d.queue) <= MaxQueue
            /\ d.st = c.st /\ d.tap = c.tap /\ d.played = c.played
            /\ d.handle = c.handle /\ d.busy = c.busy
    BY <1>0, HandledTypes
  <1>2. CASE Describe(s)
    <2>0. ~c.busy /\ Head(c.queue) = "DESCRIBE" /\ UNCHANGED endpoint /\ UNCHANGED muxer
      BY <1>2 DEF Describe, IsNext, IsHead
    <2>1. CASE c.resolved
      <3> DEFINE x == Handled(c)
      <3>1. sess' = [sess EXCEPT ![s] = x]
        BY <1>2, <2>1, Zenon DEF Describe
      <3>2. Waits(x) /\ Tapped(s, x)
        BY <1>0, <1>1, <2>0, SameTap DEF Waits
      <3> HIDE DEF x
      <3>3. QED
        BY <1>1, <2>0, <3>1, <3>2, OneSession DEF x
    <2>2. CASE ~c.resolved
      <3> DEFINE x == [c EXCEPT !.busy = TRUE]
      <3>1. sess' = [sess EXCEPT ![s] = x]
        BY <1>2, <2>2, Zenon DEF Describe
      <3>2. /\ x \in Clients /\ x.st = c.st /\ x.tap = c.tap /\ x.played = c.played
            /\ x.handle = c.handle /\ x.queue = c.queue
        BY <1>0 DEF Clients
      <3> HIDE DEF x
      <3>3. Waits(x) /\ Tapped(s, x)
        BY <1>0, <2>0, <3>2, SameTap DEF Waits
      <3>4. QED
        BY <2>0, <3>1, <3>2, <3>3, OneSession
    <2>3. QED
      BY <2>1, <2>2
  <1>3. CASE ResolveFails(s)
    <2>1. PICK found \in {c.handle, None} :
              sess' = [sess EXCEPT ![s] = [Handled(@) EXCEPT !.busy = FALSE, !.handle = found]]
      BY <1>3 DEF ResolveFails
    <2> DEFINE x == [Handled(c) EXCEPT !.busy = FALSE, !.handle = found]
    <2>2. UNCHANGED endpoint /\ UNCHANGED muxer
      BY <1>3 DEF ResolveFails
    <2>3. sess' = [sess EXCEPT ![s] = x]
      BY <2>1, Zenon
    <2>4. found \in Serves \cup {None} /\ (found # None => found <= serve)
      BY <1>0, ClientFields
    <2>5. /\ x \in Clients /\ x.st = c.st /\ x.tap = c.tap /\ x.played = c.played
          /\ x.handle = found /\ x.queue = Handled(c).queue /\ x.busy = FALSE
      BY <1>1, <2>4 DEF Clients
    <2> HIDE DEF x
    <2>6. Waits(x) /\ Tapped(s, x)
      BY <1>0, <1>1, <2>4, <2>5, SameTap DEF Waits
    <2>7. QED
      BY <2>2, <2>3, <2>5, <2>6, OneSession
  <1>4. ASSUME NEW audio \in BOOLEAN, Resolve(s, audio) PROVE SInv' /\ UNCHANGED endpoint
    <2> DEFINE x == [Handled(c) EXCEPT !.busy = FALSE, !.handle = serve', !.resolved = audio]
    <2>1. /\ UNCHANGED endpoint /\ UNCHANGED taps
          /\ sess' = [sess EXCEPT ![s] = x]
      BY <1>4, Zenon DEF Resolve
    <2>2. /\ serve \in 0..MaxServe /\ alive \in BOOLEAN /\ (alive => serve > 0)
          /\ \A i \in Serves : taps[i] # {} => alive /\ i = serve
      BY DEF SInv, MuxerTypes, TapsInOrder
    <2>3. /\ alive' = TRUE /\ serve' \in Serves /\ serve <= serve'
          /\ (alive => serve' = serve)
      <3>1. IF alive THEN UNCHANGED <<serve, alive>>
            ELSE serve < MaxServe /\ serve' = serve + 1 /\ alive' = TRUE
        BY <1>4, Zenon DEF Resolve
      <3>2. QED
        BY <2>2, <3>1, NoneIsNone DEF Serves
    <2>4. /\ x \in Clients /\ x.st = c.st /\ x.tap = c.tap /\ x.played = c.played
          /\ x.handle = serve' /\ x.queue = Handled(c).queue /\ x.busy = FALSE
      BY <1>1, <2>3 DEF Clients
    <2> HIDE DEF x
    <2>5. /\ sess' \in [Sessions -> Clients] /\ sess'[s] = x
          /\ \A d \in Sessions \ {s} : sess'[d] = sess[d]
      BY <2>1, <2>4 DEF SInv, SessionTypes
    <2>6. SessionTypes'
      BY <1>1, <2>4, <2>5 DEF SInv, SessionTypes, Waits
    <2>7. MuxerTypes'
      BY <2>1, <2>3, NoneIsNone DEF SInv, MuxerTypes, Serves
    <2>8. ASSUME NEW d \in Sessions PROVE Tapped(d, sess[d])'
      <3>1. Tapped(d, sess[d]) /\ sess[d].handle \in Serves \cup {None}
        BY ClientFields DEF SInv, SessionTypes, TapsInOrder
      <3>2. sess[d].handle # None => sess[d].handle <= serve'
        BY <2>2, <2>3, <3>1, NoneIsNone DEF Tapped, Serves
      <3>3. CASE d = s
        BY <1>0, <2>1, <2>3, <2>4, <2>5, <3>1, <3>3, NoneIsNone DEF Tapped, Serves
      <3>4. CASE d # s
        BY <2>1, <2>5, <3>1, <3>2, <3>4 DEF Tapped
      <3>5. QED
        BY <3>3, <3>4
    <2>9. QED
      BY <2>1, <2>2, <2>3, <2>6, <2>7, <2>8, NoneIsNone DEF SInv, TapsInOrder, Serves
  <1>5. QED
    BY <1>2, <1>3, <1>4

\* The chain goes on: PLAY taps the muxer that lives, or ends the session.
LEMMA PlayNext ==
    ASSUME SInv, NEW s \in Sessions, Play(s)
    PROVE  SInv' /\ UNCHANGED endpoint
  <1> DEFINE d == Handled(sess[s])
             c == [d EXCEPT !.played = TRUE]
             i == c.handle
  <1>0. /\ sess[s] \in Clients /\ Waits(sess[s]) /\ sess[s].queue # << >>
        /\ sess[s].st # "none" /\ ~sess[s].busy
        /\ (sess[s].handle # None => sess[s].handle <= serve)
    BY HeadIs DEF Play, IsNext
  <1>1. /\ d \in Clients /\ Len(d.queue) <= MaxQueue
        /\ d.st = sess[s].st /\ d.tap = sess[s].tap /\ d.played = sess[s].played
        /\ d.handle = sess[s].handle /\ d.busy = FALSE
    BY <1>0, HandledTypes
  <1> HIDE DEF d
  <1>2. /\ c \in Clients /\ c.st = d.st /\ c.tap = d.tap /\ c.played = TRUE
        /\ c.handle = d.handle /\ c.queue = d.queue /\ c.busy = FALSE
    BY <1>1 DEF Clients
  <1> HIDE DEF c
  <1>3. IF sess[s].played \/ i = None
        THEN sess' = [sess EXCEPT ![s] = c] /\ UNCHANGED taps
        ELSE IF TakesTap(i)
        THEN taps' = [taps EXCEPT ![i] = @ \cup {s}] /\ sess' = [sess EXCEPT ![s] = [c EXCEPT !.tap = i]]
        ELSE sess' = [sess EXCEPT ![s] = [c EXCEPT !.st = "closed"]] /\ UNCHANGED taps
    BY Zenon DEF Play, c, d
  <1>4. UNCHANGED endpoint /\ UNCHANGED serve /\ UNCHANGED alive
    BY Zenon DEF Play
  <1>5. Tapped(s, sess[s]) /\ i \in Serves \cup {None}
    BY <1>2, ClientFields DEF SInv, TapsInOrder
  <1>6. CASE sess[s].played \/ i = None
    <2>1. sess' = [sess EXCEPT ![s] = c] /\ UNCHANGED muxer
      BY <1>3, <1>4, <1>6 DEF muxer
    <2>2. Waits(c) /\ Tapped(s, c)
      BY <1>0, <1>1, <1>2, <1>5, <1>6 DEF Waits, Tapped
    <2>3. QED
      BY <1>2, <1>4, <2>1, <2>2, OneSession
  <1>7. CASE ~sess[s].played /\ i # None /\ ~TakesTap(i)
    <2> DEFINE x == [c EXCEPT !.st = "closed"]
    <2>1. sess' = [sess EXCEPT ![s] = x] /\ UNCHANGED muxer
      BY <1>3, <1>4, <1>7 DEF muxer
    <2>2. /\ x \in Clients /\ x.st = "closed" /\ x.played = TRUE /\ x.handle = c.handle
          /\ x.queue = c.queue /\ x.busy = FALSE
      BY <1>2 DEF Clients
    <2> HIDE DEF x
    <2>3. Waits(x) /\ Tapped(s, x)
      BY <1>0, <1>1, <1>2, <2>2 DEF Waits, Tapped
    <2>4. QED
      BY <1>4, <2>1, <2>2, <2>3, OneSession
  <1>8. CASE ~sess[s].played /\ i # None /\ TakesTap(i)
    <2> DEFINE x == [c EXCEPT !.tap = i]
    <2>1. i \in Serves /\ alive /\ i = serve /\ serve \in Serves
      BY <1>0, <1>1, <1>2, <1>5, <1>8, NoneIsNone DEF TakesTap, Dead, SInv, MuxerTypes, Serves
    <2>2. /\ sess' = [sess EXCEPT ![s] = x]
          /\ taps' = [taps EXCEPT ![i] = taps[i] \cup {s}]
      BY <1>3, <1>8
    <2>3. /\ x \in Clients /\ x.st = c.st /\ x.played = TRUE /\ x.handle = c.handle
          /\ x.tap = i /\ x.queue = c.queue /\ x.busy = FALSE
      BY <1>2, <2>1 DEF Clients
    <2> HIDE DEF x
    <2>4. /\ sess' \in [Sessions -> Clients] /\ sess'[s] = x
          /\ \A e \in Sessions \ {s} : sess'[e] = sess[e]
      BY <2>2, <2>3 DEF SInv, SessionTypes
    <2>5. SessionTypes'
      BY <1>1, <1>2, <2>3, <2>4 DEF SInv, SessionTypes, Waits
    <2>6. /\ MuxerTypes'
          /\ \A j \in Serves : j # i => taps'[j] = taps[j]
          /\ taps'[i] = taps[i] \cup {s}
      BY <1>4, <2>1, <2>2 DEF SInv, MuxerTypes
    <2>7. \A j \in Serves : taps'[j] # {} => alive' /\ j = serve'
      BY <1>4, <2>1, <2>6 DEF SInv, TapsInOrder
    <2>8. ASSUME NEW e \in Sessions PROVE Tapped(e, sess[e])'
      <3>1. Tapped(e, sess[e]) /\ sess[e].tap \in Serves \cup {None}
        BY ClientFields DEF SInv, SessionTypes, TapsInOrder
      <3>2. CASE e = s
        BY <1>0, <1>1, <1>2, <1>4, <1>5, <1>8, <2>1, <2>3, <2>4, <2>6, <3>2 DEF Tapped
      <3>3. CASE e # s
        BY <1>4, <2>1, <2>4, <2>6, <3>1, <3>3 DEF Tapped
      <3>4. QED
        BY <3>2, <3>3
    <2>9. QED
      BY <1>4, <2>1, <2>5, <2>6, <2>7, <2>8, NoneIsNone DEF SInv, TapsInOrder
  <1>9. QED
    BY <1>6, <1>7, <1>8

\* The chain goes on: TEARDOWN closes the session; and a slot is free again.
LEMMA TeardownNext ==
    ASSUME SInv, NEW s \in Sessions, Teardown(s) \/ Forget(s)
    PROVE  SInv' /\ UNCHANGED endpoint
  <1> DEFINE d == Handled(sess[s])
  <1>1. CASE Teardown(s)
    <2>0. /\ sess[s] \in Clients /\ Waits(sess[s]) /\ sess[s].queue # << >>
          /\ sess[s].st # "none" /\ ~sess[s].busy
          /\ (sess[s].handle # None => sess[s].handle <= serve)
      BY <1>1, HeadIs DEF Teardown, IsNext
    <2>1. /\ d \in Clients /\ Len(d.queue) <= MaxQueue
          /\ d.st = sess[s].st /\ d.tap = sess[s].tap /\ d.played = sess[s].played
          /\ d.handle = sess[s].handle /\ d.busy = FALSE
      BY <2>0, HandledTypes
    <2>2. Waits(d)
      BY <2>1 DEF Waits
    <2>3. UNCHANGED endpoint /\ UNCHANGED serve /\ UNCHANGED alive
      BY <1>1, Zenon DEF Teardown
    <2>4. CASE s \notin Open
      <3>1. sess' = [sess EXCEPT ![s] = d] /\ UNCHANGED taps
        BY <1>1, <2>4, Zenon DEF Teardown
      <3> HIDE DEF d
      <3>2. Tapped(s, d) /\ UNCHANGED muxer
        BY <2>0, <2>1, <2>3, <3>1, SameTap DEF muxer
      <3>3. QED
        BY <2>1, <2>2, <2>3, <3>1, <3>2, OneSession
    <2>5. CASE s \in Open
      <3> DEFINE c == [sess[s] EXCEPT !.st = "closed", !.tap = None]
                 x == Handled(c)
      <3>1. /\ sess' = [Closing({s}) EXCEPT ![s] = Handled(@)] /\ taps' = Untapped({s})
            /\ UNCHANGED <<serve, alive>>
        BY <1>1, <2>3, <2>5, Zenon DEF Teardown
      <3>2. /\ c \in Clients /\ Waits(c) /\ c.queue # << >> /\ c.st = "closed" /\ c.tap = None
            /\ c.played = sess[s].played /\ c.handle = sess[s].handle /\ c.busy = FALSE
        <4>1. /\ c \in Clients /\ Waits(c) /\ c.st = "closed" /\ c.tap = None
              /\ c.played = sess[s].played /\ c.handle = sess[s].handle
              /\ c.queue = sess[s].queue /\ c.busy = sess[s].busy
          BY <2>0, ClosedTypes
        <4>2. sess[s].busy = FALSE
          BY <2>0, ClientFields
        <4> HIDE DEF c
        <4>3. QED
          BY <2>0, <4>1, <4>2
      <3>3. Closing({s}) = [sess EXCEPT ![s] = c]
        BY DEF Closing, SInv, SessionTypes
      <3>4. sess' = [sess EXCEPT ![s] = x]
        BY <3>1, <3>3 DEF SInv, SessionTypes
      <3> HIDE DEF c
      <3>5. /\ x \in Clients /\ Len(x.queue) <= MaxQueue /\ x.st = "closed" /\ x.tap = None
            /\ x.played = sess[s].played /\ x.handle = sess[s].handle /\ x.busy = FALSE
        BY <3>2, HandledTypes
      <3> HIDE DEF x
      <3>6. /\ sess' \in [Sessions -> Clients] /\ sess'[s] = x
            /\ \A e \in Sessions \ {s} : sess'[e] = sess[e]
        BY <3>4, <3>5 DEF SInv, SessionTypes
      <3>7. \A e \in Sessions : Waits(sess'[e])
        BY <3>5, <3>6 DEF SInv, SessionTypes, Waits
      <3>8. /\ MuxerTypes'
            /\ \A i \in Serves : /\ taps'[i] \subseteq taps[i] /\ (taps'[i] # {} => alive')
                                 /\ \A e \in Sessions \ {s} : e \in taps'[i] <=> e \in taps[i]
        <4> DEFINE S == {s}
        <4>1. S \in SUBSET Sessions /\ taps' = Untapped(S)
          BY <3>1
        <4> HIDE DEF S
        <4>2. /\ MuxerTypes'
              /\ \A i \in Serves : /\ taps'[i] \subseteq taps[i] /\ (taps'[i] # {} => alive')
                                   /\ \A e \in Sessions \ S : e \in taps'[i] <=> e \in taps[i]
          BY <3>1, <4>1, UntappedDoes
        <4>3. QED
          BY <4>2 DEF S
      <3>9. \A e \in Sessions : GoesOn(e) \/ Closes(e)
        <4>1. Closes(s)
          BY <3>5, <3>6 DEF Closes
        <4>2. \A e \in Sessions \ {s} : GoesOn(e)
          BY <3>6, <3>8 DEF GoesOn
        <4>3. QED
          BY <4>1, <4>2
      <3>10. UNCHANGED serve /\ (alive' => alive)
        BY <2>3
      <3>11. QED
        BY <2>3, <3>6, <3>7, <3>8, <3>9, <3>10, SomeClose
    <2>6. QED
      BY <2>4, <2>5
  <1>2. CASE Forget(s)
    <2>1. sess' = [sess EXCEPT ![s] = NoSession] /\ UNCHANGED endpoint /\ UNCHANGED muxer
      BY <1>2, Zenon DEF Forget
    <2>2. Tapped(s, NoSession)
      BY <1>2, NoSessionTypes DEF Forget, Tapped
    <2>3. QED
      BY <2>1, <2>2, NoSessionTypes, OneSession
  <1>3. QED
    BY <1>1, <1>2

-----------------------------------------------------------------------------
(* The specification. *)

\* What the run checks follows.
LEMMA AudioImplied == ASSUME AudioInv PROVE AudioTypeOK /\ EndpointAgrees
  <1>1. AudioTypeOK /\ OldestFirst
    <2>1. ASSUME NEW s \in Sessions
          PROVE  /\ sess[s].st \in {"none", "open", "closed"}
                 /\ sess[s].queue \in Seq(Methods) /\ Len(sess[s].queue) <= MaxQueue
                 /\ {sess[s].busy, sess[s].resolved, sess[s].played} \subseteq BOOLEAN
                 /\ {sess[s].handle, sess[s].tap} \subseteq Serves \cup {None}
                 /\ sess[s].busy => IsHead(s, "DESCRIBE")
      <3>1. sess[s] \in Clients /\ Waits(sess[s])
        BY DEF AudioInv, SessionTypes
      <3>2. QED
        BY <3>1, ClientFields DEF Waits, IsHead
    <2>2. QED
      BY <2>1 DEF AudioInv, EndpointTypes, MuxerTypes, AudioTypeOK, OldestFirst
  <1>2. TapsFollowServe
    BY ClientFields, NoneIsNone
       DEF AudioInv, TapsInOrder, Tapped, TapsFollowServe, Open, Dead, SessionTypes
  <1>3. QED
    BY <1>1, <1>2, OneIsBound DEF AudioInv, EndpointAgrees

\* It holds at first.
LEMMA AudioInitHolds == AudioInit => AudioInv
  <1> SUFFICES ASSUME AudioInit PROVE AudioInv
    OBVIOUS
  <1> USE DEF AudioInit
  <1>1. EndpointTypes /\ ListenersInOrder
    BY NoneIsNone DEF EndpointTypes, ListenersInOrder
  <1>2. SessionTypes
    BY NoSessionTypes DEF SessionTypes
  <1>3. MuxerTypes
    <2>1. taps \in [Serves -> SUBSET Sessions]
      OBVIOUS
    <2>2. alive \in BOOLEAN /\ serve = 0
      OBVIOUS
    <2>3. QED
      BY <2>1, <2>2, NoneIsNone DEF MuxerTypes
  <1>4. TapsInOrder
    BY NoSessionTypes DEF TapsInOrder, Tapped
  <1>5. QED
    BY <1>1, <1>2, <1>3, <1>4 DEF AudioInv

\* And every step keeps it: one case for each kind.
LEMMA AudioStepHolds == AudioInv /\ [AudioNext]_audioVars => AudioInv'
  <1> SUFFICES ASSUME AudioInv, [AudioNext]_audioVars PROVE AudioInv'
    OBVIOUS
  <1>0. SInv /\ EndpointTypes /\ ListenersInOrder
    BY DEF AudioInv, SInv
  <1>1. ASSUME UNCHANGED endpoint PROVE EndpointTypes' /\ ListenersInOrder'
    BY <1>0, <1>1 DEF endpoint, EndpointTypes, ListenersInOrder
  <1>2. ASSUME UNCHANGED <<sess, muxer>> PROVE SInv'
    BY <1>0, <1>2 DEF muxer, SInv, SessionTypes, MuxerTypes, TapsInOrder, Tapped
  <1>3. CASE Start \/ Listening
    <2>1. UNCHANGED <<sess, muxer>>
      BY <1>3 DEF Start, Listening, ListenUp, ListenFails, ListenerClosed
    <2>2. QED
      BY <1>0, <1>2, <1>3, <2>1, StartStopNext, ListeningNext DEF AudioInv, SInv
  <1>4. CASE Stop
    <2>1. CloseSessions(Open) /\ Open \in SUBSET Sessions
      BY <1>4 DEF Stop, Open
    <2>2. QED
      BY <1>0, <1>4, <2>1, StartStopNext, CloseKeeps DEF AudioInv, SInv
  <1>5. CASE ServeDies
    <2>1. UNCHANGED endpoint
      BY <1>5 DEF ServeDies
    <2>2. QED
      BY <1>0, <1>1, <1>5, <2>1, ServeDiesNext DEF AudioInv, SInv
  <1>6. ASSUME NEW s \in Sessions, Client(s) \/ Chain(s) \/ Forget(s) PROVE AudioInv'
    <2>1. SInv' /\ UNCHANGED endpoint
      BY <1>0, <1>6, ClientNext, DescribeNext, PlayNext, TeardownNext DEF Chain
    <2>2. QED
      BY <1>1, <2>1 DEF AudioInv, SInv
  <1>7. CASE UNCHANGED audioVars
    BY <1>1, <1>2, <1>7 DEF audioVars, AudioInv, SInv
  <1>8. QED
    BY <1>3, <1>4, <1>5, <1>6, <1>7 DEF AudioNext

\* The types.
THEOREM AudioTypesHold == AudioSpec => []AudioTypeOK
  <1>1. AudioInv => AudioTypeOK
    BY AudioImplied
  <1>2. QED
    BY <1>1, AudioInitHolds, AudioStepHolds, PTL DEF AudioSpec

\* The endpoint agrees with its listener, with the muxers and with its clients' order.
THEOREM AgreementHolds == AudioSpec => []EndpointAgrees
  <1>1. AudioInv => EndpointAgrees
    BY AudioImplied
  <1>2. QED
    BY <1>1, AudioInitHolds, AudioStepHolds, PTL DEF AudioSpec
=============================================================================
