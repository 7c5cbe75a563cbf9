# A TLA+ model of the UniFi Direct plugin for Scrypted

The plugin (`src/src/*.ts`) stands in for a UniFi controller: cameras connect to
it, are told to push their video to it, and it serves what they push as RTSP.
Its difficulty is not in any one algorithm but in its life cycles. Everything
runs in one Node process, where a callback is never interrupted, but almost every
operation awaits something that takes seconds (a DNS lookup, a listening socket,
a camera) while the same object is stopped, replaced or asked again. This
project models those life cycles, checks them with TLC and proves the safety of
each, and the refinement of the stream layer's promise, with TLAPS.

## 1. The system

| Component | State | Operations | Hard because |
|---|---|---|---|
| Push listeners (`push-registry.ts`) | one listener per track port, routes per camera address, held connections | `register`, `unregister`, `close`, connection dispatch, grace hold and its timer | `register` awaits `listen()` while others register, unregister or close; a camera's push may arrive before its route |
| Stream maps (`camera.ts`) | `streams`, `pendingStreams`, `creating`, `streamGen`, the selected audio profile | `getOrCreateStream`, `resetStreams`, `adoptAudioProfile`, reaping, settings, `release` | creation takes seconds, during which anything above may run |
| Stream start and stop (`direct-stream.ts`) | `stopped`, route, serve, ready timer | `start`, `stop`, `promote` | `stop()` can cut every await of `start()` |
| Push table and management session (`controller-emulator.ts`) | `activeStreams`, sessions, serializer codec | `startStream`, `stopStream`, `quiesceSubstreams`, handshake | commands into a half-open socket are lost; the camera keeps what an earlier process configured |
| Ingress (`direct-stream.ts`) | candidate connection, settle buffer, handoff source, pause reasons | `onCamera`, `adopt`, `promote`, `onSocketClose`, pausing | duplicate and overlapping pushes, three independent reasons to pause one socket |
| Egress (`native-rtsp.ts`) | paced queues, epoch and drain timer, GOP history, listener, RTSP sessions | access units in, `drain`, handoff, PLAY, restart, `destroy` | timers, camera clocks that jump, clients that join in the middle |
| Snapshots (`snapshots.ts`) | caches, in-flight captures, native stills, resizes, generations | `getPicture`, `getFrame`, `captureJpeg`, `clearCache`, `reset` | results arrive after the camera or a setting changed; requests share work and have deadlines |
| Audio endpoint (`audio-rtsp.ts`, `rtsp-session.ts`) | one listener with `starting`/`stopping`, sessions with a request chain, taps of a muxer | `start`, `stop`, DESCRIBE, PLAY, TEARDOWN | `start` and `stop` overlap; the muxer found by DESCRIBE dies before PLAY |
| Camera API client (`client.ts`) | cookie, `loginPromise`, back-off | `login`, `authed` and the calls built on it | concurrent calls share one login; one deadline over four requests |
| Management listener (`controller-emulator.ts`) | server with `starting`/`stopping`, one session per MAC, handshake timers | `start`, `stop`, upgrade, hello, paramAgreement, close | a camera reconnects before its old socket is seen to close; `stop()` while `listen()` is in flight |
| Provider (`provider.ts`) | emulator, cameras, timers, audio server, init and shutdown promises | `init` with retry, `createDevice`, `getDevice`, `releaseDevice`, `shutdown`, repair | shutdown can cut every await of init |
| Zones (`camera-zones.ts`, `camera.ts`) | zones and latches in the storage, apply chain, `applyQueued`, import | `putSetting`, `queueApply`, `doApplyZones`, `applyPrivacyMasks`, `importCameraZones`, `release` | saves and imports while an apply runs; a mask update is two requests with a pause between; replies are lost |
| Detections (`detections.ts`) | smart events, motion holds, one timer | camera events, timers, `dispose` | lost end events; several deadlines on one timer; a throttle |

How they interact. A viewer asks a camera object for a stream; it creates a
`DirectStream`, which registers a route with the push registry and has the
emulator command the camera. The camera's connection is dispatched by the
registry to the stream's `onCamera` callback (ingress); after it has settled,
the bytes are piped into a muxer (egress), whose RTSP address is what the viewer
gets. The muxer reports queue pressure back to the ingress, which pauses the
socket, and tells its owner when it dies. Snapshots read a keyframe from the
running stream or use the API client. The audio endpoint obtains a stream the
same way as a viewer and taps its packets. The provider owns the singletons.

## 2. Modules

All models take an action to be one callback, or one continuation after an
await, with every call it makes: that is the atomicity of Node. Where the code
relies on continuations being run before the next event, the module says so with
a guard (`Quiet` or `Idle`).

| Module | Models | Configurations |
|---|---|---|
| `PushRegistry` | push-registry.ts, whole | `MCPushRegistry` |
| `PushRegistryProofs` | theorems about `PushRegistry` | |
| `StreamLifecycle` | stream maps, `DirectStream.start/stop`, push table, management session, camera | `MCStreamLifecycle`, `MCStreamLifecycleLossy`, `MCStreamStolenPush`, `MCStreamMixedCodec` |
| `TrackOwnership` | the abstract promise of the stream layer | implemented by `StreamLifecycle` |
| `StreamProofs` | theorems about `StreamLifecycle`, with the refinement of `TrackOwnership`, and about `AudioEndpoint` | |
| `Snapshots` | snapshots.ts | `MCSnapshots`, `MCSnapshotsPolls`, `MCSnapshotsLive`, `MCSnapshotsForeignSize`, `MCSnapshotsEventJoins` |
| `SnapshotsProofs` | theorems about `Snapshots` | |
| `Egress` | `startNativeServe()` from the first access unit to `destroy()` | `MCEgress` |
| `EgressProofs` | theorems about `Egress` | |
| `Ingress` | `onCamera` to `onSocketClose` of one `DirectStream` | `MCIngress` |
| `IngressProofs` | theorems about `Ingress` | |
| `AudioEndpoint` | audio-rtsp.ts with its sessions | `MCAudioEndpoint`, `MCAudioEndpointLeaver` |
| `LoginClient` | `login()` and `authed()` of client.ts | `MCLoginClient` |
| `Controller` | listener, connections, sessions and handshake of controller-emulator.ts | used by `Provider` |
| `Provider` | provider.ts over the emulators of `Controller`, with the identity and the online state of camera objects | `MCProvider`, `MCProviderDrains` |
| `ProviderProofs` | theorems about `Provider` and `Controller` | |
| `ZoneConfig` | camera-zones.ts with the import, the apply and the masks of camera.ts | `MCZoneConfig`, `MCZoneConfigMasks`, `MCZoneConfigImport` |
| `CameraApiProofs` | theorems about `LoginClient` and `ZoneConfig` | |
| `Detections` | detections.ts | `MCDetections` |
| `DetectionsProofs` | theorems about `Detections` | |

In every module, definitions introduced by a comment "Faulty:" or "Mutant:" are
not part of the model. Each is one plausible mistake in the definition next to
it; with it in place TLC reports the property that `PROJECT.json` pairs with it.
That is how we know that each property can fail.

Two proof modules cover two components each. So that both can be extended at
once, the definitions of `LoginClient` and `AudioEndpoint` that every module has
carry a prefix (`LoginSpec`, `LoginTypeOK`, `AudioSpec`, `AudioTypeOK` and so on).

### PushRegistry

`entry` is the `servers` map, `listener` the state of the newest `listen()` of a
port. `Register` is `register()` up to its await and `Resume` what follows it
(`Arm`, or `Refuse` if `close()` came first). `ConnectClaimed` and `Hold` are the
two outcomes of `dispatch()`, `Expire` the timer of a held connection. Time is
kept per held connection (`ttl`, ticks to its deadline) and `Tick` cannot pass a
deadline. `late` is a history variable: the addresses a route learnt after it was
armed, which `register()` had no chance to flush. `closeServers()` is `Close` and,
for one captured port after the other, `CloseNext`, `StopAccepting` (the awaited
`listen()` resolved and `server.close()` was called) and `ListenerClosed` (the last
connection of the port ended, or its `listen()` had failed). Ports whose turn has
not come still accept; the order of the map is left open.

Properties: a connection reaches only its own camera's stream
(`NoWrongCamera`), a retry does not renew the deadline of its source
(`DeadlineStands`), every listener is closed after `close()` once the streams have
ended their connections (`ListenersClosed`), and the registry is in order (`RegistryInOrder`): the grace
hold holds only unclaimed connections and one per source (`HoldIsOrderly`), and
routes, map and listeners agree before and after `close()`, also while the ports
are closed in turn (`ListenersAgree`). `ListenersClosed` has its premise because a
routed connection that stays keeps its listener, and all those whose turn comes
later, open; `shutdownResources()` releases the cameras, whose streams destroy their
sockets, before it closes the registry.

### StreamLifecycle and TrackOwnership

`Insts` are slots for `DirectStream` objects. `phase` is where `start()` or the
creation that awaits it stands; `stopped`, `routed` and `feed` are the object's
own state; `streams`, `pending` and `creating` are the camera's maps, and `stale`
the set of creations whose `streamGen` is outdated. `session`, `active` and
`codec` belong to the emulator, `pushing` and `camCodec` to the camera itself,
and `linkUp` says whether what is written to the session arrives. Each action is
named after the code it stands for; `Settle` is the part of a creation after
`await start()`, where it finds out whether it is still wanted.

`TrackOwnership` is what the comments of `getOrCreateStream` promise: each track
has at most one owner, a push is commanded only for an owned track and ends only
together with its owner. `ImplementsOwnership` checks that `StreamLifecycle`
implements it, with `owner` the running stream of a track and `commanded` the
push table.

The invariants say that no stream, route, serve or push is duplicated or left
behind (`NothingLeftBehind`, with the parts `StreamsAccountedFor`,
`PushHasStream` and `BuiltIsAdvertised`), that the streams own the camera's
encoder (`StreamsOwnEncoder`: they agree on the audio profile, are pushed, and
the camera has one codec; parts `ProfilesAgree`, `StreamIsPushed`, `OneCodec`),
that a camera obeys the table once it has heard of it (`CameraObeys`), and that
every `start()` settles (`StartSettles`). `TypeOK` says besides that the two maps of
creations agree: `creating` and `pendingStreams` are set and deleted together.

### Ingress

A connection delivers *parts*, the pieces the de-trailer puts out of one write;
a write puts out none, one or several. `buf` is the settle or steady buffer,
`src` the source of the handoff while it is piped over. The parts carry the
number of their connection, and `parsed` is a history of what the muxer was fed,
so that `FeedIsWhole` can say that the muxer gets one connection's stream whole
and in order. `reasons`, `pausedSock` and `paused` are the three fields behind
`setIngressPauseReason()`; `PausesHaveReasons` ties them to the causes that are
really there. A destroyed socket reports its end later (`closing`), so that the
old connection's `close` can come after its successor was adopted.

### Egress

Time is relative to now: `epoch` is how long from now media time 0 leaves,
`timer` how long until the drain timer fires. The loops of `drain()` and of the
handoff are steps of `mode`, and every other event waits until they have ended.
`Remember` is the GOP history, `Bootstrap` what a joining client is sent first,
and a client's record counts what it got, so that `Splices` can compare history
and live packets. `PacerLetsGo` is the conjunction of `WakesInTime`,
`PauseEnds` and `DeadLetsGo`, and `JoinsCleanly` of `Splices` and
`ReportFollows`. `WaitIsBounded` is what re-anchoring is for: after a jump of the
camera's clock the packet in front would wait as long as the jump is, while its
timer naps and no stall is seen. `requestRestart()` does part of its work at once (`Restart`)
and destroys the generation in a microtask (`RestartEnds`).

### Snapshots

Captures, native stills and resizes are operations of their own that outlive the
request that started them; a picture is a number and `cams` tells which camera it
shows. `era` counts changes of the camera and `generation` is the code's counter.
Ages and deadlines are nondeterministic: any cached picture may be stale, and any
request may reach its deadline. `Kinds` are the pictures each request of an
instance may ask for: a lane, and whether of a size. `PicturesAreOurs` is the conjunction of
`NoForeignPicture`, `KeptIsCertified` and `ServedIsCurrent`.

A still or a keyframe that has arrived is probed, for up to 700 ms, before anyone
gets it, and callers may join it meanwhile; it gets its number when the probe lets
it pass, which is where the code makes a frame of it. `asked` is a history of the
pictures that an event's capture asked the camera for. So `EventIsFresh` says what the
code keeps: an event gets no picture that was a frame before it asked, and none
that its own lane did not ask the camera for. It does not say that the picture
arrived after the event asked; that is `JoinsInTime`, which is not true
(`MCSnapshotsEventJoins`, section 5).

Not modelled: the ffmpeg processes, the checks of JPEG data, the back-off of the
warm-up, several picture sizes, and a cache with TTL 0.

### AudioEndpoint

`Gens` are `net.Server` objects. `starting` and `stopping` are the code's shared
promises, `again` says that a `start()` waits for the `stop()` in progress.
A session handles one request after the other (`queue`, the promise chain), and
goes on doing so after it was closed, because closing stops the socket and not
the chain. `serve`, `alive` and `taps` are the muxer generation a DESCRIBE finds.
PAUSE and SETUP only decide whether a packet is written and are left out.
`EndpointAgrees` is the conjunction of `OneListener`, `TapsFollowServe` and
`OldestFirst` (requests sent ahead are answered in their order). `AudioTypeOK` is
left to the proof.

### LoginClient

Time is discrete and does not pass a timer that is due. `Begin` is `authed()` up
to its first await, `Refused` its answer to a 401, `LoginSucceeds` and
`LoginFails` settle the shared login for everyone who waits for it. `streak`, a
history variable, is what the camera has seen of failed logins. The camera may
answer anything at any time, also 401 to a cookie that was replaced meanwhile.

### Controller and Provider

`Controller` has one action per handler of the emulator, for any number of
emulators: `server` is the life of an `https.Server` (`stale` is one that
`stop()` gave up while its `listen()` was in flight), `conn` the connections, and
`sessions` the map by MAC. `Upgrade` destroys the socket of the session it
replaces, `Reject` only ends the plugin's half of a connection, which then lasts
until the camera ends it; `Closed` is the `close` event, which comes later and may
concern a session that is no longer the current one (`IsCurrent`).

`Provider` extends it. `init.at` says which await `init()` is in and `down.at`
which one `shutdown()` is in; every action is the code from one await to the
next. `current` is `this.emulator`, `heard` the emulators whose `online` and
`offline` events still reach the provider (`removeAllListeners()` takes one out),
`running` stands for the pairing, health and repair timers, which are armed and
cleared together. A camera object has its MAC and its online state; `told`
records of which emulator and MAC that state last heard, because `createDevice`,
`ensurePaired`, `reconcileMac` and a new host change the identity without telling
the state. The camera objects' streams, the registry and the endpoint are open or
closed here; their modules have the rest.

`OneController`: never two listeners for port 7442, and no `init()` ends without
having succeeded or scheduled another. `OnlineAgrees`: what Scrypted shows as
online is what the emulator says, and sessions and sockets belong together
(`SessionsAreOwned`). `NothingOutlives`: no timer, object, event or listener is
left or created behind `shutdown()`. `ShutdownEnds`: it ends, unless a connection
that had no session at `stop()` (`Held`) keeps the listener from closing for ever.

### ZoneConfig

A configuration is a motion zone, there or not, and a set of masks. `stored` and
`flags` (`zonesImportedV2`, `motionApplied`, `privacyCount`, `privacyMasksFp`) are
in the storage and outlive the object, `camera` is what the camera has. An apply
is `BeginApply` (the zones are read), `SendZones` (the management commands, lost
without a session), `Cleared`, `Settled` and `MasksSet`; an HTTP request fails
with or without effect (`WriteFails`). An import reads the masks, the smart zones
and the motion zones one after the other, and each reply may be missing.
`queueApply()` lets one apply run and one wait; `waiting` are its callers, and
`Late` is a continuation that finds its camera released.

`saved` and `owed` are history variables: a save that no apply has read, and what
the last apply must have put on the camera, empty where a write was lost, with the
masks that were lost since any were written. An apply that finds no session reads
nothing, and `saved` stays. `LatestConfig` has three parts. `SavesAreApplied`: a save
that no apply has read is never without one to come; it is queued, or behind the
import an 'online' handler waits for, or the camera is not online and its next
'online' applies (so the deferring return of `camera.ts:634` is made up for).
`LastReadIsOn`: the camera has what the last apply read although `flags` make
applies skip work, except where a write was lost. `LostIsRetried`: masks whose
sequence failed or was cut off by a release are not among those that `flags` let the
next apply skip, so a retry with the same masks is sent. Nothing starts that
retry: after a failed write the code waits for the next save or 'online'. A new
object takes over what its predecessor left unread, unless the session has stayed
online, where no 'online' is to come (section 5).

### Detections

Deadlines are kept as the time left. `holds` is `motionHolds`, `timer` the one
`motionTimer`, `events` the ongoing smart events with what is known of them
(`lastDetections`), the time since the last report, and their idle timer. A
payload is reduced to what `onSmartDetect()` asks of it: the moving tracks, all
tracks, the `objectTypes` union and whether that names one type; `Detected` is its
chain of fallbacks. The event loop may be late by `Late`. `MotionIsUnion` is the
conjunction of `MotionCoversEvents` and `MotionHasReason`; `told` is a history
variable for `KnownIsReported`.

## 3. Runs

| Run | Instance | Shows |
|---|---|---|
| `push_registry` | two cameras on one port, one with two address forms, a second port; grace of one tick | safety, deadlines and the end of all listeners |
| `stream_lifecycle` | two tracks, two slots for the first, two profiles; literal host; a link that only fails by closing | refinement of `TrackOwnership`; pushes and codecs |
| `stream_lifecycle_lossy` | one track with two slots; hostname; a link that may swallow commands | nothing is left behind; every `start()` settles |
| `snapshots` | two requests, one for events of a size or not, one for events or for polls of a size; two captures with keyframes, two stills, one resize, one `clearCache()` or camera change | events get fresh pictures; one capture per lane; late results never repopulate what was reset, and no answer reaches back over it |
| `egress` | three frames, one audio packet, clock steps of 1, 4 (a jump beyond `MaxFuture`) and -2, spread access units, one client | pacing, a bounded wait, pauses, splicing, reports, destruction; under fairness, what waits leaves |
| `ingress` | two overlapping connections of up to five parts, buffers of two and one | order, bounds, pausing, resuming |
| `audio_endpoint` | two listeners in turn, two clients with two requests ahead, two muxer generations | one owner of the port; taps end with their muxer |
| `login_client` | two callers with budgets 2 and 4; cooldowns 2, 4, 5; time to 16 | deadlines and distance of logins |
| `provider` | two attempts of `init()` with an emulator each, two overlapping connections, one MAC, one camera device | one listener; online state; nothing outlives `shutdown()`, which ends |
| `zone_config` | a motion zone and one mask, each the camera's, the user's, or both; failing and lost writes | a save no apply has read has one to come, also when an apply found no session; what was read is on the camera, lost masks are retried; a released object writes nothing; savers are answered |
| `detections` | a zone event and a package event, two sets of detections; durations in the order of the code's, the event loop late by 1 | motion is the union of its holds; the throttle hides nothing |
| `stolen_push` | one track, two slots, a hostname | see Findings |

Nine more configurations are not among the runs of `PROJECT.json` but are kept
to be repeated: `MCSnapshotsLive` (all kinds of pictures with one request;
`EventIsFresh`, and under fairness `LanesFree`: every lane becomes free) and `MCSnapshotsPolls` (polls
of a size and without, around a camera change) pass;
`MCStreamMixedCodec`, `MCSnapshotsForeignSize`, `MCSnapshotsEventJoins`, `MCZoneConfigMasks`,
`MCZoneConfigImport`, `MCProviderDrains` and `MCAudioEndpointLeaver` end in the counterexamples that
section 5 describes.

Bounds, and why they suffice. Two of a kind (cameras, connections, sessions,
callers) are enough for what the code distinguishes, which is always "mine" and
"another one", "the current one" and "an older one"; three stream slots over two
tracks let an abandoned creation meet its successor while another track runs.
The queue bounds are small enough that every run fills them (`High`, `MaxQueue`,
`MaxGop`, `Settle`, `MaxQueue` of requests). `MaxFrames`, `MaxAudio`, `MaxParts`,
`MaxPictures`, `MaxEra`, `MaxGeneration`, `MaxServe` and `MaxTime` only bound the
exploration: five parts pass both buffers of two and one and leave some over;
three frames are a keyframe, a picture after it and a next keyframe, and a jump
between two of them passes `MaxFuture` while a step back passes `MaxLate`; time 16 fits
four failed logins, the last at the maximal cooldown. `RoomForStills` and
`RoomForResizes` hold back a request or a warm-up while the slots are taken, so
that work already started always finds one. The run `snapshots` leaves out polls without a size, because all kinds at once are too
many states; `MCSnapshotsPolls` has them, and the theorems about `Snapshots` have no
such limit. Neither asks for a full picture, which differs from a poll only in its
lane; `MCSnapshotsLive` has it.
`provider` needs two emulators because a failed `init()` leaves one behind while
the next starts, and two connections because a session is replaced by a newer
one; one camera object is enough, since objects share nothing but the list that
`shutdown()` and the event handlers go through. The durations of `detections`
keep the order of the code's constants, with equal values where the code has
them (the hold of an event and its idle timer, 30 s each). `zone_config` has no
bound but its two zones. Symmetry is used only in runs
without liveness properties, over slots that no definition tells apart.

Deadlock is checked where the modelled part never stops (`snapshots`, `audio_endpoint`,
`login_client`, `zone_config`, `detections`). It is not where
it may: a closed registry, a released camera, a destroyed muxer generation, a
stopped stream, a provider that was shut down, and `MCSnapshotsLive`, where the
pictures are used up and nobody asks.

Fairness. Promise continuations run, a `listen()` and a `close()` settle, and a
timer that is due fires: Node guarantees these. Everything modelled as taking its
time in the code's own hands has a timeout in the code (25 s for readiness, the
discovery timeout of the muxer, the HTTP timeouts). In `zone_config` only the
steps of an apply are fair, each of which has a request timeout or a delay behind
it; `provider` assumes that `init()`, `shutdown()` and the releases
go on, that a listener settles and that a destroyed socket closes, and nothing of
a camera. It is strong fairness where
the action waits for `Quiet`, because other callbacks may come first again and
again, but not for ever without the event loop turning. Nothing is assumed of
viewers, cameras, DNS answers or clients. `ingress` assumes one thing of its
neighbour: that pressure ends (`EgressPressure(FALSE)`), which `egress` shows as
`PacketsLeave` and, in `PacerLetsGo`, as `PauseEnds`.

## 4. Proofs

**`PushRegistryProofs`**: for every set of ports, addresses, routes and
connections, `TypeOK`, `NoWrongCamera`, `HoldIsOrderly`, `ListenersAgree` and so
`RegistryInOrder` are invariants of `Spec`, and `DeadlineStands` and `RoutedOnlyByClaim` hold of every
step. The assumption is `ConstantsAssumption`: ports and addresses of routes and
connections are given, normalising is idempotent.

`NoWrongCamera` is not inductive: a delivery compares the connection with the
route's set `ips`, and the invariant speaks of the camera's addresses. The
missing fact is that a route's set never holds another camera's address
(`OwnAddresses`), although it grows while the route is armed. `ArmedIsListening`
likewise needs that a listener can be closed only when no route is left
(`ClosedIsEmpty`) and can fail only before any route was armed
(`NoForgottenListener`). The inductive invariant `IInv` is the conjunction of
`TypeOK`, these, `OnePendingPerSource` and `HeldIsUnclaimed`; the proof has one
lemma per conjunct group and one case per action.

**`CameraApiProofs`**, `LoginClient`: for any number of callers and all budgets and
cooldowns, `LoginTypeOK`, `BudgetKept` and `LoginsSpaced` are invariants. `BudgetKept` needs that
every step of a call runs on a timer that expires with the call
(`TimersAreDeadlines`). `LoginsSpaced` speaks of all failed logins, of which the
client remembers only the last time and a count; `MemoryIsStreak` says that these
are the end and the length of the streak, also when success and failure alternate
and several calls share a login. The assumption is `LoginConstants`. The
cooldown itself stays an unknown function of the count, so the theorem holds for
any such rule; that it doubles up to a maximum is checked by TLC.

**`CameraApiProofs`**, `ZoneConfig`: for any set of masks, `TypeOK`, `LatestConfig` and, of every
step, `ReleasedWritesNothing`. Nothing is assumed. The inductive invariant carries
each part of `LatestConfig` on its own. A save that no apply has read stays so when an
apply ends for want of a session, and then the session is not online; an 'online' puts
an apply in the queue or behind an import, which is under way as long as it is waited
for (`ImportIsAwaited`) and ends in the queue whatever replies it missed. What the
last apply read is followed through the apply: the motion zone is as owed or is among
the commands yet to be sent, and where `motionApplied` is not stored the camera has
none (`MotionAgrees`); the fingerprint and the count describe the masks on the camera
whenever an apply may skip on their strength (`MasksAgree`), which a failed write
ends by owing nothing, as finding 4 has it. A sequence under way is needed, and stays
needed until its end (`SequenceIsNeeded`), because a fingerprint is only stored at the
end and an import only raises the count; so what it loses is not skipped next time.

**`DetectionsProofs`**: for any set of events and all durations, `TypeOK`,
`MotionIsUnion` and `KnownIsReported` are invariants. The assumption is
`DetectionConstants`, of which the proof needs that the idle timer of an event is
no longer than the hold it takes (`IdleEnd <= EventHold`; the code has them
equal). `MotionIsUnion` compares the sensor with the events and holds, which the
engine only looks at when its timer fires. The inductive invariant adds what ties
them together: a hold keeps the sensor on and the timer no later than `Margin`
after its deadline (`Watched`), the timer runs only for a hold (`TimerHasHold`),
and the hold of an ongoing event outlasts its idle timer (`Covered`). The
arithmetic core is one lemma about `recomputeMotion()` (`RecomputeWatches`): the
earliest of the kept deadlines exists, because natural numbers are well-founded,
and no kept hold is earlier. `KnownIsReported` goes by the cases of the throttle.

**`StreamProofs`**, `StreamLifecycle`: for every set of tracks, slots and profiles,
hostname or literal, lossy link or not, `TypeOK`, `NothingLeftBehind` and `CameraObeys` are
invariants. Two more theorems have hypotheses, and findings 1 and 2 are the
counterexamples without them: `StreamsImplementOwnership` (`ImplementsOwnership`,
step by step) asks for `Literal`, the IP-literal hosts for which `start()` skips
DNS, and `StreamsHoldEncoder` (`StreamsOwnEncoder`) also for `~Lossy`, a link that
fails only by closing. The assumption `StreamConstants` types the constants.

`NothingLeftBehind` looks at running streams, but a stream is built and published
over five continuations, each of which may find itself superseded. The inductive
invariant therefore says who owns a slot at each stage: the maps name streams of
their own track, with `creating` equal to `pending` (`MapsOwn`); a creation is
its track's or `stale` (`CreationsCount`); every stage has its route and feed, and
a stopped stream keeps none (`Stages`); the only streams that stop between the end
of `start()` and the end of their creation stop together with all others
(`StoppedTogether`). For pushes it adds that a literal start commands the camera
only after its predecessors are over (`StartsInOrder`), that all commanded streams
have the serializer's codec (`CodecAgrees`), and that a link that only closes
leaves camera and push table equal (`NothingLost`). The refinement rests on the
same invariant: each kind of step either hands tracks over, commands, releases or
leaves owner and table alone, and each of the four is a step of `TrackOwnership`
or a stutter.

**`StreamProofs`**, `AudioEndpoint`: for any number of listeners, sessions, muxer
generations and waiting requests, `AudioTypeOK` and `EndpointAgrees` are invariants,
under `AudioConstants`. `EndpointAgrees` counts the listeners that hold the port.
It becomes inductive with which listener may be in what state
(`ListenersInOrder`): the wanted one is the one that starts or is up, while
`stop()` waits none is wanted, and any other is closed. So a `listen()` that comes
back late finds that it is not wanted and closes before `stop()` ends, and the
`start()` that waited meets a free port. For the taps, `TapsInOrder` says that only
the living muxer is tapped, that a session which has not played is in no tap, and
that what an open session calls its tap is the one the muxer has, which is what
`close()` and the death of the muxer rely on to find each other.

**`SnapshotsProofs`**: for any number of requests, captures, stills and resizes,
`TypeOK`, `PicturesAreOurs`, `EventIsFresh` and `OneCapturePerLane` are invariants.
The assumption is `SnapshotConstants`; the bounds on pictures, camera changes and
generations may be any numbers. Whether a late result may be kept depends on what
its capture was started for, so `IInv` ties each generation to its camera (`Eras`,
`StillsAreNoOlder`), each capture to its lane and to what it awaits
(`LanesAreBound`, `CapturesGoOn`), and each request to a capture or resize that is
not older than itself (`ResizesGoOn`, `RequestsGoOn`). That a late still may be
newer than its capture's camera but never older is why a waiting request is not
answered from before it asked. `EventIsFresh` rests on the order of continuations:
an event's capture awaits only a still it asked for itself, and takes its picture
before the next one comes, before a size of it is known (`EventsTakeTheNewest`).

**`IngressProofs`**: for any number of connections, all marks of the buffers and
any length of what is delivered, `TypeOK` (with the bound on what is retained),
`FeedIsWhole` and `PausesHaveReasons` are invariants, under `IngressConstants`.
They are nearly inductive. Missing are that only the adopted connection is open and
that without it both buffers are empty (`OneCamera`), what each stage has not got
yet (`Stages`), that `pausedSock` is the adopted socket while a reason stands
(`PausedIsKnown`), and that nothing was taken from a connection that is still
probed (`Fresh`). The core is arithmetic on sequences: what was parsed, what the
handoff holds and what the buffer holds, put together, stay a prefix of one
connection's parts, through every transfer between the three.

**`ProviderProofs`**: for any number of emulators, connections, MACs and cameras,
`TypeOK`, `OneController`, `OnlineAgrees` and `NothingOutlives` are invariants; all
that is assumed is that `None` is no slot (`ControllerConstants`). The emulator is
treated by itself first, one lemma for each operation, which says what the
operation changes of `isOnline()`. `OneController` needs that an emulator other than
the one of the current attempt has ended (`OnlyOwnerListens`), which is true because
an attempt goes on to its cleanup, and the cleanup to a retry, only over a stopped
one: `AttemptsGoOn` says what an attempt has at each of its awaits. For
`OnlineAgrees`, a camera was told only of an emulator that had started
(`CurrentStarted`, `CamerasAgree`), so no camera object carries the news of an
emulator that is yet to come, and from then on each change of `isOnline()` is an
event that is heard, or the listeners are gone. `NothingOutlives` is inductive with
these: `shutdown()` takes timers, cameras and listeners at once, and what would make
one again asks first whether it has begun.

**`EgressProofs`**: for any number of clients, all delays and limits, any steps of
the camera's clock and any spread of its access units, `TypeOK`, `PacerLetsGo`,
`WaitIsBounded` and `JoinsCleanly` are invariants, under `EgressConstants`; `MaxFrames` and `MaxAudio` may be
any numbers. `WaitIsBounded` is inductive with them: what joins a queue never puts off
the packet in front, so that a timer that stands still stands for a packet that is
near, and every schedule that is made reaches no farther (`FrontLeads`, `StaysNear`).
`PacerLetsGo` speaks of the states between callbacks. `PaceInOrder`
carries it through them: inside `drain()` and the handoff no timer is armed, each
of the two ends by arming one, and the pause has been told to the owner again by then.
`JoinsCleanly` is an argument of positions. Video packets are numbered as they are
built. The queue holds those from `Left` on (`QueuesInOrder`); the history and the
batch under way are runs without a gap that end just before it
(`HistoryInOrder`); a client that was sent video has all of it up to where the
next batch begins (`ClientsInOrder`). A packet that leaves extends the history and
the batch by what the queue loses, the end of `drain()` moves the beginning of
the next batch and the clients' positions together, and a client that joins is
given the history, whose end is where the live packets go on. That the history is
one group of pictures follows from its being emptied at each keyframe's start
and, after an overflow, until the next one. `ReportFollows` needs that a client
without a report is owed one (`ReportOwed`) and that it was sent no video yet,
because any batch with video has a time stamp to report. After a restart was requested
the queues are empty and nothing is claimed of the history any more (`Settled`),
since nobody reads it before the destruction that follows.

Each inductive invariant was checked as an invariant of its component's run
before it was proved.

Every invariant and action property of a run is so a theorem, two of them
(`StreamsOwnEncoder`, `ImplementsOwnership`) under the hypotheses named. Only
model-checked are the liveness properties (`ListenersClosed`, `StartSettles`,
`IngressResumes`, `PacketsLeave`, `ShutdownEnds`, `SaversSettle`), which rest on fairness
and ENABLED and are out of the prover's reach.
With a hostname neither the refinement nor `StreamsOwnEncoder` is claimed, and with
a lossy link not the latter: there they fail.

## 5. Findings

Each has a configuration that ends in the counterexample: the first is the run
`stolen_push`, the others are repeated with the configuration named.

1. **A stopped stream stops its successor's push** (`stolen_push`,
   `direct-stream.ts:301`). With a hostname, `start()` awaits DNS. If the stream
   is stopped meanwhile and a new one takes the track over, the old `start()`
   throws, and its `catch` calls `stop()` again, whose `stopStream` takes the
   track from the push table and points the camera at /dev/null. With an IP
   literal the two starts keep their order and it cannot happen
   (`stream_lifecycle`).
2. **Two audio codecs on one camera** (`MCStreamMixedCodec`,
   `OneCodec`, `controller-emulator.ts:511`). A start command lost on a half-open link leaves
   its track in the table; the handshake after the reconnect skips it and parks
   only the others with the new codec.
3. **The old camera's picture in the new camera's cache**
   (`MCSnapshotsForeignSize`, `NoForeignSize`, `snapshots.ts:778`). A request that was waiting when
   the camera changed resizes its old frame under the new generation.
4. **Masks that are skipped as applied are not on the camera**
   (`MCZoneConfigMasks`, `SkippedMasksAreOn`,
   `camera.ts:678`, against the comment at line 673). The masks are
   cleared and the set fails; the fingerprint in the storage is still that of the
   masks before, so a user who goes back to them has the sequence skipped.
5. **An import counts as complete although a reply is missing**
   (`MCZoneConfigImport`, `ImportedMeansRead`, `camera.ts:521`, against the
   comment at `camera.ts:572`). Without a session, where the settings page starts
   an import (`camera.ts:1026`), no management read is made and `mgmtOk` stays
   true; a failed read of the masks does not count either.
6. **`shutdown()` can wait for ever** (`MCProviderDrains`, `ShutdownDrains`,
   against the comments at `provider.ts:335` and `provider.ts:345`).
   `server.close()` waits for every connection and `stop()` destroys the sessions
   only: a connection that was accepted, or upgrades after that, or whose upgrade
   was rejected stays as long as its camera likes, because `rejectUpgrade()` ends
   the plugin's half of the connection and no more.
7. **A client that left keeps a tap** (`MCAudioEndpointLeaver`, `LeaversHoldNoTap`,
   `audio-rtsp.ts:112`, against the test at `test/audio-rtsp.test.ts:190`). A PLAY
   sent ahead of a slow DESCRIBE is handled although the session was closed
   meanwhile; its `onClose` has run by then, so that the tap ends only with the muxer.

Observed while modelling, without a run, since the code promises nothing to the
contrary or they are beyond what an instance can show:

- A PLAY before a successful DESCRIBE uses up the session's only `onPlay`
  (`rtsp-session.ts:224`).
- A late 401 drops a fresh cookie, and a short-budget caller's login fails all
  who joined it and starts the back-off (`client.ts:208`, `client.ts:149`).
- A native still of an older generation can overwrite the in-flight entry of a
  newer one; at worst a still is fetched twice (`snapshots.ts:689`).
- The handoff cuts the backlog by due time, so that the first packets of an access
  unit spread over more than its frame time can fall on the wrong side
  (`native-rtsp.ts:1298`, against the comment at line 1275).
- An event that joins another event's capture may get a still that arrived before
  it asked, by as long as the visual probe takes (`MCSnapshotsEventJoins`,
  `JoinsInTime`; `snapshots.ts:448`, `snapshots.ts:1043`).
- Where the read of the camera's zones fails, the apply that follows the failed
  import sends the storage's zones over the camera's own (`camera.ts:474`).
- `motionApplied` is stored also when there was no session to send the motion
  zones to (`camera.ts:654`), so that a clear that was lost is not sent again.
- A zone saved while the first import is under way is applied at once, before the
  import has read the motion zones (`camera.ts:474`, `camera.ts:591`).
- What a released object had not applied is applied by the next object with its first
  'online' or save; where the session outlives the object, that 'online' is over
  (`provider.ts:78`, `provider.ts:320`).
- A camera object created or re-identified while its camera is connected shows
  what it last heard until the next event (`provider.ts:290`, `camera.ts:364`).
- Motion can drop and rise again within milliseconds of an event's idle deadline,
  because the hold and the idle timer of an event have the same length.
- A candidate that is paused because its settle buffer is full can be discarded as
  idle because of that pause (`direct-stream.ts:485`).

## 6. Not modelled, and the plan

Not modelled for good: TLS certificates, logging, the tables of camera settings
and the settings pages, the geometry of zones, RTP packetizing and FLV parsing as
data conversions, ffmpeg, and the scripts, which measure and deploy the plugin
and hold none of its state.

Left out of the modelled parts: of `ZoneConfig` the smart-detect family of zones,
which every apply sends whole whatever was sent before, and a change of the host
under stored latches; of `Detections` the vote on a tracker's class, scores,
boxes and the debug ring; of `Controller` the WebSocket framing and the keys of
pending replies; of `Provider` the repair by discovery of hosts and everything
that only reads.

Next, in this order:

1. `MediaContract`: what discovery fixes in the SDP and when a generation must
   restart; `ByteQueue` as an algorithm against a plain sequence.
2. `readSetting`'s pending replies, keyed by function, when two readers ask.

## 7. Running

    tlc -workers 2 -config MCPushRegistry.cfg MCPushRegistry
    tlapm PushRegistryProofs.tla

`PROJECT.json` lists for each run its module, configuration and properties, maps
each definition to the lines it models, and lists the hazards of the code with
the properties that watch them.
