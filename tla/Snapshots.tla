------------------------------ MODULE Snapshots -----------------------------
(***************************************************************************)
(* The snapshot manager of src/src/snapshots.ts: captures, native stills   *)
(* and resizes that outlive the request that started them, the caches they *)
(* fill, and the generation that is to keep late results out after         *)
(* clearCache() and reset().                                               *)
(*                                                                         *)
(* A picture is a number, given when it becomes a frame: after it arrived  *)
(* and the visual probe let it pass.  cams[p] is the camera it shows.  A   *)
(* frame and its bytes are one picture here, so frames that share a still  *)
(* have one id.                                                            *)
(* Ages and deadlines are nondeterministic: any cached picture may be      *)
(* stale, any open request may reach its deadline.  One picture size       *)
(* stands for all: sizes share nothing but the native still.               *)
(*                                                                         *)
(* An await is resolved by handing the result to its waiters; they         *)
(* continue before the next network or timer event, which waits for Quiet. *)
(***************************************************************************)
EXTENDS Naturals, Sequences, FiniteSets

CONSTANTS
    Reqs, Caps, Nats, Rszs,   \* slots of requests, captures, stills, resizes
    Kinds,                    \* the <<lane, whether of a size>> that each request may ask for
    FullRes,                  \* fullResEnabled()
    MaxPictures, MaxEra, MaxGeneration,   \* bounds of the exploration
    None

ASSUME SnapshotConstants ==
    /\ \A q \in Reqs :
           Kinds[q] \subseteq ({"preview", "event"} \X BOOLEAN) \cup {<<"full", FALSE>>}
    /\ FullRes \in BOOLEAN
    /\ {MaxPictures, MaxEra, MaxGeneration} \subseteq Nat
    /\ None \notin Nat \cup Caps \cup Nats \cup Rszs

Lanes == {"preview", "event", "full"}

VARIABLES
    era,         \* which camera is configured
    generation,
    cams,        \* picture -> the era it was taken in
    verified,    \* pictures certified by the visual probe
    cache,       \* "preview" -> previewCache, "full" -> cache
    lastGood,
    native,      \* the nativePreview still
    nativeGen,   \* its generation
    asked,       \* pictures that an event's capture asked the camera for
    nativeInflight,
    inflight,    \* lane -> the capture new callers join
    resized,     \* the sized picture: source it is tagged with, its content
    resizing,    \* the resize new callers join
    latest,      \* the resize started last (latestResizeOperation)
    variant,     \* the size is a known preview size
    req, cap, nat, rsz

stores == <<verified, cache, lastGood>>
still == <<native, nativeGen, asked>>
sized == <<resized, latest, variant>>
vars == <<era, generation, cams, stores, still, nativeInflight, inflight, sized,
          resizing, req, cap, nat, rsz>>

IdleReq == [st |-> "idle", lane |-> "full", sized |-> FALSE, era |-> 0, from |-> 0,
            pic |-> None, on |-> None, ans |-> None]
IdleCap == [st |-> "idle", lane |-> "full", gen |-> 0, cam |-> 0, pic |-> None,
            on |-> None, stale |-> None]
IdleNat == [st |-> "idle", gen |-> 0, cam |-> 0, event |-> FALSE]
IdleRsz == [st |-> "idle", src |-> None, event |-> FALSE, gen |-> 0, hit |-> None,
            pic |-> None, on |-> None]

\* Continuations that run before the next event.
Quiet ==
    /\ \A q \in Reqs : req[q].st \notin {"size", "fail"}
    /\ \A c \in Caps : cap[c].st \notin {"ask", "still", "nostill", "then"}
    /\ \A z \in Rszs : rsz[z].st # "ask"

Init ==
    /\ era = 0 /\ generation = 0
    /\ cams = << >> /\ verified = {}
    /\ cache = [l \in {"preview", "full"} |-> None] /\ lastGood = None
    /\ native = None /\ nativeGen = 0 /\ asked = {} /\ nativeInflight = None
    /\ inflight = [l \in Lanes |-> None]
    /\ resized = None /\ resizing = None /\ latest = None /\ variant = FALSE
    /\ req = [q \in Reqs |-> IdleReq]
    /\ cap = [c \in Caps |-> IdleCap]
    /\ nat = [n \in Nats |-> IdleNat]
    /\ rsz = [z \in Rszs |-> IdleRsz]

-----------------------------------------------------------------------------
(* Invalidation *)

\* A new generation: what was kept, and what is in flight, is forgotten.
Forget ==
    /\ generation < MaxGeneration
    /\ generation' = generation + 1
    /\ cache' = [l \in {"preview", "full"} |-> None]
    /\ inflight' = [l \in Lanes |-> None]
    /\ resizing' = None /\ latest' = None
    /\ nativeInflight' = None
    /\ UNCHANGED <<cams, nativeGen, asked, req, cap, nat, rsz>>

\* clearCache(): another cache setting or channel of the same camera.
ClearCache ==
    /\ Quiet
    /\ Forget
    /\ UNCHANGED <<era, verified, lastGood, native, resized, variant>>

\* reset(): the configuration points at another camera.
Reset ==
    /\ Quiet
    /\ era < MaxEra
    /\ era' = era + 1
    /\ Forget
    /\ verified' = {}
    /\ lastGood' = None /\ native' = None
    /\ resized' = None /\ variant' = FALSE

-----------------------------------------------------------------------------
(* Native stills: getNativePreview *)

StillUsable(g) == native # None /\ nativeGen = g
StillJoinable(g) == nativeInflight # None /\ nat[nativeInflight].gen = g

\* A new still for generation g becomes the one in flight.
FetchStill(n, g, event) ==
    /\ nat[n].st = "idle"
    /\ nat' = [nat EXCEPT ![n] = [st |-> "fetch", gen |-> g, cam |-> era, event |-> event]]
    /\ nativeInflight' = n

\* The visual probe is over: the picture becomes a frame, certified, or not if
\* the probe is unavailable.
NewPicture(p, cam) ==
    /\ p = Len(cams) + 1
    /\ p <= MaxPictures
    /\ cams' = Append(cams, cam)
    /\ verified' \in {verified, verified \cup {p}}

\* Whoever awaits still n continues with picture p.
StillReaches(n, p) ==
    /\ cap' = [c \in Caps |-> IF cap[c].st = "wait" /\ cap[c].on = n
                 THEN [cap[c] EXCEPT !.st = IF p = None THEN "nostill" ELSE "still",
                                     !.pic = p, !.on = None]
                 ELSE cap[c]]
    /\ rsz' = [z \in Rszs |-> IF rsz[z].st = "wait" /\ rsz[z].on = n
                 THEN [rsz[z] EXCEPT !.st = "convert", !.on = None,
                                     !.pic = IF p = None THEN rsz[z].src ELSE p]
                 ELSE rsz[z]]
    /\ nativeInflight' = IF nativeInflight = n THEN None ELSE nativeInflight
    /\ nat' = [nat EXCEPT ![n] = IdleNat]

\* What may become the safety image.
SafetyImage(n, p) == nat[n].gen = generation /\ nativeInflight = n /\ p \in verified'

\* The camera answers.  The picture is probed before anyone gets it, and
\* callers may still join it meanwhile.
StillArrives(n) ==
    /\ nat[n].st = "fetch"
    /\ Quiet
    /\ nat' = [nat EXCEPT ![n].st = "probe"]
    /\ UNCHANGED <<era, generation, cams, stores, still, nativeInflight, inflight, sized,
                   resizing, req, cap, rsz>>

\* The probe lets it pass; only the still in flight of the current generation,
\* certified, becomes the safety image.
StillSettles(n) ==
    /\ nat[n].st = "probe"
    /\ Quiet
    /\ \E p \in 1..MaxPictures :
        /\ NewPicture(p, nat[n].cam)
        /\ asked' = IF nat[n].event THEN asked \cup {p} ELSE asked
        /\ IF SafetyImage(n, p)
           THEN native' = p /\ nativeGen' = generation
           ELSE UNCHANGED <<native, nativeGen>>
        /\ StillReaches(n, p)
    /\ UNCHANGED <<era, generation, cache, lastGood, inflight, sized, resizing, req>>

\* No answer, no usable JPEG, or a blank picture.
StillFails(n) ==
    /\ nat[n].st \in {"fetch", "probe"}
    /\ Quiet
    /\ StillReaches(n, None)
    /\ UNCHANGED <<era, generation, cams, stores, still, inflight, sized, resizing, req>>

\* Every capture and every resize that may still ask for a still finds a slot.
RoomForStills ==
    Cardinality({c \in Caps : cap[c].st \in {"key", "check", "ask"}})
        + Cardinality({c \in Caps : cap[c].st # "refresh" /\ cap[c].stale # None})
        + Cardinality({z \in Rszs : rsz[z].st \in {"run", "ask"} /\ ~rsz[z].event})
        + Cardinality({q \in Reqs : req[q].st \in {"frame", "size"} /\ req[q].sized})
    <= Cardinality({n \in Nats : nat[n].st = "idle"})

\* ensureNativePreview(): without a recent still, one in flight, or a backoff,
\* fetch one that nobody awaits.
EnsureStill ==
    /\ ~StillJoinable(generation)
    /\ \E n \in Nats : FetchStill(n, generation, FALSE)

\* warm()
Warm ==
    /\ Quiet
    /\ EnsureStill
    /\ UNCHANGED <<era, generation, cams, stores, still, inflight, sized, resizing,
                   req, cap, rsz>>
    /\ RoomForStills'

-----------------------------------------------------------------------------
(* Captures: startCapture, captureJpeg, remember *)

\* startCapture(lane); stale is the preview it is to replace, if any.
Capture(c, lane, stale) ==
    /\ cap[c].st = "idle"
    /\ cap' = [cap EXCEPT ![c] =
                [IdleCap EXCEPT !.st = IF FullRes /\ lane # "event" THEN "key" ELSE "ask",
                                !.lane = lane, !.gen = generation, !.cam = era,
                                !.stale = stale]]
    /\ inflight' = [inflight EXCEPT ![lane] = c]

\* Two versions with a check left out.
RememberLate(c, p) ==
    IF p \in verified'
    THEN /\ lastGood' = p
         /\ cache' = IF cap[c].lane = "event" THEN cache
                     ELSE [cache EXCEPT ![cap[c].lane] = p]
    ELSE UNCHANGED <<lastGood, cache>>

\* remember(): certified results of the current generation become state.
Remember(c, p) ==
    IF cap[c].gen = generation /\ p \in verified'
    THEN /\ lastGood' = p
         /\ cache' = IF cap[c].lane = "event" THEN cache
                     ELSE [cache EXCEPT ![cap[c].lane] = p]
    ELSE UNCHANGED <<lastGood, cache>>

\* The full-resolution keyframe is there in time, and is probed.
KeyframeArrives(c) ==
    /\ cap[c].st = "key"
    /\ Quiet
    /\ cap' = [cap EXCEPT ![c].st = "check"]
    /\ UNCHANGED <<era, generation, cams, stores, still, nativeInflight, inflight, sized,
                   resizing, req, nat, rsz>>

KeyframeSettles(c) ==
    /\ cap[c].st = "check"
    /\ Quiet
    /\ \E p \in 1..MaxPictures :
        /\ NewPicture(p, cap[c].cam)
        /\ Remember(c, p)
        /\ cap' = [cap EXCEPT ![c].st = "then", ![c].pic = p]
    /\ UNCHANGED <<era, generation, still, nativeInflight, inflight, sized, resizing,
                   req, nat, rsz>>

\* It is late, no usable JPEG, or blank.
KeyframeFails(c) ==
    /\ cap[c].st \in {"key", "check"}
    /\ Quiet
    /\ cap' = [cap EXCEPT ![c].st = "ask"]
    /\ UNCHANGED <<era, generation, cams, stores, still, nativeInflight, inflight, sized,
                   resizing, req, nat, rsz>>

\* Lanes that take no recent still and join none in flight (maxAgeMs 0,
\* reuseInflight false).
OnlyNew(lane) == lane = "event"

\* captureJpeg() turns to the native still: a recent one, the one in flight,
\* or a new one; an event only takes a new one.
AskStill(c) ==
    /\ cap[c].st = "ask"
    /\ LET g == cap[c].gen
           event == OnlyNew(cap[c].lane)
       IN \/ /\ ~event /\ StillUsable(g)
             /\ cap' = [cap EXCEPT ![c].st = "still", ![c].pic = native]
             /\ UNCHANGED <<nat, nativeInflight>>
          \/ /\ ~event /\ StillJoinable(g)
             /\ cap' = [cap EXCEPT ![c].st = "wait", ![c].on = nativeInflight]
             /\ UNCHANGED <<nat, nativeInflight>>
          \/ /\ event \/ ~StillJoinable(g)
             /\ \E n \in Nats :
                    FetchStill(n, g, event) /\ cap' = [cap EXCEPT ![c].st = "wait", ![c].on = n]
    /\ UNCHANGED <<era, generation, cams, stores, still, inflight, sized, resizing,
                   req, rsz>>

StillCaptured(c) ==
    /\ cap[c].st = "still"
    /\ UNCHANGED verified
    /\ Remember(c, cap[c].pic)
    /\ cap' = [cap EXCEPT ![c].st = "then"]
    /\ UNCHANGED <<era, generation, cams, still, nativeInflight, inflight, sized, resizing,
                   req, nat, rsz>>

\* Mutant: the holder goes with whichever capture of its lane ends first.
LaneAfterAny(c, p) == [inflight EXCEPT ![cap[c].lane] = None]
LaneAfter(c, p) == [l \in Lanes |-> IF inflight[l] = c THEN None ELSE inflight[l]]

\* The result, or None, reaches the requests that await capture c.
CaptureReaches(c, p) ==
    /\ req' = [q \in Reqs |-> IF req[q].st = "frame" /\ req[q].on = c
                 THEN [req[q] EXCEPT !.on = None, !.pic = p,
                                     !.st = IF p = None THEN "fail" ELSE "size"]
                 ELSE req[q]]
    /\ inflight' = LaneAfter(c, p)
    /\ cap' = [cap EXCEPT ![c] = IdleCap]

\* The picture that stands in.
StandIn(lane) == IF lane = "event" THEN None ELSE lastGood

\* No fresh picture.  An event fails; otherwise the last good one is served
\* and restored as a stale cache entry.
NothingCaptured(c) ==
    /\ cap[c].st = "nostill"
    /\ LET lane == cap[c].lane
           p == StandIn(lane)
       IN IF p = None
          THEN CaptureReaches(c, None) /\ UNCHANGED cache
          ELSE /\ cap' = [cap EXCEPT ![c].st = "then", ![c].pic = p]
               /\ cache' = IF cap[c].gen = generation THEN [cache EXCEPT ![lane] = p]
                           ELSE cache
               /\ UNCHANGED <<req, inflight>>
    /\ UNCHANGED <<era, generation, cams, verified, lastGood, still, nativeInflight,
                   sized, resizing, nat, rsz>>

-----------------------------------------------------------------------------
(* Resizes: startResize, rememberResized *)

\* There is a sized picture made from p; and a version that takes any.
SizedFromAny(p) == resized # None
SizedFrom(p) == IF resized = None THEN FALSE ELSE resized.src = p

\* A resize of picture p starts.
Resize(z, p, event) ==
    /\ rsz[z].st = "idle"
    /\ rsz' = [rsz EXCEPT ![z] = [IdleRsz EXCEPT !.st = "run", !.src = p, !.event = event,
                                                 !.gen = generation, !.hit = resized]]
    /\ resizing' = z /\ latest' = z

\* rememberResized(): the latest resize of the current generation, certified.
RememberResized(z, p, certified) ==
    resized' = IF certified /\ rsz[z].gen = generation /\ latest = z
               THEN [src |-> rsz[z].src, pic |-> p] ELSE resized

\* A request's work ends with picture p; an answer given at the deadline stands.
Answered(r, p) == [r EXCEPT !.st = "over", !.on = None, !.ans = IF @ = None THEN p ELSE @]

\* The sized picture, or a failure, reaches the requests that await resize z;
\* a capture that prepares its new preview goes on either way.
ResizeReaches(z, p) ==
    /\ req' = [q \in Reqs |-> IF req[q].st = "resize" /\ req[q].on = z
                 THEN IF p = None THEN [req[q] EXCEPT !.st = "fail", !.on = None]
                                  ELSE Answered(req[q], p)
                 ELSE req[q]]
    /\ cap' = [c \in Caps |-> IF cap[c].st = "refresh" /\ cap[c].on = z
                 THEN [cap[c] EXCEPT !.st = "then", !.on = None, !.stale = None]
                 ELSE cap[c]]
    /\ resizing' = IF resizing = z THEN None ELSE resizing
    /\ rsz' = [rsz EXCEPT ![z] = IdleRsz]

Resized(z) ==
    /\ rsz[z].st = "run"
    /\ Quiet
    /\ \E certified \in BOOLEAN : RememberResized(z, rsz[z].src, certified)
    /\ ResizeReaches(z, rsz[z].src)
    /\ UNCHANGED <<era, generation, cams, stores, still, nativeInflight, inflight,
                   latest, variant, nat>>

\* The image worker fails: fall back to the sized picture known before, tagged
\* with the new source, or go on to an independent conversion.
ResizeFails(z) ==
    /\ rsz[z].st = "run"
    /\ Quiet
    /\ LET r == rsz[z]
       IN IF ~r.event /\ r.hit # None
          THEN RememberResized(z, r.hit.pic, TRUE) /\ ResizeReaches(z, r.hit.pic)
          ELSE /\ rsz' = [rsz EXCEPT ![z].st = IF r.event THEN "convert" ELSE "ask",
                                     ![z].pic = r.src]
               /\ UNCHANGED <<resized, resizing, req, cap>>
    /\ UNCHANGED <<era, generation, cams, stores, still, nativeInflight, inflight,
                   latest, variant, nat>>

\* A periodic picture falls back to the native still of its generation.
ResizeAsksStill(z) ==
    /\ rsz[z].st = "ask"
    /\ LET g == rsz[z].gen
       IN \/ /\ StillUsable(g)
             /\ rsz' = [rsz EXCEPT ![z].st = "convert", ![z].pic = native]
             /\ UNCHANGED <<nat, nativeInflight>>
          \/ /\ StillJoinable(g)
             /\ rsz' = [rsz EXCEPT ![z].st = "wait", ![z].on = nativeInflight]
             /\ UNCHANGED <<nat, nativeInflight>>
          \/ /\ ~StillJoinable(g)
             /\ \E n \in Nats :
                    FetchStill(n, g, FALSE) /\ rsz' = [rsz EXCEPT ![z].st = "wait", ![z].on = n]
    /\ UNCHANGED <<era, generation, cams, stores, still, inflight, sized, resizing,
                   req, cap>>

\* normalizeFallbackJpeg() ends.
Converted(z) ==
    /\ rsz[z].st = "convert"
    /\ Quiet
    /\ \/ /\ \E certified \in BOOLEAN : RememberResized(z, rsz[z].pic, certified)
          /\ ResizeReaches(z, rsz[z].pic)
       \/ ResizeReaches(z, None) /\ UNCHANGED resized
    /\ UNCHANGED <<era, generation, cams, stores, still, nativeInflight, inflight,
                   latest, variant, nat>>

\* The capture settles; one that refreshed a stale preview first prepares the
\* known size (refreshPreviewVariants).
CaptureSettles(c) ==
    /\ cap[c].st = "then"
    /\ LET p == cap[c].pic
           due == /\ cap[c].stale \notin {None, p}
                  /\ cap[c].gen = generation /\ cache["preview"] = p
                  /\ variant /\ ~SizedFrom(p)
           joins == resizing # None /\ rsz[resizing].src = p
       IN \/ /\ ~due
             /\ CaptureReaches(c, p)
             /\ UNCHANGED <<rsz, resizing, latest>>
          \/ /\ due /\ joins
             /\ cap' = [cap EXCEPT ![c].st = "refresh", ![c].on = resizing]
             /\ UNCHANGED <<req, inflight, rsz, resizing, latest>>
          \/ /\ due /\ ~joins
             /\ \E z \in Rszs :
                    Resize(z, p, FALSE) /\ cap' = [cap EXCEPT ![c].st = "refresh", ![c].on = z]
             /\ UNCHANGED <<req, inflight>>
    /\ UNCHANGED <<era, generation, cams, stores, still, nativeInflight, resized, variant, nat>>

-----------------------------------------------------------------------------
(* Requests: getPicture, getFrame, resizeFor *)

\* Every resize that may still have to start finds a slot.
RoomForResizes ==
    Cardinality({q \in Reqs : req[q].st = "frame" /\ req[q].sized})
        + Cardinality({q \in Reqs : req[q].st = "size" /\ req[q].sized})
        + Cardinality({c \in Caps : cap[c].st # "refresh" /\ cap[c].stale # None})
    <= Cardinality({z \in Rszs : rsz[z].st = "idle"})

\* getPicture() up to its first await: a preview hedges with a native still,
\* then getFrame() answers from the cache, refreshing a stale entry in the
\* background, or joins or starts the capture of its lane.
Request(q, lane, size) ==
    LET r == [IdleReq EXCEPT !.lane = lane, !.sized = size,
                             !.era = era, !.from = Len(cams)]
        cached == IF lane = "event" THEN None ELSE cache[lane]
        coming == inflight[lane] # None
    IN /\ req[q].st = "idle"
       /\ Quiet
       /\ \/ UNCHANGED <<nat, nativeInflight>>
          \/ lane = "preview" /\ EnsureStill
       /\ \/ /\ cached # None
             /\ req' = [req EXCEPT ![q] = [r EXCEPT !.st = "size", !.pic = cached]]
             /\ \/ UNCHANGED <<cap, inflight>>
                \/ /\ ~coming
                   /\ \E c \in Caps :
                          Capture(c, lane, IF lane = "preview" THEN cached ELSE None)
          \/ /\ cached = None /\ coming
             /\ req' = [req EXCEPT ![q] = [r EXCEPT !.st = "frame", !.on = inflight[lane]]]
             /\ UNCHANGED <<cap, inflight>>
          \/ /\ cached = None /\ ~coming
             /\ \E c \in Caps :
                    /\ Capture(c, lane, None)
                    /\ req' = [req EXCEPT ![q] = [r EXCEPT !.st = "frame", !.on = c]]
       /\ UNCHANGED <<era, generation, cams, stores, still, sized, resizing, rsz>>
       /\ RoomForResizes' /\ RoomForStills'

\* resizeFor(): the frame as it is, the sized picture made from it, a stale
\* sized picture with a resize behind it, or the resize itself, joined only
\* for the same frame and freshness.
SizeFor(q) ==
    LET r == req[q]
        event == r.lane = "event"
        active == resizing # None /\ rsz[resizing].src = r.pic
        hit == IF SizedFrom(r.pic) THEN "same" ELSE IF resized = None THEN "none" ELSE "older"
        give(p) == req' = [req EXCEPT ![q] = Answered(r, p)]
        await(z) == req' = [req EXCEPT ![q].st = "resize", ![q].on = z]
    IN /\ r.st = "size"
       /\ variant' = (variant \/ (r.sized /\ ~event))
       /\ \/ /\ ~r.sized
             /\ give(r.pic)
             /\ UNCHANGED <<rsz, resizing, latest>>
          \/ /\ r.sized
             /\ hit = "same" \/ (hit = "older" /\ ~event /\ active)
             /\ give(resized.pic)
             /\ UNCHANGED <<rsz, resizing, latest>>
          \/ /\ r.sized /\ hit = "older" /\ ~event /\ ~active
             /\ give(resized.pic)
             /\ \E z \in Rszs : Resize(z, r.pic, FALSE)
          \/ /\ r.sized /\ (hit = "none" \/ (hit = "older" /\ event))
             /\ IF active /\ rsz[resizing].event = event
                THEN await(resizing) /\ UNCHANGED <<rsz, resizing, latest>>
                ELSE \E z \in Rszs : Resize(z, r.pic, event) /\ await(z)
       /\ UNCHANGED <<era, generation, cams, stores, still, nativeInflight, inflight,
                      resized, cap, nat>>

\* The first picture there is, or an error; and a version that trusts the second.
FirstUnchecked(a, b) == IF a # None THEN a ELSE b
First(a, b) == IF a # None THEN a ELSE IF b # None THEN b ELSE 0

\* What getPicture() answers when its work failed or is late; 0 is an error.
\* The conversion of a safety image, or a caller's own deadline, may fail too.
Fallbacks(r) ==
    IF r.lane = "event" THEN {0}
    ELSE IF r.sized /\ resized # None THEN {resized.pic}
    ELSE {0, IF r.sized THEN First(native, lastGood) ELSE First(lastGood, native)}

WorkFails(q) ==
    /\ req[q].st = "fail"
    /\ \E p \in Fallbacks(req[q]) : req' = [req EXCEPT ![q] = Answered(req[q], p)]
    /\ UNCHANGED <<era, generation, cams, stores, still, nativeInflight, inflight, sized,
                   resizing, cap, nat, rsz>>

\* The deadline: the caller is answered, the work goes on.
Deadline(q) ==
    /\ req[q].st \in {"frame", "resize"} /\ req[q].ans = None
    /\ Quiet
    /\ \E p \in Fallbacks(req[q]) : req' = [req EXCEPT ![q].ans = p]
    /\ UNCHANGED <<era, generation, cams, stores, still, nativeInflight, inflight, sized,
                   resizing, cap, nat, rsz>>

\* The caller has its answer.
Leave(q) ==
    /\ req[q].st = "over"
    /\ Quiet
    /\ req' = [req EXCEPT ![q] = IdleReq]
    /\ UNCHANGED <<era, generation, cams, stores, still, nativeInflight, inflight, sized,
                   resizing, cap, nat, rsz>>

-----------------------------------------------------------------------------
CaptureStep(c) == \/ KeyframeArrives(c) \/ KeyframeSettles(c) \/ KeyframeFails(c) \/ AskStill(c)
                  \/ StillCaptured(c) \/ NothingCaptured(c) \/ CaptureSettles(c)
StillStep(n) == StillArrives(n) \/ StillSettles(n) \/ StillFails(n)
ResizeStep(z) == Resized(z) \/ ResizeFails(z) \/ ResizeAsksStill(z) \/ Converted(z)
RequestStep(q) == SizeFor(q) \/ WorkFails(q) \/ Deadline(q) \/ Leave(q)

Next ==
    \/ ClearCache \/ Reset \/ Warm
    \/ \E c \in Caps : CaptureStep(c)
    \/ \E n \in Nats : StillStep(n)
    \/ \E z \in Rszs : ResizeStep(z)
    \/ \E q \in Reqs : RequestStep(q) \/ \E k \in Kinds[q] : Request(q, k[1], k[2])

Spec == Init /\ [][Next]_vars

\* Every network call, image conversion and request has a timeout and a
\* continuation always runs; no caller has to ask.  The fairness is strong
\* because a timer that is due waits for Quiet: other work may run before it
\* time and again, and the event loop still gets to it.
Fairness ==
    /\ \A c \in Caps : SF_vars(CaptureStep(c))
    /\ \A n \in Nats : SF_vars(StillFails(n))
    /\ \A z \in Rszs : SF_vars(ResizeStep(z))
    /\ \A q \in Reqs : SF_vars(RequestStep(q))

FairSpec == Spec /\ Fairness

-----------------------------------------------------------------------------
(* Properties *)

Pictures == 1..Len(cams)
Picture == Pictures \cup {None}

\* The state has the shape the code's fields and promises give it.
TypeOK ==
    /\ era \in 0..MaxEra /\ generation \in 0..MaxGeneration
    /\ cams \in Seq(0..MaxEra) /\ verified \subseteq Pictures
    /\ cache \in [{"preview", "full"} -> Picture]
    /\ {lastGood, native} \subseteq Picture /\ asked \subseteq Pictures /\ nativeGen \in 0..MaxGeneration
    /\ nativeInflight \in Nats \cup {None}
    /\ inflight \in [Lanes -> Caps \cup {None}]
    /\ resized = None \/ {resized.src, resized.pic} \subseteq Pictures
    /\ {resizing, latest} \subseteq Rszs \cup {None}
    /\ \A q \in Reqs : /\ req[q].ans \in Picture \cup {0}
                       /\ req[q].st = "over" => req[q].ans # None
    /\ \A c \in Caps : cap[c].st \in {"still", "then", "refresh"} => cap[c].pic \in Pictures
    /\ \A z \in Rszs : rsz[z].st # "idle" => rsz[z].src \in Pictures

\* A capture that outlives clearCache() or reset() leaves nothing behind: what
\* is cached, kept as last good or as the safety image shows the camera that is
\* configured now.
NoForeignPicture ==
    \A p \in {cache["preview"], cache["full"], lastGood, native} : p # None => cams[p] = era

\* The same for sized pictures, which outlive a source frame.
NoForeignSize == resized # None => cams[resized.pic] = era

\* Only certified pictures are kept to be served again.
KeptIsCertified ==
    \A p \in {cache["preview"], cache["full"], lastGood, native} : p # None => p \in verified

\* What is kept to be served again is certified and of this camera.
KeptIsOurs == NoForeignPicture /\ KeptIsCertified

\* A picture answers a request only if it shows the camera configured when the
\* request was made, or a later one: no join and no fallback reaches back over
\* a reset().  Polls of a size are left out: NoForeignSize is not true of them.
ServedIsCurrent ==
    \A q \in Reqs : req[q].ans \notin {None, 0} /\ (req[q].sized => req[q].lane = "event")
                        => cams[req[q].ans] >= req[q].era

\* No picture of another camera gets in: none is kept and none is served.
PicturesAreOurs == KeptIsOurs /\ ServedIsCurrent

\* An event is answered by an error or by a picture that was not a frame yet
\* when it asked and that the camera was asked for by an event's capture: no
\* cache, no keyframe and no poll's still, whatever it is coalesced with and in
\* whatever size ("events require a fresh still", snapshots.ts:993).
EventIsFresh ==
    \A q \in Reqs : req[q].lane = "event" /\ req[q].ans \notin {None, 0}
                        => req[q].ans > req[q].from /\ req[q].ans \in asked

\* What an event may think besides: that its picture arrived after it asked.
\* It may join a capture whose still is in and being probed, for up to 700 ms.
JoinsInTime ==
    [][\A q \in Reqs, n \in Nats :
           /\ req[q].st = "idle" /\ req'[q].st = "frame" /\ req'[q].lane = "event"
           /\ nat[n].st = "probe"
           => ~(cap[req'[q].on].st = "wait" /\ cap[req'[q].on].on = n)]_vars

\* Callers of one lane share one capture: the camera is never asked twice at a
\* time by the same lane and generation.  And a lane does not stay bound to a
\* capture that is over, whatever failed on its way.
OneCapturePerLane ==
    /\ \A c, d \in Caps :
           /\ cap[c].st # "idle" /\ cap[d].st # "idle"
           /\ cap[c].lane = cap[d].lane /\ cap[c].gen = cap[d].gen
           => c = d
    /\ \A l \in Lanes : inflight[l] # None => cap[inflight[l]].st # "idle"

\* Every capture settles, so that the next caller can start another.
LanesFree == \A l \in Lanes : (inflight[l] # None) ~> (inflight[l] = None)
=============================================================================
