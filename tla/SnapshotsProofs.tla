--------------------------- MODULE SnapshotsProofs --------------------------
(***************************************************************************)
(* Proofs about Snapshots: the shape of the state, that no picture of      *)
(* another camera is kept or served, that an event gets a new picture, and *)
(* that callers of a lane share one capture.                               *)
(*                                                                         *)
(* None of these is inductive: whether a late result may be kept depends   *)
(* on what its capture and its still were started for, so the invariant    *)
(* ties each generation to its camera (Eras), each capture to the stills   *)
(* of its generation (StillsAreNoOlder), to its lane (LanesAreBound) and   *)
(* to what it awaits (CapturesGoOn), and each request to a capture or a    *)
(* resize that is not older than itself (RequestsGoOn).  Events rest on    *)
(* the order of continuations: an event takes its picture before the next  *)
(* picture comes, before a size of it is known (EventsTakeTheNewest).      *)
(***************************************************************************)
EXTENDS Snapshots, SequenceTheorems, TLAPS

(* What holds besides. *)

\* The records are the ones the code makes.
MaybePicture == Nat \cup {None}
Requests == [st : {"idle", "frame", "size", "resize", "fail", "over"}, lane : Lanes,
             sized : BOOLEAN, era : Nat, from : Nat, pic : MaybePicture,
             on : Caps \cup Rszs \cup {None}, ans : MaybePicture]
Captures == [st : {"idle", "key", "check", "ask", "wait", "still", "nostill", "then", "refresh"},
             lane : Lanes, gen : Nat, cam : Nat, pic : MaybePicture,
             on : Nats \cup Rszs \cup {None}, stale : MaybePicture]
Stills == [st : {"idle", "fetch", "probe"}, gen : Nat, cam : Nat, event : BOOLEAN]
SizedPictures == [src : Nat, pic : Nat] \cup {None}
Resizes == [st : {"idle", "run", "ask", "wait", "convert"}, src : MaybePicture,
            event : BOOLEAN, gen : Nat, hit : SizedPictures, pic : MaybePicture,
            on : Nats \cup {None}]

Shapes ==
    /\ req \in [Reqs -> Requests] /\ cap \in [Caps -> Captures]
    /\ nat \in [Nats -> Stills] /\ rsz \in [Rszs -> Resizes]
    /\ resized \in SizedPictures

\* Nothing shows a camera that was not configured yet, and what was started in
\* the current generation is about the camera that is configured now.
Eras ==
    /\ \A p \in Pictures : cams[p] <= era
    /\ \A q \in Reqs : req[q].era <= era /\ req[q].from <= Len(cams)
    /\ \A c \in Caps :
           /\ cap[c].gen <= generation /\ cap[c].cam <= era
           /\ cap[c].st # "idle" /\ cap[c].gen = generation => cap[c].cam = era
    /\ \A n \in Nats :
           /\ nat[n].gen <= generation /\ nat[n].cam <= era
           /\ nat[n].st # "idle" /\ nat[n].gen = generation => nat[n].cam = era
    /\ \A z \in Rszs : rsz[z].gen <= generation

\* A still is never of an older camera than a capture of its generation.
StillsAreNoOlder ==
    \A c \in Caps, n \in Nats :
        cap[c].st # "idle" /\ nat[n].st # "idle" /\ cap[c].gen = nat[n].gen
            => cap[c].cam <= nat[n].cam

\* A capture of the current generation is the one its lane joins.
LanesAreBound ==
    /\ \A c \in Caps : cap[c].st # "idle" /\ cap[c].gen = generation
                           => inflight[cap[c].lane] = c
    /\ \A l \in Lanes : inflight[l] # None => /\ cap[inflight[l]].st # "idle"
                                              /\ cap[inflight[l]].lane = l
                                              /\ cap[inflight[l]].gen = generation

\* What a capture awaits is under way, and its picture shows its camera or a
\* later one.
CapturesGoOn ==
    /\ \A c \in Caps :
           /\ cap[c].st = "wait" => /\ cap[c].on \in Nats /\ nat[cap[c].on].st # "idle"
                                    /\ nat[cap[c].on].gen = cap[c].gen
           /\ cap[c].st \in {"still", "then", "refresh"}
                  => cap[c].pic \in Pictures /\ cap[c].cam <= cams[cap[c].pic]
    /\ nativeInflight # None => nat[nativeInflight].st # "idle"

\* A resize has its source, and one for an event never leaves it.
ResizesGoOn ==
    /\ \A z \in Rszs :
           /\ rsz[z].st # "idle" => rsz[z].src \in Pictures
           /\ rsz[z].st = "convert" => rsz[z].pic \in Pictures
           /\ rsz[z].event /\ rsz[z].st = "convert" => rsz[z].pic = rsz[z].src
           /\ rsz[z].event => rsz[z].st \in {"idle", "run", "convert"}
           /\ rsz[z].hit # None => {rsz[z].hit.src, rsz[z].hit.pic} \subseteq Pictures
    /\ resized # None => {resized.src, resized.pic} \subseteq Pictures
    /\ resizing # None => rsz[resizing].st # "idle"

\* What a request awaits is under way and not older than the request.
RequestsGoOn ==
    \A q \in Reqs :
        /\ req[q].st = "frame"
               => /\ req[q].on \in Caps /\ cap[req[q].on].st # "idle"
                  /\ req[q].era <= cap[req[q].on].cam
                  /\ req[q].lane = "event" => cap[req[q].on].lane = "event"
        /\ req[q].st \in {"size", "resize"}
               => /\ req[q].pic \in Pictures /\ req[q].era <= cams[req[q].pic]
                  /\ req[q].lane = "event" => req[q].from < req[q].pic /\ req[q].pic \in asked
        /\ req[q].st = "resize"
               => /\ req[q].sized /\ req[q].on \in Rszs /\ rsz[req[q].on].st # "idle"
                  /\ rsz[req[q].on].src = req[q].pic
                  /\ req[q].lane = "event" => rsz[req[q].on].event

\* An event takes only a picture that its lane asked for and that has just
\* come, before any size of it is known.
UnsizedYet(p) == p = Len(cams) /\ (resized # None => resized.src # p)
EventsTakeTheNewest ==
    /\ \A c \in Caps : cap[c].lane = "event" =>
           /\ cap[c].st \notin {"key", "check", "refresh"} /\ cap[c].stale = None
           /\ cap[c].st = "wait" => nat[cap[c].on].event
           /\ cap[c].st \in {"still", "then"} => UnsizedYet(cap[c].pic) /\ cap[c].pic \in asked
    /\ \A q \in Reqs : req[q].lane = "event" =>
           /\ req[q].st = "size" => UnsizedYet(req[q].pic)
           /\ req[q].st = "frame" /\ cap[req[q].on].st \in {"still", "then"}
                  => req[q].from < cap[req[q].on].pic

\* The inductive invariant.
IInv ==
    /\ TypeOK /\ Shapes /\ Eras /\ StillsAreNoOlder /\ LanesAreBound /\ CapturesGoOn
    /\ ResizesGoOn /\ RequestsGoOn /\ EventsTakeTheNewest
    /\ KeptIsOurs /\ ServedIsCurrent /\ EventIsFresh /\ OneCapturePerLane
-----------------------------------------------------------------------------
(* What the pieces of the actions do, field by field. *)

\* What is assumed of the constants.
LEMMA Constants ==
    /\ None \notin Nat /\ None \notin Caps /\ None \notin Nats /\ None \notin Rszs
    /\ MaxEra \in Nat /\ MaxGeneration \in Nat /\ MaxPictures \in Nat
    /\ \A q \in Reqs : \A k \in Kinds[q] : k[1] \in Lanes /\ k[2] \in BOOLEAN
  <1>1. \A k \in {"preview", "event"} \X BOOLEAN : k[1] \in Lanes /\ k[2] \in BOOLEAN
    BY DEF Lanes
  <1>2. \A k \in {<<"full", FALSE>>} : k[1] \in Lanes /\ k[2] \in BOOLEAN
    <2>1. <<"full", FALSE>>[1] = "full"
      BY Zenon
    <2>2. <<"full", FALSE>>[2] = FALSE
      BY Zenon
    <2>3. \A k \in {<<"full", FALSE>>} : k = <<"full", FALSE>>
      BY Zenon
    <2>4. "full" \in Lanes /\ FALSE \in BOOLEAN
      BY DEF Lanes
    <2>5. QED
      BY <2>1, <2>2, <2>3, <2>4, Zenon
  <1>3. \A q \in Reqs : \A k \in Kinds[q] : k[1] \in Lanes /\ k[2] \in BOOLEAN
    BY <1>1, <1>2, SnapshotConstants
  <1>4. QED
    BY <1>3, SnapshotConstants

\* The stores and the history of pictures, one variable at a time.
LEMMA Typed ==
    ASSUME TypeOK
    PROVE  /\ era \in Nat /\ generation \in Nat /\ Len(cams) \in Nat /\ nativeGen \in Nat
           /\ Pictures = 1..Len(cams) /\ Picture = Pictures \cup {None}
           /\ Picture \subseteq MaybePicture
           /\ \A p \in Pictures : cams[p] \in Nat
           /\ cache["preview"] \in Picture /\ cache["full"] \in Picture
           /\ lastGood \in Picture /\ native \in Picture /\ asked \subseteq Pictures
           /\ cache \in [{"preview", "full"} -> Picture]
           /\ nativeInflight \in Nats \cup {None} /\ inflight \in [Lanes -> Caps \cup {None}]
           /\ resizing \in Rszs \cup {None} /\ latest \in Rszs \cup {None}
  <1>1. cams \in Seq(0..MaxEra) /\ era \in Nat /\ generation \in Nat /\ nativeGen \in Nat
    BY Constants DEF TypeOK
  <1>2. Len(cams) \in Nat /\ \A p \in 1..Len(cams) : cams[p] \in 0..MaxEra
    BY <1>1, LenProperties, ElementOfSeq
  <1>3. /\ cache \in [{"preview", "full"} -> Picture] /\ lastGood \in Picture /\ native \in Picture
        /\ asked \subseteq Pictures
        /\ nativeInflight \in Nats \cup {None} /\ inflight \in [Lanes -> Caps \cup {None}]
        /\ resizing \in Rszs \cup {None} /\ latest \in Rszs \cup {None}
    BY DEF TypeOK
  <1>4. /\ Pictures = 1..Len(cams) /\ Picture = Pictures \cup {None}
        /\ Picture \subseteq MaybePicture
    BY <1>2 DEF Pictures, Picture, MaybePicture
  <1>5. \A p \in Pictures : cams[p] \in Nat
    BY <1>2, <1>4, Constants
  <1>6. cache["preview"] \in Picture /\ cache["full"] \in Picture
    BY <1>3
  <1>7. QED
    BY <1>1, <1>2, <1>3, <1>4, <1>5, <1>6

\* The answers, and what has its picture.
LEMMA TypedSlots ==
    ASSUME TypeOK
    PROVE  /\ \A q \in Reqs : /\ req[q].ans \in Picture \cup {0}
                              /\ req[q].st = "over" => req[q].ans # None
           /\ \A c \in Caps : cap[c].st \in {"still", "then", "refresh"} => cap[c].pic \in Pictures
           /\ \A z \in Rszs : rsz[z].st # "idle" => rsz[z].src \in Pictures
  <1>1. \A q \in Reqs : req[q].ans \in Picture \cup {0} /\ (req[q].st = "over" => req[q].ans # None)
    BY DEF TypeOK
  <1>2. \A c \in Caps : cap[c].st \in {"still", "then", "refresh"} => cap[c].pic \in Pictures
    BY DEF TypeOK
  <1>3. \A z \in Rszs : rsz[z].st # "idle" => rsz[z].src \in Pictures
    BY DEF TypeOK
  <1>4. QED
    BY <1>1, <1>2, <1>3

\* The fields of a capture.
LEMMA CaptureFields ==
    ASSUME NEW f \in [Caps -> Captures]
    PROVE  \A c \in Caps :
               /\ f[c].st \in {"idle", "key", "check", "ask", "wait", "still", "nostill", "then",
                              "refresh"}
               /\ f[c].lane \in Lanes /\ f[c].gen \in Nat /\ f[c].cam \in Nat
               /\ f[c].pic \in MaybePicture /\ f[c].stale \in MaybePicture
  BY DEF Captures

\* The fields of a request.
LEMMA RequestFields ==
    ASSUME NEW f \in [Reqs -> Requests]
    PROVE  \A q \in Reqs :
               /\ f[q].st \in {"idle", "frame", "size", "resize", "fail", "over"}
               /\ f[q].lane \in Lanes /\ f[q].sized \in BOOLEAN /\ f[q].era \in Nat
               /\ f[q].from \in Nat /\ f[q].pic \in MaybePicture /\ f[q].ans \in MaybePicture
  BY DEF Requests

\* The fields of a still.
LEMMA StillFields ==
    ASSUME NEW f \in [Nats -> Stills]
    PROVE  \A n \in Nats : /\ f[n].st \in {"idle", "fetch", "probe"}
                           /\ f[n].gen \in Nat /\ f[n].cam \in Nat /\ f[n].event \in BOOLEAN
  BY DEF Stills

\* The fields of a resize.
LEMMA ResizeFields ==
    ASSUME NEW f \in [Rszs -> Resizes]
    PROVE  \A z \in Rszs :
               /\ f[z].st \in {"idle", "run", "ask", "wait", "convert"}
               /\ f[z].src \in MaybePicture /\ f[z].event \in BOOLEAN /\ f[z].gen \in Nat
               /\ f[z].hit \in SizedPictures /\ f[z].pic \in MaybePicture
  BY DEF Resizes

\* What stays of a record that goes on.
SameCapture(c) ==
    cap'[c].lane = cap[c].lane /\ cap'[c].gen = cap[c].gen /\ cap'[c].cam = cap[c].cam
SameRequest(q) ==
    /\ req'[q].lane = req[q].lane /\ req'[q].sized = req[q].sized
    /\ req'[q].era = req[q].era /\ req'[q].from = req[q].from
SameResize(z) ==
    /\ rsz'[z].src = rsz[z].src /\ rsz'[z].event = rsz[z].event
    /\ rsz'[z].hit = rsz[z].hit /\ rsz'[z].gen = rsz[z].gen

\* A still is asked for.
LEMMA FetchDoes ==
    ASSUME Shapes, NEW n \in Nats, NEW g \in Nat, NEW event \in BOOLEAN, era \in Nat,
           FetchStill(n, g, event)
    PROVE  /\ nat[n].st = "idle" /\ nativeInflight' = n
           /\ nat' \in [Nats -> Stills]
           /\ nat'[n].st = "fetch" /\ nat'[n].gen = g /\ nat'[n].cam = era
           /\ nat'[n].event = event
           /\ \A m \in Nats \ {n} : nat'[m] = nat[m]
  BY SMTT(30) DEF Shapes, FetchStill, Stills

\* A still, or that there is none, reaches who awaits it.
LEMMA StillReachesDoes ==
    ASSUME Shapes, NEW n \in Nats, NEW p \in MaybePicture, StillReaches(n, p)
    PROVE  /\ cap' \in [Caps -> Captures] /\ rsz' \in [Rszs -> Resizes]
           /\ nat' \in [Nats -> Stills]
           /\ nat'[n].st = "idle" /\ nat'[n].gen = 0 /\ nat'[n].cam = 0
           /\ \A m \in Nats \ {n} : nat'[m] = nat[m]
           /\ nativeInflight' = IF nativeInflight = n THEN None ELSE nativeInflight
           /\ \A c \in Caps :
                  IF cap[c].st = "wait" /\ cap[c].on = n
                  THEN /\ SameCapture(c) /\ cap'[c].stale = cap[c].stale /\ cap'[c].pic = p
                       /\ cap'[c].st = IF p = None THEN "nostill" ELSE "still"
                  ELSE cap'[c] = cap[c]
           /\ \A z \in Rszs :
                  IF rsz[z].st = "wait" /\ rsz[z].on = n
                  THEN /\ SameResize(z) /\ rsz'[z].st = "convert"
                       /\ rsz'[z].pic = IF p = None THEN rsz[z].src ELSE p
                  ELSE rsz'[z] = rsz[z]
  <1> USE DEF Shapes, StillReaches
  <1>1. nat' \in [Nats -> Stills] /\ nat'[n].st = "idle" /\ nat'[n].gen = 0 /\ nat'[n].cam = 0
        /\ \A m \in Nats \ {n} : nat'[m] = nat[m]
    BY DEF Stills, IdleNat
  <1>2. cap' \in [Caps -> Captures]
    <2>1. \A c \in Caps : [cap[c] EXCEPT !.st = IF p = None THEN "nostill" ELSE "still",
                                        !.pic = p, !.on = None] \in Captures
      BY ZenonT(30) DEF Captures
    <2>2. QED
      BY <2>1
  <1>3. rsz' \in [Rszs -> Resizes]
    <2>1. ASSUME NEW z \in Rszs, NEW x \in MaybePicture
          PROVE  [rsz[z] EXCEPT !.st = "convert", !.on = None, !.pic = x] \in Resizes
      BY DEF Resizes
    <2>2. \A z \in Rszs : (IF p = None THEN rsz[z].src ELSE p) \in MaybePicture
      BY ResizeFields
    <2>3. \A z \in Rszs : [rsz[z] EXCEPT !.st = "convert", !.on = None,
                              !.pic = IF p = None THEN rsz[z].src ELSE p] \in Resizes
      BY <2>1, <2>2
    <2>4. QED
      BY <2>3
  <1>4. \A c \in Caps :
            IF cap[c].st = "wait" /\ cap[c].on = n
            THEN /\ SameCapture(c) /\ cap'[c].stale = cap[c].stale /\ cap'[c].pic = p
                 /\ cap'[c].st = IF p = None THEN "nostill" ELSE "still"
            ELSE cap'[c] = cap[c]
    BY DEF Captures, SameCapture
  <1>5. \A z \in Rszs :
            IF rsz[z].st = "wait" /\ rsz[z].on = n
            THEN /\ SameResize(z) /\ rsz'[z].st = "convert"
                 /\ rsz'[z].pic = IF p = None THEN rsz[z].src ELSE p
            ELSE rsz'[z] = rsz[z]
    BY DEF Resizes, SameResize
  <1>6. QED
    BY <1>1, <1>2, <1>3, <1>4, <1>5

\* A capture starts.
LEMMA CaptureDoes ==
    ASSUME Shapes, TypeOK, NEW c \in Caps, NEW lane \in Lanes, NEW stale \in MaybePicture,
           Capture(c, lane, stale)
    PROVE  /\ cap[c].st = "idle" /\ cap' \in [Caps -> Captures]
           /\ cap'[c].st \in {"key", "ask"} /\ (lane = "event" => cap'[c].st = "ask")
           /\ cap'[c].lane = lane /\ cap'[c].gen = generation /\ cap'[c].cam = era
           /\ cap'[c].stale = stale
           /\ \A d \in Caps \ {c} : cap'[d] = cap[d]
           /\ inflight' \in [Lanes -> Caps \cup {None}] /\ inflight'[lane] = c
           /\ \A l \in Lanes \ {lane} : inflight'[l] = inflight[l]
  <1>1. /\ cap[c].st = "idle" /\ cap' \in [Caps -> Captures]
        /\ cap'[c].st \in {"key", "ask"} /\ (lane = "event" => cap'[c].st = "ask")
        /\ cap'[c].lane = lane /\ cap'[c].gen = generation /\ cap'[c].cam = era
        /\ cap'[c].stale = stale
        /\ \A d \in Caps \ {c} : cap'[d] = cap[d]
    <2> DEFINE new == [IdleCap EXCEPT !.st = IF FullRes /\ lane # "event" THEN "key" ELSE "ask",
                                !.lane = lane, !.gen = generation, !.cam = era,
                                !.stale = stale]
    <2>1. /\ new \in Captures /\ new.st \in {"key", "ask"} /\ (lane = "event" => new.st = "ask")
          /\ new.lane = lane /\ new.gen = generation /\ new.cam = era /\ new.stale = stale
      BY Typed DEF Captures, IdleCap, MaybePicture
    <2>2. cap[c].st = "idle" /\ cap' = [cap EXCEPT ![c] = new]
      BY DEF Capture
    <2> HIDE DEF new
    <2>3. QED
      BY <2>1, <2>2 DEF Shapes
  <1>2. /\ inflight' \in [Lanes -> Caps \cup {None}] /\ inflight'[lane] = c
        /\ \A l \in Lanes \ {lane} : inflight'[l] = inflight[l]
    BY Typed DEF Capture
  <1>3. QED
    BY <1>1, <1>2

\* A capture is over.
LEMMA CaptureReachesDoes ==
    ASSUME Shapes, TypeOK, NEW c \in Caps, NEW p \in MaybePicture, CaptureReaches(c, p)
    PROVE  /\ cap' \in [Caps -> Captures] /\ req' \in [Reqs -> Requests]
           /\ cap'[c] = IdleCap /\ cap'[c].st = "idle" /\ cap'[c].lane = "full"
           /\ cap'[c].gen = 0 /\ cap'[c].cam = 0
           /\ \A d \in Caps \ {c} : cap'[d] = cap[d]
           /\ inflight' = [l \in Lanes |-> IF inflight[l] = c THEN None ELSE inflight[l]]
           /\ \A q \in Reqs :
                  IF req[q].st = "frame" /\ req[q].on = c
                  THEN /\ SameRequest(q) /\ req'[q].pic = p /\ req'[q].ans = req[q].ans
                       /\ req'[q].st = IF p = None THEN "fail" ELSE "size"
                  ELSE req'[q] = req[q]
  <1> USE DEF Shapes, CaptureReaches
  <1>1. IdleCap \in Captures /\ IdleCap.st = "idle" /\ IdleCap.lane = "full"
        /\ IdleCap.gen = 0 /\ IdleCap.cam = 0
    BY DEF Captures, IdleCap, MaybePicture, Lanes
  <1>2. cap' \in [Caps -> Captures] /\ cap'[c] = IdleCap
        /\ \A d \in Caps \ {c} : cap'[d] = cap[d]
    BY <1>1
  <1>3. req' \in [Reqs -> Requests]
    <2>1. \A q \in Reqs : [req[q] EXCEPT !.on = None, !.pic = p,
                                        !.st = IF p = None THEN "fail" ELSE "size"] \in Requests
      BY ZenonT(30) DEF Requests
    <2>2. QED
      BY <2>1
  <1>4. \A q \in Reqs :
            IF req[q].st = "frame" /\ req[q].on = c
            THEN /\ SameRequest(q) /\ req'[q].pic = p /\ req'[q].ans = req[q].ans
                 /\ req'[q].st = IF p = None THEN "fail" ELSE "size"
            ELSE req'[q] = req[q]
    BY DEF Requests, SameRequest
  <1>5. QED
    BY <1>1, <1>2, <1>3, <1>4 DEF LaneAfter

\* A resize starts.
LEMMA ResizeDoes ==
    ASSUME Shapes, TypeOK, NEW z \in Rszs, NEW p \in Pictures, NEW event \in BOOLEAN,
           Resize(z, p, event)
    PROVE  /\ rsz[z].st = "idle" /\ rsz' \in [Rszs -> Resizes]
           /\ rsz'[z].st = "run" /\ rsz'[z].src = p /\ rsz'[z].event = event
           /\ rsz'[z].hit = resized /\ rsz'[z].gen = generation
           /\ \A y \in Rszs \ {z} : rsz'[y] = rsz[y]
           /\ resizing' = z /\ latest' = z
  <1> DEFINE new == [IdleRsz EXCEPT !.st = "run", !.src = p, !.event = event,
                                    !.gen = generation, !.hit = resized]
  <1>1. /\ new \in Resizes /\ new.st = "run" /\ new.src = p /\ new.event = event
        /\ new.hit = resized /\ new.gen = generation
    BY Typed DEF Resizes, IdleRsz, MaybePicture, Shapes
  <1>2. /\ rsz[z].st = "idle" /\ rsz' = [rsz EXCEPT ![z] = new]
        /\ resizing' = z /\ latest' = z
    BY DEF Resize
  <1> HIDE DEF new
  <1>3. QED
    BY <1>1, <1>2 DEF Shapes

\* A resize is over.
LEMMA ResizeReachesDoes ==
    ASSUME Shapes, NEW z \in Rszs, NEW p \in MaybePicture, ResizeReaches(z, p)
    PROVE  /\ req' \in [Reqs -> Requests] /\ cap' \in [Caps -> Captures]
           /\ rsz' \in [Rszs -> Resizes]
           /\ rsz'[z].st = "idle" /\ rsz'[z].event = FALSE /\ rsz'[z].hit = None
           /\ rsz'[z].gen = 0
           /\ \A y \in Rszs \ {z} : rsz'[y] = rsz[y]
           /\ resizing' = IF resizing = z THEN None ELSE resizing
           /\ \A q \in Reqs :
                  IF req[q].st = "resize" /\ req[q].on = z
                  THEN /\ SameRequest(q)
                       /\ req'[q].st = IF p = None THEN "fail" ELSE "over"
                       /\ req'[q].ans = IF p # None /\ req[q].ans = None THEN p ELSE req[q].ans
                  ELSE req'[q] = req[q]
           /\ \A c \in Caps :
                  IF cap[c].st = "refresh" /\ cap[c].on = z
                  THEN /\ SameCapture(c) /\ cap'[c].pic = cap[c].pic
                       /\ cap'[c].st = "then" /\ cap'[c].stale = None
                  ELSE cap'[c] = cap[c]
  <1> USE DEF Shapes, ResizeReaches
  <1>1. /\ rsz' \in [Rszs -> Resizes]
        /\ rsz'[z].st = "idle" /\ rsz'[z].event = FALSE /\ rsz'[z].hit = None
        /\ rsz'[z].gen = 0
        /\ \A y \in Rszs \ {z} : rsz'[y] = rsz[y]
    BY DEF Resizes, IdleRsz, MaybePicture, SizedPictures
  <1>2. req' \in [Reqs -> Requests]
    <2>1. \A q \in Reqs : [req[q] EXCEPT !.st = "fail", !.on = None] \in Requests
      BY ZenonT(30) DEF Requests
    <2>2. \A q \in Reqs : Answered(req[q], p) \in Requests
      BY ZenonT(30) DEF Requests, Answered
    <2>3. QED
      BY <2>1, <2>2
  <1>3. cap' \in [Caps -> Captures]
    <2>1. \A c \in Caps : [cap[c] EXCEPT !.st = "then", !.on = None, !.stale = None] \in Captures
      BY ZenonT(30) DEF Captures, MaybePicture
    <2>2. QED
      BY <2>1
  <1>4. \A q \in Reqs :
            IF req[q].st = "resize" /\ req[q].on = z
            THEN /\ SameRequest(q)
                 /\ req'[q].st = IF p = None THEN "fail" ELSE "over"
                 /\ req'[q].ans = IF p # None /\ req[q].ans = None THEN p ELSE req[q].ans
            ELSE req'[q] = req[q]
    BY DEF Requests, SameRequest, Answered
  <1>5. \A c \in Caps :
            IF cap[c].st = "refresh" /\ cap[c].on = z
            THEN /\ SameCapture(c) /\ cap'[c].pic = cap[c].pic
                 /\ cap'[c].st = "then" /\ cap'[c].stale = None
            ELSE cap'[c] = cap[c]
    BY DEF Captures, SameCapture
  <1>6. QED
    BY <1>1, <1>2, <1>3, <1>4, <1>5

\* A sized picture is kept, or not.
LEMMA RememberResizedDoes ==
    ASSUME Shapes, NEW z \in Rszs, rsz[z].src \in Nat, NEW p \in Nat, NEW certified,
           RememberResized(z, p, certified)
    PROVE  \/ resized' = resized
           \/ /\ resized' \in SizedPictures /\ resized'.src = rsz[z].src /\ resized'.pic = p
  BY DEF RememberResized, SizedPictures

\* A picture comes in.
LEMMA PictureDoes ==
    ASSUME TypeOK, NEW p \in 1..MaxPictures, NEW cam \in 0..MaxEra, NewPicture(p, cam)
    PROVE  /\ cams' \in Seq(0..MaxEra) /\ Len(cams') = Len(cams) + 1 /\ p = Len(cams')
           /\ cams'[p] = cam /\ \A i \in Pictures : cams'[i] = cams[i]
           /\ verified \subseteq verified' /\ verified' \subseteq 1..Len(cams')
  <1>1. cams \in Seq(0..MaxEra) /\ cams' = Append(cams, cam) /\ p = Len(cams) + 1
    BY DEF TypeOK, NewPicture
  <1>2. /\ cams' \in Seq(0..MaxEra) /\ Len(cams') = Len(cams) + 1
        /\ cams'[Len(cams) + 1] = cam /\ \A i \in 1..Len(cams) : cams'[i] = cams[i]
    BY <1>1, AppendProperties
  <1>3. verified \subseteq 1..Len(cams) /\ verified' \subseteq verified \cup {p}
        /\ verified \subseteq verified'
    BY DEF TypeOK, Pictures, NewPicture
  <1>4. QED
    BY <1>1, <1>2, <1>3, Typed

\* A certified picture of the current generation is kept.
LEMMA RememberDoes ==
    ASSUME TypeOK, Shapes, NEW c \in Caps, NEW p, Remember(c, p)
    PROVE  \/ UNCHANGED <<lastGood, cache>>
           \/ /\ cap[c].gen = generation /\ p \in verified' /\ lastGood' = p
              /\ cache' \in [{"preview", "full"} -> Picture \cup {p}]
              /\ cache'["preview"] \in {cache["preview"], p}
              /\ cache'["full"] \in {cache["full"], p}
  <1>1. cap[c].lane \in {"preview", "event", "full"}
    BY CaptureFields DEF Shapes, Lanes
  <1>2. cache \in [{"preview", "full"} -> Picture]
    BY Typed
  <1>3. CASE cap[c].gen = generation /\ p \in verified'
    BY <1>1, <1>2, <1>3 DEF Remember
  <1>4. QED
    BY <1>3 DEF Remember

-----------------------------------------------------------------------------
(* The steps. *)

\* A resize ends, and with it whatever awaited it.
LEMMA ResizeEnds ==
    ASSUME IInv, Quiet, NEW z \in Rszs, NEW p \in MaybePicture, rsz[z].st \in {"run", "convert"},
           p # None => p \in Pictures /\ (rsz[z].event => p = rsz[z].src),
           ResizeReaches(z, p),
           \/ resized' = resized
           \/ /\ p # None /\ resized' \in SizedPictures
              /\ resized'.src = rsz[z].src /\ resized'.pic = p,
           UNCHANGED <<era, generation, cams, stores, still, nativeInflight, inflight, latest, nat>>
    PROVE  IInv'
  <1>0. /\ TypeOK /\ Shapes /\ Eras /\ StillsAreNoOlder /\ LanesAreBound /\ CapturesGoOn
        /\ ResizesGoOn /\ RequestsGoOn /\ EventsTakeTheNewest
        /\ KeptIsOurs /\ ServedIsCurrent /\ EventIsFresh /\ OneCapturePerLane
    BY DEF IInv
  <1>1. /\ req' \in [Reqs -> Requests] /\ cap' \in [Caps -> Captures]
        /\ rsz' \in [Rszs -> Resizes]
        /\ rsz'[z].st = "idle" /\ rsz'[z].event = FALSE /\ rsz'[z].hit = None
        /\ rsz'[z].gen = 0
        /\ \A y \in Rszs \ {z} : rsz'[y] = rsz[y]
        /\ resizing' = IF resizing = z THEN None ELSE resizing
        /\ \A q \in Reqs :
               IF req[q].st = "resize" /\ req[q].on = z
               THEN /\ SameRequest(q)
                    /\ req'[q].st = IF p = None THEN "fail" ELSE "over"
                    /\ req'[q].ans = IF p # None /\ req[q].ans = None THEN p ELSE req[q].ans
               ELSE req'[q] = req[q]
        /\ \A c \in Caps :
               IF cap[c].st = "refresh" /\ cap[c].on = z
               THEN /\ SameCapture(c) /\ cap'[c].pic = cap[c].pic
                    /\ cap'[c].st = "then" /\ cap'[c].stale = None
               ELSE cap'[c] = cap[c]
    BY <1>0, ResizeReachesDoes
  <1>2. UNCHANGED <<era, generation, cams, verified, cache, lastGood, native, nativeGen, asked,
                    nativeInflight, inflight, latest, nat>>
    BY DEF stores, still
  <1>3. Pictures' = Pictures /\ Picture' = Picture
    BY <1>2 DEF Pictures, Picture
  <1>4. rsz[z].src \in Pictures
    BY <1>0 DEF ResizesGoOn
  <1>5. /\ \A c \in Caps : cap[c].st \notin {"still", "then"} /\ SameCapture(c)
                           /\ cap'[c].pic = cap[c].pic
                           /\ (cap'[c].st = "idle" <=> cap[c].st = "idle")
                           /\ (cap'[c].st \in {"still", "then", "refresh"} => cap[c].st = "refresh")
                           /\ (cap'[c].st = "wait" => cap'[c] = cap[c])
        /\ \A q \in Reqs : req[q].st # "size" /\ SameRequest(q) /\ req'[q].st # "size"
    BY <1>1 DEF Quiet, SameCapture, SameRequest
  <1>6. TypeOK'
    <2>1. ASSUME NEW q \in Reqs
          PROVE  /\ req'[q].ans \in Picture \cup {0}
                 /\ req'[q].st = "over" => req'[q].ans # None
      <3>1. req[q].ans \in Picture \cup {0} /\ (req[q].st = "over" => req[q].ans # None)
        BY <1>0, TypedSlots
      <3>2. p # None => p \in Picture
        BY <1>0, Typed
      <3>3. CASE req[q].st = "resize" /\ req[q].on = z
        BY <1>1, <3>1, <3>2, <3>3
      <3>4. CASE ~(req[q].st = "resize" /\ req[q].on = z)
        BY <1>1, <3>1, <3>4
      <3>5. QED
        BY <3>3, <3>4
    <2>2. \A c \in Caps : cap'[c].st \in {"still", "then", "refresh"} => cap'[c].pic \in Pictures
      BY <1>0, <1>5 DEF TypeOK
    <2>3. \A y \in Rszs : rsz'[y].st # "idle" => rsz'[y].src \in Pictures
      BY <1>0, <1>1 DEF TypeOK
    <2>4. resized' = None \/ {resized'.src, resized'.pic} \subseteq Pictures
      BY <1>0, <1>4 DEF TypeOK
    <2>5. resizing' \in Rszs \cup {None}
      BY <1>0, <1>1, Typed
    <2>6. QED
      BY <1>0, <1>2, <1>3, <2>1, <2>2, <2>3, <2>4, <2>5 DEF TypeOK
  <1>7. Shapes'
    BY <1>0, <1>1, <1>2 DEF Shapes
  <1>8. Eras'
    <2>1. \A y \in Rszs : rsz'[y].gen <= generation
      BY <1>0, <1>1, Typed DEF Eras
    <2>2. QED
      BY <1>0, <1>2, <1>3, <1>5, <2>1 DEF Eras, SameCapture, SameRequest
  <1>9. StillsAreNoOlder' /\ OneCapturePerLane'
    BY <1>0, <1>2, <1>5, Typed DEF StillsAreNoOlder, OneCapturePerLane, SameCapture
  <1>10. LanesAreBound'
    BY <1>0, <1>2, <1>5, Typed, Constants DEF LanesAreBound, SameCapture
  <1>11. CapturesGoOn'
    BY <1>0, <1>2, <1>3, <1>5 DEF CapturesGoOn, SameCapture
  <1>12. ResizesGoOn'
    <2>1. \A y \in Rszs :
           /\ rsz'[y].st # "idle" => rsz'[y].src \in Pictures
           /\ rsz'[y].st = "convert" => rsz'[y].pic \in Pictures
           /\ rsz'[y].event /\ rsz'[y].st = "convert" => rsz'[y].pic = rsz'[y].src
           /\ rsz'[y].event => rsz'[y].st \in {"idle", "run", "convert"}
           /\ rsz'[y].hit # None => {rsz'[y].hit.src, rsz'[y].hit.pic} \subseteq Pictures
      BY <1>0, <1>1 DEF ResizesGoOn
    <2>2. resized' # None => {resized'.src, resized'.pic} \subseteq Pictures
      BY <1>0, <1>4 DEF ResizesGoOn
    <2>3. resizing' # None => rsz'[resizing'].st # "idle"
      BY <1>0, <1>1, Typed DEF ResizesGoOn
    <2>4. QED
      BY <1>3, <2>1, <2>2, <2>3 DEF ResizesGoOn
  <1>13. RequestsGoOn'
    <2>1. ASSUME NEW q \in Reqs, req'[q] = req[q], ~(req[q].st = "resize" /\ req[q].on = z)
          PROVE  /\ req'[q].st = "frame"
                    => /\ req'[q].on \in Caps /\ cap'[req'[q].on].st # "idle"
                       /\ req'[q].era <= cap'[req'[q].on].cam
                       /\ req'[q].lane = "event" => cap'[req'[q].on].lane = "event"
                 /\ req'[q].st = "resize"
                    => /\ req'[q].sized /\ req'[q].on \in Rszs /\ rsz'[req'[q].on].st # "idle"
                       /\ rsz'[req'[q].on].src = req'[q].pic
                       /\ req'[q].lane = "event" => rsz'[req'[q].on].event
                 /\ req'[q].st \in {"size", "resize"}
                    => /\ req'[q].pic \in Pictures /\ req'[q].era <= cams[req'[q].pic]
                       /\ req'[q].lane = "event" =>
                              req'[q].from < req'[q].pic /\ req'[q].pic \in asked
      BY <1>0, <1>1, <1>5, <2>1 DEF RequestsGoOn, SameCapture
    <2>2. \A q \in Reqs : req'[q] # req[q] => req'[q].st \in {"fail", "over"}
      BY <1>1
    <2>3. \A q \in Reqs : req[q].st = "resize" /\ req[q].on = z => req'[q].st \in {"fail", "over"}
      BY <1>1
    <2>4. QED
      BY <1>2, <1>3, <2>1, <2>2, <2>3 DEF RequestsGoOn
  <1>14. EventsTakeTheNewest'
    <2>1. \A c \in Caps : cap'[c].lane = "event" =>
              /\ cap'[c].st \notin {"key", "check", "refresh", "still", "then"}
              /\ cap'[c].stale = None
              /\ cap'[c].st = "wait" => nat'[cap'[c].on].event
      BY <1>0, <1>1, <1>5 DEF EventsTakeTheNewest, SameCapture
    <2>2. \A q \in Reqs : req'[q].lane = "event" /\ req'[q].st = "frame"
              => cap'[req'[q].on].st \notin {"still", "then"}
      <3>1. \A q \in Reqs : req'[q].st = "frame" => req'[q] = req[q]
        BY <1>1
      <3>2. QED
        BY <1>0, <1>5, <2>1, <3>1 DEF RequestsGoOn, SameCapture
    <2>3. QED
      BY <1>5, <2>1, <2>2 DEF EventsTakeTheNewest
  <1>15. KeptIsOurs'
    BY <1>0, <1>2, <1>3 DEF KeptIsOurs, NoForeignPicture, KeptIsCertified
  <1>16. ServedIsCurrent' /\ EventIsFresh'
    <2>1. \A q \in Reqs : req'[q].ans = req[q].ans \/
              /\ req[q].st = "resize" /\ req[q].on = z /\ p # None /\ req'[q].ans = p
      BY <1>1
    <2>2. ASSUME NEW q \in Reqs, req[q].st = "resize", req[q].on = z, p # None
          PROVE  /\ req[q].sized
                 /\ req[q].lane = "event" =>
                        req[q].era <= cams[p] /\ req[q].from < p /\ p \in asked
      BY <1>0, <2>2 DEF RequestsGoOn
    <2>3. ServedIsCurrent'
      BY <1>0, <1>2, <1>5, <2>1, <2>2 DEF ServedIsCurrent, SameRequest
    <2>4. EventIsFresh'
      BY <1>0, <1>2, <1>5, <2>1, <2>2 DEF EventIsFresh, SameRequest
    <2>5. QED
      BY <2>3, <2>4
  <1>17. QED
    BY <1>6, <1>7, <1>8, <1>9, <1>10, <1>11, <1>12, <1>13, <1>14, <1>15, <1>16 DEF IInv

\* How a resize ends: with its source, with what was sized before, with a
\* conversion, or without any.
LEMMA ResizedNext ==
    ASSUME IInv, NEW z \in Rszs,
           \/ Resized(z)
           \/ Converted(z)
           \/ ResizeFails(z) /\ ~rsz[z].event /\ rsz[z].hit # None
    PROVE  IInv'
  <1>0. TypeOK /\ Shapes /\ ResizesGoOn
    BY DEF IInv
  <1>1. /\ Quiet /\ rsz[z].st \in {"run", "convert"}
        /\ rsz[z].src \in Pictures
        /\ UNCHANGED <<era, generation, cams, stores, still, nativeInflight, inflight, latest, nat>>
    BY <1>0 DEF Resized, Converted, ResizeFails, ResizesGoOn
  <1>2. Pictures \subseteq Nat /\ Pictures \subseteq MaybePicture /\ None \notin Pictures
    BY <1>0, Typed, Constants DEF MaybePicture
  <1>3. ASSUME NEW p \in Pictures, rsz[z].event => p = rsz[z].src, NEW certified \in BOOLEAN,
               RememberResized(z, p, certified), ResizeReaches(z, p)
        PROVE  IInv'
    <2>1. \/ resized' = resized
          \/ resized' \in SizedPictures /\ resized'.src = rsz[z].src /\ resized'.pic = p
      BY <1>0, <1>1, <1>2, <1>3, RememberResizedDoes
    <2>2. p # None /\ p \in MaybePicture
      BY <1>2
    <2>3. QED
      BY <1>1, <1>3, <2>1, <2>2, ResizeEnds
  <1>4. CASE Resized(z)
    BY <1>1, <1>3, <1>4 DEF Resized
  <1>5. CASE Converted(z)
    <2>1. rsz[z].pic \in Pictures /\ (rsz[z].event => rsz[z].pic = rsz[z].src)
      BY <1>0, <1>5 DEF Converted, ResizesGoOn
    <2>2. CASE ResizeReaches(z, None) /\ UNCHANGED resized
      <3>1. None \in MaybePicture
        BY DEF MaybePicture
      <3>2. QED
        BY <1>1, <2>2, <3>1, ResizeEnds
    <2>3. QED
      BY <1>3, <1>5, <2>1, <2>2 DEF Converted
  <1>6. CASE ResizeFails(z) /\ ~rsz[z].event /\ rsz[z].hit # None
    <2>1. rsz[z].hit.pic \in Pictures
      BY <1>0, <1>6 DEF ResizesGoOn
    <2>2. RememberResized(z, rsz[z].hit.pic, TRUE) /\ ResizeReaches(z, rsz[z].hit.pic)
      BY <1>6 DEF ResizeFails
    <2>3. QED
      BY <1>3, <1>6, <2>1, <2>2
  <1>7. QED
    BY <1>4, <1>5, <1>6

\* A still of generation g is asked for, or not.
StillAsked(g) ==
    \/ UNCHANGED <<nat, nativeInflight>>
    \/ \E n \in Nats, event \in BOOLEAN : FetchStill(n, g, event)

\* What that changes: at most one still, and the one in flight.
LEMMA StillAskedDoes ==
    ASSUME TypeOK, Shapes, CapturesGoOn, NEW g \in Nat, StillAsked(g)
    PROVE  /\ nat' \in [Nats -> Stills] /\ nativeInflight' \in Nats \cup {None}
           /\ nativeInflight' # None => nat'[nativeInflight'].st # "idle"
           /\ \A n \in Nats :
                  \/ nat'[n] = nat[n]
                  \/ /\ nat[n].st = "idle" /\ nat'[n].st = "fetch"
                     /\ nat'[n].gen = g /\ nat'[n].cam = era
  <1>1. CASE UNCHANGED <<nat, nativeInflight>>
    BY <1>1, Typed DEF Shapes, CapturesGoOn
  <1>2. ASSUME NEW n \in Nats, NEW event \in BOOLEAN, FetchStill(n, g, event)
        PROVE  /\ nat' \in [Nats -> Stills] /\ nativeInflight' = n
               /\ nat[n].st = "idle" /\ nat'[n].st = "fetch"
               /\ nat'[n].gen = g /\ nat'[n].cam = era
               /\ \A m \in Nats \ {n} : nat'[m] = nat[m]
    BY <1>2, Typed, FetchDoes
  <1>3. QED
    BY <1>1, <1>2 DEF StillAsked

\* A resize, or nothing, goes on while a still may be asked for.
LEMMA ResizeGoesNext ==
    ASSUME IInv, NEW g \in Nat, g <= generation, StillAsked(g),
           rsz' \in [Rszs -> Resizes],
           \A z \in Rszs :
               \/ rsz'[z] = rsz[z]
               \/ /\ SameResize(z) /\ rsz[z].st # "idle"
                  /\ \/ /\ rsz'[z].st = "convert" /\ rsz'[z].pic \in Pictures
                        /\ rsz'[z].event => rsz'[z].pic = rsz'[z].src
                     \/ rsz'[z].st \in {"ask", "wait"} /\ ~rsz'[z].event,
           UNCHANGED <<era, generation, cams, stores, still, inflight, sized, resizing, req, cap>>
    PROVE  IInv'
  <1>0. /\ TypeOK /\ Shapes /\ Eras /\ StillsAreNoOlder /\ LanesAreBound /\ CapturesGoOn
        /\ ResizesGoOn /\ RequestsGoOn /\ EventsTakeTheNewest
        /\ KeptIsOurs /\ ServedIsCurrent /\ EventIsFresh /\ OneCapturePerLane
    BY DEF IInv
  <1>1. /\ nat' \in [Nats -> Stills] /\ nativeInflight' \in Nats \cup {None}
        /\ nativeInflight' # None => nat'[nativeInflight'].st # "idle"
        /\ \A n \in Nats :
               \/ nat'[n] = nat[n]
               \/ /\ nat[n].st = "idle" /\ nat'[n].st = "fetch"
                  /\ nat'[n].gen = g /\ nat'[n].cam = era
    BY <1>0, StillAskedDoes
  <1>2. UNCHANGED <<era, generation, cams, verified, cache, lastGood, native, nativeGen, asked,
                    inflight, resized, latest, variant, resizing, req, cap>>
    BY DEF stores, still, sized
  <1>3. Pictures' = Pictures /\ Picture' = Picture
    BY <1>2 DEF Pictures, Picture
  <1>4. \A z \in Rszs :
            /\ rsz'[z].st # "idle" <=> rsz[z].st # "idle"
            /\ SameResize(z)
    BY DEF SameResize
  <1>5. TypeOK'
    <2>1. \A z \in Rszs : rsz'[z].st # "idle" => rsz'[z].src \in Pictures
      BY <1>0, <1>4 DEF ResizesGoOn, SameResize
    <2>2. QED
      BY <1>0, <1>1, <1>2, <1>3, <2>1 DEF TypeOK
  <1>6. Shapes'
    BY <1>0, <1>1, <1>2 DEF Shapes
  <1>7. Eras'
    BY <1>0, <1>1, <1>2, <1>3, <1>4, Typed DEF Eras, SameResize
  <1>8. StillsAreNoOlder'
    BY <1>0, <1>1, <1>2 DEF StillsAreNoOlder, Eras
  <1>9. CapturesGoOn'
    BY <1>0, <1>1, <1>2, <1>3 DEF CapturesGoOn
  <1>10. ResizesGoOn'
    <2>1. \A z \in Rszs :
           /\ rsz'[z].st # "idle" => rsz'[z].src \in Pictures
           /\ rsz'[z].st = "convert" => rsz'[z].pic \in Pictures
           /\ rsz'[z].event /\ rsz'[z].st = "convert" => rsz'[z].pic = rsz'[z].src
           /\ rsz'[z].event => rsz'[z].st \in {"idle", "run", "convert"}
           /\ rsz'[z].hit # None => {rsz'[z].hit.src, rsz'[z].hit.pic} \subseteq Pictures
      BY <1>0, <1>4 DEF ResizesGoOn, SameResize
    <2>2. resizing' # None => rsz'[resizing'].st # "idle"
      BY <1>0, <1>2, <1>4, Typed DEF ResizesGoOn
    <2>3. QED
      BY <1>0, <1>2, <1>3, <2>1, <2>2 DEF ResizesGoOn
  <1>11. RequestsGoOn'
    BY <1>0, <1>2, <1>3, <1>4 DEF RequestsGoOn, SameResize
  <1>12. LanesAreBound' /\ OneCapturePerLane' /\ EventsTakeTheNewest'
    <2>1. LanesAreBound' /\ OneCapturePerLane'
      BY <1>0, <1>2 DEF LanesAreBound, OneCapturePerLane
    <2>2. \A c \in Caps : cap[c].lane = "event" /\ cap[c].st = "wait"
              => nat'[cap[c].on] = nat[cap[c].on]
      BY <1>0, <1>1 DEF CapturesGoOn
    <2>3. EventsTakeTheNewest'
      BY <1>0, <1>2, <2>2 DEF EventsTakeTheNewest, UnsizedYet
    <2>4. QED
      BY <2>1, <2>3
  <1>13. KeptIsOurs' /\ ServedIsCurrent' /\ EventIsFresh'
    BY <1>0, <1>2
       DEF KeptIsOurs, NoForeignPicture, KeptIsCertified, ServedIsCurrent, EventIsFresh
  <1>14. QED
    BY <1>5, <1>6, <1>7, <1>8, <1>9, <1>10, <1>11, <1>12, <1>13 DEF IInv

\* A resize that failed turns to the native still, or to its own source.
LEMMA ResizeTurnsNext ==
    ASSUME IInv, NEW z \in Rszs,
           \/ ResizeFails(z) /\ ~(~rsz[z].event /\ rsz[z].hit # None)
           \/ ResizeAsksStill(z)
    PROVE  IInv'
  <1>0. TypeOK /\ Shapes /\ ResizesGoOn /\ CapturesGoOn
    BY DEF IInv
  <1>1. /\ rsz[z].src \in Pictures /\ rsz[z].gen \in Nat /\ rsz[z].event \in BOOLEAN
    BY <1>0 DEF ResizeFails, ResizeAsksStill, ResizesGoOn, Shapes, Resizes
  <1>2. CASE ResizeFails(z) /\ ~(~rsz[z].event /\ rsz[z].hit # None)
    <2>1. /\ rsz' = [rsz EXCEPT ![z].st = IF rsz[z].event THEN "convert" ELSE "ask",
                                ![z].pic = rsz[z].src]
          /\ UNCHANGED <<era, generation, cams, stores, still, nativeInflight, inflight, sized,
                         resizing, req, cap, nat>>
      BY <1>2 DEF ResizeFails, sized
    <2>2. rsz[z].st # "idle" /\ rsz[z].src \in MaybePicture
      BY <1>0, <1>1, <1>2, Typed DEF ResizeFails
    <2>3. rsz' \in [Rszs -> Resizes]
      <3>1. [rsz[z] EXCEPT !.st = IF rsz[z].event THEN "convert" ELSE "ask",
                           !.pic = rsz[z].src] \in Resizes
        BY <1>0, <2>2 DEF Shapes, Resizes
      <3>2. rsz' = [rsz EXCEPT ![z] = [rsz[z] EXCEPT
                        !.st = IF rsz[z].event THEN "convert" ELSE "ask", !.pic = rsz[z].src]]
        BY <2>1
      <3>3. QED
        BY <1>0, <3>1, <3>2 DEF Shapes
    <2>4. \A y \in Rszs \ {z} : rsz'[y] = rsz[y]
      BY <2>1, <1>0 DEF Shapes
    <2>5. /\ SameResize(z) /\ rsz'[z].pic = rsz[z].src
          /\ rsz'[z].st = IF rsz[z].event THEN "convert" ELSE "ask"
      BY <2>1, <1>0 DEF Shapes, Resizes, SameResize
    <2>6. StillAsked(generation)
      BY <2>1 DEF StillAsked
    <2>7. \/ rsz'[z].st = "convert" /\ rsz'[z].pic \in Pictures /\ rsz'[z].pic = rsz'[z].src
          \/ rsz'[z].st = "ask" /\ ~rsz'[z].event
      BY <1>1, <2>5 DEF SameResize
    <2>8. generation \in Nat /\ generation <= generation
      BY <1>0, Typed
    <2>9. QED
      BY <2>1, <2>2, <2>3, <2>4, <2>5, <2>6, <2>7, <2>8, ResizeGoesNext
  <1>3. CASE ResizeAsksStill(z)
    <2>1. /\ UNCHANGED <<era, generation, cams, stores, still, inflight, sized, resizing, req, cap>>
          /\ rsz[z].st = "ask" /\ ~rsz[z].event
      BY <1>0, <1>3 DEF ResizeAsksStill, ResizesGoOn
    <2>2. rsz[z].gen \in Nat /\ rsz[z].gen <= generation
      BY <1>1 DEF IInv, Eras
    <2>3. StillAsked(rsz[z].gen)
      BY <1>3 DEF ResizeAsksStill, StillAsked
    <2>4. \/ /\ rsz' = [rsz EXCEPT ![z].st = "convert", ![z].pic = native]
             /\ native \in Pictures /\ native \in MaybePicture
          \/ \E n \in Nats : rsz' = [rsz EXCEPT ![z].st = "wait", ![z].on = n]
      <3>1. StillUsable(rsz[z].gen) => native \in Pictures /\ native \in MaybePicture
        BY <1>0, Typed DEF StillUsable
      <3>2. StillJoinable(rsz[z].gen) => nativeInflight \in Nats
        BY <1>0, Typed DEF StillJoinable
      <3>3. QED
        BY <1>3, <3>1, <3>2 DEF ResizeAsksStill
    <2>5. CASE /\ rsz' = [rsz EXCEPT ![z].st = "convert", ![z].pic = native]
               /\ native \in Pictures /\ native \in MaybePicture
      <3>1. rsz' \in [Rszs -> Resizes] /\ SameResize(z) /\ rsz'[z].st = "convert"
            /\ rsz'[z].pic \in Pictures /\ \A y \in Rszs \ {z} : rsz'[y] = rsz[y]
        <4> DEFINE x == [rsz[z] EXCEPT !.st = "convert", !.pic = native]
        <4>1. rsz \in [Rszs -> Resizes] /\ rsz[z] \in Resizes
          BY <1>0 DEF Shapes
        <4>2. x \in Resizes /\ x.st = "convert" /\ x.pic = native /\ x.src = rsz[z].src
              /\ x.event = rsz[z].event /\ x.hit = rsz[z].hit /\ x.gen = rsz[z].gen
          BY <2>5, <4>1 DEF Resizes
        <4>3. rsz' = [rsz EXCEPT ![z] = x]
          BY <2>5, <4>1 DEF Resizes
        <4> HIDE DEF x
        <4>4. QED
          BY <2>5, <4>1, <4>2, <4>3 DEF SameResize
      <3>2. QED
        BY <2>1, <2>2, <2>3, <3>1, ResizeGoesNext DEF SameResize
    <2>6. ASSUME NEW n \in Nats, rsz' = [rsz EXCEPT ![z].st = "wait", ![z].on = n]
          PROVE  IInv'
      <3>1. rsz' \in [Rszs -> Resizes] /\ SameResize(z) /\ rsz'[z].st = "wait"
            /\ \A y \in Rszs \ {z} : rsz'[y] = rsz[y]
        <4> DEFINE x == [rsz[z] EXCEPT !.st = "wait", !.on = n]
        <4>1. rsz \in [Rszs -> Resizes] /\ rsz[z] \in Resizes
          BY <1>0 DEF Shapes
        <4>2. x \in Resizes /\ x.st = "wait" /\ x.src = rsz[z].src
              /\ x.event = rsz[z].event /\ x.hit = rsz[z].hit /\ x.gen = rsz[z].gen
          BY <2>6, <4>1 DEF Resizes
        <4>3. rsz' = [rsz EXCEPT ![z] = x]
          BY <2>6, <4>1 DEF Resizes
        <4> HIDE DEF x
        <4>4. QED
          BY <2>6, <4>1, <4>2, <4>3 DEF SameResize
      <3>2. QED
        BY <2>1, <2>2, <2>3, <3>1, ResizeGoesNext DEF SameResize
    <2>7. QED
      BY <2>4, <2>5, <2>6
  <1>4. QED
    BY <1>2, <1>3

\* The history of pictures stays, or grows between two events.
Grows ==
    /\ cams' \in Seq(0..MaxEra) /\ Len(cams') \in Nat /\ Len(cams) <= Len(cams')
    /\ \A p \in Pictures : cams'[p] = cams[p]
    /\ \A p \in 1..Len(cams') : cams'[p] <= era
    /\ verified \subseteq verified' /\ verified' \subseteq 1..Len(cams')
    /\ cams' = cams \/ Quiet

\* Where no picture comes the history is as it was.
LEMMA StaysGrows ==
    ASSUME TypeOK, Eras, UNCHANGED <<cams, verified>>
    PROVE  Grows
  BY Typed DEF TypeOK, Eras, Grows

\* A picture that comes is the newest, of the camera it was asked of.
LEMMA PictureGrows ==
    ASSUME TypeOK, Eras, Quiet, NEW p \in 1..MaxPictures, NEW cam \in 0..era, NewPicture(p, cam)
    PROVE  /\ Grows /\ p = Len(cams') /\ p > Len(cams) /\ cams'[p] = cam
           /\ p \in Pictures' /\ p \in Nat
  <1>1. cam \in 0..MaxEra /\ era \in Nat /\ Len(cams) \in Nat
    BY Constants, Typed DEF TypeOK
  <1>2. /\ cams' \in Seq(0..MaxEra) /\ Len(cams') = Len(cams) + 1 /\ p = Len(cams')
        /\ cams'[p] = cam /\ \A i \in Pictures : cams'[i] = cams[i]
        /\ verified \subseteq verified' /\ verified' \subseteq 1..Len(cams')
    BY <1>1, PictureDoes
  <1>3. \A i \in 1..Len(cams') : i \in Pictures \/ i = p
    BY <1>1, <1>2, Typed
  <1>4. \A i \in 1..Len(cams') : cams'[i] <= era
    BY <1>1, <1>2, <1>3 DEF Eras
  <1>5. QED
    BY <1>1, <1>2, <1>4 DEF Grows, Pictures

\* No resize that is under way is touched; one may start, with its source.
ResizesKept ==
    /\ ResizesGoOn' /\ rsz' \in [Rszs -> Resizes]
    /\ \A z \in Rszs : /\ rsz'[z].gen <= generation
                       /\ rsz[z].st # "idle" => rsz'[z] = rsz[z]
    /\ resizing' \in Rszs \cup {None} /\ latest' \in Rszs \cup {None}

\* A capture goes on: to its picture, to what it awaits, or to the next way of
\* getting one.
LEMMA CaptureGoesNext ==
    ASSUME IInv, NEW c \in Caps, NEW g \in Nat, g <= generation, StillAsked(g), Grows,
           cap' \in [Caps -> Captures], \A d \in Caps \ {c} : cap'[d] = cap[d],
           SameCapture(c), cap'[c].stale = cap[c].stale, cap[c].st # "idle",
           \/ cap'[c].st \in {"check", "ask"}
           \/ /\ cap'[c].st = "wait" /\ cap'[c].on \in Nats
              /\ nat'[cap'[c].on].st # "idle" /\ nat'[cap'[c].on].gen = cap[c].gen
           \/ /\ cap'[c].st \in {"still", "then", "refresh"}
              /\ cap'[c].pic \in Pictures' /\ cap[c].cam <= cams'[cap'[c].pic],
           cap[c].lane = "event" =>
               \/ cap'[c].st = "ask"
               \/ cap'[c].st = "wait" /\ nat'[cap'[c].on].event
               \/ /\ cap[c].st \in {"still", "then"} /\ cap'[c].st \in {"still", "then"}
                  /\ cap'[c].pic = cap[c].pic /\ cams' = cams,
           \/ UNCHANGED <<cache, lastGood>>
           \/ /\ cap[c].gen = generation /\ cap'[c].st = "then" /\ cap'[c].pic \in verified'
              /\ cache' \in [{"preview", "full"} -> Picture']
              /\ cache'["preview"] \in {cache["preview"], cap'[c].pic}
              /\ cache'["full"] \in {cache["full"], cap'[c].pic}
              /\ lastGood' \in {lastGood, cap'[c].pic},
           ResizesKept,
           UNCHANGED <<era, generation, still, inflight, resized, variant, req>>
    PROVE  IInv'
  <1> USE DEF ResizesKept
  <1>0. /\ TypeOK /\ Shapes /\ Eras /\ StillsAreNoOlder /\ LanesAreBound /\ CapturesGoOn
        /\ ResizesGoOn /\ RequestsGoOn /\ EventsTakeTheNewest
        /\ KeptIsOurs /\ ServedIsCurrent /\ EventIsFresh /\ OneCapturePerLane
    BY DEF IInv
  <1>1. /\ nat' \in [Nats -> Stills] /\ nativeInflight' \in Nats \cup {None}
        /\ nativeInflight' # None => nat'[nativeInflight'].st # "idle"
        /\ \A n \in Nats :
               \/ nat'[n] = nat[n]
               \/ /\ nat[n].st = "idle" /\ nat'[n].st = "fetch"
                  /\ nat'[n].gen = g /\ nat'[n].cam = era
    BY <1>0, StillAskedDoes
  <1>2. UNCHANGED <<era, generation, native, nativeGen, asked, inflight, resized, variant, req>>
    BY DEF still
  <1>3. /\ Pictures' = 1..Len(cams') /\ Picture' = Pictures' \cup {None}
        /\ Pictures \subseteq Pictures' /\ Picture \subseteq Picture'
        /\ \A p \in Pictures : cams'[p] = cams[p]
        /\ \A p \in Pictures' : cams'[p] <= era
        /\ verified \subseteq verified' /\ verified' \subseteq Pictures'
        /\ cams' \in Seq(0..MaxEra) /\ Len(cams) \in Nat /\ Len(cams') \in Nat
        /\ Len(cams) <= Len(cams')
    <2>1. /\ Len(cams) \in Nat /\ Len(cams') \in Nat /\ Len(cams) <= Len(cams')
          /\ cams' \in Seq(0..MaxEra) /\ verified \subseteq verified'
          /\ \A p \in Pictures : cams'[p] = cams[p]
      BY <1>0, Typed DEF Grows
    <2>2. /\ Pictures' = 1..Len(cams') /\ Picture' = Pictures' \cup {None}
          /\ Picture = Pictures \cup {None}
      BY DEF Pictures, Picture
    <2>3. Pictures \subseteq Pictures'
      BY <2>1, <2>2 DEF Pictures
    <2>4. (\A p \in Pictures' : cams'[p] <= era) /\ verified' \subseteq Pictures'
      BY <2>2 DEF Grows
    <2>5. QED
      BY <2>1, <2>2, <2>3, <2>4
  <1>4. \A d \in Caps : SameCapture(d) /\ cap'[d].stale = cap[d].stale
                        /\ (cap'[d].st # "idle" <=> cap[d].st # "idle")
    BY DEF SameCapture
  <1>5. TypeOK'
    <2>1. \A q \in Reqs : /\ req'[q].ans \in Picture' \cup {0}
                          /\ req'[q].st = "over" => req'[q].ans # None
      BY <1>0, <1>2, <1>3, TypedSlots
    <2>2. \A d \in Caps : cap'[d].st \in {"still", "then", "refresh"} => cap'[d].pic \in Pictures'
      BY <1>0, <1>3, TypedSlots
    <2>3. \A z \in Rszs : rsz'[z].st # "idle" => rsz'[z].src \in Pictures'
      BY DEF ResizesGoOn
    <2>4. resized' = None \/ {resized'.src, resized'.pic} \subseteq Pictures'
      BY DEF ResizesGoOn
    <2>5. cache' \in [{"preview", "full"} -> Picture'] /\ {lastGood', native'} \subseteq Picture'
      BY <1>0, <1>2, <1>3, Typed
    <2>6. QED
      BY <1>0, <1>1, <1>2, <1>3, <2>1, <2>2, <2>3, <2>4, <2>5 DEF TypeOK
  <1>6. Shapes'
    BY <1>0, <1>1, <1>2 DEF Shapes
  <1>7. Eras'
    <2>1. \A q \in Reqs : req'[q].era <= era' /\ req'[q].from <= Len(cams')
      <3>1. \A q \in Reqs : req[q].era <= era /\ req[q].from <= Len(cams) /\ req[q].from \in Nat
        BY <1>0, RequestFields DEF Eras, Shapes
      <3>2. QED
        BY <1>2, <1>3, <3>1
    <2>2. \A d \in Caps :
              /\ cap'[d].gen <= generation' /\ cap'[d].cam <= era'
              /\ cap'[d].st # "idle" /\ cap'[d].gen = generation' => cap'[d].cam = era'
      BY <1>0, <1>2, <1>4 DEF Eras, SameCapture
    <2>3. \A n \in Nats :
              /\ nat'[n].gen <= generation' /\ nat'[n].cam <= era'
              /\ nat'[n].st # "idle" /\ nat'[n].gen = generation' => nat'[n].cam = era'
      BY <1>0, <1>1, <1>2, Typed DEF Eras
    <2>4. QED
      BY <1>2, <1>3, <2>1, <2>2, <2>3 DEF Eras
  <1>8. StillsAreNoOlder'
    BY <1>0, <1>1, <1>2, <1>4 DEF StillsAreNoOlder, Eras, SameCapture
  <1>9. LanesAreBound' /\ OneCapturePerLane'
    <2>1. OneCapturePerLane'
      BY <1>0, <1>2, <1>4, Typed DEF OneCapturePerLane, SameCapture
    <2>2. LanesAreBound'
      BY <1>0, <1>2, <1>4, Typed, SMTT(30) DEF LanesAreBound, SameCapture
    <2>3. QED
      BY <2>1, <2>2
  <1>10. CapturesGoOn'
    <2>1. \A n \in Nats : nat[n].st # "idle" => nat'[n] = nat[n]
      BY <1>1
    <2>2. \A d \in Caps :
           /\ cap'[d].st = "wait" => /\ cap'[d].on \in Nats /\ nat'[cap'[d].on].st # "idle"
                                     /\ nat'[cap'[d].on].gen = cap'[d].gen
           /\ cap'[d].st \in {"still", "then", "refresh"}
                  => cap'[d].pic \in Pictures' /\ cap'[d].cam <= cams'[cap'[d].pic]
      <3>1. ASSUME NEW d \in Caps \ {c}
            PROVE  /\ cap'[d] = cap[d]
                   /\ cap[d].st = "wait" => /\ cap[d].on \in Nats /\ nat[cap[d].on].st # "idle"
                                            /\ nat[cap[d].on].gen = cap[d].gen
                   /\ cap[d].st \in {"still", "then", "refresh"}
                          => cap[d].pic \in Pictures /\ cap[d].cam <= cams[cap[d].pic]
        BY <1>0 DEF CapturesGoOn
      <3>2. ASSUME NEW d \in Caps \ {c}
            PROVE  /\ cap'[d].st = "wait" => /\ cap'[d].on \in Nats /\ nat'[cap'[d].on].st # "idle"
                                             /\ nat'[cap'[d].on].gen = cap'[d].gen
                   /\ cap'[d].st \in {"still", "then", "refresh"}
                          => cap'[d].pic \in Pictures' /\ cap'[d].cam <= cams'[cap'[d].pic]
        <4>1. cap'[d] = cap[d]
          BY <3>1
        <4>2. cap[d].st = "wait" => /\ cap[d].on \in Nats /\ nat'[cap[d].on].st # "idle"
                                    /\ nat'[cap[d].on].gen = cap[d].gen
          BY <2>1, <3>1
        <4>3. cap[d].st \in {"still", "then", "refresh"}
                  => cap[d].pic \in Pictures' /\ cap[d].cam <= cams'[cap[d].pic]
          BY <1>3, <3>1
        <4>4. QED
          BY <4>1, <4>2, <4>3
      <3>3. /\ cap'[c].st = "wait" => /\ cap'[c].on \in Nats /\ nat'[cap'[c].on].st # "idle"
                                      /\ nat'[cap'[c].on].gen = cap'[c].gen
            /\ cap'[c].st \in {"still", "then", "refresh"}
                   => cap'[c].pic \in Pictures' /\ cap'[c].cam <= cams'[cap'[c].pic]
        BY DEF SameCapture
      <3>4. QED
        BY <3>2, <3>3
    <2>3. QED
      BY <1>1, <2>2 DEF CapturesGoOn
  <1>11. RequestsGoOn'
    <2>1. \A q \in Reqs : req[q].st = "frame"
               => /\ req[q].on \in Caps /\ cap'[req[q].on].st # "idle"
                  /\ req[q].era <= cap'[req[q].on].cam
                  /\ req[q].lane = "event" => cap'[req[q].on].lane = "event"
      BY <1>0, <1>4 DEF RequestsGoOn, SameCapture
    <2>2. \A q \in Reqs : req[q].st \in {"size", "resize"}
               => /\ req[q].pic \in Pictures' /\ req[q].era <= cams'[req[q].pic]
                  /\ req[q].lane = "event" => req[q].from < req[q].pic /\ req[q].pic \in asked
      BY <1>0, <1>3, ZenonT(30) DEF RequestsGoOn
    <2>3. \A q \in Reqs : req[q].st = "resize"
               => /\ req[q].sized /\ req[q].on \in Rszs /\ rsz'[req[q].on].st # "idle"
                  /\ rsz'[req[q].on].src = req[q].pic
                  /\ req[q].lane = "event" => rsz'[req[q].on].event
      BY <1>0 DEF RequestsGoOn
    <2>4. QED
      BY <1>2, <2>1, <2>2, <2>3 DEF RequestsGoOn
  <1>12. EventsTakeTheNewest'
    <2>1. ASSUME NEW d \in Caps, cap'[d].lane = "event"
          PROVE  /\ cap'[d].st \notin {"key", "check", "refresh"} /\ cap'[d].stale = None
                 /\ cap'[d].st = "wait" => nat'[cap'[d].on].event
                 /\ cap'[d].st \in {"still", "then"} =>
                        /\ cap[d].st \in {"still", "then"} /\ cap'[d].pic = cap[d].pic
                        /\ cams' = cams
      <3>1. /\ cap[d].lane = "event" /\ cap[d].st \notin {"key", "check", "refresh"}
            /\ cap'[d].stale = None /\ (cap[d].st = "wait" => nat[cap[d].on].event)
        BY <1>0, <1>4, <2>1 DEF EventsTakeTheNewest, SameCapture
      <3>2. CASE d = c
        BY <2>1, <3>1, <3>2
      <3>3. CASE d # c
        <4>1. cap'[d] = cap[d]
          BY <3>3
        <4>2. cap[d].st = "wait" => nat'[cap[d].on] = nat[cap[d].on]
          BY <1>0, <1>1 DEF CapturesGoOn
        <4>3. cap[d].st \in {"still", "then"} => cams' = cams
          BY DEF Grows, Quiet
        <4>4. QED
          BY <3>1, <4>1, <4>2, <4>3
      <3>4. QED
        BY <3>2, <3>3
    <2>2. \A q \in Reqs : req[q].st = "size" => cams' = cams
      BY SMTT(30) DEF Grows, Quiet
    <2>3. \A q \in Reqs : req[q].st = "frame" /\ req[q].lane = "event"
              => req[q].on \in Caps /\ cap[req[q].on].lane = "event"
                 /\ cap'[req[q].on].lane = "event"
      BY <1>0, <1>4 DEF RequestsGoOn, SameCapture
    <2>4. QED
      BY <1>0, <1>2, <1>4, <2>1, <2>2, <2>3 DEF EventsTakeTheNewest, UnsizedYet, SameCapture
  <1>13. KeptIsOurs'
    <2>1. \A p \in {cache["preview"], cache["full"], lastGood, native} :
              p # None => p \in Pictures /\ cams'[p] = era /\ p \in verified'
      BY <1>0, <1>3, Typed DEF KeptIsOurs, NoForeignPicture, KeptIsCertified
    <2>2. CASE UNCHANGED <<cache, lastGood>>
      BY <1>2, <2>1, <2>2 DEF KeptIsOurs, NoForeignPicture, KeptIsCertified
    <2>3. CASE /\ cap[c].gen = generation /\ cap'[c].st = "then" /\ cap'[c].pic \in verified'
               /\ cache'["preview"] \in {cache["preview"], cap'[c].pic}
               /\ cache'["full"] \in {cache["full"], cap'[c].pic}
               /\ lastGood' \in {lastGood, cap'[c].pic}
      <3>1. cap'[c].pic \in Pictures' /\ cap[c].cam <= cams'[cap'[c].pic]
        BY <2>3
      <3>2. cap[c].cam = era /\ era \in Nat
        BY <1>0, <2>3, Typed DEF Eras
      <3>3. cams'[cap'[c].pic] \in Nat
        BY <1>3, <3>1, Constants
      <3>4. cams'[cap'[c].pic] = era
        BY <1>3, <3>1, <3>2, <3>3
      <3>5. QED
        BY <1>2, <2>1, <2>3, <3>4 DEF KeptIsOurs, NoForeignPicture, KeptIsCertified
    <2>4. QED
      BY <2>2, <2>3
  <1>14. ServedIsCurrent' /\ EventIsFresh'
    <2>1. \A q \in Reqs : req[q].ans \in Picture \cup {0}
      BY <1>0, TypedSlots
    <2>2. QED
      BY <1>0, <1>2, <1>3, <2>1, Typed DEF ServedIsCurrent, EventIsFresh
  <1>15. QED
    BY <1>5, <1>6, <1>7, <1>8, <1>9, <1>10, <1>11, <1>12, <1>13, <1>14 DEF IInv

\* Resizes that are not touched, while pictures come in.
LEMMA ResizesStay ==
    ASSUME TypeOK, Shapes, Eras, ResizesGoOn, Grows, UNCHANGED <<rsz, resizing, latest, resized>>
    PROVE  ResizesKept
  <1>1. Pictures \subseteq Pictures'
    BY Typed DEF Grows, Pictures
  <1>2. ResizesGoOn'
    BY <1>1 DEF ResizesGoOn
  <1>3. QED
    BY <1>2, Typed DEF Shapes, Eras, ResizesKept

\* A resize that starts has its source.
LEMMA ResizeStarts ==
    ASSUME TypeOK, Shapes, Eras, ResizesGoOn, UNCHANGED <<cams, resized>>,
           NEW z \in Rszs, NEW p \in Pictures, NEW event \in BOOLEAN, Resize(z, p, event)
    PROVE  ResizesKept
           /\ rsz'[z].st = "run" /\ rsz'[z].src = p /\ rsz'[z].event = event
  <1>1. /\ rsz[z].st = "idle" /\ rsz' \in [Rszs -> Resizes]
        /\ rsz'[z].st = "run" /\ rsz'[z].src = p /\ rsz'[z].event = event
        /\ rsz'[z].hit = resized /\ rsz'[z].gen = generation
        /\ \A y \in Rszs \ {z} : rsz'[y] = rsz[y]
        /\ resizing' = z /\ latest' = z
    BY ResizeDoes
  <1>2. Pictures' = Pictures
    BY DEF Pictures
  <1>3. \A y \in Rszs :
           /\ rsz'[y].st # "idle" => rsz'[y].src \in Pictures
           /\ rsz'[y].st = "convert" => rsz'[y].pic \in Pictures
           /\ rsz'[y].event /\ rsz'[y].st = "convert" => rsz'[y].pic = rsz'[y].src
           /\ rsz'[y].event => rsz'[y].st \in {"idle", "run", "convert"}
           /\ rsz'[y].hit # None => {rsz'[y].hit.src, rsz'[y].hit.pic} \subseteq Pictures
    BY <1>1 DEF ResizesGoOn
  <1>4. ResizesGoOn'
    BY <1>1, <1>2, <1>3 DEF ResizesGoOn
  <1>5. generation \in Nat
    BY Typed
  <1>6. QED
    BY <1>1, <1>4, <1>5 DEF Eras, ResizesKept

\* Capture c gets a state, a picture and something to await.
CaptureAt(c, s, p, w) == cap' = [cap EXCEPT ![c].st = s, ![c].pic = p, ![c].on = w]

\* A capture's own fields, with what stays.
LEMMA CaptureIsAt ==
    ASSUME Shapes, NEW c \in Caps, NEW s \in {"check", "ask", "wait", "still", "then", "refresh"},
           NEW p \in MaybePicture, NEW w \in Nats \cup Rszs \cup {None},
           CaptureAt(c, s, p, w)
    PROVE  /\ cap' \in [Caps -> Captures] /\ \A d \in Caps \ {c} : cap'[d] = cap[d]
           /\ SameCapture(c) /\ cap'[c].stale = cap[c].stale
           /\ cap'[c].st = s /\ cap'[c].pic = p /\ cap'[c].on = w
  <1>1. cap \in [Caps -> Captures] /\ cap[c] \in Captures
    BY DEF Shapes
  <1>2. /\ [cap[c] EXCEPT !.st = s, !.pic = p, !.on = w] \in Captures
        /\ [cap[c] EXCEPT !.st = s, !.pic = p, !.on = w].lane = cap[c].lane
        /\ [cap[c] EXCEPT !.st = s, !.pic = p, !.on = w].gen = cap[c].gen
        /\ [cap[c] EXCEPT !.st = s, !.pic = p, !.on = w].cam = cap[c].cam
        /\ [cap[c] EXCEPT !.st = s, !.pic = p, !.on = w].stale = cap[c].stale
        /\ [cap[c] EXCEPT !.st = s, !.pic = p, !.on = w].st = s
        /\ [cap[c] EXCEPT !.st = s, !.pic = p, !.on = w].pic = p
        /\ [cap[c] EXCEPT !.st = s, !.pic = p, !.on = w].on = w
    BY <1>1 DEF Captures
  <1>3. cap' = [cap EXCEPT ![c] = [cap[c] EXCEPT !.st = s, !.pic = p, !.on = w]]
    BY DEF CaptureAt
  <1> DEFINE r == [cap[c] EXCEPT !.st = s, !.pic = p, !.on = w]
  <1>5. r \in Captures /\ cap' = [cap EXCEPT ![c] = r]
        /\ r.lane = cap[c].lane /\ r.gen = cap[c].gen /\ r.cam = cap[c].cam
        /\ r.stale = cap[c].stale /\ r.st = s /\ r.pic = p /\ r.on = w
    BY <1>2, <1>3
  <1> HIDE DEF r
  <1>4. QED
    BY <1>1, <1>5 DEF SameCapture

\* The keyframe comes, or does not.
LEMMA KeyframeNext ==
    ASSUME IInv, NEW c \in Caps, KeyframeArrives(c) \/ KeyframeSettles(c) \/ KeyframeFails(c)
    PROVE  IInv'
  <1>0. /\ TypeOK /\ Shapes /\ Eras /\ CapturesGoOn /\ ResizesGoOn /\ EventsTakeTheNewest
        /\ Quiet /\ cap[c].st \in {"key", "check"} /\ cap[c].lane # "event"
        /\ StillAsked(generation)
        /\ generation \in Nat /\ generation <= generation
        /\ UNCHANGED <<era, generation, still, inflight, resized, variant, req, rsz,
                       resizing, latest>>
    BY Typed DEF IInv, KeyframeArrives, KeyframeSettles, KeyframeFails, EventsTakeTheNewest,
                 StillAsked, sized
  <1>1. /\ cap[c].pic \in MaybePicture /\ cap[c].on \in Nats \cup Rszs \cup {None}
        /\ cap[c].cam \in Nat /\ cap[c].cam <= era /\ cap[c].gen \in Nat
    BY <1>0 DEF Shapes, Captures, Eras
  <1>2. CASE KeyframeArrives(c) \/ KeyframeFails(c)
    <2>1. PICK s \in {"check", "ask"} : cap' = [cap EXCEPT ![c].st = s]
      BY <1>2 DEF KeyframeArrives, KeyframeFails
    <2>2. CaptureAt(c, s, cap[c].pic, cap[c].on)
      BY <1>0, <2>1 DEF Shapes, Captures, CaptureAt
    <2>3. s \in {"check", "ask", "wait", "still", "then", "refresh"}
      OBVIOUS
    <2>4. /\ cap' \in [Caps -> Captures] /\ \A d \in Caps \ {c} : cap'[d] = cap[d]
          /\ SameCapture(c) /\ cap'[c].stale = cap[c].stale /\ cap'[c].st = s
      BY <1>0, <1>1, <2>2, <2>3, CaptureIsAt
    <2>5. UNCHANGED <<cams, verified, cache, lastGood>>
      BY <1>2 DEF KeyframeArrives, KeyframeFails, stores
    <2>6. Grows
      BY <1>0, <2>5, StaysGrows
    <2>7. cap[c].st # "idle" /\ cap'[c].st \in {"check", "ask"}
      BY <1>0, <2>4
    <2>8. QED
      BY <1>0, <2>4, <2>5, <2>6, <2>7, ResizesStay, CaptureGoesNext
  <1>3. CASE KeyframeSettles(c)
    <2>1. PICK p \in 1..MaxPictures :
              /\ NewPicture(p, cap[c].cam) /\ Remember(c, p)
              /\ cap' = [cap EXCEPT ![c].st = "then", ![c].pic = p]
      BY <1>3 DEF KeyframeSettles
    <2>2. cap[c].cam \in 0..era
      BY <1>0, <1>1, Typed
    <2>3. /\ Grows /\ p = Len(cams') /\ p > Len(cams) /\ cams'[p] = cap[c].cam
          /\ p \in Pictures' /\ p \in Nat
      BY <1>0, <2>1, <2>2, PictureGrows
    <2>4. CaptureAt(c, "then", p, cap[c].on)
      BY <1>0, <2>1 DEF Shapes, Captures, CaptureAt
    <2>5. /\ cap' \in [Caps -> Captures] /\ \A d \in Caps \ {c} : cap'[d] = cap[d]
          /\ SameCapture(c) /\ cap'[c].stale = cap[c].stale
          /\ cap'[c].st = "then" /\ cap'[c].pic = p
      <3>1. p \in MaybePicture /\ "then" \in {"check", "ask", "wait", "still", "then", "refresh"}
        BY <2>3 DEF MaybePicture
      <3>2. QED
        BY <1>0, <1>1, <2>4, <3>1, CaptureIsAt
    <2>6. \/ UNCHANGED <<cache, lastGood>>
          \/ /\ cap[c].gen = generation /\ p \in verified'
             /\ cache' \in [{"preview", "full"} -> Picture']
             /\ cache'["preview"] \in {cache["preview"], p}
             /\ cache'["full"] \in {cache["full"], p}
             /\ lastGood' \in {lastGood, p}
      <3>1. Picture \cup {p} \subseteq Picture'
        BY <1>0, <2>3, Typed DEF Grows, Pictures, Picture
      <3>2. QED
        BY <1>0, <2>1, <3>1, RememberDoes
    <2>7. cap[c].cam <= cams'[p]
      BY <1>1, <2>3
    <2>8. QED
      BY <1>0, <2>3, <2>5, <2>6, <2>7, ResizesStay, CaptureGoesNext
  <1>4. QED
    BY <1>2, <1>3

\* The picture a still gave is kept, or the last good one stands in.
LEMMA PictureNext ==
    ASSUME IInv, NEW c \in Caps,
           StillCaptured(c) \/ (NothingCaptured(c) /\ StandIn(cap[c].lane) # None)
    PROVE  IInv'
  <1>0. /\ TypeOK /\ Shapes /\ Eras /\ CapturesGoOn /\ ResizesGoOn /\ EventsTakeTheNewest
        /\ KeptIsOurs
    BY DEF IInv
  <1>1. /\ UNCHANGED <<era, generation, cams, verified, still, inflight, resized, variant, req, rsz,
                       resizing, latest, nat, nativeInflight>>
        /\ StillAsked(generation) /\ generation \in Nat /\ generation <= generation
    BY <1>0, Typed DEF StillCaptured, NothingCaptured, StillAsked, sized
  <1>2. Grows /\ Pictures' = Pictures /\ Picture' = Picture
    BY <1>0, <1>1, StaysGrows DEF Pictures, Picture
  <1>3. /\ cap[c].pic \in MaybePicture /\ cap[c].on \in Nats \cup Rszs \cup {None}
        /\ cap[c].cam \in Nat /\ cap[c].cam <= era
    BY <1>0 DEF Shapes, Captures, Eras
  <1>4. CASE StillCaptured(c)
    <2>1. cap[c].st = "still" /\ Remember(c, cap[c].pic)
          /\ CaptureAt(c, "then", cap[c].pic, cap[c].on)
      BY <1>0, <1>4 DEF StillCaptured, Shapes, Captures, CaptureAt
    <2>2. /\ cap' \in [Caps -> Captures] /\ \A d \in Caps \ {c} : cap'[d] = cap[d]
          /\ SameCapture(c) /\ cap'[c].stale = cap[c].stale
          /\ cap'[c].st = "then" /\ cap'[c].pic = cap[c].pic
      <3>1. "then" \in {"check", "ask", "wait", "still", "then", "refresh"}
        OBVIOUS
      <3>2. QED
        BY <1>0, <1>3, <2>1, <3>1, CaptureIsAt
    <2>3. cap[c].pic \in Pictures /\ cap[c].cam <= cams[cap[c].pic]
      BY <1>0, <2>1 DEF CapturesGoOn
    <2>4. \/ UNCHANGED <<cache, lastGood>>
          \/ /\ cap[c].gen = generation /\ cap[c].pic \in verified'
             /\ cache' \in [{"preview", "full"} -> Picture']
             /\ cache'["preview"] \in {cache["preview"], cap[c].pic}
             /\ cache'["full"] \in {cache["full"], cap[c].pic}
             /\ lastGood' \in {lastGood, cap[c].pic}
      <3>1. Picture \cup {cap[c].pic} = Picture'
        BY <1>0, <1>2, <2>3, Typed
      <3>2. QED
        BY <1>0, <2>1, <3>1, RememberDoes
    <2>5. QED
      BY <1>0, <1>1, <1>2, <2>1, <2>2, <2>3, <2>4, ResizesStay, CaptureGoesNext
  <1>5. CASE NothingCaptured(c) /\ StandIn(cap[c].lane) # None
    <2>1. cap[c].lane # "event" /\ lastGood # None /\ StandIn(cap[c].lane) = lastGood
      BY <1>5 DEF StandIn
    <2>2. lastGood \in Pictures /\ lastGood \in MaybePicture /\ lastGood \in verified
          /\ cams[lastGood] = era
      BY <1>0, <2>1, Typed DEF KeptIsOurs, NoForeignPicture, KeptIsCertified
    <2>3. cap[c].st = "nostill" /\ UNCHANGED lastGood
          /\ CaptureAt(c, "then", lastGood, cap[c].on)
          /\ cache' = IF cap[c].gen = generation THEN [cache EXCEPT ![cap[c].lane] = lastGood]
                      ELSE cache
      BY <1>0, <1>5, <2>1 DEF NothingCaptured, Shapes, Captures, CaptureAt
    <2>4. /\ cap' \in [Caps -> Captures] /\ \A d \in Caps \ {c} : cap'[d] = cap[d]
          /\ SameCapture(c) /\ cap'[c].stale = cap[c].stale
          /\ cap'[c].st = "then" /\ cap'[c].pic = lastGood
      BY <1>0, <1>3, <2>2, <2>3, CaptureIsAt
    <2>5. \/ UNCHANGED <<cache, lastGood>>
          \/ /\ cap[c].gen = generation /\ lastGood \in verified'
             /\ cache' \in [{"preview", "full"} -> Picture']
             /\ cache'["preview"] \in {cache["preview"], lastGood}
             /\ cache'["full"] \in {cache["full"], lastGood}
             /\ lastGood' \in {lastGood, lastGood}
      <3>1. cap[c].lane \in {"preview", "full"}
        BY <1>0, <2>1, CaptureFields DEF Shapes, Lanes
      <3>2. cache \in [{"preview", "full"} -> Picture] /\ lastGood \in Picture
        BY <1>0, Typed
      <3>3. QED
        BY <1>1, <1>2, <2>2, <2>3, <3>1, <3>2
    <2>6. QED
      BY <1>0, <1>1, <1>2, <1>3, <2>1, <2>2, <2>3, <2>4, <2>5, ResizesStay, CaptureGoesNext
  <1>6. QED
    BY <1>4, <1>5

\* A capture turns to the native still.
LEMMA AskStillNext ==
    ASSUME IInv, NEW c \in Caps, AskStill(c)
    PROVE  IInv'
  <1>0. /\ TypeOK /\ Shapes /\ Eras /\ CapturesGoOn /\ ResizesGoOn /\ KeptIsOurs
        /\ cap[c].st = "ask"
        /\ UNCHANGED <<era, generation, cams, verified, cache, lastGood, still, inflight, resized,
                       variant, req, rsz, resizing, latest>>
    BY DEF IInv, AskStill, stores, sized
  <1>1. Grows /\ Pictures' = Pictures
    BY <1>0, StaysGrows DEF Pictures
  <1>2. /\ cap[c].pic \in MaybePicture /\ cap[c].on \in Nats \cup Rszs \cup {None}
        /\ cap[c].cam \in Nat /\ cap[c].cam <= era /\ cap[c].gen \in Nat
        /\ cap[c].gen <= generation
    BY <1>0 DEF Shapes, Captures, Eras
  <1>3. StillAsked(cap[c].gen)
    <2>1. OnlyNew(cap[c].lane) \in BOOLEAN
      BY DEF OnlyNew
    <2>2. QED
      BY <2>1 DEF AskStill, StillAsked
  <1>4. CASE /\ cap[c].lane # "event" /\ StillUsable(cap[c].gen)
             /\ cap' = [cap EXCEPT ![c].st = "still", ![c].pic = native]
    <2>1. /\ native \in Pictures /\ native \in MaybePicture /\ cams[native] = era
      BY <1>0, <1>4, Typed DEF StillUsable, KeptIsOurs, NoForeignPicture
    <2>2. CaptureAt(c, "still", native, cap[c].on)
      BY <1>0, <1>4 DEF Shapes, Captures, CaptureAt
    <2>3. "still" \in {"check", "ask", "wait", "still", "then", "refresh"}
      OBVIOUS
    <2>4. /\ cap' \in [Caps -> Captures] /\ \A d \in Caps \ {c} : cap'[d] = cap[d]
          /\ SameCapture(c) /\ cap'[c].stale = cap[c].stale
          /\ cap'[c].st = "still" /\ cap'[c].pic = native
      BY <1>0, <1>2, <2>1, <2>2, <2>3, CaptureIsAt
    <2>5. QED
      BY <1>0, <1>1, <1>2, <1>3, <1>4, <2>1, <2>4, ResizesStay, CaptureGoesNext
  <1>5. ASSUME NEW n \in Nats, cap' = [cap EXCEPT ![c].st = "wait", ![c].on = n],
               nat'[n].st # "idle", nat'[n].gen = cap[c].gen,
               cap[c].lane = "event" => nat'[n].event
        PROVE  IInv'
    <2>1. CaptureAt(c, "wait", cap[c].pic, n) /\ n \in Nats \cup Rszs \cup {None}
      BY <1>0, <1>5 DEF Shapes, Captures, CaptureAt
    <2>2. "wait" \in {"check", "ask", "wait", "still", "then", "refresh"}
      OBVIOUS
    <2>3. /\ cap' \in [Caps -> Captures] /\ \A d \in Caps \ {c} : cap'[d] = cap[d]
          /\ SameCapture(c) /\ cap'[c].stale = cap[c].stale
          /\ cap'[c].st = "wait" /\ cap'[c].on = n
      BY <1>0, <1>2, <2>1, <2>2, CaptureIsAt
    <2>4. QED
      BY <1>0, <1>1, <1>2, <1>3, <1>5, <2>3, ResizesStay, CaptureGoesNext
  <1>6. CASE /\ cap[c].lane # "event" /\ StillJoinable(cap[c].gen) /\ UNCHANGED nat
             /\ cap' = [cap EXCEPT ![c].st = "wait", ![c].on = nativeInflight]
    <2>1. /\ nativeInflight \in Nats /\ nat[nativeInflight].st # "idle"
          /\ nat[nativeInflight].gen = cap[c].gen
      BY <1>0, <1>6, Typed DEF StillJoinable, CapturesGoOn
    <2>2. QED
      BY <1>5, <1>6, <2>1
  <1>7. ASSUME NEW n \in Nats, NEW event \in BOOLEAN, event = OnlyNew(cap[c].lane),
               FetchStill(n, cap[c].gen, event),
               cap' = [cap EXCEPT ![c].st = "wait", ![c].on = n]
        PROVE  IInv'
    <2>1. /\ nat'[n].st # "idle" /\ nat'[n].gen = cap[c].gen
          /\ cap[c].lane = "event" => nat'[n].event
      BY <1>0, <1>2, <1>7, Typed, FetchDoes DEF OnlyNew
    <2>2. QED
      BY <1>5, <1>7, <2>1
  <1>8. QED
    BY <1>4, <1>6, <1>7 DEF AskStill, OnlyNew

\* warm(): a still is asked for that nobody awaits.
LEMMA WarmNext ==
    ASSUME IInv, Warm
    PROVE  IInv'
  <1>1. TypeOK /\ Shapes
    BY DEF IInv
  <1>2. generation \in Nat /\ generation <= generation
    BY <1>1, Typed
  <1>3. StillAsked(generation) /\ rsz' = rsz /\ rsz' \in [Rszs -> Resizes]
        /\ UNCHANGED <<era, generation, cams, stores, still, inflight, sized, resizing, req, cap>>
    BY <1>1 DEF Warm, EnsureStill, StillAsked, Shapes
  <1>4. QED
    BY <1>2, <1>3, ResizeGoesNext

\* A still comes, as picture p, or does not, and reaches who awaited it.
LEMMA StillEnds ==
    ASSUME IInv, Quiet, NEW n \in Nats, nat[n].st # "idle", NEW p \in MaybePicture,
           Grows, StillReaches(n, p),
           p # None => /\ p \in Pictures' /\ p = Len(cams') /\ p > Len(cams)
                       /\ cams'[p] = nat[n].cam,
           asked \subseteq asked', asked' \subseteq Pictures',
           p # None /\ nat[n].event => p \in asked',
           \/ UNCHANGED <<native, nativeGen>>
           \/ /\ p # None /\ nat[n].gen = generation /\ p \in verified'
              /\ native' = p /\ nativeGen' = generation,
           UNCHANGED <<era, generation, cache, lastGood, inflight, sized, resizing, req>>
    PROVE  IInv'
  <1>0. /\ TypeOK /\ Shapes /\ Eras /\ StillsAreNoOlder /\ LanesAreBound /\ CapturesGoOn
        /\ ResizesGoOn /\ RequestsGoOn /\ EventsTakeTheNewest
        /\ KeptIsOurs /\ ServedIsCurrent /\ EventIsFresh /\ OneCapturePerLane
    BY DEF IInv
  <1>1. /\ cap' \in [Caps -> Captures] /\ rsz' \in [Rszs -> Resizes]
        /\ nat' \in [Nats -> Stills]
        /\ nat'[n].st = "idle" /\ nat'[n].gen = 0 /\ nat'[n].cam = 0
        /\ \A m \in Nats \ {n} : nat'[m] = nat[m]
        /\ nativeInflight' = IF nativeInflight = n THEN None ELSE nativeInflight
        /\ \A c \in Caps :
               IF cap[c].st = "wait" /\ cap[c].on = n
               THEN /\ SameCapture(c) /\ cap'[c].stale = cap[c].stale /\ cap'[c].pic = p
                    /\ cap'[c].st = IF p = None THEN "nostill" ELSE "still"
               ELSE cap'[c] = cap[c]
        /\ \A z \in Rszs :
               IF rsz[z].st = "wait" /\ rsz[z].on = n
               THEN /\ SameResize(z) /\ rsz'[z].st = "convert"
                    /\ rsz'[z].pic = IF p = None THEN rsz[z].src ELSE p
               ELSE rsz'[z] = rsz[z]
    BY <1>0, StillReachesDoes
  <1>2. UNCHANGED <<era, generation, cache, lastGood, inflight, resized, latest, variant,
                    resizing, req>>
    BY DEF sized
  <1>3. /\ Pictures' = 1..Len(cams') /\ Picture' = Pictures' \cup {None}
        /\ Pictures \subseteq Pictures' /\ Picture \subseteq Picture'
        /\ \A i \in Pictures : cams'[i] = cams[i] /\ i <= Len(cams)
        /\ \A i \in Pictures' : cams'[i] <= era
        /\ verified \subseteq verified' /\ verified' \subseteq Pictures'
        /\ cams' \in Seq(0..MaxEra) /\ Len(cams) \in Nat /\ Len(cams') \in Nat
        /\ Len(cams) <= Len(cams')
    BY <1>0, Typed DEF Grows, Pictures, Picture
  <1>4. /\ \A c \in Caps : /\ SameCapture(c) /\ cap'[c].stale = cap[c].stale
                           /\ (cap'[c].st # "idle" <=> cap[c].st # "idle")
                           /\ cap[c].st \notin {"still", "then"}
        /\ \A z \in Rszs : SameResize(z) /\ (rsz'[z].st # "idle" <=> rsz[z].st # "idle")
        /\ \A q \in Reqs : req[q].st # "size"
    BY <1>1 DEF SameCapture, SameResize, Quiet
  <1>5. \A c \in Caps : cap'[c].st \in {"still", "then", "refresh"} =>
            \/ cap'[c] = cap[c] /\ cap[c].st = "refresh"
            \/ /\ cap[c].st = "wait" /\ cap[c].on = n
               /\ p # None /\ cap'[c].st = "still" /\ cap'[c].pic = p
    BY <1>1, <1>4
  <1>6. TypeOK'
    <2>1. \A q \in Reqs : /\ req'[q].ans \in Picture' \cup {0}
                          /\ req'[q].st = "over" => req'[q].ans # None
      BY <1>0, <1>2, <1>3, TypedSlots
    <2>2. \A c \in Caps : cap'[c].st \in {"still", "then", "refresh"} => cap'[c].pic \in Pictures'
      BY <1>0, <1>3, <1>5, TypedSlots
    <2>3. \A z \in Rszs : rsz'[z].st # "idle" => rsz'[z].src \in Pictures'
      BY <1>0, <1>3, <1>4, TypedSlots DEF SameResize
    <2>4. resized' = None \/ {resized'.src, resized'.pic} \subseteq Pictures'
      BY <1>0, <1>2, <1>3 DEF ResizesGoOn
    <2>5. cache' \in [{"preview", "full"} -> Picture'] /\ {lastGood', native'} \subseteq Picture'
      BY <1>0, <1>2, <1>3, Typed
    <2>6. nativeGen' \in 0..MaxGeneration /\ nativeInflight' \in Nats \cup {None}
      BY <1>0, <1>1, Typed DEF TypeOK
    <2>7. QED
      BY <1>0, <1>2, <1>3, <2>1, <2>2, <2>3, <2>4, <2>5, <2>6 DEF TypeOK
  <1>7. Shapes'
    BY <1>0, <1>1, <1>2 DEF Shapes
  <1>8. Eras'
    <2>1. \A q \in Reqs : req'[q].era <= era' /\ req'[q].from <= Len(cams')
      <3>1. \A q \in Reqs : req[q].era <= era /\ req[q].from <= Len(cams) /\ req[q].from \in Nat
        BY <1>0, RequestFields DEF Eras, Shapes
      <3>2. QED
        BY <1>2, <1>3, <3>1
    <2>2. \A d \in Caps :
              /\ cap'[d].gen <= generation' /\ cap'[d].cam <= era'
              /\ cap'[d].st # "idle" /\ cap'[d].gen = generation' => cap'[d].cam = era'
      BY <1>0, <1>2, <1>4 DEF Eras, SameCapture
    <2>3. \A m \in Nats :
              /\ nat'[m].gen <= generation' /\ nat'[m].cam <= era'
              /\ nat'[m].st # "idle" /\ nat'[m].gen = generation' => nat'[m].cam = era'
      BY <1>0, <1>1, <1>2, Typed DEF Eras
    <2>4. \A z \in Rszs : rsz'[z].gen <= generation'
      BY <1>0, <1>2, <1>4 DEF Eras, SameResize
    <2>5. QED
      BY <1>2, <1>3, <2>1, <2>2, <2>3, <2>4 DEF Eras
  <1>9. StillsAreNoOlder'
    BY <1>0, <1>1, <1>4 DEF StillsAreNoOlder, SameCapture
  <1>10. LanesAreBound' /\ OneCapturePerLane'
    <2>1. OneCapturePerLane'
      BY <1>0, <1>2, <1>4, Typed DEF OneCapturePerLane, SameCapture
    <2>2. LanesAreBound'
      BY <1>0, <1>2, <1>4, Typed DEF LanesAreBound, SameCapture
    <2>3. QED
      BY <2>1, <2>2
  <1>11. CapturesGoOn'
    <2>1. \A d \in Caps :
              cap'[d].st = "wait" => /\ cap'[d].on \in Nats /\ nat'[cap'[d].on].st # "idle"
                                     /\ nat'[cap'[d].on].gen = cap'[d].gen
      <3>1. \A d \in Caps : cap'[d].st = "wait" => cap'[d] = cap[d] /\ cap[d].on # n
        BY <1>1
      <3>2. QED
        BY <1>0, <1>1, <3>1 DEF CapturesGoOn
    <2>2. ASSUME NEW d \in Caps, cap'[d].st \in {"still", "then", "refresh"}
          PROVE  cap'[d].pic \in Pictures' /\ cap'[d].cam <= cams'[cap'[d].pic]
      <3>1. CASE cap'[d] = cap[d] /\ cap[d].st = "refresh"
        <4>1. cap[d].pic \in Pictures /\ cap[d].cam <= cams[cap[d].pic]
          BY <1>0, <3>1 DEF CapturesGoOn
        <4>2. QED
          BY <1>3, <3>1, <4>1
      <3>2. CASE /\ cap[d].st = "wait" /\ cap[d].on = n
                 /\ p # None /\ cap'[d].st = "still" /\ cap'[d].pic = p
        <4>1. cap[d].cam <= nat[n].cam
          BY <1>0, <3>2 DEF CapturesGoOn, StillsAreNoOlder
        <4>2. QED
          BY <1>4, <3>2, <4>1 DEF SameCapture
      <3>3. QED
        BY <1>5, <2>2, <3>1, <3>2
    <2>3. nativeInflight' # None => nat'[nativeInflight'].st # "idle"
      BY <1>0, <1>1, Typed DEF CapturesGoOn
    <2>4. QED
      BY <2>1, <2>2, <2>3 DEF CapturesGoOn
  <1>12. ResizesGoOn'
    <2>1. ASSUME NEW z \in Rszs
          PROVE  /\ rsz'[z].st # "idle" => rsz'[z].src \in Pictures'
                 /\ rsz'[z].st = "convert" => rsz'[z].pic \in Pictures'
                 /\ rsz'[z].event /\ rsz'[z].st = "convert" => rsz'[z].pic = rsz'[z].src
                 /\ rsz'[z].event => rsz'[z].st \in {"idle", "run", "convert"}
                 /\ rsz'[z].hit # None => {rsz'[z].hit.src, rsz'[z].hit.pic} \subseteq Pictures'
      <3>1. CASE rsz[z].st = "wait" /\ rsz[z].on = n
        <4>1. /\ rsz[z].src \in Pictures /\ rsz[z].src \in Pictures'
              /\ rsz[z].hit # None => {rsz[z].hit.src, rsz[z].hit.pic} \subseteq Pictures'
          BY <1>0, <1>3, <3>1 DEF ResizesGoOn
        <4>2. ~rsz[z].event
          BY <1>0, <3>1 DEF ResizesGoOn
        <4>3. /\ rsz'[z].src = rsz[z].src /\ rsz'[z].event = rsz[z].event
              /\ rsz'[z].hit = rsz[z].hit /\ rsz'[z].st = "convert"
              /\ rsz'[z].pic = IF p = None THEN rsz[z].src ELSE p
          BY <1>1, <3>1 DEF SameResize
        <4>4. rsz'[z].pic \in Pictures'
          BY <1>3, <4>1, <4>3
        <4>5. QED
          BY <4>1, <4>2, <4>3, <4>4
      <3>2. CASE rsz'[z] = rsz[z]
        <4>1. /\ rsz[z].st # "idle" => rsz[z].src \in Pictures'
              /\ rsz[z].st = "convert" => rsz[z].pic \in Pictures'
          BY <1>0, <1>3 DEF ResizesGoOn
        <4>2. /\ rsz[z].event /\ rsz[z].st = "convert" => rsz[z].pic = rsz[z].src
              /\ rsz[z].event => rsz[z].st \in {"idle", "run", "convert"}
          BY <1>0 DEF ResizesGoOn
        <4>3. rsz[z].hit # None => {rsz[z].hit.src, rsz[z].hit.pic} \subseteq Pictures'
          BY <1>0, <1>3 DEF ResizesGoOn
        <4>4. QED
          BY <3>2, <4>1, <4>2, <4>3
      <3>3. QED
        BY <1>1, <3>1, <3>2
    <2>2. resized' # None => {resized'.src, resized'.pic} \subseteq Pictures'
      BY <1>0, <1>2, <1>3 DEF ResizesGoOn
    <2>3. resizing' # None => rsz'[resizing'].st # "idle"
      BY <1>0, <1>2, <1>4, Typed DEF ResizesGoOn
    <2>4. QED
      BY <2>1, <2>2, <2>3 DEF ResizesGoOn
  <1>13. RequestsGoOn'
    <2>1. \A q \in Reqs : req[q].st = "frame"
               => /\ req[q].on \in Caps /\ cap'[req[q].on].st # "idle"
                  /\ req[q].era <= cap'[req[q].on].cam
                  /\ req[q].lane = "event" => cap'[req[q].on].lane = "event"
      BY <1>0, <1>4 DEF RequestsGoOn, SameCapture
    <2>2. \A q \in Reqs : req[q].st \in {"size", "resize"}
               => /\ req[q].pic \in Pictures' /\ req[q].era <= cams'[req[q].pic]
                  /\ req[q].lane = "event" => req[q].from < req[q].pic /\ req[q].pic \in asked'
      BY <1>0, <1>3 DEF RequestsGoOn
    <2>3. \A q \in Reqs : req[q].st = "resize"
               => /\ req[q].sized /\ req[q].on \in Rszs /\ rsz'[req[q].on].st # "idle"
                  /\ rsz'[req[q].on].src = req[q].pic
                  /\ req[q].lane = "event" => rsz'[req[q].on].event
      BY <1>0, <1>4 DEF RequestsGoOn, SameResize
    <2>4. QED
      BY <1>2, <2>1, <2>2, <2>3 DEF RequestsGoOn
  <1>14. EventsTakeTheNewest'
    <2>1. ASSUME NEW d \in Caps, cap'[d].lane = "event"
          PROVE  /\ cap'[d].st \notin {"key", "check", "refresh"} /\ cap'[d].stale = None
                 /\ cap'[d].st = "wait" => nat'[cap'[d].on].event
                 /\ cap'[d].st \in {"still", "then"} =>
                        p # None /\ cap'[d].pic = p /\ p \in asked'
      <3>1. /\ cap[d].lane = "event" /\ cap[d].st \notin {"key", "check", "refresh"}
            /\ cap'[d].stale = None /\ (cap[d].st = "wait" => nat[cap[d].on].event)
        BY <1>0, <1>4, <2>1 DEF EventsTakeTheNewest, SameCapture
      <3>2. cap'[d].st = "wait" => /\ cap'[d] = cap[d] /\ cap[d].on # n
                                   /\ nat'[cap[d].on] = nat[cap[d].on]
        BY <1>0, <1>1 DEF CapturesGoOn
      <3>3. cap'[d].st \notin {"key", "check", "refresh"}
        BY <1>1, <3>1
      <3>4. QED
        BY <1>5, <3>1, <3>2, <3>3
    <2>2. p # None => p = Len(cams') /\ (resized' # None => resized'.src # p)
      BY <1>0, <1>2, <1>3 DEF ResizesGoOn
    <2>3. \A q \in Reqs : req[q].st = "frame" /\ req[q].lane = "event"
              => req[q].on \in Caps /\ cap'[req[q].on].lane = "event"
      BY <1>0, <1>4 DEF RequestsGoOn, SameCapture
    <2>4. \A q \in Reqs : req[q].from <= Len(cams) /\ req[q].from \in Nat
      BY <1>0, RequestFields DEF Eras, Shapes
    <2>5. p # None => \A q \in Reqs : req[q].from < p
      BY <1>3, <2>4
    <2>6. QED
      BY <1>2, <1>4, <2>1, <2>2, <2>3, <2>5 DEF EventsTakeTheNewest, UnsizedYet
  <1>15. KeptIsOurs'
    <2>1. \A i \in {cache["preview"], cache["full"], lastGood, native} :
              i # None => i \in Pictures /\ cams'[i] = era /\ i \in verified'
      BY <1>0, <1>3, Typed DEF KeptIsOurs, NoForeignPicture, KeptIsCertified
    <2>2. native' # native => native' = p /\ cams'[p] = era /\ p \in verified'
      BY <1>0 DEF Eras
    <2>3. QED
      BY <1>2, <2>1, <2>2 DEF KeptIsOurs, NoForeignPicture, KeptIsCertified
  <1>16. ServedIsCurrent' /\ EventIsFresh'
    <2>1. \A q \in Reqs : req[q].ans \in Picture \cup {0}
      BY <1>0, TypedSlots
    <2>2. QED
      BY <1>0, <1>2, <1>3, <2>1, Typed DEF ServedIsCurrent, EventIsFresh
  <1>17. QED
    BY <1>6, <1>7, <1>8, <1>9, <1>10, <1>11, <1>12, <1>13, <1>14, <1>15, <1>16 DEF IInv

\* A still arrives, and is not anyone's yet.
LEMMA StillArrivesNext ==
    ASSUME IInv, NEW n \in Nats, StillArrives(n)
    PROVE  IInv'
  <1>0. /\ TypeOK /\ Shapes /\ Eras /\ StillsAreNoOlder /\ LanesAreBound /\ CapturesGoOn
        /\ ResizesGoOn /\ RequestsGoOn /\ EventsTakeTheNewest
        /\ KeptIsOurs /\ ServedIsCurrent /\ EventIsFresh /\ OneCapturePerLane
    BY DEF IInv
  <1>1. /\ UNCHANGED <<era, generation, cams, verified, cache, lastGood, native, nativeGen, asked,
                       nativeInflight, inflight, resized, latest, variant, resizing, req, cap, rsz>>
        /\ Pictures' = Pictures /\ Picture' = Picture
    BY DEF StillArrives, stores, still, sized, Pictures, Picture
  <1>2. /\ nat' \in [Nats -> Stills]
        /\ \A m \in Nats : /\ (nat'[m].st = "idle" <=> nat[m].st = "idle")
                           /\ nat'[m].gen = nat[m].gen /\ nat'[m].cam = nat[m].cam
                           /\ nat'[m].event = nat[m].event
    <2>1. nat \in [Nats -> Stills] /\ nat[n].st = "fetch"
          /\ nat' = [nat EXCEPT ![n].st = "probe"]
      BY <1>0 DEF Shapes, StillArrives
    <2>2. QED
      BY <2>1 DEF Stills
  <1>3. TypeOK' /\ Shapes'
    BY <1>0, <1>1, <1>2 DEF TypeOK, Shapes
  <1>4. Eras' /\ StillsAreNoOlder'
    BY <1>0, <1>1, <1>2 DEF Eras, StillsAreNoOlder
  <1>5. LanesAreBound' /\ OneCapturePerLane' /\ ResizesGoOn' /\ RequestsGoOn'
    BY <1>0, <1>1 DEF LanesAreBound, OneCapturePerLane, ResizesGoOn, RequestsGoOn
  <1>6. CapturesGoOn'
    BY <1>0, <1>1, <1>2, Typed DEF CapturesGoOn
  <1>7. EventsTakeTheNewest'
    <2>1. \A c \in Caps : cap[c].st = "wait" => nat'[cap[c].on].event = nat[cap[c].on].event
      BY <1>0, <1>2 DEF CapturesGoOn
    <2>2. QED
      BY <1>0, <1>1, <2>1 DEF EventsTakeTheNewest, UnsizedYet
  <1>8. KeptIsOurs' /\ ServedIsCurrent' /\ EventIsFresh'
    BY <1>0, <1>1
       DEF KeptIsOurs, NoForeignPicture, KeptIsCertified, ServedIsCurrent, EventIsFresh
  <1>9. QED
    BY <1>3, <1>4, <1>5, <1>6, <1>7, <1>8 DEF IInv

\* A still arrives, passes the probe or fails.
LEMMA StillNext ==
    ASSUME IInv, NEW n \in Nats, StillArrives(n) \/ StillSettles(n) \/ StillFails(n)
    PROVE  IInv'
  <1>1. CASE StillArrives(n)
    BY <1>1, StillArrivesNext
  <1>2. CASE StillFails(n)
    <2>1. /\ TypeOK /\ Eras /\ Quiet /\ nat[n].st # "idle" /\ StillReaches(n, None)
          /\ UNCHANGED <<native, nativeGen, asked, cams, verified>>
          /\ UNCHANGED <<era, generation, cache, lastGood, inflight, sized, resizing, req>>
      BY <1>2 DEF IInv, StillFails, stores, still
    <2>2. Grows /\ asked' \subseteq Pictures'
      BY <2>1, StaysGrows, Typed DEF Pictures
    <2>3. None \in MaybePicture
      BY DEF MaybePicture
    <2>4. QED
      BY <2>1, <2>2, <2>3, StillEnds
  <1>3. CASE StillSettles(n)
    <2>1. /\ TypeOK /\ Eras /\ Quiet /\ nat[n].st # "idle"
          /\ UNCHANGED <<era, generation, cache, lastGood, inflight, sized, resizing, req>>
      BY <1>3 DEF IInv, StillSettles
    <2>2. PICK p \in 1..MaxPictures :
              /\ NewPicture(p, nat[n].cam) /\ StillReaches(n, p)
              /\ asked' = IF nat[n].event THEN asked \cup {p} ELSE asked
              /\ IF SafetyImage(n, p)
                 THEN native' = p /\ nativeGen' = generation
                 ELSE UNCHANGED <<native, nativeGen>>
      BY <1>3 DEF StillSettles
    <2>3. nat[n].cam \in 0..era
      <3>1. nat[n].cam \in Nat /\ nat[n].cam <= era
        BY <2>1, StillFields DEF IInv, Shapes, Eras
      <3>2. QED
        BY <2>1, <3>1, Typed
    <2>4. /\ Grows /\ p = Len(cams') /\ p > Len(cams) /\ cams'[p] = nat[n].cam
          /\ p \in Pictures' /\ p \in Nat
      BY <2>1, <2>2, <2>3, PictureGrows
    <2>5. p # None /\ p \in MaybePicture
      BY <2>4, Constants DEF MaybePicture
    <2>6. /\ asked \subseteq asked' /\ asked' \subseteq Pictures'
          /\ nat[n].event => p \in asked'
      <3>1. Pictures \subseteq Pictures'
        BY <2>1, <2>4, Typed DEF Grows, Pictures
      <3>2. QED
        BY <2>1, <2>2, <2>4, <3>1, Typed
    <2>7. \/ UNCHANGED <<native, nativeGen>>
          \/ /\ nat[n].gen = generation /\ p \in verified'
             /\ native' = p /\ nativeGen' = generation
      BY <2>2 DEF SafetyImage
    <2>8. QED
      BY <2>1, <2>2, <2>4, <2>5, <2>6, <2>7, StillEnds
  <1>4. QED
    BY <1>1, <1>2, <1>3

\* A capture is over, with its picture or without one.
LEMMA CaptureEnds ==
    ASSUME IInv, NEW c \in Caps, cap[c].st # "idle", NEW p \in MaybePicture,
           p # None => cap[c].st = "then" /\ p = cap[c].pic,
           CaptureReaches(c, p),
           UNCHANGED <<era, generation, cams, stores, still, nativeInflight, sized, resizing,
                       nat, rsz>>
    PROVE  IInv'
  <1>0. /\ TypeOK /\ Shapes /\ Eras /\ StillsAreNoOlder /\ LanesAreBound /\ CapturesGoOn
        /\ ResizesGoOn /\ RequestsGoOn /\ EventsTakeTheNewest
        /\ KeptIsOurs /\ ServedIsCurrent /\ EventIsFresh /\ OneCapturePerLane
    BY DEF IInv
  <1>1. /\ cap' \in [Caps -> Captures] /\ req' \in [Reqs -> Requests]
        /\ cap'[c] = IdleCap /\ cap'[c].st = "idle" /\ cap'[c].lane = "full"
        /\ cap'[c].gen = 0 /\ cap'[c].cam = 0
        /\ \A d \in Caps \ {c} : cap'[d] = cap[d]
        /\ inflight' = [l \in Lanes |-> IF inflight[l] = c THEN None ELSE inflight[l]]
        /\ \A q \in Reqs :
               IF req[q].st = "frame" /\ req[q].on = c
               THEN /\ SameRequest(q) /\ req'[q].pic = p /\ req'[q].ans = req[q].ans
                    /\ req'[q].st = IF p = None THEN "fail" ELSE "size"
               ELSE req'[q] = req[q]
    BY <1>0, CaptureReachesDoes
  <1>2. /\ UNCHANGED <<era, generation, cams, verified, cache, lastGood, native, nativeGen, asked,
                       nativeInflight, resized, latest, variant, resizing, nat, rsz>>
        /\ Pictures' = Pictures /\ Picture' = Picture
    BY DEF stores, still, sized, Pictures, Picture
  <1>3. \A q \in Reqs : SameRequest(q) /\ req'[q].ans = req[q].ans
    BY <1>1 DEF SameRequest
  <1>4. p # None => p \in Pictures /\ cap[c].cam <= cams[p]
    BY <1>0 DEF CapturesGoOn
  <1>5. cap[c].cam \in Nat /\ generation \in Nat /\ era \in Nat
    BY <1>0, CaptureFields, Typed DEF Shapes
  <1>6. TypeOK'
    <2>1. \A q \in Reqs : /\ req'[q].ans \in Picture \cup {0}
                          /\ req'[q].st = "over" => req'[q].ans # None
      BY <1>0, <1>1, <1>3, TypedSlots
    <2>2. \A d \in Caps : cap'[d].st \in {"still", "then", "refresh"} => cap'[d].pic \in Pictures
      BY <1>0, <1>1, TypedSlots
    <2>3. inflight' \in [Lanes -> Caps \cup {None}]
      BY <1>0, <1>1, Typed
    <2>4. QED
      BY <1>0, <1>2, <2>1, <2>2, <2>3 DEF TypeOK
  <1>7. Shapes'
    BY <1>0, <1>1, <1>2 DEF Shapes
  <1>8. Eras'
    BY <1>0, <1>1, <1>2, <1>3, <1>5 DEF Eras, SameRequest
  <1>9. StillsAreNoOlder' /\ CapturesGoOn' /\ ResizesGoOn'
    BY <1>0, <1>1, <1>2 DEF StillsAreNoOlder, CapturesGoOn, ResizesGoOn
  <1>10. LanesAreBound' /\ OneCapturePerLane'
    <2>1. \A d \in Caps : cap'[d].st # "idle" => d # c /\ cap'[d] = cap[d]
      BY <1>1
    <2>2. \A l \in Lanes : inflight'[l] # None => /\ inflight'[l] = inflight[l]
                                                  /\ inflight[l] # c /\ inflight[l] \in Caps
      BY <1>0, <1>1, Typed
    <2>3. \A d \in Caps : cap[d].lane \in Lanes
      BY <1>0, CaptureFields DEF Shapes
    <2>4. \A d \in Caps : cap'[d].st # "idle" /\ cap'[d].gen = generation
                              => inflight'[cap'[d].lane] = d
      BY <1>0, <1>1, <2>1, <2>3 DEF LanesAreBound
    <2>5. \A l \in Lanes : inflight'[l] # None => /\ cap'[inflight'[l]].st # "idle"
                                                  /\ cap'[inflight'[l]].lane = l
                                                  /\ cap'[inflight'[l]].gen = generation
      BY <1>0, <1>1, <2>2 DEF LanesAreBound
    <2>6. OneCapturePerLane'
      BY <1>0, <2>1, <2>5 DEF OneCapturePerLane
    <2>7. QED
      BY <1>2, <2>4, <2>5, <2>6 DEF LanesAreBound
  <1>11. RequestsGoOn'
    <2>1. ASSUME NEW q \in Reqs, req'[q] = req[q], ~(req[q].st = "frame" /\ req[q].on = c)
          PROVE  /\ req'[q].st = "frame"
                    => /\ req'[q].on \in Caps /\ cap'[req'[q].on].st # "idle"
                       /\ req'[q].era <= cap'[req'[q].on].cam
                       /\ req'[q].lane = "event" => cap'[req'[q].on].lane = "event"
                 /\ req'[q].st = "resize"
                    => /\ req'[q].sized /\ req'[q].on \in Rszs /\ rsz'[req'[q].on].st # "idle"
                       /\ rsz'[req'[q].on].src = req'[q].pic
                       /\ req'[q].lane = "event" => rsz'[req'[q].on].event
                 /\ req'[q].st \in {"size", "resize"}
                    => /\ req'[q].pic \in Pictures /\ req'[q].era <= cams[req'[q].pic]
                       /\ req'[q].lane = "event" =>
                              req'[q].from < req'[q].pic /\ req'[q].pic \in asked
      BY <1>0, <1>1, <1>2, <2>1 DEF RequestsGoOn
    <2>2. ASSUME NEW q \in Reqs, req[q].st = "frame", req[q].on = c, p # None
          PROVE  /\ req'[q].st = "size" /\ req'[q].pic \in Pictures
                 /\ req'[q].era <= cams[req'[q].pic]
                 /\ req'[q].lane = "event" =>
                        req'[q].from < req'[q].pic /\ req'[q].pic \in asked
      <3>1. req[q].era \in Nat /\ req[q].era <= cap[c].cam
        BY <1>0, <2>2, RequestFields DEF RequestsGoOn, Shapes
      <3>2. cams[p] \in Nat /\ req[q].era <= cams[p]
        BY <1>0, <1>4, <1>5, <2>2, <3>1, Typed
      <3>3. req[q].lane = "event" => req[q].from < p /\ p \in asked
        BY <1>0, <2>2 DEF EventsTakeTheNewest, RequestsGoOn
      <3>4. QED
        BY <1>1, <1>4, <2>2, <3>2, <3>3 DEF SameRequest
    <2>3. \A q \in Reqs : req[q].st = "frame" /\ req[q].on = c /\ p = None => req'[q].st = "fail"
      BY <1>1
    <2>4. \A q \in Reqs : ~(req[q].st = "frame" /\ req[q].on = c) => req'[q] = req[q]
      BY <1>1
    <2>5. QED
      BY <1>2, <2>1, <2>2, <2>3, <2>4 DEF RequestsGoOn
  <1>12. EventsTakeTheNewest'
    <2>1. \A d \in Caps : cap'[d].lane = "event" => cap'[d] = cap[d] /\ d # c
      BY <1>1
    <2>2. ASSUME NEW q \in Reqs, req'[q].lane = "event"
          PROVE  /\ req'[q].st = "size" => UnsizedYet(req'[q].pic)
                 /\ req'[q].st = "frame" /\ cap'[req'[q].on].st \in {"still", "then"}
                        => req'[q].from < cap'[req'[q].on].pic
      <3>1. CASE req[q].st = "frame" /\ req[q].on = c
        <4>1. cap[c].lane = "event"
          BY <1>0, <1>3, <2>2, <3>1 DEF RequestsGoOn, SameRequest
        <4>2. p # None => UnsizedYet(p)
          BY <1>0, <4>1 DEF EventsTakeTheNewest
        <4>3. QED
          BY <1>1, <3>1, <4>2
      <3>2. CASE ~(req[q].st = "frame" /\ req[q].on = c)
        BY <1>0, <1>1, <2>2, <3>2 DEF EventsTakeTheNewest, RequestsGoOn
      <3>3. QED
        BY <3>1, <3>2
    <2>3. QED
      BY <1>0, <1>2, <2>1, <2>2 DEF EventsTakeTheNewest, UnsizedYet
  <1>13. KeptIsOurs' /\ ServedIsCurrent' /\ EventIsFresh'
    BY <1>0, <1>2, <1>3
       DEF KeptIsOurs, NoForeignPicture, KeptIsCertified, ServedIsCurrent, EventIsFresh, SameRequest
  <1>14. QED
    BY <1>6, <1>7, <1>8, <1>9, <1>10, <1>11, <1>12, <1>13 DEF IInv

\* A capture fails, or settles.
LEMMA CaptureEndsNext ==
    ASSUME IInv, NEW c \in Caps,
           \/ NothingCaptured(c) /\ StandIn(cap[c].lane) = None
           \/ CaptureSettles(c)
    PROVE  IInv'
  <1>0. /\ TypeOK /\ Shapes /\ Eras /\ CapturesGoOn /\ ResizesGoOn /\ EventsTakeTheNewest
    BY DEF IInv
  <1>1. CASE NothingCaptured(c) /\ StandIn(cap[c].lane) = None
    <2>1. /\ cap[c].st # "idle" /\ CaptureReaches(c, None) /\ None \in MaybePicture
          /\ UNCHANGED <<era, generation, cams, stores, still, nativeInflight, sized, resizing,
                         nat, rsz>>
      BY <1>1 DEF NothingCaptured, stores, MaybePicture
    <2>2. QED
      BY <2>1, CaptureEnds
  <1>2. CASE CaptureSettles(c)
    <2> DEFINE p == cap[c].pic
    <2>1. /\ cap[c].st = "then" /\ p \in Pictures /\ p \in MaybePicture
          /\ cap[c].cam <= cams[p]
          /\ UNCHANGED <<era, generation, cams, verified, cache, lastGood, stores, still,
                         nativeInflight, resized, variant, nat>>
      BY <1>0, <1>2, Typed DEF CaptureSettles, CapturesGoOn, stores
    <2>2. CASE CaptureReaches(c, p) /\ UNCHANGED <<rsz, resizing, latest>>
      BY <2>1, <2>2, CaptureEnds DEF sized
    <2>3. ASSUME NEW z \in Rszs, cap[c].stale # None,
                 cap' = [cap EXCEPT ![c].st = "refresh", ![c].on = z],
                 ResizesKept,
                 UNCHANGED <<req, inflight>>
          PROVE  IInv'
      <3>1. CaptureAt(c, "refresh", p, z) /\ z \in Nats \cup Rszs \cup {None}
        BY <1>0, <2>3 DEF Shapes, Captures, CaptureAt
      <3>2. "refresh" \in {"check", "ask", "wait", "still", "then", "refresh"}
        OBVIOUS
      <3>3. /\ cap' \in [Caps -> Captures] /\ \A d \in Caps \ {c} : cap'[d] = cap[d]
            /\ SameCapture(c) /\ cap'[c].stale = cap[c].stale
            /\ cap'[c].st = "refresh" /\ cap'[c].pic = p
        BY <1>0, <2>1, <3>1, <3>2, CaptureIsAt
      <3>4. Grows /\ Pictures' = Pictures /\ cap[c].lane # "event"
        BY <1>0, <2>1, <2>3, StaysGrows DEF Pictures, EventsTakeTheNewest
      <3>5. StillAsked(generation) /\ generation \in Nat /\ generation <= generation
        BY <1>0, <2>1, Typed DEF StillAsked
      <3>6. QED
        BY <2>1, <2>3, <3>3, <3>4, <3>5, CaptureGoesNext
    <2>4. CASE /\ resizing # None /\ cap[c].stale # None
               /\ cap' = [cap EXCEPT ![c].st = "refresh", ![c].on = resizing]
               /\ UNCHANGED <<req, inflight, rsz, resizing, latest>>
      <3>1. resizing \in Rszs
        BY <1>0, <2>4, Typed
      <3>2. Grows
        BY <1>0, <2>1, StaysGrows
      <3>3. QED
        BY <1>0, <2>1, <2>3, <2>4, <3>1, <3>2, ResizesStay
    <2>5. ASSUME NEW z \in Rszs, cap[c].stale # None, Resize(z, p, FALSE),
                 cap' = [cap EXCEPT ![c].st = "refresh", ![c].on = z],
                 UNCHANGED <<req, inflight>>
          PROVE  IInv'
      BY <1>0, <2>1, <2>3, <2>5, ResizeStarts
    <2>6. QED
      BY <1>2, <2>2, <2>4, <2>5 DEF CaptureSettles
  <1>3. QED
    BY <1>1, <1>2

\* A request goes on: to its answer, to the resize it awaits, or not at all.
LEMMA RequestGoesNext ==
    ASSUME IInv, NEW q \in Reqs, req' \in [Reqs -> Requests],
           \A r \in Reqs \ {q} : req'[r] = req[r],
           req'[q].era <= era, req'[q].from <= Len(cams),
           \/ req'[q].st \in {"idle", "over"}
           \/ /\ SameRequest(q) /\ req'[q].st = req[q].st
              /\ req'[q].on = req[q].on /\ req'[q].pic = req[q].pic
           \/ /\ req'[q].st = "resize" /\ req'[q].sized /\ req'[q].on \in Rszs
              /\ rsz'[req'[q].on].st # "idle" /\ rsz'[req'[q].on].src = req'[q].pic
              /\ req'[q].pic \in Pictures /\ req'[q].era <= cams[req'[q].pic]
              /\ req'[q].lane = "event" =>
                    /\ req'[q].from < req'[q].pic /\ req'[q].pic \in asked
                    /\ rsz'[req'[q].on].event,
           req'[q].ans \in Picture \cup {0}, req'[q].st = "over" => req'[q].ans # None,
           req'[q].ans \notin {None, 0} /\ (req'[q].sized => req'[q].lane = "event")
               => cams[req'[q].ans] >= req'[q].era,
           req'[q].lane = "event" /\ req'[q].ans \notin {None, 0}
               => req'[q].ans > req'[q].from /\ req'[q].ans \in asked,
           ResizesKept,
           UNCHANGED <<era, generation, cams, stores, still, nativeInflight, inflight, resized,
                       cap, nat>>
    PROVE  IInv'
  <1> USE DEF ResizesKept
  <1>0. /\ TypeOK /\ Shapes /\ Eras /\ StillsAreNoOlder /\ LanesAreBound /\ CapturesGoOn
        /\ ResizesGoOn /\ RequestsGoOn /\ EventsTakeTheNewest
        /\ KeptIsOurs /\ ServedIsCurrent /\ EventIsFresh /\ OneCapturePerLane
    BY DEF IInv
  <1>1. /\ UNCHANGED <<era, generation, cams, verified, cache, lastGood, native, nativeGen, asked,
                       nativeInflight, inflight, resized, cap, nat>>
        /\ Pictures' = Pictures /\ Picture' = Picture
    BY DEF stores, still, Pictures, Picture
  <1>2. TypeOK'
    <2>1. \A r \in Reqs : /\ req'[r].ans \in Picture \cup {0}
                          /\ req'[r].st = "over" => req'[r].ans # None
      BY <1>0, TypedSlots
    <2>2. \A z \in Rszs : rsz'[z].st # "idle" => rsz'[z].src \in Pictures
      BY <1>1 DEF ResizesGoOn
    <2>3. QED
      BY <1>0, <1>1, <2>1, <2>2 DEF TypeOK
  <1>3. Shapes'
    BY <1>0, <1>1 DEF Shapes
  <1>4. Eras'
    BY <1>0, <1>1, SMTT(30) DEF Eras
  <1>5. StillsAreNoOlder' /\ CapturesGoOn' /\ LanesAreBound' /\ OneCapturePerLane' /\ KeptIsOurs'
    BY <1>0, <1>1 DEF StillsAreNoOlder, CapturesGoOn, LanesAreBound, OneCapturePerLane,
                      KeptIsOurs, NoForeignPicture, KeptIsCertified
  <1>6. RequestsGoOn'
    <2>1. \A r \in Reqs :
              /\ req[r].st = "frame"
                    => /\ req[r].on \in Caps /\ cap'[req[r].on].st # "idle"
                       /\ req[r].era <= cap'[req[r].on].cam
                       /\ req[r].lane = "event" => cap'[req[r].on].lane = "event"
              /\ req[r].st = "resize"
                    => /\ req[r].sized /\ req[r].on \in Rszs /\ rsz'[req[r].on].st # "idle"
                       /\ rsz'[req[r].on].src = req[r].pic
                       /\ req[r].lane = "event" => rsz'[req[r].on].event
              /\ req[r].st \in {"size", "resize"}
                    => /\ req[r].pic \in Pictures' /\ req[r].era <= cams'[req[r].pic]
                       /\ req[r].lane = "event" => req[r].from < req[r].pic /\ req[r].pic \in asked
      BY <1>0, <1>1 DEF RequestsGoOn
    <2>2. ASSUME NEW r \in Reqs
          PROVE  /\ req'[r].st = "frame"
                    => /\ req'[r].on \in Caps /\ cap'[req'[r].on].st # "idle"
                       /\ req'[r].era <= cap'[req'[r].on].cam
                       /\ req'[r].lane = "event" => cap'[req'[r].on].lane = "event"
                 /\ req'[r].st = "resize"
                    => /\ req'[r].sized /\ req'[r].on \in Rszs /\ rsz'[req'[r].on].st # "idle"
                       /\ rsz'[req'[r].on].src = req'[r].pic
                       /\ req'[r].lane = "event" => rsz'[req'[r].on].event
                 /\ req'[r].st \in {"size", "resize"}
                    => /\ req'[r].pic \in Pictures' /\ req'[r].era <= cams'[req'[r].pic]
                       /\ req'[r].lane = "event" =>
                              req'[r].from < req'[r].pic /\ req'[r].pic \in asked
      <3>1. CASE r # q
        BY <2>1, <3>1
      <3>2. CASE r = q
        <4>1. CASE /\ SameRequest(q) /\ req'[q].st = req[q].st
                   /\ req'[q].on = req[q].on /\ req'[q].pic = req[q].pic
          BY SMTT(30), <2>1, <3>2, <4>1 DEF SameRequest
        <4>2. QED
          BY <1>1, <3>2, <4>1
      <3>3. QED
        BY <3>1, <3>2
    <2>3. QED
      BY <1>1, <2>2 DEF RequestsGoOn
  <1>7. EventsTakeTheNewest'
    <2>1. ASSUME NEW r \in Reqs, req'[r].lane = "event"
          PROVE  /\ req'[r].st = "size" => UnsizedYet(req'[r].pic)
                 /\ req'[r].st = "frame" /\ cap[req'[r].on].st \in {"still", "then"}
                        => req'[r].from < cap[req'[r].on].pic
      BY <1>0, <2>1 DEF EventsTakeTheNewest, SameRequest
    <2>2. QED
      BY <1>0, <1>1, <2>1 DEF EventsTakeTheNewest, UnsizedYet
  <1>8. ServedIsCurrent' /\ EventIsFresh'
    BY <1>0, <1>1 DEF ServedIsCurrent, EventIsFresh
  <1>9. QED
    BY <1>2, <1>3, <1>4, <1>5, <1>6, <1>7, <1>8 DEF IInv

\* What getPicture() falls back to.
LEMMA FallbackIsFit ==
    ASSUME IInv, NEW q \in Reqs, NEW p \in Fallbacks(req[q])
    PROVE  /\ p \in Picture \cup {0} /\ p # None /\ p \in MaybePicture
           /\ p # 0 /\ (req[q].sized => req[q].lane = "event") => cams[p] >= req[q].era
           /\ req[q].lane = "event" => p = 0
  <1>0. TypeOK /\ Shapes /\ Eras /\ KeptIsOurs /\ ResizesGoOn
    BY DEF IInv
  <1>1. /\ \A i \in {lastGood, native} : i # None => i \in Pictures /\ cams[i] = era
        /\ \A i \in Pictures : i # None /\ i \in Nat
        /\ Picture = Pictures \cup {None} /\ 0 # None
        /\ req[q].era \in Nat /\ req[q].era <= era /\ era \in Nat
    BY <1>0, Typed, Constants, RequestFields, SMTT(30)
       DEF KeptIsOurs, NoForeignPicture, Eras, Shapes
  <1>2. resized # None => resized.pic \in Pictures
    BY <1>0 DEF ResizesGoOn
  <1>3. ASSUME NEW a \in {lastGood, native}, NEW b \in {lastGood, native}
        PROVE  First(a, b) = 0 \/ (First(a, b) \in Pictures /\ cams[First(a, b)] = era)
    BY <1>1 DEF First
  <1>4. CASE req[q].lane = "event"
    BY <1>1, <1>4 DEF Fallbacks, MaybePicture
  <1>5. CASE req[q].lane # "event" /\ req[q].sized /\ resized # None
    BY <1>1, <1>2, <1>5 DEF Fallbacks, MaybePicture
  <1>6. CASE req[q].lane # "event" /\ ~(req[q].sized /\ resized # None)
    <2>1. p = 0 \/ (p \in Pictures /\ cams[p] = era)
      BY <1>3, <1>6 DEF Fallbacks
    <2>2. QED
      BY <1>1, <1>6, <2>1 DEF MaybePicture
  <1>7. QED
    BY <1>4, <1>5, <1>6

\* Resizes as they are.
LEMMA ResizesAsTheyAre ==
    ASSUME IInv, UNCHANGED <<cams, verified, rsz, resizing, latest, resized>>
    PROVE  ResizesKept
  BY StaysGrows, ResizesStay DEF IInv

\* A request is over with answer p, unless it has one already.
AnsweredWith(q, p) == req' = [req EXCEPT ![q] = Answered(req[q], p)]

\* What that leaves of the request.
LEMMA AnswerDoes ==
    ASSUME IInv, NEW q \in Reqs, NEW p \in MaybePicture, AnsweredWith(q, p)
    PROVE  /\ req' \in [Reqs -> Requests] /\ \A r \in Reqs \ {q} : req'[r] = req[r]
           /\ SameRequest(q) /\ req'[q].st = "over"
           /\ req'[q].ans = IF req[q].ans = None THEN p ELSE req[q].ans
           /\ req'[q].era <= era /\ req'[q].from <= Len(cams)
  <1>1. Shapes /\ Eras /\ req[q] \in Requests
    BY DEF IInv, Shapes
  <1>2. /\ Answered(req[q], p) \in Requests
        /\ Answered(req[q], p).lane = req[q].lane /\ Answered(req[q], p).sized = req[q].sized
        /\ Answered(req[q], p).era = req[q].era /\ Answered(req[q], p).from = req[q].from
        /\ Answered(req[q], p).st = "over"
        /\ Answered(req[q], p).ans = IF req[q].ans = None THEN p ELSE req[q].ans
    BY <1>1 DEF Requests, Answered
  <1>3. QED
    BY <1>1, <1>2 DEF AnsweredWith, SameRequest, Shapes, Eras

\* The answer fits: it shows the camera of the request, and to an event it is
\* new and of its own lane.
Fits(q, p) ==
    /\ p \in Picture \cup {0} /\ p # None /\ p \in MaybePicture
    /\ p # 0 /\ (req[q].sized => req[q].lane = "event") => cams[p] >= req[q].era
    /\ req[q].lane = "event" /\ p # 0 => p > req[q].from /\ p \in asked

\* A request may be over with an answer that fits.
LEMMA AnswerNext ==
    ASSUME IInv, NEW q \in Reqs, NEW p, Fits(q, p), AnsweredWith(q, p),
           ResizesKept,
           UNCHANGED <<era, generation, cams, stores, still, nativeInflight, inflight, resized,
                       cap, nat>>
    PROVE  IInv'
  <1>1. /\ req' \in [Reqs -> Requests] /\ \A r \in Reqs \ {q} : req'[r] = req[r]
        /\ SameRequest(q) /\ req'[q].st = "over"
        /\ req'[q].ans = IF req[q].ans = None THEN p ELSE req[q].ans
        /\ req'[q].era <= era /\ req'[q].from <= Len(cams)
    BY AnswerDoes DEF Fits
  <1>2. /\ req[q].ans \in Picture \cup {0}
        /\ req[q].ans \notin {None, 0} /\ (req[q].sized => req[q].lane = "event")
               => cams[req[q].ans] >= req[q].era
        /\ req[q].lane = "event" /\ req[q].ans \notin {None, 0}
               => req[q].ans > req[q].from /\ req[q].ans \in asked
    BY TypedSlots DEF IInv, ServedIsCurrent, EventIsFresh
  <1>3. /\ req'[q].ans \in Picture \cup {0} /\ req'[q].ans # None
        /\ req'[q].ans \notin {None, 0} /\ (req'[q].sized => req'[q].lane = "event")
               => cams[req'[q].ans] >= req'[q].era
        /\ req'[q].lane = "event" /\ req'[q].ans \notin {None, 0}
               => req'[q].ans > req'[q].from /\ req'[q].ans \in asked
    BY <1>1, <1>2 DEF Fits, SameRequest
  <1>4. QED
    BY <1>1, <1>3, RequestGoesNext

\* The work of a request fails, its deadline passes, or its caller leaves.
LEMMA RequestGivesUp ==
    ASSUME IInv, NEW q \in Reqs, WorkFails(q) \/ Deadline(q) \/ Leave(q)
    PROVE  IInv'
  <1>0. TypeOK /\ Shapes /\ Eras
    BY DEF IInv
  <1>1. /\ UNCHANGED <<era, generation, cams, stores, still, nativeInflight, inflight, resized,
                       cap, nat>>
        /\ UNCHANGED <<verified, rsz, resizing, latest>>
    BY DEF WorkFails, Deadline, Leave, stores, sized
  <1>2. CASE WorkFails(q)
    <2>1. PICK p \in Fallbacks(req[q]) : AnsweredWith(q, p)
      BY <1>2 DEF WorkFails, AnsweredWith
    <2>2. Fits(q, p)
      BY FallbackIsFit DEF Fits
    <2>3. QED
      BY <1>1, <2>1, <2>2, ResizesAsTheyAre, AnswerNext
  <1>3. CASE Deadline(q)
    <2>1. PICK p \in Fallbacks(req[q]) :
              req' = [req EXCEPT ![q].ans = p] /\ req[q].st \in {"frame", "resize"}
      BY <1>3 DEF Deadline
    <2>2. /\ p \in Picture \cup {0} /\ p # None /\ p \in MaybePicture
          /\ p # 0 /\ (req[q].sized => req[q].lane = "event") => cams[p] >= req[q].era
          /\ req[q].lane = "event" => p = 0
      BY FallbackIsFit
    <2>3. /\ req' \in [Reqs -> Requests] /\ \A r \in Reqs \ {q} : req'[r] = req[r]
          /\ SameRequest(q) /\ req'[q].st = req[q].st /\ req'[q].on = req[q].on
          /\ req'[q].pic = req[q].pic /\ req'[q].ans = p
      <3>1. req[q] \in Requests /\ req \in [Reqs -> Requests]
        BY <1>0 DEF Shapes
      <3>2. /\ [req[q] EXCEPT !.ans = p] \in Requests
            /\ [req[q] EXCEPT !.ans = p].lane = req[q].lane
            /\ [req[q] EXCEPT !.ans = p].sized = req[q].sized
            /\ [req[q] EXCEPT !.ans = p].era = req[q].era
            /\ [req[q] EXCEPT !.ans = p].from = req[q].from
            /\ [req[q] EXCEPT !.ans = p].st = req[q].st
            /\ [req[q] EXCEPT !.ans = p].on = req[q].on
            /\ [req[q] EXCEPT !.ans = p].pic = req[q].pic
            /\ [req[q] EXCEPT !.ans = p].ans = p
        BY <2>2, <3>1 DEF Requests
      <3>3. req' = [req EXCEPT ![q] = [req[q] EXCEPT !.ans = p]]
        BY <2>1
      <3>4. QED
        BY <3>1, <3>2, <3>3 DEF SameRequest
    <2>4. req'[q].era <= era /\ req'[q].from <= Len(cams)
      BY <1>0, <2>3 DEF Eras, SameRequest
    <2>5. /\ req'[q].ans \notin {None, 0} /\ (req'[q].sized => req'[q].lane = "event")
                 => cams[req'[q].ans] >= req'[q].era
          /\ req'[q].lane = "event" => req'[q].ans = 0
      BY <2>2, <2>3 DEF SameRequest
    <2>6. QED
      BY <1>1, <2>2, <2>3, <2>4, <2>5, ResizesAsTheyAre, RequestGoesNext
  <1>4. CASE Leave(q)
    <2>1. /\ IdleReq \in Requests /\ IdleReq.st = "idle" /\ IdleReq.ans = None
          /\ IdleReq.era = 0 /\ IdleReq.from = 0
      BY DEF IdleReq, Requests, MaybePicture, Lanes
    <2>2. /\ req' \in [Reqs -> Requests] /\ \A r \in Reqs \ {q} : req'[r] = req[r]
          /\ req'[q] = IdleReq
      BY <1>0, <1>4, <2>1 DEF Leave, Shapes
    <2>3. 0 <= era /\ 0 <= Len(cams) /\ None \in Picture
      BY <1>0, Typed
    <2>4. QED
      BY <1>1, <2>1, <2>2, <2>3, ResizesAsTheyAre, RequestGoesNext
  <1>5. QED
    BY <1>2, <1>3, <1>4

\* A frame is sized: given as it is, from a sized picture, or awaited.
LEMMA SizeForNext ==
    ASSUME IInv, NEW q \in Reqs, SizeFor(q)
    PROVE  IInv'
  <1> DEFINE p == req[q].pic
  <1>0. /\ TypeOK /\ Shapes /\ Eras /\ ResizesGoOn /\ RequestsGoOn /\ EventsTakeTheNewest
        /\ req[q].st = "size"
        /\ UNCHANGED <<era, generation, cams, verified, stores, still, nativeInflight, inflight,
                       resized, cap, nat>>
    BY DEF IInv, SizeFor, stores
  <1>1. /\ p \in Pictures /\ p \in Nat /\ p \in MaybePicture /\ p # None /\ p \in Picture
        /\ req[q].era <= cams[p] /\ req[q].era \in Nat /\ cams[p] \in Nat
        /\ req[q].lane = "event" => req[q].from < p /\ p \in asked
        /\ req[q].from \in Nat /\ req[q].sized \in BOOLEAN
    BY <1>0, Typed, Constants, RequestFields, SMTT(30) DEF RequestsGoOn, Shapes, MaybePicture
  <1>2. Fits(q, p)
    BY <1>1 DEF Fits
  <1>3. ASSUME req[q].sized, req[q].lane # "event", resized # None
        PROVE  Fits(q, resized.pic)
    <2>1. resized.pic \in Pictures
      BY <1>0, <1>3 DEF ResizesGoOn
    <2>2. resized.pic \in Picture /\ resized.pic # None /\ resized.pic \in MaybePicture
      BY <1>0, <2>1, Typed, Constants DEF MaybePicture
    <2>3. QED
      BY <1>3, <2>2 DEF Fits
  <1>4. CASE /\ ~req[q].sized /\ AnsweredWith(q, p)
             /\ UNCHANGED <<rsz, resizing, latest>>
    BY <1>0, <1>2, <1>4, ResizesAsTheyAre, AnswerNext
  <1>5. CASE /\ req[q].sized /\ SizedFrom(p) /\ AnsweredWith(q, resized.pic)
             /\ UNCHANGED <<rsz, resizing, latest>>
    <2>1. resized # None /\ resized.src = p
      BY <1>5 DEF SizedFrom
    <2>2. req[q].lane # "event"
      BY <1>0, <2>1 DEF EventsTakeTheNewest, UnsizedYet
    <2>3. QED
      BY <1>0, <1>3, <1>5, <2>1, <2>2, ResizesAsTheyAre, AnswerNext
  <1>6. CASE /\ req[q].sized /\ resized # None /\ req[q].lane # "event"
             /\ AnsweredWith(q, resized.pic)
             /\ UNCHANGED <<rsz, resizing, latest>>
    BY <1>0, <1>3, <1>6, ResizesAsTheyAre, AnswerNext
  <1>7. ASSUME req[q].sized, resized # None, req[q].lane # "event",
               AnsweredWith(q, resized.pic), NEW z \in Rszs, Resize(z, p, FALSE)
        PROVE  IInv'
    BY <1>0, <1>1, <1>3, <1>7, ResizeStarts, AnswerNext
  <1>8. ASSUME NEW z \in Rszs, req[q].sized, req' = [req EXCEPT ![q].st = "resize", ![q].on = z],
               rsz'[z].st # "idle", rsz'[z].src = p, req[q].lane = "event" => rsz'[z].event,
               ResizesKept
        PROVE  IInv'
    <2>1. req[q] \in Requests /\ req \in [Reqs -> Requests]
      BY <1>0 DEF Shapes
    <2>2. /\ [req[q] EXCEPT !.st = "resize", !.on = z] \in Requests
          /\ [req[q] EXCEPT !.st = "resize", !.on = z].lane = req[q].lane
          /\ [req[q] EXCEPT !.st = "resize", !.on = z].sized = req[q].sized
          /\ [req[q] EXCEPT !.st = "resize", !.on = z].era = req[q].era
          /\ [req[q] EXCEPT !.st = "resize", !.on = z].from = req[q].from
          /\ [req[q] EXCEPT !.st = "resize", !.on = z].pic = req[q].pic
          /\ [req[q] EXCEPT !.st = "resize", !.on = z].ans = req[q].ans
          /\ [req[q] EXCEPT !.st = "resize", !.on = z].st = "resize"
          /\ [req[q] EXCEPT !.st = "resize", !.on = z].on = z
      BY <2>1 DEF Requests
    <2>3. req' = [req EXCEPT ![q] = [req[q] EXCEPT !.st = "resize", !.on = z]]
      BY <1>8
    <2>4. /\ req' \in [Reqs -> Requests] /\ \A r \in Reqs \ {q} : req'[r] = req[r]
          /\ SameRequest(q) /\ req'[q].st = "resize" /\ req'[q].on = z
          /\ req'[q].pic = p /\ req'[q].ans = req[q].ans
      BY <2>1, <2>2, <2>3 DEF SameRequest
    <2>5. /\ req[q].ans \in Picture \cup {0}
          /\ req[q].ans \notin {None, 0} /\ (req[q].sized => req[q].lane = "event")
                 => cams[req[q].ans] >= req[q].era
          /\ req[q].lane = "event" /\ req[q].ans \notin {None, 0}
                 => req[q].ans > req[q].from /\ req[q].ans \in asked
          /\ req[q].era <= era /\ req[q].from <= Len(cams)
      BY TypedSlots DEF IInv, ServedIsCurrent, EventIsFresh, Eras
    <2>6. /\ req'[q].ans \in Picture \cup {0}
          /\ req'[q].ans \notin {None, 0} /\ (req'[q].sized => req'[q].lane = "event")
                 => cams[req'[q].ans] >= req'[q].era
          /\ req'[q].lane = "event" /\ req'[q].ans \notin {None, 0}
                 => req'[q].ans > req'[q].from /\ req'[q].ans \in asked
          /\ req'[q].era <= era /\ req'[q].from <= Len(cams)
      BY <2>4, <2>5 DEF SameRequest
    <2>7. /\ req'[q].sized /\ req'[q].on \in Rszs
          /\ rsz'[req'[q].on].st # "idle" /\ rsz'[req'[q].on].src = req'[q].pic
          /\ req'[q].pic \in Pictures /\ req'[q].era <= cams[req'[q].pic]
          /\ req'[q].lane = "event" =>
                 /\ req'[q].from < req'[q].pic /\ req'[q].pic \in asked
                 /\ rsz'[req'[q].on].event
      BY <1>1, <1>8, <2>4 DEF SameRequest
    <2>8. QED
      BY <1>0, <1>8, <2>4, <2>6, <2>7, RequestGoesNext
  <1>9. CASE /\ req[q].sized /\ resizing # None /\ rsz[resizing].src = p
             /\ rsz[resizing].event = (req[q].lane = "event")
             /\ req' = [req EXCEPT ![q].st = "resize", ![q].on = resizing]
             /\ UNCHANGED <<rsz, resizing, latest>>
    <2>1. resizing \in Rszs /\ rsz[resizing].st # "idle"
      BY <1>0, <1>9, Typed DEF ResizesGoOn
    <2>2. /\ rsz'[resizing].st # "idle" /\ rsz'[resizing].src = p
          /\ req[q].lane = "event" => rsz'[resizing].event
      BY <1>9, <2>1
    <2>3. ResizesKept
      BY <1>0, <1>9, ResizesAsTheyAre
    <2>4. QED
      BY <1>8, <1>9, <2>1, <2>2, <2>3
  <1>10. ASSUME NEW z \in Rszs, req[q].sized, Resize(z, p, req[q].lane = "event"),
                req' = [req EXCEPT ![q].st = "resize", ![q].on = z]
         PROVE  IInv'
    <2>1. PICK event \in BOOLEAN : event = (req[q].lane = "event")
      OBVIOUS
    <2>2. Resize(z, p, event)
      BY <1>10, <2>1
    <2>3. /\ ResizesKept
          /\ rsz'[z].st = "run" /\ rsz'[z].src = p /\ rsz'[z].event = event
      BY <1>0, <1>1, <2>2, ResizeStarts
    <2>4. QED
      BY <1>8, <1>10, <2>1, <2>3
  <1>11. QED
    <2>1. CASE ~req[q].sized
      BY <1>4, <2>1 DEF SizeFor, AnsweredWith
    <2>2. CASE req[q].sized /\ SizedFrom(p)
      BY <1>5, <2>2 DEF SizeFor, AnsweredWith
    <2>3. CASE req[q].sized /\ ~SizedFrom(p)
      BY <1>6, <1>7, <1>9, <1>10, <2>3 DEF SizeFor, AnsweredWith
    <2>4. QED
      BY <1>1, <2>1, <2>2, <2>3

\* The lane's capture starts, or none does.
CaptureMayStart(lane) ==
    \/ UNCHANGED <<cap, inflight>>
    \/ /\ inflight[lane] = None
       /\ \E c \in Caps, stale \in MaybePicture :
              Capture(c, lane, stale) /\ (lane = "event" => stale = None)

\* What that changes: at most one capture, which its lane is then bound to.
LEMMA CaptureMayStartDoes ==
    ASSUME TypeOK, Shapes, NEW lane \in Lanes, CaptureMayStart(lane)
    PROVE  /\ cap' \in [Caps -> Captures] /\ inflight' \in [Lanes -> Caps \cup {None}]
           /\ \A d \in Caps :
                  \/ cap'[d] = cap[d]
                  \/ /\ cap[d].st = "idle" /\ cap'[d].st \in {"key", "ask"}
                     /\ cap'[d].lane = lane /\ cap'[d].gen = generation /\ cap'[d].cam = era
                     /\ lane = "event" => cap'[d].st = "ask" /\ cap'[d].stale = None
                     /\ inflight[lane] = None /\ inflight'[lane] = d
           /\ \A l \in Lanes :
                  \/ inflight'[l] = inflight[l]
                  \/ /\ l = lane /\ inflight[l] = None /\ inflight'[l] \in Caps
                     /\ cap[inflight'[l]].st = "idle" /\ cap'[inflight'[l]].st # "idle"
                     /\ cap'[inflight'[l]].lane = l /\ cap'[inflight'[l]].gen = generation
  <1>1. CASE UNCHANGED <<cap, inflight>>
    BY <1>1, Typed DEF Shapes
  <1>2. ASSUME NEW c \in Caps, NEW stale \in MaybePicture, inflight[lane] = None,
               Capture(c, lane, stale), lane = "event" => stale = None
        PROVE  /\ cap[c].st = "idle" /\ cap' \in [Caps -> Captures]
               /\ cap'[c].st \in {"key", "ask"} /\ (lane = "event" => cap'[c].st = "ask")
               /\ cap'[c].lane = lane /\ cap'[c].gen = generation /\ cap'[c].cam = era
               /\ cap'[c].stale = stale
               /\ \A d \in Caps \ {c} : cap'[d] = cap[d]
               /\ inflight' \in [Lanes -> Caps \cup {None}] /\ inflight'[lane] = c
               /\ \A l \in Lanes \ {lane} : inflight'[l] = inflight[l]
    BY <1>2, CaptureDoes
  <1>3. QED
    BY <1>1, <1>2 DEF CaptureMayStart

\* A request starts: with a kept picture, or with a capture it awaits.
LEMMA RequestStarts ==
    ASSUME IInv, Quiet, NEW q \in Reqs, NEW lane \in Lanes, StillAsked(generation),
           CaptureMayStart(lane), req' \in [Reqs -> Requests],
           \A r \in Reqs \ {q} : req'[r] = req[r],
           req'[q].lane = lane, req'[q].era = era, req'[q].from = Len(cams), req'[q].ans = None,
           \/ /\ req'[q].st = "size" /\ lane # "event"
              /\ req'[q].pic \in Pictures /\ cams[req'[q].pic] = era
           \/ /\ req'[q].st = "frame" /\ req'[q].on \in Caps
              /\ cap'[req'[q].on].st # "idle" /\ cap'[req'[q].on].lane = lane
              /\ cap'[req'[q].on].cam = era,
           UNCHANGED <<era, generation, cams, stores, still, sized, resizing, rsz>>
    PROVE  IInv'
  <1>0. /\ TypeOK /\ Shapes /\ Eras /\ StillsAreNoOlder /\ LanesAreBound /\ CapturesGoOn
        /\ ResizesGoOn /\ RequestsGoOn /\ EventsTakeTheNewest
        /\ KeptIsOurs /\ ServedIsCurrent /\ EventIsFresh /\ OneCapturePerLane
    BY DEF IInv
  <1>1. /\ nat' \in [Nats -> Stills] /\ nativeInflight' \in Nats \cup {None}
        /\ nativeInflight' # None => nat'[nativeInflight'].st # "idle"
        /\ \A n \in Nats :
               \/ nat'[n] = nat[n]
               \/ /\ nat[n].st = "idle" /\ nat'[n].st = "fetch"
                  /\ nat'[n].gen = generation /\ nat'[n].cam = era
    BY <1>0, Typed, StillAskedDoes
  <1>2. /\ cap' \in [Caps -> Captures] /\ inflight' \in [Lanes -> Caps \cup {None}]
        /\ \A d \in Caps :
               \/ cap'[d] = cap[d]
               \/ /\ cap[d].st = "idle" /\ cap'[d].st \in {"key", "ask"}
                  /\ cap'[d].lane = lane /\ cap'[d].gen = generation /\ cap'[d].cam = era
                  /\ lane = "event" => cap'[d].st = "ask" /\ cap'[d].stale = None
                  /\ inflight[lane] = None /\ inflight'[lane] = d
        /\ \A l \in Lanes :
               \/ inflight'[l] = inflight[l]
               \/ /\ l = lane /\ inflight[l] = None /\ inflight'[l] \in Caps
                  /\ cap[inflight'[l]].st = "idle" /\ cap'[inflight'[l]].st # "idle"
                  /\ cap'[inflight'[l]].lane = l /\ cap'[inflight'[l]].gen = generation
    BY <1>0, CaptureMayStartDoes
  <1>3. /\ UNCHANGED <<era, generation, cams, verified, cache, lastGood, native, nativeGen, asked,
                       resized, latest, variant, resizing, rsz>>
        /\ Pictures' = Pictures /\ Picture' = Picture
    BY DEF stores, still, sized, Pictures, Picture
  <1>4. era \in Nat /\ generation \in Nat /\ Len(cams) \in Nat
    BY <1>0, Typed
  <1>5. TypeOK'
    <2>1. \A r \in Reqs : /\ req'[r].ans \in Picture \cup {0}
                          /\ req'[r].st = "over" => req'[r].ans # None
      BY <1>0, Typed, TypedSlots
    <2>2. \A d \in Caps : cap'[d].st \in {"still", "then", "refresh"} => cap'[d].pic \in Pictures
      BY <1>0, <1>2, TypedSlots
    <2>3. QED
      BY <1>0, <1>1, <1>2, <1>3, <2>1, <2>2 DEF TypeOK
  <1>6. Shapes'
    BY <1>0, <1>1, <1>2, <1>3 DEF Shapes
  <1>7. Eras'
    <2>1. \A r \in Reqs : req'[r].era <= era /\ req'[r].from <= Len(cams)
      BY <1>0, <1>4 DEF Eras
    <2>2. \A d \in Caps :
              /\ cap'[d].gen <= generation /\ cap'[d].cam <= era
              /\ cap'[d].st # "idle" /\ cap'[d].gen = generation => cap'[d].cam = era
      BY <1>0, <1>2, <1>4 DEF Eras
    <2>3. \A n \in Nats :
              /\ nat'[n].gen <= generation /\ nat'[n].cam <= era
              /\ nat'[n].st # "idle" /\ nat'[n].gen = generation => nat'[n].cam = era
      BY <1>0, <1>1, <1>4 DEF Eras
    <2>4. QED
      BY <1>0, <1>3, <2>1, <2>2, <2>3 DEF Eras
  <1>8. StillsAreNoOlder'
    <2>1. ASSUME NEW d \in Caps, NEW n \in Nats, cap'[d].st # "idle", nat'[n].st # "idle",
                 cap'[d].gen = nat'[n].gen
          PROVE  cap'[d].cam <= nat'[n].cam
      <3>1. /\ cap'[d].cam \in Nat /\ nat'[n].cam \in Nat
        BY <1>1, <1>2, CaptureFields, StillFields
      <3>2. CASE cap'[d].gen = generation
        BY <1>3, <1>7, <2>1, <3>1, <3>2 DEF Eras
      <3>3. CASE cap'[d].gen # generation
        BY <1>0, <1>1, <1>2, <2>1, <3>3 DEF StillsAreNoOlder
      <3>4. QED
        BY <3>2, <3>3
    <2>2. QED
      BY <2>1 DEF StillsAreNoOlder
  <1>9. LanesAreBound' /\ OneCapturePerLane'
    <2>1. ASSUME NEW d \in Caps, cap'[d].st # "idle", cap'[d].gen = generation
          PROVE  inflight'[cap'[d].lane] = d
      <3>1. cap'[d].lane \in Lanes
        BY <1>2, CaptureFields
      <3>2. CASE cap'[d] = cap[d]
        <4>1. inflight[cap[d].lane] = d
          BY <1>0, <2>1, <3>2 DEF LanesAreBound
        <4>2. QED
          BY <1>2, <3>1, <3>2, <4>1, Constants
      <3>3. QED
        BY <1>2, <3>2
    <2>2. \A l \in Lanes : inflight'[l] # None => /\ cap'[inflight'[l]].st # "idle"
                                                  /\ cap'[inflight'[l]].lane = l
                                                  /\ cap'[inflight'[l]].gen = generation
      <3>1. ASSUME NEW l \in Lanes, inflight'[l] # None, inflight'[l] = inflight[l]
            PROVE  /\ cap'[inflight[l]].st # "idle" /\ cap'[inflight[l]].lane = l
                   /\ cap'[inflight[l]].gen = generation
        <4>1. inflight[l] \in Caps /\ cap[inflight[l]].st # "idle"
              /\ cap[inflight[l]].lane = l /\ cap[inflight[l]].gen = generation
          BY <1>0, <3>1, Typed DEF LanesAreBound
        <4>2. QED
          BY <1>2, <4>1
      <3>2. QED
        BY <1>2, <3>1
    <2>3. LanesAreBound'
      BY <1>3, <2>1, <2>2 DEF LanesAreBound
    <2>4. ASSUME NEW d \in Caps, NEW e \in Caps, cap'[d].st # "idle", cap'[e].st # "idle",
                 cap'[d].lane = cap'[e].lane, cap'[d].gen = cap'[e].gen
          PROVE  d = e
      <3>1. CASE cap'[d].gen = generation
        BY <2>1, <2>4, <3>1
      <3>2. CASE cap'[d].gen # generation
        BY <1>0, <1>2, <2>4, <3>2 DEF OneCapturePerLane
      <3>3. QED
        BY <3>1, <3>2
    <2>5. QED
      BY <2>2, <2>3, <2>4 DEF OneCapturePerLane
  <1>10. CapturesGoOn'
    BY <1>0, <1>1, <1>2, <1>3 DEF CapturesGoOn
  <1>11. ResizesGoOn' /\ KeptIsOurs'
    BY <1>0, <1>3 DEF ResizesGoOn, KeptIsOurs, NoForeignPicture, KeptIsCertified
  <1>12. RequestsGoOn'
    <2>1. ASSUME NEW r \in Reqs \ {q}
          PROVE  /\ req'[r].st = "frame"
                    => /\ req'[r].on \in Caps /\ cap'[req'[r].on].st # "idle"
                       /\ req'[r].era <= cap'[req'[r].on].cam
                       /\ req'[r].lane = "event" => cap'[req'[r].on].lane = "event"
                 /\ req'[r].st = "resize"
                    => /\ req'[r].sized /\ req'[r].on \in Rszs /\ rsz'[req'[r].on].st # "idle"
                       /\ rsz'[req'[r].on].src = req'[r].pic
                       /\ req'[r].lane = "event" => rsz'[req'[r].on].event
                 /\ req'[r].st \in {"size", "resize"}
                    => /\ req'[r].pic \in Pictures' /\ req'[r].era <= cams'[req'[r].pic]
                       /\ req'[r].lane = "event" =>
                              req'[r].from < req'[r].pic /\ req'[r].pic \in asked
      BY <1>0, <1>2, <1>3 DEF RequestsGoOn
    <2>2. /\ req'[q].st = "frame"
                    => /\ req'[q].on \in Caps /\ cap'[req'[q].on].st # "idle"
                       /\ req'[q].era <= cap'[req'[q].on].cam
                       /\ req'[q].lane = "event" => cap'[req'[q].on].lane = "event"
          /\ req'[q].st # "resize"
          /\ req'[q].st \in {"size", "resize"}
                    => /\ req'[q].pic \in Pictures' /\ req'[q].era <= cams'[req'[q].pic]
                       /\ req'[q].lane = "event" =>
                              req'[q].from < req'[q].pic /\ req'[q].pic \in asked
      BY <1>3, <1>4
    <2>3. QED
      BY <1>3, <2>1, <2>2 DEF RequestsGoOn
  <1>13. EventsTakeTheNewest'
    <2>1. \A d \in Caps : /\ cap'[d].st \notin {"still", "then"}
                          /\ cap'[d].lane = "event" =>
                                 /\ cap'[d].st \notin {"key", "check", "refresh"}
                                 /\ cap'[d].stale = None
                                 /\ cap'[d].st = "wait" => nat'[cap'[d].on].event
      <3>1. ASSUME NEW d \in Caps, cap[d].st = "wait"
            PROVE  cap'[d] = cap[d] /\ nat'[cap[d].on] = nat[cap[d].on]
        BY <1>0, <1>1, <1>2, <3>1 DEF CapturesGoOn
      <3>2. QED
        BY <1>0, <1>2, <3>1 DEF Quiet, EventsTakeTheNewest
    <2>2. \A r \in Reqs : /\ req'[r].lane = "event" => req'[r].st # "size"
                          /\ req'[r].st = "frame" => req'[r].on \in Caps
      BY <1>0 DEF Quiet, RequestsGoOn
    <2>3. QED
      BY <2>1, <2>2 DEF EventsTakeTheNewest
  <1>14. ServedIsCurrent' /\ EventIsFresh'
    BY <1>0, <1>3 DEF ServedIsCurrent, EventIsFresh
  <1>15. QED
    BY <1>5, <1>6, <1>7, <1>8, <1>9, <1>10, <1>11, <1>12, <1>13, <1>14 DEF IInv

\* The record of a new request, with its picture or with what it awaits.
AskedFor(lane, size) ==
    [IdleReq EXCEPT !.lane = lane, !.sized = size, !.era = era, !.from = Len(cams)]
AskedWith(lane, size, p) == [AskedFor(lane, size) EXCEPT !.st = "size", !.pic = p]
AskedOf(lane, size, c) == [AskedFor(lane, size) EXCEPT !.st = "frame", !.on = c]

\* Their fields.
LEMMA NewRequests ==
    ASSUME TypeOK, NEW lane \in Lanes, NEW size \in BOOLEAN
    PROVE  /\ \A p \in MaybePicture :
                  LET r == AskedWith(lane, size, p)
                  IN /\ r \in Requests /\ r.lane = lane /\ r.era = era /\ r.from = Len(cams)
                     /\ r.ans = None /\ r.st = "size" /\ r.pic = p
           /\ \A c \in Caps :
                  LET r == AskedOf(lane, size, c)
                  IN /\ r \in Requests /\ r.lane = lane /\ r.era = era /\ r.from = Len(cams)
                     /\ r.ans = None /\ r.st = "frame" /\ r.on = c
  <1>1. era \in Nat /\ Len(cams) \in Nat
    BY Typed
  <1>2. QED
    BY <1>1, ZenonT(30) DEF AskedWith, AskedOf, AskedFor, Requests, IdleReq, MaybePicture

\* getPicture() up to its first await.
LEMMA RequestNext ==
    ASSUME IInv, NEW q \in Reqs, NEW lane \in Lanes, NEW size \in BOOLEAN, Request(q, lane, size)
    PROVE  IInv'
  <1> DEFINE cached == IF lane = "event" THEN None ELSE cache[lane]
             r == [IdleReq EXCEPT !.lane = lane, !.sized = size, !.era = era, !.from = Len(cams)]
  <1>0. /\ TypeOK /\ Shapes /\ Eras /\ LanesAreBound /\ KeptIsOurs /\ Quiet
        /\ StillAsked(generation)
        /\ UNCHANGED <<era, generation, cams, stores, still, sized, resizing, rsz>>
    BY DEF IInv, Request, EnsureStill, StillAsked
  <1>1. era \in Nat /\ Len(cams) \in Nat /\ None \in MaybePicture
    BY <1>0, Typed DEF MaybePicture
  <1>2. \/ /\ cached # None
           /\ req' = [req EXCEPT ![q] = [r EXCEPT !.st = "size", !.pic = cached]]
           /\ \/ UNCHANGED <<cap, inflight>>
              \/ /\ inflight[lane] = None
                 /\ \E c \in Caps : Capture(c, lane, IF lane = "preview" THEN cached ELSE None)
        \/ /\ inflight[lane] # None
           /\ req' = [req EXCEPT ![q] = [r EXCEPT !.st = "frame", !.on = inflight[lane]]]
           /\ UNCHANGED <<cap, inflight>>
        \/ /\ inflight[lane] = None
           /\ \E c \in Caps :
                  /\ Capture(c, lane, None)
                  /\ req' = [req EXCEPT ![q] = [r EXCEPT !.st = "frame", !.on = c]]
    BY DEF Request
  <1>3. CASE /\ cached # None
             /\ req' = [req EXCEPT ![q] = [r EXCEPT !.st = "size", !.pic = cached]]
             /\ \/ UNCHANGED <<cap, inflight>>
                \/ /\ inflight[lane] = None
                   /\ \E c \in Caps : Capture(c, lane, IF lane = "preview" THEN cached ELSE None)
    <2>1. lane \in {"preview", "full"} /\ lane # "event" /\ cached = cache[lane]
      BY <1>3 DEF Lanes
    <2>2. cached \in Pictures /\ cams[cached] = era /\ cached \in MaybePicture
      BY <1>0, <1>3, <2>1, Typed DEF KeptIsOurs, NoForeignPicture
    <2>3. CaptureMayStart(lane)
      BY <1>1, <1>3, <2>1, <2>2 DEF CaptureMayStart
    <2>4. req' = [req EXCEPT ![q] = AskedWith(lane, size, cached)]
      BY <1>3 DEF AskedWith, AskedFor
    <2>5. LET i == AskedWith(lane, size, cached)
          IN /\ i \in Requests /\ i.lane = lane /\ i.era = era /\ i.from = Len(cams)
             /\ i.ans = None /\ i.st = "size" /\ i.pic = cached
      BY <1>0, <2>2, NewRequests
    <2>6. /\ req' \in [Reqs -> Requests] /\ \A i \in Reqs \ {q} : req'[i] = req[i]
          /\ req'[q].lane = lane /\ req'[q].era = era /\ req'[q].from = Len(cams)
          /\ req'[q].ans = None /\ req'[q].st = "size" /\ req'[q].pic = cached
      BY <1>0, <2>4, <2>5 DEF Shapes
    <2>7. QED
      BY <1>0, <2>1, <2>2, <2>3, <2>6, RequestStarts
  <1>4. ASSUME NEW c \in Caps, CaptureMayStart(lane),
               req' = [req EXCEPT ![q] = [r EXCEPT !.st = "frame", !.on = c]],
               cap'[c].st # "idle", cap'[c].lane = lane, cap'[c].cam = era
        PROVE  IInv'
    <2>1. req' = [req EXCEPT ![q] = AskedOf(lane, size, c)]
      BY <1>4 DEF AskedOf, AskedFor
    <2>2. LET i == AskedOf(lane, size, c)
          IN /\ i \in Requests /\ i.lane = lane /\ i.era = era /\ i.from = Len(cams)
             /\ i.ans = None /\ i.st = "frame" /\ i.on = c
      BY <1>0, NewRequests
    <2>3. /\ req' \in [Reqs -> Requests] /\ \A i \in Reqs \ {q} : req'[i] = req[i]
          /\ req'[q].lane = lane /\ req'[q].era = era /\ req'[q].from = Len(cams)
          /\ req'[q].ans = None /\ req'[q].st = "frame" /\ req'[q].on = c
      BY <1>0, <2>1, <2>2 DEF Shapes
    <2>4. QED
      BY <1>0, <1>4, <2>3, RequestStarts
  <1>5. CASE /\ inflight[lane] # None
             /\ req' = [req EXCEPT ![q] = [r EXCEPT !.st = "frame", !.on = inflight[lane]]]
             /\ UNCHANGED <<cap, inflight>>
    <2>1. /\ inflight[lane] \in Caps /\ cap[inflight[lane]].st # "idle"
          /\ cap[inflight[lane]].lane = lane /\ cap[inflight[lane]].gen = generation
      BY <1>0, <1>5, Typed DEF LanesAreBound
    <2>2. cap[inflight[lane]].cam = era
      BY <1>0, <2>1 DEF Eras
    <2>3. QED
      BY <1>4, <1>5, <2>1, <2>2 DEF CaptureMayStart
  <1>6. ASSUME NEW c \in Caps, inflight[lane] = None, Capture(c, lane, None),
               req' = [req EXCEPT ![q] = [r EXCEPT !.st = "frame", !.on = c]]
        PROVE  IInv'
    <2>1. cap'[c].st # "idle" /\ cap'[c].lane = lane /\ cap'[c].cam = era
      BY <1>0, <1>1, <1>6, CaptureDoes
    <2>2. CaptureMayStart(lane)
      BY <1>1, <1>6 DEF CaptureMayStart
    <2>3. QED
      BY <1>4, <1>6, <2>1, <2>2
  <1>7. QED
    BY <1>2, <1>3, <1>5, <1>6

\* clearCache() and reset(): what is under way is forgotten, and with the camera
\* what it left.
LEMMA Invalidates ==
    ASSUME IInv, Forget, era' \in Nat, era <= era', era' <= MaxEra,
           \/ UNCHANGED <<era, verified, lastGood, native, resized>>
           \/ /\ verified' = {} /\ lastGood' = None /\ native' = None /\ resized' = None
    PROVE  IInv'
  <1>0. /\ TypeOK /\ Shapes /\ Eras /\ StillsAreNoOlder /\ LanesAreBound /\ CapturesGoOn
        /\ ResizesGoOn /\ RequestsGoOn /\ EventsTakeTheNewest
        /\ KeptIsOurs /\ ServedIsCurrent /\ EventIsFresh /\ OneCapturePerLane
    BY DEF IInv
  <1>1. /\ generation < MaxGeneration /\ generation' = generation + 1
        /\ cache' = [l \in {"preview", "full"} |-> None]
        /\ inflight' = [l \in Lanes |-> None]
        /\ resizing' = None /\ latest' = None /\ nativeInflight' = None
        /\ UNCHANGED <<cams, nativeGen, asked, req, cap, nat, rsz>>
    BY DEF Forget
  <1>2. /\ era \in Nat /\ generation \in Nat /\ MaxGeneration \in Nat /\ MaxEra \in Nat
        /\ Pictures' = Pictures /\ Picture' = Picture /\ None \in Picture
        /\ \A p \in Pictures : cams[p] \in Nat
    BY <1>0, <1>1, Typed, Constants DEF Pictures, Picture
  <1>3. TypeOK'
    <2>1. /\ era' \in 0..MaxEra /\ generation' \in 0..MaxGeneration
          /\ verified' \subseteq Pictures /\ {lastGood', native'} \subseteq Picture
          /\ (resized' = None \/ {resized'.src, resized'.pic} \subseteq Pictures)
      BY <1>0, <1>1, <1>2 DEF TypeOK
    <2>2. /\ cams' \in Seq(0..MaxEra) /\ cache' \in [{"preview", "full"} -> Picture]
          /\ nativeGen' \in 0..MaxGeneration /\ nativeInflight' \in Nats \cup {None}
          /\ asked' \subseteq Pictures /\ inflight' \in [Lanes -> Caps \cup {None}]
          /\ {resizing', latest'} \subseteq Rszs \cup {None}
      BY <1>0, <1>1, <1>2 DEF TypeOK
    <2>3. /\ \A q \in Reqs : /\ req'[q].ans \in Picture \cup {0}
                             /\ req'[q].st = "over" => req'[q].ans # None
          /\ \A c \in Caps : cap'[c].st \in {"still", "then", "refresh"} => cap'[c].pic \in Pictures
          /\ \A z \in Rszs : rsz'[z].st # "idle" => rsz'[z].src \in Pictures
      BY <1>0, <1>1, TypedSlots
    <2>4. QED
      BY <1>2, <2>1, <2>2, <2>3 DEF TypeOK
  <1>4. Shapes'
    BY <1>0, <1>1 DEF Shapes, SizedPictures
  <1>5. Eras'
    <2>1. /\ \A p \in Pictures : cams[p] <= era'
          /\ \A q \in Reqs : req[q].era <= era' /\ req[q].from <= Len(cams)
      BY <1>0, <1>2, RequestFields DEF Eras, Shapes
    <2>2. \A c \in Caps : cap[c].gen < generation' /\ cap[c].cam <= era'
      BY <1>0, <1>1, <1>2, CaptureFields DEF Eras, Shapes
    <2>3. \A n \in Nats : nat[n].gen < generation' /\ nat[n].cam <= era'
      BY <1>0, <1>1, <1>2, StillFields DEF Eras, Shapes
    <2>4. \A z \in Rszs : rsz[z].gen <= generation'
      BY <1>0, <1>1, <1>2, ResizeFields DEF Eras, Shapes
    <2>5. \A c \in Caps : cap[c].gen \in Nat
      BY <1>0, CaptureFields DEF Shapes
    <2>6. \A n \in Nats : nat[n].gen \in Nat
      BY <1>0, StillFields DEF Shapes
    <2>7. QED
      BY <1>1, <1>2, <2>1, <2>2, <2>3, <2>4, <2>5, <2>6 DEF Eras
  <1>6. StillsAreNoOlder' /\ CapturesGoOn' /\ RequestsGoOn' /\ ServedIsCurrent' /\ EventIsFresh'
    BY <1>0, <1>1, <1>2
       DEF StillsAreNoOlder, CapturesGoOn, RequestsGoOn, ServedIsCurrent, EventIsFresh
  <1>7. LanesAreBound' /\ OneCapturePerLane'
    <2>1. \A c \in Caps : cap[c].gen # generation'
      BY <1>0, <1>1, <1>2, CaptureFields DEF Eras, Shapes
    <2>2. QED
      BY <1>0, <1>1, <2>1 DEF LanesAreBound, OneCapturePerLane
  <1>8. ResizesGoOn'
    BY <1>0, <1>1, <1>2 DEF ResizesGoOn
  <1>9. EventsTakeTheNewest'
    <2>1. \A p : UnsizedYet(p) => UnsizedYet(p)'
      BY <1>1 DEF UnsizedYet
    <2>2. QED
      BY <1>0, <1>1, <2>1 DEF EventsTakeTheNewest
  <1>10. KeptIsOurs'
    BY <1>0, <1>1 DEF KeptIsOurs, NoForeignPicture, KeptIsCertified
  <1>11. QED
    BY <1>3, <1>4, <1>5, <1>6, <1>7, <1>8, <1>9, <1>10 DEF IInv

\* clearCache() and reset() are such steps.
LEMMA InvalidateNext ==
    ASSUME IInv, ClearCache \/ Reset
    PROVE  IInv'
  <1>1. era \in 0..MaxEra /\ MaxEra \in Nat
    BY Constants DEF IInv, TypeOK
  <1>2. CASE ClearCache
    BY <1>1, <1>2, Invalidates DEF ClearCache
  <1>3. CASE Reset
    BY <1>1, <1>3, Invalidates DEF Reset
  <1>4. QED
    BY <1>2, <1>3

\* At the start nothing is kept, asked for or under way.
LEMMA IInvInit == Init => IInv
  <1> SUFFICES ASSUME Init PROVE IInv
    OBVIOUS
  <1>1. /\ era = 0 /\ generation = 0 /\ cams = << >> /\ verified = {}
        /\ cache = [l \in {"preview", "full"} |-> None] /\ lastGood = None
        /\ native = None /\ nativeGen = 0 /\ asked = {} /\ nativeInflight = None
        /\ inflight = [l \in Lanes |-> None]
        /\ resized = None /\ resizing = None /\ latest = None
        /\ \A q \in Reqs : req[q] = IdleReq
        /\ \A c \in Caps : cap[c] = IdleCap
        /\ \A n \in Nats : nat[n] = IdleNat
        /\ \A z \in Rszs : rsz[z] = IdleRsz
    BY DEF Init
  <1>2. /\ cams \in Seq(0..MaxEra) /\ Len(cams) = 0 /\ Pictures = {} /\ Picture = {None}
    BY <1>1, EmptySeq DEF Pictures, Picture
  <1>3. /\ IdleReq.st = "idle" /\ IdleReq.ans = None /\ IdleReq.era = 0 /\ IdleReq.from = 0
        /\ IdleReq.lane = "full" /\ IdleReq \in Requests
    BY DEF IdleReq, Requests, MaybePicture, Lanes
  <1>4. /\ IdleCap.st = "idle" /\ IdleCap.lane = "full" /\ IdleCap.gen = 0 /\ IdleCap.cam = 0
        /\ IdleCap \in Captures
    BY DEF IdleCap, Captures, MaybePicture, Lanes
  <1>5. IdleNat.st = "idle" /\ IdleNat.gen = 0 /\ IdleNat.cam = 0 /\ IdleNat \in Stills
    BY DEF IdleNat, Stills
  <1>6. /\ IdleRsz.st = "idle" /\ IdleRsz.event = FALSE /\ IdleRsz.hit = None
        /\ IdleRsz.gen = 0 /\ IdleRsz \in Resizes
    BY DEF IdleRsz, Resizes, MaybePicture, SizedPictures
  <1>7. TypeOK
    BY <1>1, <1>2, <1>3, <1>4, <1>6, Constants DEF TypeOK
  <1>8. Shapes
    BY <1>1, <1>3, <1>4, <1>5, <1>6 DEF Shapes, SizedPictures, Init
  <1>9. Eras /\ StillsAreNoOlder
    BY <1>1, <1>2, <1>3, <1>4, <1>5, <1>6 DEF Eras, StillsAreNoOlder
  <1>10. LanesAreBound /\ OneCapturePerLane
    BY <1>1, <1>4 DEF LanesAreBound, OneCapturePerLane
  <1>11. CapturesGoOn /\ ResizesGoOn /\ RequestsGoOn /\ EventsTakeTheNewest
    BY <1>1, <1>3, <1>4, <1>6 DEF CapturesGoOn, ResizesGoOn, RequestsGoOn, EventsTakeTheNewest
  <1>12. KeptIsOurs /\ ServedIsCurrent /\ EventIsFresh
    BY <1>1, <1>3
       DEF KeptIsOurs, NoForeignPicture, KeptIsCertified, ServedIsCurrent, EventIsFresh
  <1>13. QED
    BY <1>7, <1>8, <1>9, <1>10, <1>11, <1>12 DEF IInv

\* A step that changes nothing.
LEMMA IInvStutters ==
    ASSUME IInv, UNCHANGED vars
    PROVE  IInv'
  <1>1. UNCHANGED <<era, generation, cams, verified, cache, lastGood, native, nativeGen, asked,
                    nativeInflight, inflight, resized, latest, variant, resizing, req, cap,
                    nat, rsz>>
    BY DEF vars, stores, still, sized
  <1>2. TypeOK' /\ Shapes' /\ Eras' /\ StillsAreNoOlder' /\ LanesAreBound' /\ CapturesGoOn'
    BY <1>1 DEF IInv, TypeOK, Shapes, Eras, StillsAreNoOlder, LanesAreBound, CapturesGoOn,
                Pictures, Picture
  <1>3. /\ ResizesGoOn' /\ RequestsGoOn' /\ EventsTakeTheNewest' /\ KeptIsOurs'
        /\ ServedIsCurrent' /\ EventIsFresh' /\ OneCapturePerLane'
    BY <1>1 DEF IInv, ResizesGoOn, RequestsGoOn, EventsTakeTheNewest, UnsizedYet, KeptIsOurs,
                NoForeignPicture, KeptIsCertified, ServedIsCurrent, EventIsFresh,
                OneCapturePerLane, Pictures
  <1>4. QED
    BY <1>2, <1>3 DEF IInv

\* Every step preserves the inductive invariant.
LEMMA IInvNext == IInv /\ [Next]_vars => IInv'
  <1> SUFFICES ASSUME IInv, [Next]_vars PROVE IInv'
    OBVIOUS
  <1>1. CASE ClearCache \/ Reset
    BY <1>1, InvalidateNext
  <1>2. CASE Warm
    BY <1>2, WarmNext
  <1>3. ASSUME NEW c \in Caps, CaptureStep(c)
        PROVE  IInv'
    BY <1>3, KeyframeNext, AskStillNext, PictureNext, CaptureEndsNext DEF CaptureStep
  <1>4. ASSUME NEW n \in Nats, StillStep(n)
        PROVE  IInv'
    BY <1>4, StillNext DEF StillStep
  <1>5. ASSUME NEW z \in Rszs, ResizeStep(z)
        PROVE  IInv'
    BY <1>5, ResizedNext, ResizeTurnsNext DEF ResizeStep
  <1>6. ASSUME NEW q \in Reqs, RequestStep(q)
        PROVE  IInv'
    BY <1>6, SizeForNext, RequestGivesUp DEF RequestStep
  <1>7. ASSUME NEW q \in Reqs, NEW k \in Kinds[q], Request(q, k[1], k[2])
        PROVE  IInv'
    BY <1>7, Constants, RequestNext
  <1>8. CASE UNCHANGED vars
    BY <1>8, IInvStutters
  <1>9. QED
    BY <1>1, <1>2, <1>3, <1>4, <1>5, <1>6, <1>7, <1>8 DEF Next

\* The inductive invariant always holds.
LEMMA IInvHolds == Spec => []IInv
  BY IInvInit, IInvNext, PTL DEF Spec

-----------------------------------------------------------------------------
(* The theorems. *)

\* The stores, the lanes, the answers and what is under way keep the shape the
\* manager's fields have.
THEOREM TypeCorrect == Spec => []TypeOK
  <1>1. IInv => TypeOK
    BY DEF IInv
  <1>2. QED
    BY <1>1, IInvHolds, PTL

\* Whatever outlives clearCache() or reset(), the stores hold certified
\* pictures of the camera that is configured now, and no request is answered by
\* a camera older than itself, but a poll of a size.
THEOREM PicturesStayOurs == Spec => []PicturesAreOurs
  <1>1. IInv => PicturesAreOurs
    BY DEF IInv, PicturesAreOurs
  <1>2. QED
    BY <1>1, IInvHolds, PTL

\* Whatever capture or resize an event was joined to, it is answered by an error
\* or by a picture that an event's capture asked the camera for and that became
\* a frame after the event asked.
THEOREM EventsAreFresh == Spec => []EventIsFresh
  <1>1. IInv => EventIsFresh
    BY DEF IInv
  <1>2. QED
    BY <1>1, IInvHolds, PTL

\* Callers of one lane and generation share one capture, and no lane stays
\* bound to a capture that is over.
THEOREM LanesShareOneCapture == Spec => []OneCapturePerLane
  <1>1. IInv => OneCapturePerLane
    BY DEF IInv
  <1>2. QED
    BY <1>1, IInvHolds, PTL
=============================================================================
