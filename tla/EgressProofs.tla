---------------------------- MODULE EgressProofs ----------------------------
(***************************************************************************)
(* Proofs about Egress, for every set of clients, every schedule and every *)
(* limit: the pacer wakes in time for what waits, however the camera's     *)
(* clock jumps never later than MAX_FUTURE_MS, takes back the pause of the *)
(* camera and lets go of everything when its generation dies; and a client *)
(* that joins gets one group of pictures and what follows it, without a    *)
(* gap, and the report that maps its clock.                                *)
(*                                                                         *)
(* The last is an argument of positions.  Video packets are numbered as    *)
(* they are built, so that what waits begins at Left (QueuesInOrder), the  *)
(* history and the batch under way end just before it and have no gap      *)
(* (HistoryInOrder), and a client that was sent video has all of it up to  *)
(* where the next batch begins (ClientsInOrder).  None of the three holds  *)
(* alone: a packet that leaves moves from the first to the second, and a   *)
(* batch that is sent from the second to the third.                        *)
(***************************************************************************)
EXTENDS Egress, SequenceTheorems, FiniteSetTheorems, WellFoundedInduction, TLAPS

\* No restart is about to destroy the generation.
Settled == restart => dead

\* The first video packet that has not left.
Left == frames - Len(vq)

\* The video of q is numbered without a gap from b on.
Ahead(q, b) == b + Cardinality(Video(q))
Run(q, b) ==
    /\ \A i \in Video(q) : b <= q[i].seq /\ q[i].seq < Ahead(q, b)
    /\ \A n \in b..(Ahead(q, b) - 1) : \E i \in Video(q) : q[i].seq = n
    /\ \A i, j \in Video(q) : i < j => q[i].seq < q[j].seq

\* Where the history and the batch that is under way begin.
GopBase == Left - Cardinality(Video(gop))
Base == Left - Cardinality(Video(batch))

\* What waits is numbered from Left on, each queue with its own packets.
QueuesInOrder ==
    /\ Len(vq) <= frames
    /\ \A i \in 1..Len(vq) : /\ vq[i].track = "video" /\ vq[i].seq = Left + i - 1
                             /\ vq[i].keymarker => vq[i].marker
    /\ \A i \in 1..Len(aq) : aq[i].track = "audio" /\ ~aq[i].start

\* Between callbacks, packets that wait have a timer that comes in time, and the
\* camera is paused from the high mark to the low mark.
PaceInOrder ==
    /\ restart \/ dead => mode = "idle"
    /\ timer # None => mode = "idle" /\ Queued > 0 /\ epoch # None
    /\ mode = "idle" /\ Queued > 0 => timer # None /\ timer <= Wake(epoch + Front(vq, aq).due)
    /\ mode = "drain" => epoch # None
    /\ mode = "idle" /\ pressure => Queued > Low
    /\ mode = "idle" /\ ~pressure => Queued < High
    /\ DeadLetsGo

\* Nobody is a client before the listener is open.
LifeInOrder ==
    /\ phase = "discover" => server = "none"
    /\ mode = "handoff" => phase = "discover"
    /\ server # "open" => \A s \in Sessions : sess[s].st = "none"

\* The history and the batch are what left last, in order.
HistoryInOrder ==
    /\ overflow => gop = << >>
    /\ OneGop
    /\ mode # "drain" => batch = << >>
    /\ Settled => Run(gop, GopBase)
    /\ Run(batch, Base)

\* Nothing is missing or comes twice between the first and the last packet of a
\* client that did not pause.
NoneMissing(c) ==
    /\ c.st \in {"none", "ready"} => ~c.broke /\ c.count = 0
    /\ c.st = "paused" => c.broke
    /\ c.count = 0 => c.from = None
    /\ c.count > 0 => /\ c.from # None /\ c.upto # None
                      /\ c.count <= c.upto - c.from + 1
                      /\ ~c.broke => c.count = c.upto - c.from + 1

\* A client that has no report yet is owed one and has no video.
ReportOwed(c) == c.st = "playing" /\ ~c.broke /\ ~c.sr => owed /\ c.count = 0
ClientInOrder(c) == NoneMissing(c) /\ ReportOwed(c)

\* What comes next is what the client has not been sent.
FollowsOn(c) ==
    c.count > 0 => c.upto < Base /\ (~c.broke => c.upto + 1 = Base)

\* All of it, of every client.
ClientsInOrder ==
    \A s \in Sessions : ClientInOrder(sess[s]) /\ (Settled => FollowsOn(sess[s]))

\* What every step keeps.
IInv == TypeOK /\ QueuesInOrder /\ PaceInOrder /\ LifeInOrder /\ HistoryInOrder /\ ClientsInOrder
-----------------------------------------------------------------------------
(* Ends of sets of places, and runs. *)

\* A set of numbers that is not empty has a least element.
LEMMA LeastExists ==
    ASSUME NEW T \in SUBSET Nat, T # {}
    PROVE  \E x \in T : \A y \in T : x <= y
<1> DEFINE Less == {p \in Nat \X Nat : p[1] < p[2]}
<1>1. OpToRel(<, Nat) = Less
  BY DEF OpToRel
<1>2. IsWellFoundedOn(Less, Nat)
  BY <1>1, NatLessThanWellFounded
<1>3. PICK x \in T : \A y \in T : ~(<<y, x>> \in Less)
  BY <1>2, WFMin
<1>4. \A y \in T : ~(y < x)
  BY <1>3
<1>5. \A y \in T : x <= y
  BY <1>4
<1> QED
  BY <1>5

\* The first of a set of places is one of them and none is before it.
LEMMA FirstIs ==
    ASSUME NEW S \in SUBSET Nat, S # {}
    PROVE  First(S) \in S /\ \A j \in S : First(S) <= j
<1>1. \E i \in S : \A j \in S : i <= j
  BY LeastExists
<1> QED
  BY <1>1, Zenon DEF First

\* The last of a set of places is one of them and none is behind it.
LEMMA LastIs ==
    ASSUME NEW n \in Nat, NEW S \in SUBSET (1..n), S # {}
    PROVE  Last(S) \in S /\ \A j \in S : j <= Last(S)
<1> DEFINE T == {n - i : i \in S}
<1>1. T \in SUBSET Nat /\ T # {}
  <2>1. \A i \in S : n - i \in Nat
    OBVIOUS
  <2>2. PICK i \in S : TRUE
    OBVIOUS
  <2>3. n - i \in T
    BY <2>2
  <2> QED
    BY <2>1, <2>3
<1> HIDE DEF T
<1>2. PICK x \in T : \A y \in T : x <= y
  BY <1>1, LeastExists
<1>3. PICK i \in S : x = n - i
  BY <1>2 DEF T
<1>4. \A j \in S : n - j \in T
  BY DEF T
<1>5. \A j \in S : j <= i
  BY <1>2, <1>3, <1>4
<1>6. \E k \in S : \A j \in S : j <= k
  BY <1>5
<1> QED
  BY <1>6, Zenon DEF Last

\* Where the video of a sequence is.
LEMMA VideoIs ==
    ASSUME NEW q \in Seq(Packets)
    PROVE  /\ Video(q) \in SUBSET (1..Len(q)) /\ Len(q) \in Nat
           /\ IsFiniteSet(Video(q)) /\ Cardinality(Video(q)) \in Nat
           /\ Cardinality(Video(q)) = 0 <=> Video(q) = {}
           /\ \A i \in Video(q) : q[i] \in Packets /\ q[i].seq \in Nat
<1>1. Video(q) \in SUBSET (1..Len(q)) /\ Len(q) \in Nat
  BY DEF Video
<1>2. IsFiniteSet(1..Len(q))
  BY <1>1, FS_Interval
<1>3. IsFiniteSet(Video(q))
  BY <1>1, <1>2, FS_Subset
<1>4. \A p \in Packets : p.seq \in Nat
  BY DEF Packets
<1>5. \A i \in Video(q) : q[i] \in Packets
  BY <1>1
<1>6. Cardinality(Video(q)) \in Nat
  BY <1>3, FS_CardinalityType
<1>7. Cardinality(Video(q)) = 0 <=> Video(q) = {}
  BY <1>3, FS_EmptySet
<1> QED
  BY <1>1, <1>3, <1>4, <1>5, <1>6, <1>7

\* A packet more: its place joins the video if it is video.
LEMMA VideoGrows ==
    ASSUME NEW q \in Seq(Packets), NEW p \in Packets
    PROVE  /\ p.track = "video" => /\ Video(Append(q, p)) = Video(q) \cup {Len(q) + 1}
                                   /\ Cardinality(Video(Append(q, p))) = Cardinality(Video(q)) + 1
           /\ p.track # "video" => Video(Append(q, p)) = Video(q)
<1> DEFINE r == Append(q, p)
<1>1. /\ r \in Seq(Packets) /\ Len(r) = Len(q) + 1 /\ Len(q) \in Nat
      /\ \A i \in 1..Len(q) : r[i] = q[i]
      /\ r[Len(q) + 1] = p
  BY AppendProperties
<1>2. Video(r) = {i \in 1..(Len(q) + 1) : r[i].track = "video"}
  BY <1>1 DEF Video
<1>3. Video(q) = {i \in 1..Len(q) : q[i].track = "video"}
  BY <1>1 DEF Video
<1> HIDE DEF r
<1>4. Len(q) + 1 \notin Video(q) /\ IsFiniteSet(Video(q))
  BY <1>1, VideoIs
<1>5. CASE p.track = "video"
  <2>1. Video(r) = Video(q) \cup {Len(q) + 1}
    BY <1>1, <1>2, <1>3, <1>5
  <2>2. Cardinality(Video(q) \cup {Len(q) + 1}) = Cardinality(Video(q)) + 1
    BY <1>4, FS_AddElement
  <2> QED
    BY <1>5, <2>1, <2>2 DEF r
<1>6. CASE p.track # "video"
  <2>1. Video(r) = Video(q)
    BY <1>1, <1>2, <1>3, <1>6
  <2> QED
    BY <1>6, <2>1 DEF r
<1> QED
  BY <1>5, <1>6

\* No packet is a run from anywhere.
LEMMA EmptyRun ==
    /\ Video(<< >>) = {} /\ Cardinality(Video(<< >>)) = 0
    /\ \A b \in Int : Run(<< >>, b)
<1>1. Video(<< >>) = {}
  BY DEF Video
<1>2. Cardinality(Video(<< >>)) = 0
  BY <1>1, FS_EmptySet
<1>3. \A b \in Int : Ahead(<< >>, b) = b
  BY <1>2 DEF Ahead
<1> QED
  BY <1>1, <1>2, <1>3 DEF Run

\* A run grows by the packet that is next, or by one that is not video.
LEMMA RunGrows ==
    ASSUME NEW q \in Seq(Packets), NEW b \in Int, Run(q, b), NEW p \in Packets,
           p.track = "video" => p.seq = Ahead(q, b)
    PROVE  Run(Append(q, p), b)
<1> DEFINE r == Append(q, p)
           a == Ahead(q, b)
<1>1. /\ Len(q) \in Nat
      /\ \A i \in 1..Len(q) : r[i] = q[i]
      /\ r[Len(q) + 1] = p
  BY AppendProperties
<1>2. /\ Video(q) \in SUBSET (1..Len(q)) /\ Cardinality(Video(q)) \in Nat
      /\ \A i \in Video(q) : q[i].seq \in Nat
  BY VideoIs
<1>3. a \in Int /\ b <= a
  BY <1>2 DEF Ahead
<1>4. /\ \A i \in Video(q) : b <= q[i].seq /\ q[i].seq < a
      /\ \A n \in b..(a - 1) : \E i \in Video(q) : q[i].seq = n
      /\ \A i, j \in Video(q) : i < j => q[i].seq < q[j].seq
  BY DEF Run
<1>5. \A i \in Video(q) : r[i] = q[i]
  BY <1>1, <1>2
<1>6. CASE p.track = "video"
  <2>1. Video(r) = Video(q) \cup {Len(q) + 1} /\ Ahead(r, b) = a + 1 /\ p.seq = a
    BY <1>2, <1>6, VideoGrows DEF Ahead
  <2> HIDE DEF r, a
  <2>2. \A i \in Video(r) : b <= r[i].seq /\ r[i].seq < Ahead(r, b)
    BY <1>1, <1>2, <1>3, <1>4, <1>5, <2>1, SMTT(30)
  <2>3. ASSUME NEW n \in b..a PROVE \E i \in Video(r) : r[i].seq = n
    <3>1. CASE n = a
      BY <1>1, <2>1, <3>1
    <3>2. CASE n # a
      <4>1. n \in b..(a - 1)
        BY <1>3, <3>2
      <4>2. PICK i \in Video(q) : q[i].seq = n
        BY <1>4, <4>1
      <4> QED
        BY <1>5, <2>1, <4>2
    <3> QED
      BY <3>1, <3>2
  <2>4. ASSUME NEW i \in Video(r), NEW j \in Video(r), i < j PROVE r[i].seq < r[j].seq
    <3>1. i \in Video(q)
      BY <1>1, <1>2, <2>1, <2>4
    <3>2. CASE j \in Video(q)
      BY <1>4, <1>5, <2>4, <3>1, <3>2
    <3>3. CASE j = Len(q) + 1
      BY <1>1, <1>4, <1>5, <2>1, <3>1, <3>3
    <3> QED
      BY <2>1, <3>2, <3>3
  <2>5. b..(Ahead(r, b) - 1) = b..a
    BY <1>3, <2>1
  <2>6. \A n \in b..(Ahead(r, b) - 1) : \E i \in Video(r) : r[i].seq = n
    BY <2>3, <2>5
  <2>7. Run(r, b)
    BY <2>2, <2>4, <2>6, Zenon DEF Run
  <2> QED
    BY <2>7 DEF r
<1>7. CASE p.track # "video"
  <2>1. Video(r) = Video(q) /\ Ahead(r, b) = a
    BY <1>7, VideoGrows DEF Ahead
  <2> HIDE DEF r, a
  <2>2. Run(r, b)
    BY <1>4, <1>5, <2>1 DEF Run
  <2> QED
    BY <2>2 DEF r
<1> QED
  BY <1>6, <1>7

\* A run begins at its number and ends right before the next.
LEMMA RunEnds ==
    ASSUME NEW q \in Seq(Packets), NEW b \in Int, Run(q, b), Video(q) # {}
    PROVE  /\ q[First(Video(q))].seq = b
           /\ q[Last(Video(q))].seq = Ahead(q, b) - 1
           /\ b \in Nat /\ Ahead(q, b) \in Nat /\ b < Ahead(q, b)
<1> DEFINE V == Video(q)
           f == First(V)
           l == Last(V)
           a == Ahead(q, b)
<1>1. /\ V \in SUBSET (1..Len(q)) /\ Len(q) \in Nat /\ V # {}
      /\ \A i \in V : q[i].seq \in Nat
      /\ Cardinality(V) \in Nat /\ Cardinality(V) # 0
  BY VideoIs
<1>2. V \in SUBSET Nat
  BY <1>1
<1>3. f \in V /\ \A j \in V : f <= j
  BY <1>1, <1>2, FirstIs
<1>4. l \in V /\ \A j \in V : j <= l
  BY <1>1, LastIs
<1>5. a \in Int /\ b < a
  BY <1>1 DEF Ahead
<1>6. /\ \A i \in V : b <= q[i].seq /\ q[i].seq < a
      /\ \A n \in b..(a - 1) : \E i \in V : q[i].seq = n
      /\ \A i, j \in V : i < j => q[i].seq < q[j].seq
  BY DEF Run
<1> HIDE DEF V, f, l, a
<1>7. PICK i \in V : q[i].seq = b
  BY <1>5, <1>6
<1>8. PICK j \in V : q[j].seq = a - 1
  BY <1>5, <1>6
<1>9. q[f].seq = b
  BY <1>1, <1>2, <1>3, <1>6, <1>7, SMTT(30)
<1>10. q[l].seq = a - 1
  BY <1>1, <1>2, <1>4, <1>5, <1>6, <1>8, SMTT(30)
<1>11. b \in Nat /\ a \in Nat
  BY <1>1, <1>5, <1>7
<1> QED
  BY <1>5, <1>9, <1>10, <1>11 DEF V, f, l, a

-----------------------------------------------------------------------------
(* What the operators of the queues return. *)

\* The constants one by one.
LEMMA ConstantsAre ==
    /\ Delay \in Nat /\ Delay > 0 /\ Nap \in Nat /\ Nap > 0
    /\ MaxLate \in Nat /\ MaxLate > 0 /\ MaxFuture \in Nat /\ MaxGop \in Nat /\ MaxGop > 0
    /\ High \in Nat /\ Low \in Nat /\ MaxQueue \in Nat
    /\ Low < High /\ High <= MaxQueue /\ Delay <= MaxFuture /\ None \notin Int
<1>1. {Delay, Nap, MaxLate, MaxFuture, MaxGop} \subseteq Nat \ {0}
  BY EgressConstants
<1>2. \A x \in Nat \ {0} : x \in Nat /\ x > 0
  OBVIOUS
<1>3. {High, Low, MaxQueue, MaxFrames, MaxAudio} \subseteq Nat
  BY EgressConstants
<1>4. /\ Delay \in Nat \ {0} /\ Nap \in Nat \ {0} /\ MaxLate \in Nat \ {0}
      /\ MaxFuture \in Nat \ {0} /\ MaxGop \in Nat \ {0}
  BY <1>1, Zenon
<1>5. High \in Nat /\ Low \in Nat /\ MaxQueue \in Nat
  BY <1>3, Zenon
<1> QED
  BY <1>2, <1>4, <1>5, EgressConstants

\* A drain timer is between now and the longest nap, and later for what is later.
LEMMA WakeIs ==
    /\ \A x \in Int : Wake(x) \in 0..Nap
    /\ \A x, y \in Int : x <= y => Wake(x) <= Wake(y)
    /\ \A x \in Int, t \in 0..Nap : t <= Wake(x) /\ t > 0 => t - 1 <= Wake(x - 1)
    /\ \A x \in Int, t \in 0..Nap : t <= Wake(x) => t <= 0 \/ x > 0
    /\ Wake(0) = 0
<1>1. Nap \in Nat /\ Nap > 0
  BY ConstantsAre
<1>2. \A x \in Int : Wake(x) \in 0..Nap
  BY <1>1 DEF Wake
<1>3. \A x, y \in Int : x <= y => Wake(x) <= Wake(y)
  BY <1>1 DEF Wake
<1>4. \A x \in Int, t \in 0..Nap : t <= Wake(x) /\ t > 0 => t - 1 <= Wake(x - 1)
  BY <1>1 DEF Wake
<1>5. \A x \in Int, t \in 0..Nap : t <= Wake(x) => t <= 0 \/ x > 0
  BY <1>1 DEF Wake
<1>6. Wake(0) = 0
  BY <1>1 DEF Wake
<1> QED
  BY <1>2, <1>3, <1>4, <1>5, <1>6

\* The sequences of packets: their elements, heads and tails.
LEMMA PacketsIn ==
    ASSUME NEW q \in Seq(Packets)
    PROVE  /\ Len(q) \in Nat /\ (q = << >> <=> Len(q) = 0)
           /\ \A i \in 1..Len(q) : q[i] \in Packets
           /\ q # << >> => /\ Head(q) \in Packets /\ Head(q) = q[1]
                           /\ Tail(q) \in Seq(Packets) /\ Len(Tail(q)) = Len(q) - 1
                           /\ \A i \in 1..(Len(q) - 1) : Tail(q)[i] = q[i + 1]
<1>1. Len(q) \in Nat /\ (q = << >> <=> Len(q) = 0)
  BY EmptySeq, LenProperties
<1>2. \A i \in 1..Len(q) : q[i] \in Packets
  BY ElementOfSeq
<1>3. ASSUME q # << >>
      PROVE  /\ Head(q) \in Packets /\ Head(q) = q[1]
             /\ Tail(q) \in Seq(Packets) /\ Len(Tail(q)) = Len(q) - 1
             /\ \A i \in 1..(Len(q) - 1) : Tail(q)[i] = q[i + 1]
  BY <1>3, HeadTailProperties
<1> QED
  BY <1>1, <1>2, <1>3

\* The fields of a packet.
LEMMA PacketFields ==
    ASSUME NEW p \in Packets
    PROVE  /\ p.track \in {"video", "audio"} /\ p.seq \in Nat /\ p.due \in Int
           /\ p.start \in BOOLEAN /\ p.marker \in BOOLEAN /\ p.keymarker \in BOOLEAN
BY DEF Packets

\* The packet that goes first is the head of one of the queues.
LEMMA FrontIs ==
    ASSUME NEW v \in Seq(Packets), NEW a \in Seq(Packets), Len(v) + Len(a) > 0
    PROVE  /\ Front(v, a) \in Packets /\ Front(v, a).due \in Int
           /\ VideoFirst(v, a) => v # << >> /\ Front(v, a) = v[1]
           /\ ~VideoFirst(v, a) => a # << >> /\ Front(v, a) = a[1]
<1>1. VideoFirst(v, a) => v # << >> /\ Front(v, a) = v[1]
  BY PacketsIn DEF VideoFirst, Front
<1>2. ~VideoFirst(v, a) => a # << >> /\ Front(v, a) = a[1]
  BY PacketsIn DEF VideoFirst, Front
<1>3. Front(v, a) \in Packets
  <2>1. v # << >> => v[1] \in Packets
    BY PacketsIn
  <2>2. a # << >> => a[1] \in Packets
    BY PacketsIn
  <2> QED
    BY <1>1, <1>2, <2>1, <2>2
<1> QED
  BY <1>1, <1>2, <1>3, PacketFields

\* scheduleDrain() anchors the schedule and arms the timer for the front.
LEMMA ScheduleDoes ==
    ASSUME NEW v \in Seq(Packets), NEW a \in Seq(Packets), Schedule(v, a),
           epoch \in Int \cup {None}
    PROVE  /\ Len(v) + Len(a) > 0 =>
                  /\ epoch' \in Int /\ timer' \in 0..Nap
                  /\ timer' = Wake(epoch' + Front(v, a).due)
                  /\ epoch' + Front(v, a).due <= MaxFuture
           /\ Len(v) + Len(a) = 0 => epoch' = epoch /\ timer' = None
<1>1. /\ Len(v) \in Nat /\ (v = << >> <=> Len(v) = 0)
      /\ Len(a) \in Nat /\ (a = << >> <=> Len(a) = 0)
  BY PacketsIn
<1>2. CASE Len(v) + Len(a) > 0
  <2> DEFINE due == Front(v, a).due
  <2>1. due \in Int
    BY <1>2, FrontIs
  <2>2. epoch' = Anchored(due) /\ timer' = Wake(Anchored(due) + due)
    BY <1>1, <1>2 DEF Schedule
  <2> HIDE DEF due
  <2>3. Delay \in Int /\ MaxFuture \in Int /\ Delay <= MaxFuture
    BY ConstantsAre
  <2>4. Anchored(due) \in Int /\ Anchored(due) + due <= MaxFuture
    <3>1. CASE epoch = None
      BY <2>1, <2>3, <3>1 DEF Anchored
    <3>2. CASE epoch # None
      <4>1. epoch \in Int
        BY <3>2
      <4> QED
        BY <2>1, <2>3, <3>2, <4>1 DEF Anchored
    <3> QED
      BY <3>1, <3>2
  <2>5. Anchored(due) + due \in Int
    BY <2>1, <2>4
  <2>6. Wake(Anchored(due) + due) \in 0..Nap
    BY <2>5, WakeIs, Zenon
  <2>7. /\ epoch' \in Int /\ timer' \in 0..Nap /\ timer' = Wake(epoch' + due)
        /\ epoch' + due <= MaxFuture
    BY <2>2, <2>4, <2>6, Zenon
  <2>8. ~(Len(v) + Len(a) = 0)
    BY <1>1, <1>2
  <2> QED
    BY <2>7, <2>8, Zenon DEF due
<1>3. CASE Len(v) + Len(a) = 0
  BY <1>1, <1>3 DEF Schedule
<1> QED
  BY <1>1, <1>2, <1>3

\* Above the low mark the camera stays paused, below the high mark it is not.
LEMMA PressureIs ==
    ASSUME NEW n \in Nat, pressure \in BOOLEAN
    PROVE  /\ Pressure(n) \in BOOLEAN
           /\ Pressure(n) => n > Low
           /\ ~Pressure(n) => n < High
<1>1. High \in Nat /\ Low \in Nat /\ Low < High
  BY ConstantsAre
<1>2. /\ pressure => Pressure(n) = (n > Low)
      /\ ~pressure => Pressure(n) = (n >= High)
  BY Zenon DEF Pressure
<1>3. /\ (n > Low) \in BOOLEAN /\ (n >= High) \in BOOLEAN
      /\ ~(n > Low) => n < High
      /\ n >= High => n > Low
      /\ ~(n >= High) => n < High
  BY <1>1
<1> QED
  BY <1>2, <1>3, Zenon

-----------------------------------------------------------------------------
(* Steps that several actions share. *)

\* The clients the model can have.
Clients == [st : {"none", "ready", "playing", "paused"},
            from : Nat \cup {None}, upto : Nat \cup {None}, count : Nat,
            broke : BOOLEAN, sr : BOOLEAN]

\* The types one by one.
LEMMA Typed ==
    ASSUME TypeOK
    PROVE  /\ dead \in BOOLEAN /\ restart \in BOOLEAN
           /\ vq \in Seq(Packets) /\ aq \in Seq(Packets) /\ gop \in Seq(Packets)
           /\ batch \in Seq(Packets)
           /\ Len(vq) \in Nat /\ Len(aq) \in Nat /\ Len(gop) \in Nat /\ Len(batch) \in Nat
           /\ Queued \in Nat /\ Queued <= MaxQueue /\ Len(gop) <= MaxGop
           /\ epoch \in Int \cup {None} /\ timer \in 0..Nap \cup {None}
           /\ until \in Int \cup {None}
           /\ media \in Nat /\ clock \in Nat /\ frames \in Nat /\ audios \in Nat
           /\ pressure \in BOOLEAN /\ overflow \in BOOLEAN /\ stamped \in BOOLEAN
           /\ owed \in BOOLEAN
           /\ sess \in [Sessions -> Clients]
<1>1. {vq, aq, gop, batch} \subseteq Seq(Packets)
  BY DEF TypeOK
<1>2. vq \in Seq(Packets) /\ aq \in Seq(Packets) /\ gop \in Seq(Packets) /\ batch \in Seq(Packets)
  BY <1>1, Zenon
<1>3. Len(vq) \in Nat /\ Len(aq) \in Nat /\ Len(gop) \in Nat /\ Len(batch) \in Nat
  BY <1>2, PacketsIn
<1>4. {media, clock, frames, audios} \subseteq Nat /\ {pressure, overflow, stamped, owed} \subseteq BOOLEAN
  BY DEF TypeOK
<1>5. /\ media \in Nat /\ clock \in Nat /\ frames \in Nat /\ audios \in Nat
      /\ pressure \in BOOLEAN /\ overflow \in BOOLEAN /\ stamped \in BOOLEAN
      /\ owed \in BOOLEAN
  BY <1>4, Zenon
<1>6. Queued \in Nat /\ Queued <= MaxQueue /\ Len(gop) <= MaxGop
  BY <1>3 DEF TypeOK, Queued
<1>7. sess \in [Sessions -> Clients]
  BY Zenon DEF TypeOK, Clients
<1>8. /\ dead \in BOOLEAN /\ restart \in BOOLEAN
      /\ epoch \in Int \cup {None} /\ timer \in 0..Nap \cup {None} /\ until \in Int \cup {None}
  BY Zenon DEF TypeOK
<1> QED
  BY <1>2, <1>3, <1>5, <1>6, <1>7, <1>8

\* The types together, for the next state.
LEMMA TypedNext ==
    ASSUME phase' \in {"discover", "binding", "serving"}, dead' \in BOOLEAN, restart' \in BOOLEAN,
           server' \in {"none", "binding", "open", "closed"},
           mode' \in {"idle", "drain", "handoff"},
           vq' \in Seq(Packets), aq' \in Seq(Packets), gop' \in Seq(Packets), batch' \in Seq(Packets),
           Queued' <= MaxQueue, Len(gop') <= MaxGop,
           epoch' \in Int \cup {None}, timer' \in 0..Nap \cup {None}, until' \in Int \cup {None},
           media' \in Nat, clock' \in Nat, frames' \in Nat, audios' \in Nat,
           pressure' \in BOOLEAN, overflow' \in BOOLEAN, stamped' \in BOOLEAN, owed' \in BOOLEAN,
           sess' \in [Sessions -> Clients]
    PROVE  TypeOK'
<1>1. /\ {vq', aq', gop', batch'} \subseteq Seq(Packets)
      /\ {media', clock', frames', audios'} \subseteq Nat
      /\ {pressure', overflow', stamped', owed'} \subseteq BOOLEAN
  BY Zenon
<1> QED
  BY <1>1, Zenon DEF TypeOK, Clients

\* Without a batch, what has not left is what comes next.
LEMMA NoBatch ==
    ASSUME NEW b, b = << >>, NEW n \in Nat, NEW q \in Seq(Packets)
    PROVE  /\ n - Len(q) - Cardinality(Video(b)) = n - Len(q)
           /\ n - Len(q) - Cardinality(Video(b)) \in Int
           /\ Run(b, n - Len(q) - Cardinality(Video(b)))
<1>1. Len(q) \in Nat /\ Cardinality(Video(b)) = 0
  BY PacketsIn, EmptyRun
<1>2. n - Len(q) \in Int /\ n - Len(q) - 0 = n - Len(q)
  BY <1>1
<1> QED
  BY <1>1, <1>2, EmptyRun

\* What requestRestart() leaves is in order, whoever calls it.
LEMMA RestartKeeps ==
    ASSUME IInv, mode = "idle", ~dead, Restart,
           UNCHANGED <<phase, dead, server, mode, epoch, history, until, clients>>,
           batch' = << >>,
           media' \in Nat, clock' \in Nat, frames' \in Nat, audios' \in Nat
    PROVE  IInv'
<1>1. TypeOK
  BY DEF IInv
<1>2. /\ restart' = TRUE /\ timer' = None /\ vq' = << >> /\ aq' = << >> /\ pressure' = FALSE
      /\ UNCHANGED <<phase, dead, server, mode, epoch, gop, overflow, until, stamped, owed, sess>>
  BY DEF Restart, history, clients
<1>3. Len(vq') = 0 /\ Len(aq') = 0 /\ << >> \in Seq(Packets) /\ Queued' = 0
  BY <1>2 DEF Queued
<1>4. TypeOK'
  <2>1. Queued' <= MaxQueue
    BY <1>3, ConstantsAre
  <2>2. /\ phase' \in {"discover", "binding", "serving"} /\ server' \in {"none", "binding", "open", "closed"}
        /\ mode' \in {"idle", "drain", "handoff"}
    BY <1>1, <1>2 DEF TypeOK
  <2> QED
    BY <1>1, <1>2, <1>3, <2>1, <2>2, Typed, TypedNext, Zenon
<1>5. QueuesInOrder'
  BY <1>2, <1>3 DEF QueuesInOrder
<1>6. PaceInOrder'
  BY <1>2, <1>3, ConstantsAre DEF PaceInOrder, DeadLetsGo
<1>7. HistoryInOrder'
  <2>1. Run(batch', Base')
    BY <1>2, <1>3, NoBatch DEF Base, Left
  <2> QED
    BY <1>2, <2>1 DEF IInv, HistoryInOrder, OneGop, Settled
<1>8. ClientsInOrder'
  BY <1>2 DEF IInv, ClientsInOrder, ClientInOrder, NoneMissing, ReportOwed, Settled
<1>9. LifeInOrder'
  BY <1>2 DEF IInv, LifeInOrder
<1> QED
  BY <1>4, <1>5, <1>6, <1>7, <1>8, <1>9 DEF IInv

\* What destroy() leaves is in order.
LEMMA DestroyKeeps ==
    ASSUME IInv, mode = "idle", Destroy
    PROVE  IInv'
<1>1. TypeOK
  BY DEF IInv
<1>2. /\ dead' = TRUE /\ timer' = None /\ vq' = << >> /\ aq' = << >> /\ pressure' = FALSE
      /\ epoch' = None /\ gop' = << >> /\ overflow' = FALSE /\ stamped' = FALSE /\ owed' = FALSE
      /\ media' = 0 /\ clock' = 0
      /\ server' = IF server = "open" THEN "closed" ELSE server
      /\ sess' = [s \in Sessions |-> NoSession]
      /\ UNCHANGED <<phase, restart, mode, frames, audios, batch, until>>
  BY DEF Destroy
<1>3. Len(vq') = 0 /\ Len(aq') = 0 /\ << >> \in Seq(Packets) /\ Queued' = 0 /\ Len(gop') = 0
  BY <1>2 DEF Queued
<1>4. batch' = << >>
  BY <1>2 DEF IInv, HistoryInOrder
<1>5. TypeOK'
  <2>1. Queued' <= MaxQueue /\ Len(gop') <= MaxGop
    BY <1>3, ConstantsAre
  <2>2. /\ phase' \in {"discover", "binding", "serving"} /\ server' \in {"none", "binding", "open", "closed"}
        /\ mode' \in {"idle", "drain", "handoff"}
    BY <1>1, <1>2 DEF TypeOK
  <2>3. NoSession \in Clients
    BY DEF NoSession, Clients
  <2>4. sess' \in [Sessions -> Clients]
    BY <1>2, <2>3
  <2>5. 0 \in Nat
    OBVIOUS
  <2> QED
    BY <1>1, <1>2, <1>3, <1>4, <2>1, <2>2, <2>4, <2>5, Typed, TypedNext, Zenon
<1>6. QueuesInOrder'
  BY <1>1, <1>2, <1>3, Typed DEF QueuesInOrder
<1>7. server' # "open" /\ \A s \in Sessions : sess'[s] = NoSession
  BY <1>2
<1>8. PaceInOrder'
  BY <1>2, <1>3, <1>7, ConstantsAre DEF PaceInOrder, DeadLetsGo, NoSession
<1>9. HistoryInOrder'
  <2>1. frames' \in Nat /\ vq' \in Seq(Packets)
    BY <1>1, <1>2, <1>3, Typed
  <2>2. Run(batch', Base')
    BY <1>4, <2>1, NoBatch DEF Base, Left
  <2>3. Run(gop', GopBase')
    BY <1>2, <2>1, NoBatch DEF GopBase, Left
  <2> QED
    BY <1>2, <1>4, <2>2, <2>3 DEF HistoryInOrder, OneGop
<1>10. ClientsInOrder'
  BY <1>2, <1>7, ConstantsAre DEF ClientsInOrder, ClientInOrder, NoneMissing, ReportOwed, FollowsOn, NoSession
<1>11. LifeInOrder'
  BY <1>2, <1>7 DEF IInv, LifeInOrder, NoSession
<1> QED
  BY <1>5, <1>6, <1>8, <1>9, <1>10, <1>11 DEF IInv

\* enqueue() keeps the order, whatever the packets are that join the queues.
LEMMA EnqueueKeeps ==
    ASSUME IInv, mode = "idle", ~dead, ~restart,
           NEW v \in Seq(Packets), NEW a \in Seq(Packets), Enqueue(v, a), Len(v) + Len(a) > 0,
           UNCHANGED <<phase, dead, server, mode, history, batch, until, clients>>,
           media' \in Nat, clock' \in Nat, frames' \in Nat, audios' \in Nat,
           Len(v) <= frames', frames' - Len(v) = Left,
           \A i \in 1..Len(v) : /\ v[i].track = "video" /\ v[i].seq = Left + i - 1
                                /\ v[i].keymarker => v[i].marker,
           \A i \in 1..Len(a) : a[i].track = "audio" /\ ~a[i].start
    PROVE  IInv'
<1> DEFINE n == Len(v) + Len(a)
<1>1. TypeOK /\ batch = << >>
  BY DEF IInv, HistoryInOrder
<1>2. CASE Full(n)
  <2>1. Restart /\ UNCHANGED epoch
    BY <1>2 DEF Enqueue
  <2>2. batch' = << >>
    BY <1>1
  <2> QED
    BY <2>1, <2>2, RestartKeeps
<1>3. CASE ~Full(n)
  <2>1. Len(v) \in Nat /\ Len(a) \in Nat /\ n \in Nat /\ n > 0
    BY PacketsIn
  <2>2. /\ vq' = v /\ aq' = a /\ pressure' = Pressure(n) /\ restart' = restart
        /\ IF TimerStands(v, a) THEN UNCHANGED pace ELSE Schedule(v, a)
    BY <1>3, Zenon DEF Enqueue
  <2>3. n <= MaxQueue
    BY <1>3, <2>1, ConstantsAre DEF Full
  <2>4. Queued' = n
    BY <2>2 DEF Queued
  <2> HIDE DEF n
  <2>5. /\ phase' = phase /\ dead' = dead /\ server' = server /\ mode' = mode
        /\ gop' = gop /\ overflow' = overflow /\ batch' = batch /\ until' = until
        /\ stamped' = stamped /\ owed' = owed /\ sess' = sess
    BY DEF history, clients
  <2>6. /\ epoch' \in Int /\ timer' \in 0..Nap
        /\ timer' <= Wake(epoch' + Front(v, a).due)
    <3>1. CASE TimerStands(v, a)
      <4>1. timer # None /\ Front(v, a).due >= Front(vq, aq).due /\ epoch' = epoch /\ timer' = timer
        BY <2>2, <3>1 DEF TimerStands, pace
      <4>2. /\ Queued > 0 /\ epoch # None /\ epoch \in Int /\ timer \in 0..Nap
            /\ timer <= Wake(epoch + Front(vq, aq).due)
        BY <1>1, <4>1, Typed DEF IInv, PaceInOrder
      <4>3. Front(vq, aq).due \in Int
        BY <1>1, <4>2, Typed, FrontIs DEF Queued
      <4>4. Front(v, a).due \in Int
        BY <2>1, FrontIs
      <4> DEFINE f == Front(vq, aq).due
                 g == Front(v, a).due
                 x == epoch + f
                 y == epoch + g
      <4>5. x \in Int /\ y \in Int /\ x <= y
        <5>1. f \in Int /\ g \in Int /\ epoch \in Int /\ f <= g
          BY <4>1, <4>2, <4>3, <4>4
        <5> HIDE DEF f, g
        <5> QED
          BY <5>1
      <4> HIDE DEF x, y
      <4>6. Wake(x) <= Wake(y) /\ Wake(x) \in 0..Nap /\ Wake(y) \in 0..Nap
        BY <4>5, WakeIs
      <4>7. timer <= Wake(x) /\ timer \in 0..Nap
        BY <4>2 DEF x
      <4>8. timer <= Wake(y)
        <5>1. \A i, j, k \in 0..Nap : i <= j /\ j <= k => i <= k
          BY ConstantsAre
        <5> QED
          BY <4>6, <4>7, <5>1, Zenon
      <4> QED
        BY <4>1, <4>2, <4>8 DEF y
    <3>2. CASE ~TimerStands(v, a)
      <4>1. Schedule(v, a)
        BY <2>2, <3>2
      <4>2. epoch \in Int \cup {None}
        BY <1>1, Typed
      <4>3. epoch' \in Int /\ timer' \in 0..Nap /\ timer' = Wake(epoch' + Front(v, a).due)
        BY <4>1, <4>2, ScheduleDoes
      <4> QED
        BY <4>3, ConstantsAre
    <3> QED
      BY <3>1, <3>2
  <2>7. epoch' # None /\ timer' # None
    <3>1. \A x \in Int : x # None
      BY ConstantsAre
    <3>2. \A x \in 0..Nap : x \in Int
      OBVIOUS
    <3> QED
      BY <2>6, <3>1, <3>2, Zenon
  <2>8. pressure' \in BOOLEAN /\ (pressure' => n > Low) /\ (~pressure' => n < High)
    BY <1>1, <2>1, <2>2, PressureIs, Typed
  <2>9. TypeOK'
    <3>1. /\ phase' \in {"discover", "binding", "serving"} /\ server' \in {"none", "binding", "open", "closed"}
          /\ mode' \in {"idle", "drain", "handoff"}
      BY <1>1, <2>5 DEF TypeOK
    <3>2. Queued' <= MaxQueue
      BY <2>3, <2>4
    <3> QED
      BY <1>1, <2>2, <2>5, <2>6, <2>8, <3>1, <3>2, Typed, TypedNext, Zenon
  <2>10. Left' = Left
    BY <2>2 DEF Left
  <2>11. QueuesInOrder'
    BY <2>2, <2>10 DEF QueuesInOrder
  <2>12. PaceInOrder'
    <3>1. Queued' > 0
      BY <2>1, <2>4
    <3>2. mode' = "idle" /\ ~dead' /\ ~restart'
      BY <2>2, <2>5
    <3>3. (pressure' => Queued' > Low) /\ (~pressure' => Queued' < High)
      BY <2>4, <2>8
    <3>4. timer' <= Wake(epoch' + Front(vq', aq').due)
      BY <2>2, <2>6
    <3> QED
      BY <2>7, <3>1, <3>2, <3>3, <3>4, Zenon DEF PaceInOrder, DeadLetsGo
  <2>13. HistoryInOrder'
    BY <2>2, <2>5, <2>10, Zenon DEF IInv, HistoryInOrder, OneGop, Settled, GopBase, Base
  <2>14. ClientsInOrder'
    BY <2>2, <2>5, <2>10 DEF IInv, ClientsInOrder, ClientInOrder, NoneMissing, ReportOwed, FollowsOn, Settled, Base
  <2>15. LifeInOrder'
    BY <2>5 DEF IInv, LifeInOrder
  <2> QED
    BY <2>9, <2>11, <2>12, <2>13, <2>14, <2>15 DEF IInv
<1> QED
  BY <1>2, <1>3

\* An access unit is one packet of video or two, numbered as they are built.
LEMMA UnitIs ==
    ASSUME NEW t \in Nat, NEW w \in Nat, NEW key \in BOOLEAN, frames \in Nat,
           NEW au, au = AccessUnit(t, w, key)
    PROVE  /\ au \in Seq(Packets) /\ Len(au) \in {1, 2}
           /\ \A i \in 1..Len(au) : /\ au[i].track = "video" /\ au[i].seq = frames + i - 1
                                    /\ au[i].keymarker => au[i].marker
<1>1. "video" \in {"video", "audio"} /\ TRUE \in BOOLEAN /\ FALSE \in BOOLEAN /\ t \in Int
  OBVIOUS
<1>2. CASE w = 0
  <2> DEFINE p == Packet("video", frames, t, key, TRUE, TRUE)
  <2>1. p \in Packets /\ p.track = "video" /\ p.seq = frames /\ (p.keymarker => p.marker)
    BY <1>1 DEF Packet, Packets
  <2>2. au = <<p>>
    BY <1>2 DEF AccessUnit
  <2> HIDE DEF p
  <2> QED
    BY <2>1, <2>2
<1>3. CASE w # 0
  <2> DEFINE p == Packet("video", frames, t - w, key, TRUE, FALSE)
             q == Packet("video", frames + 1, t, key, FALSE, TRUE)
  <2>1. p \in Packets /\ p.track = "video" /\ p.seq = frames /\ (p.keymarker => p.marker)
    <3>1. t - w \in Int
      OBVIOUS
    <3> QED
      BY <3>1 DEF Packet, Packets
  <2>2. q \in Packets /\ q.track = "video" /\ q.seq = frames + 1 /\ (q.keymarker => q.marker)
    <3>1. frames + 1 \in Nat
      OBVIOUS
    <3> QED
      BY <1>1, <3>1 DEF Packet, Packets
  <2>3. au = <<p, q>>
    BY <1>3 DEF AccessUnit
  <2> HIDE DEF p, q
  <2> QED
    BY <2>1, <2>2, <2>3
<1> QED
  BY <1>2, <1>3

\* A frame is queued behind the others, as one packet or two.
LEMMA FrameNext ==
    ASSUME IInv, NEW d \in Deltas, NEW w \in Spreads, NEW key \in BOOLEAN, Frame(d, w, key)
    PROVE  IInv'
<1>1. TypeOK /\ mode = "idle" /\ ~dead /\ ~restart
  BY DEF IInv, Frame, Idle
<1> DEFINE t == IF media + d < 0 THEN 0 ELSE media + d
           au == AccessUnit(t, w, key)
           v == vq \o au
           m == Len(vq)
<1>2. /\ media' = t /\ frames' = frames + Len(au) /\ Enqueue(v, aq)
      /\ UNCHANGED <<phase, dead, server, mode, clock, audios, history, batch, until, clients>>
  BY DEF Frame
<1>3. d \in Int /\ w \in Nat /\ media \in Nat /\ clock \in Nat /\ frames \in Nat /\ audios \in Nat
  BY <1>1, Typed, EgressConstants
<1>4. t \in Nat
  BY <1>3
<1>5. /\ vq \in Seq(Packets) /\ aq \in Seq(Packets) /\ m \in Nat /\ Len(aq) \in Nat /\ m <= frames
      /\ \A i \in 1..m : /\ vq[i].track = "video" /\ vq[i].seq = Left + i - 1
                         /\ vq[i].keymarker => vq[i].marker
      /\ \A i \in 1..Len(aq) : aq[i].track = "audio" /\ ~aq[i].start
  BY <1>1, Typed DEF IInv, QueuesInOrder
<1> HIDE DEF t
<1>6. "video" \in {"video", "audio"} /\ TRUE \in BOOLEAN /\ FALSE \in BOOLEAN /\ t \in Int
  BY <1>4
<1>7. /\ au \in Seq(Packets) /\ Len(au) \in {1, 2}
      /\ \A i \in 1..Len(au) : /\ au[i].track = "video" /\ au[i].seq = frames + i - 1
                               /\ au[i].keymarker => au[i].marker
  BY <1>3, <1>4, UnitIs, ZenonT(30)
<1> HIDE DEF au
<1>8. /\ v \in Seq(Packets) /\ Len(v) = m + Len(au)
      /\ \A i \in 1..m : v[i] = vq[i]
      /\ \A i \in 1..Len(au) : v[m + i] = au[i]
  BY <1>5, <1>7
<1>9. Left = frames - m
  BY DEF Left
<1> HIDE DEF v, m
<1>10. ASSUME NEW i \in 1..Len(v)
       PROVE  /\ v[i].track = "video" /\ v[i].seq = Left + i - 1
              /\ v[i].keymarker => v[i].marker
  <2>1. CASE i <= m
    <3>1. i \in 1..m
      BY <1>5, <1>7, <1>8, <2>1
    <3> QED
      BY <1>5, <1>8, <3>1
  <2>2. CASE i > m
    <3> DEFINE j == i - m
    <3>1. j \in 1..Len(au) /\ m + j = i /\ frames + j - 1 = Left + i - 1
      BY <1>3, <1>5, <1>7, <1>8, <1>9, <2>2
    <3> HIDE DEF j
    <3>2. v[i] = au[j]
      BY <1>8, <3>1
    <3> QED
      BY <1>7, <3>1, <3>2
  <2> QED
    BY <1>5, <1>7, <1>8, <2>1, <2>2
<1>11. /\ Len(v) + Len(aq) > 0 /\ frames' \in Nat /\ Len(v) <= frames' /\ frames' - Len(v) = Left
  <2> DEFINE k == Len(au)
  <2>1. k \in {1, 2} /\ frames' = frames + k /\ Len(v) = m + k
    BY <1>2, <1>7, <1>8, Zenon
  <2> HIDE DEF k
  <2> QED
    BY <1>3, <1>5, <1>9, <2>1
<1>12. media' \in Nat /\ clock' \in Nat /\ audios' \in Nat
  BY <1>2, <1>3, <1>4
<1>13. UNCHANGED <<phase, dead, server, mode, history, batch, until, clients>>
  BY <1>2
<1> QED
  BY <1>1, <1>2, <1>5, <1>8, <1>10, <1>11, <1>12, <1>13, EnqueueKeeps

\* An audio packet is queued behind the others.
LEMMA AudioNext ==
    ASSUME IInv, NEW follow \in BOOLEAN, Audio(follow)
    PROVE  IInv'
<1>1. TypeOK /\ mode = "idle" /\ ~dead /\ ~restart
  BY DEF IInv, Audio, Idle
<1> DEFINE p == Packet("audio", audios, clock', FALSE, TRUE, TRUE)
           a == Append(aq, p)
           m == Len(aq)
<1>2. /\ clock' = IF follow /\ media > clock THEN media ELSE clock + 1
      /\ audios' = audios + 1 /\ Enqueue(vq, a)
      /\ UNCHANGED <<phase, dead, server, mode, media, frames, history, batch, until, clients>>
  BY DEF Audio
<1>3. media \in Nat /\ clock \in Nat /\ frames \in Nat /\ audios \in Nat
  BY <1>1, Typed
<1>4. clock' \in Nat
  BY <1>2, <1>3
<1>5. /\ vq \in Seq(Packets) /\ aq \in Seq(Packets) /\ Len(vq) \in Nat /\ m \in Nat /\ Len(vq) <= frames
      /\ \A i \in 1..Len(vq) : /\ vq[i].track = "video" /\ vq[i].seq = Left + i - 1
                               /\ vq[i].keymarker => vq[i].marker
      /\ \A i \in 1..m : aq[i].track = "audio" /\ ~aq[i].start
  BY <1>1, Typed DEF IInv, QueuesInOrder
<1>6. p \in Packets /\ p.track = "audio" /\ ~p.start
  <2>1. "audio" \in {"video", "audio"} /\ TRUE \in BOOLEAN /\ FALSE \in BOOLEAN /\ clock' \in Int
    BY <1>4
  <2> QED
    BY <1>3, <2>1 DEF Packet, Packets
<1> HIDE DEF p
<1>7. /\ a \in Seq(Packets) /\ Len(a) = m + 1
      /\ \A i \in 1..m : a[i] = aq[i]
      /\ a[m + 1] = p
  BY <1>5, <1>6, AppendProperties
<1> HIDE DEF a, m
<1>8. \A i \in 1..Len(a) : a[i].track = "audio" /\ ~a[i].start
  <2> SUFFICES ASSUME NEW i \in 1..Len(a)
               PROVE  a[i].track = "audio" /\ ~a[i].start
    OBVIOUS
  <2>1. i \in 1..m \/ i = m + 1
    BY <1>5, <1>7
  <2> QED
    BY <1>5, <1>6, <1>7, <2>1, Zenon
<1>9. /\ Len(vq) + Len(a) > 0 /\ frames' \in Nat /\ Len(vq) <= frames' /\ frames' - Len(vq) = Left
  BY <1>2, <1>3, <1>5, <1>7 DEF Left
<1>10. media' \in Nat /\ audios' \in Nat
  BY <1>2, <1>3
<1>11. UNCHANGED <<phase, dead, server, mode, history, batch, until, clients>>
  BY <1>2
<1> QED
  BY <1>1, <1>2, <1>4, <1>5, <1>7, <1>8, <1>9, <1>10, <1>11, EnqueueKeeps

\* The packet that leaves the queues.
LEMMA ShiftDoes ==
    ASSUME TypeOK, QueuesInOrder, Queued > 0, Shift, frames' = frames,
           NEW p, p = Front(vq, aq)
    PROVE  /\ p \in Packets /\ vq' \in Seq(Packets) /\ aq' \in Seq(Packets)
           /\ QueuesInOrder' /\ Queued' \in Nat /\ Queued' < Queued
           /\ Left \in Nat
           /\ p.track = "video" => p.seq = Left /\ Left' = Left + 1
           /\ p.track # "video" => Left' = Left /\ ~p.start
<1>1. /\ vq \in Seq(Packets) /\ aq \in Seq(Packets) /\ Len(vq) \in Nat /\ Len(aq) \in Nat
      /\ frames \in Nat
  BY Typed
<1>2. /\ Len(vq) <= frames
      /\ \A i \in 1..Len(vq) : /\ vq[i].track = "video" /\ vq[i].seq = Left + i - 1
                               /\ vq[i].keymarker => vq[i].marker
      /\ \A i \in 1..Len(aq) : aq[i].track = "audio" /\ ~aq[i].start
  BY DEF QueuesInOrder
<1>3. Left = frames - Len(vq) /\ Left \in Nat
  BY <1>1, <1>2 DEF Left
<1>4. /\ p \in Packets
      /\ VideoFirst(vq, aq) => vq # << >> /\ p = vq[1]
      /\ ~VideoFirst(vq, aq) => aq # << >> /\ p = aq[1]
  BY <1>1, FrontIs DEF Queued
<1>5. CASE VideoFirst(vq, aq)
  <2>1. /\ vq' = Tail(vq) /\ aq' = aq /\ vq # << >> /\ p = vq[1]
    BY <1>4, <1>5 DEF Shift
  <2>2. /\ vq' \in Seq(Packets) /\ Len(vq') = Len(vq) - 1 /\ Len(vq) > 0
        /\ \A i \in 1..(Len(vq) - 1) : vq'[i] = vq[i + 1]
    BY <1>1, <2>1, PacketsIn
  <2>3. Left' = Left + 1
    BY <1>1, <1>3, <2>2 DEF Left
  <2>4. p.track = "video" /\ p.seq = Left
    BY <1>1, <1>2, <1>3, <2>1, <2>2
  <2>5. ASSUME NEW i \in 1..Len(vq')
        PROVE  /\ vq'[i].track = "video" /\ vq'[i].seq = Left' + i - 1
               /\ vq'[i].keymarker => vq'[i].marker
    <3>1. i + 1 \in 1..Len(vq) /\ vq'[i] = vq[i + 1]
      BY <1>1, <2>2
    <3>2. /\ vq[i + 1].track = "video" /\ vq[i + 1].seq = Left + (i + 1) - 1
          /\ vq[i + 1].keymarker => vq[i + 1].marker
      BY <1>2, <3>1
    <3>3. Left + (i + 1) - 1 = Left' + i - 1
      BY <1>3, <2>3
    <3> QED
      BY <3>1, <3>2, <3>3
  <2>6. Len(vq') <= frames'
    BY <1>1, <1>2, <2>2
  <2>7. QueuesInOrder'
    BY <1>2, <2>1, <2>5, <2>6 DEF QueuesInOrder
  <2>8. Queued' \in Nat /\ Queued' < Queued
    BY <1>1, <2>1, <2>2 DEF Queued
  <2> QED
    BY <1>1, <1>3, <1>4, <2>1, <2>2, <2>3, <2>4, <2>7, <2>8
<1>6. CASE ~VideoFirst(vq, aq)
  <2>1. /\ aq' = Tail(aq) /\ vq' = vq /\ aq # << >> /\ p = aq[1]
    BY <1>4, <1>6 DEF Shift
  <2>2. /\ aq' \in Seq(Packets) /\ Len(aq') = Len(aq) - 1 /\ Len(aq) > 0
        /\ \A i \in 1..(Len(aq) - 1) : aq'[i] = aq[i + 1]
    BY <1>1, <2>1, PacketsIn
  <2>3. Left' = Left
    BY <2>1 DEF Left
  <2>4. p.track = "audio" /\ ~p.start
    BY <1>1, <1>2, <2>1, <2>2
  <2>5. ASSUME NEW i \in 1..Len(aq')
        PROVE  aq'[i].track = "audio" /\ ~aq'[i].start
    <3>1. i + 1 \in 1..Len(aq) /\ aq'[i] = aq[i + 1]
      BY <1>1, <2>2
    <3> QED
      BY <1>2, <3>1
  <2>6. QueuesInOrder'
    BY <1>2, <2>1, <2>3, <2>5 DEF QueuesInOrder
  <2>7. Queued' \in Nat /\ Queued' < Queued
    BY <1>1, <2>1, <2>2 DEF Queued
  <2> QED
    BY <1>1, <1>3, <1>4, <2>1, <2>2, <2>3, <2>4, <2>6, <2>7
<1> QED
  BY <1>5, <1>6

\* The history takes the packet that leaves, begins with it, or is dropped.
LEMMA RememberDoes ==
    ASSUME NEW p \in Packets, p.start => p.track = "video",
           gop \in Seq(Packets), overflow \in BOOLEAN, Len(gop) <= MaxGop,
           overflow => gop = << >>, Remember(p)
    PROVE  /\ overflow' \in BOOLEAN /\ (overflow' => gop' = << >>)
           /\ \/ gop' = << >>
              \/ p.start /\ gop' = Append(<< >>, p)
              \/ /\ ~p.start /\ gop' = Append(gop, p) /\ Len(gop) + 1 <= MaxGop
                 /\ p.track = "video" \/ gop # << >>
<1> DEFINE kept == IF p.start THEN << >> ELSE gop
           full == overflow /\ ~p.start
           takes == ~full /\ (p.track = "video" \/ kept # << >>)
           grown == IF takes THEN Append(kept, p) ELSE kept
<1>1. IF Len(grown) > MaxGop THEN gop' = << >> /\ overflow' = TRUE
                             ELSE gop' = grown /\ overflow' = full
  BY DEF Remember
<1>2. Len(gop) \in Nat /\ Len(Append(gop, p)) = Len(gop) + 1 /\ MaxGop \in Nat /\ p.start \in BOOLEAN
  BY PacketsIn, AppendProperties, ConstantsAre, PacketFields
<1>3. full \in BOOLEAN
  BY <1>2
<1>4. CASE Len(grown) > MaxGop
  BY <1>1, <1>4
<1>5. CASE ~(Len(grown) > MaxGop)
  <2>1. gop' = grown /\ overflow' = full
    BY <1>1, <1>5
  <2>2. CASE p.start
    BY <1>3, <2>1, <2>2
  <2>3. CASE ~p.start /\ takes
    <3>1. grown = Append(gop, p) /\ ~overflow /\ (p.track = "video" \/ gop # << >>)
      BY <2>3
    <3>2. Len(gop) + 1 <= MaxGop
      BY <1>2, <1>5, <3>1
    <3> QED
      BY <1>3, <2>1, <2>3, <3>1, <3>2
  <2>4. CASE ~p.start /\ ~takes
    <3>1. grown = gop /\ gop = << >>
      BY <1>2, <2>4
    <3> QED
      BY <1>3, <2>1, <3>1
  <2> QED
    BY <2>2, <2>3, <2>4
<1> QED
  BY <1>4, <1>5

\* A packet leaves for the history.
LEMMA HistoryGrows ==
    ASSUME TypeOK, HistoryInOrder, Settled, NEW p \in Packets, Remember(p),
           Left \in Nat, Left' \in Nat,
           p.track = "video" => p.seq = Left /\ Left' = Left + 1,
           p.track # "video" => Left' = Left /\ ~p.start
    PROVE  /\ gop' \in Seq(Packets) /\ Len(gop') <= MaxGop /\ overflow' \in BOOLEAN
           /\ overflow' => gop' = << >>
           /\ OneGop'
           /\ Run(gop', GopBase')
<1>1. /\ gop \in Seq(Packets) /\ overflow \in BOOLEAN /\ Len(gop) <= MaxGop
      /\ overflow => gop = << >>
      /\ Len(gop) \in Nat
  BY Typed DEF HistoryInOrder
<1>2. /\ overflow' \in BOOLEAN /\ (overflow' => gop' = << >>)
      /\ \/ gop' = << >>
         \/ p.start /\ gop' = Append(<< >>, p)
         \/ /\ ~p.start /\ gop' = Append(gop, p) /\ Len(gop) + 1 <= MaxGop
            /\ p.track = "video" \/ gop # << >>
  BY <1>1, RememberDoes
<1>3. CASE gop' = << >>
  <2>1. << >> \in Seq(Packets) /\ Len(<< >>) = 0 /\ Len(<< >>) <= MaxGop
    BY ConstantsAre
  <2>2. GopBase' = Left'
    BY <1>3, EmptyRun DEF GopBase
  <2> QED
    BY <1>2, <1>3, <2>1, <2>2, EmptyRun DEF OneGop
<1>4. CASE p.start /\ gop' = Append(<< >>, p)
  <2>1. << >> \in Seq(Packets) /\ p.track = "video" /\ p.seq = Left /\ Left' = Left + 1
    BY <1>4
  <2>2. /\ gop' \in Seq(Packets) /\ Len(gop') = 1 /\ gop'[1] = p /\ gop' # << >>
    BY <1>4
  <2>3. 1 <= MaxGop
    BY ConstantsAre
  <2>4. OneGop'
    BY <2>1, <2>2 DEF OneGop
  <2>5. Cardinality(Video(<< >>)) = 0 /\ Run(<< >>, Left) /\ Ahead(<< >>, Left) = Left
    BY EmptyRun DEF Ahead
  <2>6. Cardinality(Video(gop')) = 0 + 1
    BY <1>4, <2>1, <2>5, VideoGrows
  <2>7. GopBase' = Left
    BY <2>1, <2>6 DEF GopBase
  <2>8. Left \in Int
    OBVIOUS
  <2>9. Run(gop', Left)
    BY <1>4, <2>1, <2>5, <2>8, RunGrows
  <2> QED
    BY <1>2, <2>2, <2>3, <2>4, <2>7, <2>9
<1>5. CASE /\ ~p.start /\ gop' = Append(gop, p) /\ Len(gop) + 1 <= MaxGop
           /\ p.track = "video" \/ gop # << >>
  <2>1. /\ gop' \in Seq(Packets) /\ Len(gop') = Len(gop) + 1
        /\ \A i \in 1..Len(gop) : gop'[i] = gop[i]
        /\ gop'[Len(gop) + 1] = p
    BY <1>1, <1>5, AppendProperties
  <2>2. OneGop'
    <3>1. CASE gop = << >>
      BY <1>5, <2>1, <3>1 DEF OneGop
    <3>2. CASE gop # << >>
      <4>1. gop[1].track = "video" /\ \A i \in 2..Len(gop) : ~gop[i].start
        BY <3>2 DEF HistoryInOrder, OneGop
      <4>2. Len(gop) > 0
        BY <1>1, <3>2, PacketsIn
      <4>3. gop'[1] = gop[1]
        BY <1>1, <2>1, <4>2
      <4>4. ASSUME NEW i \in 2..Len(gop') PROVE ~gop'[i].start
        <5>1. CASE i = Len(gop) + 1
          BY <1>5, <2>1, <5>1
        <5>2. CASE i # Len(gop) + 1
          BY <1>1, <2>1, <4>1, <5>2
        <5> QED
          BY <5>1, <5>2
      <4> QED
        BY <4>1, <4>3, <4>4 DEF OneGop
    <3> QED
      BY <3>1, <3>2
  <2>3. GopBase \in Int /\ Run(gop, GopBase) /\ Ahead(gop, GopBase) = Left
    BY <1>1, VideoIs DEF HistoryInOrder, GopBase, Ahead
  <2>4. Run(gop', GopBase)
    BY <1>1, <1>5, <2>3, RunGrows
  <2>5. GopBase' = GopBase
    <3>1. Cardinality(Video(gop)) \in Nat
      BY <1>1, VideoIs
    <3>2. CASE p.track = "video"
      <4>1. Cardinality(Video(gop')) = Cardinality(Video(gop)) + 1
        BY <1>1, <1>5, <3>2, VideoGrows
      <4> QED
        BY <3>1, <3>2, <4>1 DEF GopBase
    <3>3. CASE p.track # "video"
      <4>1. Video(gop') = Video(gop)
        BY <1>1, <1>5, <3>3, VideoGrows
      <4> QED
        BY <3>3, <4>1 DEF GopBase
    <3> QED
      BY <3>2, <3>3
  <2>6. Len(gop') <= MaxGop
    BY <1>5, <2>1
  <2> QED
    BY <1>2, <2>1, <2>2, <2>4, <2>5, <2>6
<1> QED
  BY <1>2, <1>3, <1>4, <1>5

-----------------------------------------------------------------------------
(* What clients are sent. *)

\* The fields of a client.
LEMMA ClientFields ==
    ASSUME NEW c \in Clients
    PROVE  /\ c.st \in {"none", "ready", "playing", "paused"}
           /\ c.from \in Nat \cup {None} /\ c.upto \in Nat \cup {None} /\ c.count \in Nat
           /\ c.broke \in BOOLEAN /\ c.sr \in BOOLEAN
BY DEF Clients

\* The report of a client that plays.
LEMMA ReportedIs ==
    ASSUME NEW c \in Clients, NEW d, d = Reported(c)
    PROVE  /\ d \in Clients /\ d.st = c.st /\ d.broke = c.broke
           /\ d.from = c.from /\ d.upto = c.upto /\ d.count = c.count
           /\ c.sr => d.sr
           /\ c.st = "playing" => d.sr
<1>1. CASE c.st = "playing"
  <2>1. d = [c EXCEPT !.sr = TRUE]
    BY <1>1 DEF Reported
  <2> QED
    BY <1>1, <2>1 DEF Clients
<1>2. CASE c.st # "playing"
  BY <1>2 DEF Reported
<1> QED
  BY <1>1, <1>2

\* A run that is sent to a client that has all before it: it then has all up to
\* the run's end, each packet once.
LEMMA SentIs ==
    ASSUME NEW c \in Clients, NoneMissing(c), NEW q \in Seq(Packets), NEW b \in Int, Run(q, b),
           c.count > 0 => c.upto < b /\ (~c.broke => c.upto + 1 = b),
           NEW d, d = Sent(c, q)
    PROVE  /\ d \in Clients /\ d.st = c.st /\ d.broke = c.broke /\ d.sr = c.sr
           /\ c.st # "playing" \/ Video(q) = {} => d = c
           /\ d.count = 0 => d.from = None
           /\ d.count > 0 => /\ d.from # None /\ d.upto # None
                             /\ d.count <= d.upto - d.from + 1
                             /\ ~d.broke => d.count = d.upto - d.from + 1
           /\ d.count > 0 => d.upto < Ahead(q, b) /\ (~d.broke => d.upto + 1 = Ahead(q, b))
<1> DEFINE a == Ahead(q, b)
<1>1. /\ c.st \in {"none", "ready", "playing", "paused"}
      /\ c.from \in Nat \cup {None} /\ c.upto \in Nat \cup {None} /\ c.count \in Nat
      /\ c.broke \in BOOLEAN
      /\ c.st \in {"none", "ready"} => ~c.broke /\ c.count = 0
      /\ c.st = "paused" => c.broke
      /\ c.count = 0 => c.from = None
      /\ c.count > 0 => /\ c.from # None /\ c.upto # None
                        /\ c.count <= c.upto - c.from + 1
                        /\ ~c.broke => c.count = c.upto - c.from + 1
  BY ClientFields DEF NoneMissing
<1>2. Cardinality(Video(q)) \in Nat /\ (Cardinality(Video(q)) = 0 <=> Video(q) = {})
  BY VideoIs
<1>3. a = b + Cardinality(Video(q))
  BY DEF Ahead
<1>4. CASE c.st # "playing" \/ Video(q) = {}
  <2>1. d = c
    BY <1>4, Zenon DEF Sent
  <2>2. c.count > 0 => c.upto \in Nat /\ c.upto < a /\ (~c.broke => c.upto + 1 = a)
    <3>1. CASE Video(q) = {}
      BY <1>1, <1>2, <1>3, <3>1
    <3>2. CASE c.st # "playing"
      BY <1>1, <1>2, <1>3, <3>2
    <3> QED
      BY <1>4, <3>1, <3>2
  <2> QED
    BY <1>1, <2>1, <2>2
<1>5. CASE c.st = "playing" /\ Video(q) # {}
  <2> DEFINE x == IF c.from = None THEN q[First(Video(q))].seq ELSE c.from
             y == q[Last(Video(q))].seq
             k == Cardinality(Video(q))
  <2>1. d = [c EXCEPT !.from = x, !.upto = y, !.count = c.count + k]
    BY <1>5, Zenon DEF Sent
  <2>2. /\ q[First(Video(q))].seq = b /\ y = a - 1
        /\ b \in Nat /\ a \in Nat /\ b < a
    BY <1>5, RunEnds
  <2>3. k \in Nat /\ k > 0 /\ a = b + k
    BY <1>2, <1>3, <1>5
  <2>4. x = IF c.from = None THEN b ELSE c.from
    BY <2>2
  <2> HIDE DEF a, x, y, k
  <2>5. x \in Nat /\ y \in Nat /\ c.count + k \in Nat
    BY <1>1, <2>2, <2>3, <2>4
  <2>6. /\ d \in Clients /\ d.st = c.st /\ d.broke = c.broke /\ d.sr = c.sr
        /\ d.from = x /\ d.upto = y /\ d.count = c.count + k
    <3>1. c = [st |-> c.st, from |-> c.from, upto |-> c.upto, count |-> c.count,
               broke |-> c.broke, sr |-> c.sr]
      BY DEF Clients
    <3>2. d = [st |-> c.st, from |-> x, upto |-> y, count |-> c.count + k,
               broke |-> c.broke, sr |-> c.sr]
      BY <2>1, <3>1, Zenon
    <3> QED
      BY <2>5, <3>2, ClientFields DEF Clients
  <2>7. c.count + k > 0 /\ y < a /\ y + 1 = a
    BY <1>1, <2>2, <2>3, SMTT(30)
  <2>8. /\ c.count + k <= y - x + 1
        /\ ~c.broke => c.count + k = y - x + 1
    <3>1. CASE c.count = 0
      BY <1>1, <2>2, <2>3, <2>4, <3>1
    <3>2. CASE c.count > 0
      <4>1. /\ x = c.from /\ c.from \in Nat /\ c.upto \in Nat /\ c.upto < b
            /\ ~c.broke => c.upto + 1 = b
            /\ c.count <= c.upto - c.from + 1
            /\ ~c.broke => c.count = c.upto - c.from + 1
        BY <1>1, <2>4, <3>2
      <4> DEFINE n == c.count
                 f == c.from
                 u == c.upto
      <4>2. /\ n \in Int /\ f \in Int /\ u \in Int /\ k \in Int /\ b \in Int
            /\ x = f /\ y = b + k - 1 /\ u < b /\ n <= u - f + 1
        BY <1>1, <2>2, <2>3, <4>1
      <4>3. ~c.broke => u + 1 = b /\ n = u - f + 1
        BY <4>1
      <4> HIDE DEF n, f, u
      <4>4. n + k <= y - x + 1
        BY <4>2
      <4>5. ~c.broke => n + k = y - x + 1
        BY <4>2, <4>3
      <4>6. c.count + k <= y - x + 1
        BY <4>4 DEF n
      <4>7. ~c.broke => c.count + k = y - x + 1
        BY <4>5 DEF n
      <4> QED
        BY <4>6, <4>7
    <3> QED
      BY <1>1, <3>1, <3>2
  <2>9. x # None /\ y # None
    BY <2>5, ConstantsAre
  <2> QED
    BY <1>5, <2>6, <2>7, <2>8, <2>9 DEF a
<1> QED
  BY <1>4, <1>5

-----------------------------------------------------------------------------
(* The pacer. *)

\* What holds when a packet has left for the history, by drain() or in the handoff.
LEMMA PacketLeaves ==
    ASSUME IInv, mode \in {"drain", "handoff"}, Queued > 0,
           NEW p, p = Front(vq, aq), Remember(p), Shift,
           UNCHANGED <<life, mode, pace, input, pressure, until, clients>>,
           batch' \in Seq(Packets)
    PROVE  /\ p \in Packets /\ Left \in Nat /\ Left' \in Nat
           /\ p.track = "video" => p.seq = Left /\ Left' = Left + 1
           /\ p.track # "video" => Left' = Left
           /\ ~restart /\ ~dead /\ vq' \in Seq(Packets) /\ frames' \in Nat
           /\ TypeOK' /\ QueuesInOrder' /\ PaceInOrder' /\ LifeInOrder'
           /\ overflow' => gop' = << >>
           /\ OneGop' /\ Run(gop', GopBase')
<1>1. TypeOK /\ QueuesInOrder /\ HistoryInOrder /\ PaceInOrder /\ LifeInOrder
  BY DEF IInv
<1>2. /\ UNCHANGED <<phase, dead, restart, server, mode, epoch, timer>>
      /\ UNCHANGED <<media, clock, frames, audios, pressure, until, stamped, owed, sess>>
  BY DEF life, pace, input, clients
<1>3. /\ p \in Packets /\ vq' \in Seq(Packets) /\ aq' \in Seq(Packets)
      /\ QueuesInOrder' /\ Queued' \in Nat /\ Queued' < Queued
      /\ Left \in Nat
      /\ p.track = "video" => p.seq = Left /\ Left' = Left + 1
      /\ p.track # "video" => Left' = Left /\ ~p.start
  BY <1>1, <1>2, ShiftDoes
<1>4. mode # "idle" /\ ~restart /\ ~dead /\ Settled /\ timer = None
  BY <1>1 DEF PaceInOrder, Settled
<1>5. Left' \in Nat
  BY <1>3
<1>6. /\ gop' \in Seq(Packets) /\ Len(gop') <= MaxGop /\ overflow' \in BOOLEAN
      /\ overflow' => gop' = << >>
      /\ OneGop' /\ Run(gop', GopBase')
  BY <1>1, <1>3, <1>4, <1>5, HistoryGrows
<1>7. Queued' <= MaxQueue
  BY <1>1, <1>3, Typed, ConstantsAre, SMTT(30)
<1>8. TypeOK'
  <2>1. /\ phase' \in {"discover", "binding", "serving"} /\ server' \in {"none", "binding", "open", "closed"}
        /\ mode' \in {"idle", "drain", "handoff"}
    BY <1>1, <1>2 DEF TypeOK
  <2> QED
    BY <1>1, <1>2, <1>3, <1>6, <1>7, <2>1, Typed, TypedNext, Zenon
<1>9. PaceInOrder'
  BY <1>1, <1>2, <1>4 DEF PaceInOrder, DeadLetsGo
<1>10. LifeInOrder'
  BY <1>1, <1>2 DEF LifeInOrder
<1>11. frames' \in Nat
  BY <1>1, <1>2, Typed
<1> QED
  BY <1>3, <1>4, <1>5, <1>6, <1>8, <1>9, <1>10, <1>11

\* A packet that is due joins the batch: what comes next for the clients stays,
\* until they are sent the batch.
LEMMA DrainPacketNext ==
    ASSUME IInv, DrainPacket
    PROVE  IInv'
<1> DEFINE p == Front(vq, aq)
<1>1. TypeOK /\ HistoryInOrder /\ ClientsInOrder /\ batch \in Seq(Packets)
  BY Typed DEF IInv
<1>2. /\ mode = "drain" /\ Queued > 0 /\ batch' = Append(batch, p) /\ Remember(p) /\ Shift
      /\ UNCHANGED <<life, mode, pace, input, pressure, until, clients>>
  BY DEF DrainPacket, DrainDue
<1>3. p \in Packets
  BY <1>1, <1>2, Typed, FrontIs DEF Queued
<1>4. batch' \in Seq(Packets)
  BY <1>1, <1>2, <1>3, AppendProperties
<1>5. /\ Left \in Nat /\ Left' \in Nat
      /\ p.track = "video" => p.seq = Left /\ Left' = Left + 1
      /\ p.track # "video" => Left' = Left
      /\ ~restart /\ ~dead
      /\ TypeOK' /\ QueuesInOrder' /\ PaceInOrder' /\ LifeInOrder'
      /\ overflow' => gop' = << >>
      /\ OneGop' /\ Run(gop', GopBase')
  BY <1>2, <1>4, PacketLeaves
<1> HIDE DEF p
<1>6. /\ Run(batch, Base) /\ Cardinality(Video(batch)) \in Nat
  BY <1>1, VideoIs DEF HistoryInOrder
<1>7. Base \in Int /\ Ahead(batch, Base) = Left
  BY <1>5, <1>6 DEF Base, Ahead
<1>8. Run(batch', Base)
  BY <1>1, <1>2, <1>3, <1>5, <1>6, <1>7, RunGrows
<1>9. Base' = Base
  <2>1. CASE p.track = "video"
    <3>1. Cardinality(Video(batch')) = Cardinality(Video(batch)) + 1
      BY <1>1, <1>2, <1>3, <2>1, VideoGrows
    <3> QED
      BY <1>5, <1>6, <2>1, <3>1 DEF Base
  <2>2. CASE p.track # "video"
    <3>1. Video(batch') = Video(batch)
      BY <1>1, <1>2, <1>3, <2>2, VideoGrows
    <3> QED
      BY <1>5, <2>2, <3>1 DEF Base
  <2> QED
    BY <2>1, <2>2
<1>10. mode' = "drain" /\ restart' = restart /\ dead' = dead /\ owed' = owed /\ sess' = sess
  BY <1>2 DEF life, clients
<1>11. HistoryInOrder'
  BY <1>5, <1>8, <1>9, <1>10 DEF HistoryInOrder
<1>12. ClientsInOrder'
  BY <1>1, <1>5, <1>9, <1>10 DEF ClientsInOrder, ClientInOrder, NoneMissing, ReportOwed, FollowsOn, Settled
<1> QED
  BY <1>5, <1>11, <1>12 DEF IInv

\* Before the listener is up there is nobody to send the backlog to.
LEMMA HandoffPacketNext ==
    ASSUME IInv, HandoffPacket
    PROVE  IInv'
<1> DEFINE p == Front(vq, aq)
<1>1. TypeOK /\ HistoryInOrder /\ ClientsInOrder /\ LifeInOrder /\ batch \in Seq(Packets)
  BY Typed DEF IInv
<1>2. /\ mode = "handoff" /\ Queued > 0 /\ batch' = batch /\ Remember(p) /\ Shift
      /\ UNCHANGED <<life, mode, pace, input, pressure, until, clients>>
  BY DEF HandoffPacket, HandoffDue
<1>3. /\ Left' \in Nat /\ vq' \in Seq(Packets) /\ frames' \in Nat
      /\ TypeOK' /\ QueuesInOrder' /\ PaceInOrder' /\ LifeInOrder'
      /\ overflow' => gop' = << >>
      /\ OneGop' /\ Run(gop', GopBase')
  BY <1>1, <1>2, PacketLeaves
<1> HIDE DEF p
<1>4. mode' = "handoff" /\ owed' = owed /\ sess' = sess
  BY <1>2 DEF clients
<1>5. batch' = << >>
  BY <1>1, <1>2 DEF HistoryInOrder
<1>6. Run(batch', Base')
  <2>1. frames' \in Nat /\ vq' \in Seq(Packets)
    BY <1>3
  <2> QED
    BY <1>5, <2>1, NoBatch DEF Base, Left
<1>7. HistoryInOrder'
  BY <1>3, <1>4, <1>5, <1>6 DEF HistoryInOrder
<1>8. \A s \in Sessions : sess[s].st = "none"
  BY <1>1, <1>2 DEF LifeInOrder
<1>9. ClientsInOrder'
  <2> SUFFICES ASSUME NEW s \in Sessions
               PROVE  ClientInOrder(sess[s])' /\ FollowsOn(sess[s])'
    BY DEF ClientsInOrder
  <2>1. ClientInOrder(sess[s]) /\ sess[s].count = 0
    BY <1>1, <1>8 DEF ClientsInOrder, ClientInOrder, NoneMissing, ReportOwed
  <2>2. ~(0 > 0)
    OBVIOUS
  <2> QED
    BY <1>4, <2>1, <2>2 DEF ClientInOrder, NoneMissing, ReportOwed, FollowsOn
<1> QED
  BY <1>3, <1>7, <1>9 DEF IInv

\* The timer fires: the generation restarts, or the loop begins with no batch.
LEMMA DrainNext ==
    ASSUME IInv, Drain
    PROVE  IInv'
<1> DEFINE due == Front(vq, aq).due
<1>1. TypeOK /\ PaceInOrder /\ HistoryInOrder
  BY DEF IInv
<1>2. /\ mode = "idle" /\ timer = 0 /\ (restart => dead) /\ batch' = << >>
      /\ UNCHANGED <<phase, dead, server, input, history, until, clients>>
      /\ IF epoch + due < -MaxLate
         THEN Restart /\ UNCHANGED <<epoch, mode>>
         ELSE /\ epoch' = Anchored(due) /\ timer' = None /\ mode' = "drain"
              /\ UNCHANGED <<queues, pressure, restart>>
  BY DEF Drain, Idle
<1>3. timer # None /\ Queued > 0 /\ epoch \in Int
  <2>1. 0 # None
    BY ConstantsAre
  <2> QED
    BY <1>1, <1>2, <2>1, Typed DEF PaceInOrder
<1>4. ~dead /\ ~restart
  BY <1>1, <1>2, <1>3 DEF PaceInOrder, DeadLetsGo
<1>5. due \in Int
  BY <1>1, <1>3, Typed, FrontIs DEF Queued
<1>6. /\ phase' = phase /\ dead' = dead /\ server' = server /\ media' = media /\ clock' = clock
      /\ frames' = frames /\ audios' = audios /\ gop' = gop /\ overflow' = overflow
      /\ until' = until /\ stamped' = stamped /\ owed' = owed /\ sess' = sess
  BY <1>2 DEF input, history, clients
<1> HIDE DEF due
<1>7. CASE epoch + due < -MaxLate
  <2>1. Restart /\ UNCHANGED <<epoch, mode>>
    BY <1>2, <1>7
  <2>2. media' \in Nat /\ clock' \in Nat /\ frames' \in Nat /\ audios' \in Nat
    BY <1>1, <1>6, Typed
  <2>3. UNCHANGED <<phase, dead, server, mode, epoch, history, until, clients>>
    BY <1>2, <2>1
  <2> QED
    BY <1>2, <1>4, <2>1, <2>2, <2>3, RestartKeeps
<1>8. CASE ~(epoch + due < -MaxLate)
  <2>1. /\ epoch' = Anchored(due) /\ timer' = None /\ mode' = "drain"
        /\ vq' = vq /\ aq' = aq /\ pressure' = pressure /\ restart' = restart
    BY <1>2, <1>8 DEF queues
  <2>2. Delay \in Int /\ MaxFuture \in Int
    BY ConstantsAre
  <2>3. epoch' \in Int
    BY <1>3, <1>5, <2>1, <2>2 DEF Anchored
  <2>4. batch = << >> /\ batch' = batch
    BY <1>1, <1>2 DEF HistoryInOrder
  <2>5. TypeOK'
    <3>1. /\ phase' \in {"discover", "binding", "serving"} /\ server' \in {"none", "binding", "open", "closed"}
          /\ mode' \in {"idle", "drain", "handoff"}
      BY <1>1, <1>6, <2>1 DEF TypeOK
    <3>2. Queued' = Queued
      BY <2>1 DEF Queued
    <3> QED
      BY <1>1, <1>6, <2>1, <2>3, <2>4, <3>1, <3>2, Typed, TypedNext, Zenon
  <2>6. Left' = Left /\ Base' = Base /\ GopBase' = GopBase
    BY <1>6, <2>1, <2>4 DEF Left, Base, GopBase
  <2>7. QueuesInOrder'
    BY <1>6, <2>1, <2>6 DEF IInv, QueuesInOrder
  <2>8. PaceInOrder'
    <3>1. epoch' # None
      BY <2>3, ConstantsAre
    <3> QED
      BY <1>4, <1>6, <2>1, <3>1 DEF PaceInOrder, DeadLetsGo
  <2>9. LifeInOrder'
    BY <1>6, <2>1 DEF IInv, LifeInOrder
  <2>10. HistoryInOrder'
    BY <1>1, <1>6, <2>1, <2>4, <2>6 DEF HistoryInOrder, OneGop, Settled
  <2>11. ClientsInOrder'
    BY <1>6, <2>1, <2>6 DEF IInv, ClientsInOrder, ClientInOrder, NoneMissing, ReportOwed, FollowsOn, Settled
  <2> QED
    BY <2>5, <2>7, <2>8, <2>9, <2>10, <2>11 DEF IInv
<1> QED
  BY <1>7, <1>8

\* The batch goes to the clients: whoever is owed a report gets it with video.
LEMMA FanOutDoes ==
    ASSUME IInv, Settled, FanOut, batch' = << >>, UNCHANGED <<vq, frames>>
    PROVE  /\ stamped' \in BOOLEAN /\ owed' \in BOOLEAN /\ sess' \in [Sessions -> Clients]
           /\ \A s \in Sessions : sess'[s].st = sess[s].st
           /\ ClientsInOrder'
<1> DEFINE now == stamped \/ Video(batch) # {}
           report == batch # << >> /\ owed /\ now
<1>1. /\ stamped \in BOOLEAN /\ owed \in BOOLEAN /\ sess \in [Sessions -> Clients]
      /\ batch \in Seq(Packets) /\ vq \in Seq(Packets) /\ frames \in Nat
      /\ HistoryInOrder /\ ClientsInOrder
  BY Typed DEF IInv
<1>2. /\ stamped' = now /\ owed' = (owed /\ ~report)
      /\ sess' = [s \in Sessions |-> IF report THEN Reported(Sent(sess[s], batch))
                                     ELSE Sent(sess[s], batch)]
  BY DEF FanOut
<1>3. Run(batch, Base) /\ Cardinality(Video(batch)) \in Nat
  BY <1>1, VideoIs DEF HistoryInOrder
<1>4. Left \in Int /\ Base \in Int /\ Ahead(batch, Base) = Left
  <2>1. Len(vq) \in Nat
    BY <1>1, PacketsIn
  <2> QED
    BY <1>1, <1>3, <2>1 DEF Left, Base, Ahead
<1>5. Base' = Left
  <2>1. Cardinality(Video(batch')) = 0
    BY EmptyRun
  <2> QED
    BY <1>4, <2>1 DEF Base, Left
<1>6. owed /\ ~report => Video(batch) = {}
  BY EmptyRun
<1>7. stamped' \in BOOLEAN /\ owed' \in BOOLEAN
  BY <1>1, <1>2
<1> HIDE DEF now, report
<1>8. ASSUME NEW s \in Sessions
      PROVE  /\ sess'[s] \in Clients /\ sess'[s].st = sess[s].st
             /\ ClientInOrder(sess[s])' /\ FollowsOn(sess[s])'
  <2> DEFINE c == sess[s]
             d == Sent(c, batch)
             e == sess'[s]
  <2>1. /\ c \in Clients /\ ClientInOrder(c) /\ NoneMissing(c) /\ FollowsOn(c)
    BY <1>1 DEF ClientsInOrder, ClientInOrder
  <2>2. c.count > 0 => c.upto < Base /\ (~c.broke => c.upto + 1 = Base)
    BY <2>1 DEF FollowsOn
  <2>3. e = IF report THEN Reported(d) ELSE d
    BY <1>2
  <2> HIDE DEF c
  <2>4. /\ d \in Clients /\ d.st = c.st /\ d.broke = c.broke /\ d.sr = c.sr
        /\ c.st # "playing" \/ Video(batch) = {} => d = c
        /\ d.count = 0 => d.from = None
        /\ d.count > 0 => /\ d.from # None /\ d.upto # None
                          /\ d.count <= d.upto - d.from + 1
                          /\ ~d.broke => d.count = d.upto - d.from + 1
        /\ d.count > 0 => d.upto < Left /\ (~d.broke => d.upto + 1 = Left)
    BY <1>1, <1>3, <1>4, <2>1, <2>2, SentIs
  <2> HIDE DEF d, e
  <2>5. /\ e \in Clients /\ e.st = d.st /\ e.broke = d.broke
        /\ e.from = d.from /\ e.upto = d.upto /\ e.count = d.count
        /\ d.sr => e.sr
        /\ report /\ e.st = "playing" => e.sr
        /\ ~report => e = d
    <3>1. CASE report
      <4>1. e = Reported(d)
        BY <2>3, <3>1
      <4> QED
        BY <2>4, <3>1, <4>1, ReportedIs
    <3>2. CASE ~report
      BY <2>3, <2>4, <3>2
    <3> QED
      BY <3>1, <3>2
  <2>6. /\ c.st \in {"none", "ready"} => ~c.broke /\ c.count = 0
        /\ c.st = "paused" => c.broke
        /\ c.st = "playing" /\ ~c.broke /\ ~c.sr => owed /\ c.count = 0
    BY <2>1 DEF ClientInOrder, NoneMissing, ReportOwed
  <2>7. ASSUME e.st = "playing", ~e.broke, ~e.sr
        PROVE  owed' /\ e.count = 0
    <3>1. ~report /\ e = d
      BY <2>5, <2>7
    <3>2. owed /\ c.count = 0
      BY <2>4, <2>5, <2>6, <2>7, <3>1
    <3>3. d = c
      BY <1>6, <2>4, <3>1, <3>2
    <3> QED
      BY <1>2, <3>1, <3>2, <3>3
  <2>8. e.st \in {"none", "ready"} => ~e.broke /\ e.count = 0
    BY <2>4, <2>5, <2>6
  <2>9. e.st = "paused" => e.broke
    BY <2>4, <2>5, <2>6
  <2>10. /\ e.count = 0 => e.from = None
         /\ e.count > 0 => /\ e.from # None /\ e.upto # None
                           /\ e.count <= e.upto - e.from + 1
                           /\ ~e.broke => e.count = e.upto - e.from + 1
    BY <2>4, <2>5
  <2>11. ClientInOrder(sess[s])'
    BY <2>7, <2>8, <2>9, <2>10, Zenon DEF ClientInOrder, NoneMissing, ReportOwed, e
  <2>12. FollowsOn(sess[s])'
    BY <1>5, <2>4, <2>5 DEF FollowsOn, e
  <2> QED
    BY <2>4, <2>5, <2>11, <2>12 DEF e, c
<1>9. sess' \in [Sessions -> Clients]
  BY <1>2, <1>8
<1> QED
  BY <1>7, <1>8, <1>9 DEF ClientsInOrder

\* The loop ends: the clients have the batch, and what stays has a timer.
LEMMA DrainEndNext ==
    ASSUME IInv, DrainEnd
    PROVE  IInv'
<1>1. TypeOK /\ PaceInOrder /\ HistoryInOrder /\ LifeInOrder
  BY DEF IInv
<1>2. /\ mode = "drain" /\ mode' = "idle" /\ batch' = << >>
      /\ pressure' = Pressure(Queued) /\ FanOut /\ Schedule(vq, aq)
      /\ UNCHANGED <<phase, dead, restart, server, vq, aq, media, clock, frames, audios>>
      /\ UNCHANGED <<gop, overflow, until>>
  BY DEF DrainEnd, life, queues, input, history
<1>3. ~restart /\ ~dead /\ Settled /\ epoch \in Int /\ timer = None
  BY <1>1, <1>2, Typed DEF PaceInOrder, Settled
<1>4. /\ stamped' \in BOOLEAN /\ owed' \in BOOLEAN /\ sess' \in [Sessions -> Clients]
      /\ \A s \in Sessions : sess'[s].st = sess[s].st
      /\ ClientsInOrder'
  BY <1>2, <1>3, FanOutDoes
<1>5. /\ Queued > 0 => /\ epoch' \in Int /\ timer' \in 0..Nap
                       /\ timer' = Wake(epoch' + Front(vq, aq).due)
      /\ ~(Queued > 0) => epoch' = epoch /\ timer' = None
  <2>1. /\ vq \in Seq(Packets) /\ aq \in Seq(Packets) /\ Len(vq) \in Nat /\ Len(aq) \in Nat
        /\ epoch \in Int \cup {None}
    BY <1>1, Typed
  <2> QED
    BY <1>2, <2>1, ScheduleDoes DEF Queued
<1>6. pressure' \in BOOLEAN /\ (pressure' => Queued > Low) /\ (~pressure' => Queued < High)
  BY <1>1, <1>2, PressureIs, Typed
<1>7. Queued' = Queued /\ Left' = Left /\ GopBase' = GopBase
  BY <1>2 DEF Queued, Left, GopBase
<1>8. TypeOK'
  <2>1. /\ phase' \in {"discover", "binding", "serving"} /\ server' \in {"none", "binding", "open", "closed"}
        /\ mode' \in {"idle", "drain", "handoff"}
    BY <1>1, <1>2 DEF TypeOK
  <2>2. epoch' \in Int \cup {None} /\ timer' \in 0..Nap \cup {None} /\ << >> \in Seq(Packets)
    BY <1>3, <1>5
  <2> QED
    BY <1>1, <1>2, <1>4, <1>6, <1>7, <2>1, <2>2, Typed, TypedNext, Zenon
<1>9. QueuesInOrder'
  BY <1>2, <1>7 DEF IInv, QueuesInOrder
<1>10. PaceInOrder'
  <2>1. Queued > 0 => timer' # None /\ epoch' # None /\ timer' <= Wake(epoch' + Front(vq, aq).due)
    BY <1>5, ConstantsAre
  <2> QED
    BY <1>2, <1>3, <1>5, <1>6, <1>7, <2>1 DEF PaceInOrder, DeadLetsGo
<1>11. LifeInOrder'
  BY <1>1, <1>2, <1>4 DEF LifeInOrder
<1>12. HistoryInOrder'
  <2>1. Run(batch', Base')
    <3>1. frames' \in Nat /\ vq' \in Seq(Packets)
      BY <1>1, <1>2, Typed
    <3> QED
      BY <1>2, <3>1, NoBatch DEF Base, Left
  <2> QED
    BY <1>1, <1>2, <1>3, <1>7, <2>1 DEF HistoryInOrder, OneGop
<1> QED
  BY <1>4, <1>8, <1>9, <1>10, <1>11, <1>12 DEF IInv

\* Where the handoff cuts is the time of a packet, if it cuts at all.
LEMMA CutIs ==
    ASSUME TypeOK, QueuesInOrder
    PROVE  Cut \in Int \cup {None}
<1> DEFINE M == Markers(vq)
           target == vq[Last(M)].due - Delay
           keys == {i \in DOMAIN vq : vq[i].keymarker /\ vq[i].due <= target}
           T == {i \in M : vq[i].due <= target /\ vq[i].due >= vq[First(keys)].due}
<1>1. /\ vq \in Seq(Packets) /\ Len(vq) \in Nat /\ DOMAIN vq = 1..Len(vq)
      /\ \A i \in 1..Len(vq) : vq[i].due \in Int /\ (vq[i].keymarker => vq[i].marker)
  <2>1. vq \in Seq(Packets) /\ Len(vq) \in Nat
    BY Typed
  <2>2. \A i \in 1..Len(vq) : vq[i].due \in Int
    BY <2>1, PacketsIn, PacketFields
  <2> QED
    BY <2>1, <2>2, LenProperties DEF QueuesInOrder
<1>2. Cut = IF M = {} THEN None ELSE IF keys = {} THEN None ELSE vq[Last(T)].due
  BY Zenon DEF Cut
<1>3. CASE M = {} \/ keys = {}
  BY <1>2, <1>3, Zenon
<1>4. CASE M # {} /\ keys # {}
  <2>1. M \in SUBSET (1..Len(vq)) /\ \A i \in 1..Len(vq) : vq[i].marker => i \in M
    BY <1>1 DEF Markers
  <2> HIDE DEF M
  <2>2. Last(M) \in 1..Len(vq)
    BY <1>1, <1>4, <2>1, LastIs
  <2>3. target \in Int
    BY <1>1, <2>2, ConstantsAre
  <2> HIDE DEF target
  <2>4. keys \in SUBSET Nat
    BY <1>1
  <2>5. First(keys) \in keys
    BY <1>4, <2>4, FirstIs
  <2>6. First(keys) \in M /\ vq[First(keys)].due <= target /\ vq[First(keys)].due \in Int
    BY <1>1, <2>1, <2>5
  <2> HIDE DEF keys
  <2>7. First(keys) \in T
    BY <2>6
  <2>8. T \in SUBSET (1..Len(vq)) /\ T # {}
    BY <2>1, <2>7
  <2> HIDE DEF T
  <2>9. Last(T) \in 1..Len(vq)
    BY <1>1, <2>8, LastIs
  <2> QED
    BY <1>1, <1>2, <1>4, <2>9
<1> QED
  BY <1>3, <1>4

\* Discovery ends.
LEMMA HandoffNext ==
    ASSUME IInv, Handoff
    PROVE  IInv'
<1>1. TypeOK /\ QueuesInOrder /\ PaceInOrder /\ HistoryInOrder /\ LifeInOrder
  BY DEF IInv
<1>2. /\ mode = "idle" /\ ~dead /\ ~restart /\ phase = "discover"
      /\ until' = Cut /\ mode' = "handoff" /\ timer' = None
      /\ UNCHANGED <<phase, dead, restart, server, vq, aq, epoch, media, clock, frames, audios>>
      /\ UNCHANGED <<pressure, gop, overflow, batch, stamped, owed, sess>>
  BY DEF Handoff, Idle, life, queues, input, history, clients
<1>3. until' \in Int \cup {None}
  BY <1>1, <1>2, CutIs
<1>4. Queued' = Queued /\ Left' = Left /\ GopBase' = GopBase /\ Base' = Base
  BY <1>2 DEF Queued, Left, GopBase, Base
<1>5. TypeOK'
  <2>1. /\ phase' \in {"discover", "binding", "serving"} /\ server' \in {"none", "binding", "open", "closed"}
        /\ mode' \in {"idle", "drain", "handoff"}
    BY <1>1, <1>2 DEF TypeOK
  <2> QED
    BY <1>1, <1>2, <1>3, <1>4, <2>1, Typed, TypedNext, Zenon
<1>6. QueuesInOrder'
  BY <1>1, <1>2, <1>4 DEF QueuesInOrder
<1>7. PaceInOrder'
  BY <1>1, <1>2 DEF PaceInOrder, DeadLetsGo
<1>8. LifeInOrder'
  BY <1>1, <1>2 DEF LifeInOrder
<1>9. HistoryInOrder'
  BY <1>1, <1>2, <1>4 DEF HistoryInOrder, OneGop, Settled
<1>10. ClientsInOrder'
  BY <1>2, <1>4 DEF IInv, ClientsInOrder, ClientInOrder, NoneMissing, ReportOwed, FollowsOn, Settled
<1> QED
  BY <1>5, <1>6, <1>7, <1>8, <1>9, <1>10 DEF IInv

\* What the handoff keeps leaves from now on.
LEMMA HandoffEndNext ==
    ASSUME IInv, HandoffEnd
    PROVE  IInv'
<1>1. TypeOK /\ QueuesInOrder /\ PaceInOrder /\ HistoryInOrder /\ LifeInOrder
  BY DEF IInv
<1>2. /\ mode = "handoff" /\ mode' = "idle" /\ until' = None
      /\ pressure' = Pressure(Queued)
      /\ IF Queued = 0 THEN UNCHANGED pace ELSE epoch' = -Front(vq, aq).due /\ timer' = 0
      /\ phase' = "binding" /\ server' = "binding"
      /\ UNCHANGED <<dead, restart, vq, aq, media, clock, frames, audios>>
      /\ UNCHANGED <<gop, overflow, batch, stamped, owed, sess>>
  BY DEF HandoffEnd, queues, input, history, clients
<1>3. ~restart /\ ~dead /\ timer = None
  BY <1>1, <1>2 DEF PaceInOrder
<1>4. Queued' = Queued /\ Left' = Left /\ GopBase' = GopBase /\ Base' = Base
  BY <1>2 DEF Queued, Left, GopBase, Base
<1>5. pressure' \in BOOLEAN /\ (pressure' => Queued > Low) /\ (~pressure' => Queued < High)
  BY <1>1, <1>2, PressureIs, Typed
<1>6. /\ Queued > 0 => /\ epoch' \in Int /\ timer' = 0
                       /\ Wake(epoch' + Front(vq, aq).due) = 0
      /\ ~(Queued > 0) => epoch' = epoch /\ timer' = None
  <2>1. CASE Queued > 0
    <3>1. epoch' = -Front(vq, aq).due /\ timer' = 0
      BY <1>2, <2>1
    <3>2. Front(vq, aq).due \in Int
      BY <1>1, <2>1, Typed, FrontIs DEF Queued
    <3>3. epoch' \in Int /\ epoch' + Front(vq, aq).due = 0
      BY <3>1, <3>2
    <3> QED
      BY <2>1, <3>1, <3>3, WakeIs
  <2>2. CASE ~(Queued > 0)
    <3>1. Queued = 0
      BY <1>1, <2>2, Typed
    <3> QED
      BY <1>2, <1>3, <2>2, <3>1 DEF pace
  <2> QED
    BY <2>1, <2>2
<1>7. TypeOK'
  <2>1. /\ phase' \in {"discover", "binding", "serving"} /\ server' \in {"none", "binding", "open", "closed"}
        /\ mode' \in {"idle", "drain", "handoff"} /\ until' \in Int \cup {None}
    BY <1>2
  <2>2. epoch' \in Int \cup {None} /\ timer' \in 0..Nap \cup {None}
    BY <1>1, <1>6, Typed, ConstantsAre, SMTT(30)
  <2> QED
    BY <1>1, <1>2, <1>4, <1>5, <2>1, <2>2, Typed, TypedNext, Zenon
<1>8. QueuesInOrder'
  BY <1>1, <1>2, <1>4 DEF QueuesInOrder
<1>9. PaceInOrder'
  <2>1. Queued > 0 => timer' # None /\ epoch' # None /\ timer' <= Wake(epoch' + Front(vq, aq).due)
    BY <1>6, ConstantsAre
  <2> QED
    BY <1>2, <1>3, <1>4, <1>5, <1>6, <2>1 DEF PaceInOrder, DeadLetsGo
<1>10. LifeInOrder'
  BY <1>1, <1>2 DEF LifeInOrder
<1>11. HistoryInOrder'
  BY <1>1, <1>2, <1>4 DEF HistoryInOrder, OneGop, Settled
<1>12. ClientsInOrder'
  BY <1>2, <1>4 DEF IInv, ClientsInOrder, ClientInOrder, NoneMissing, ReportOwed, FollowsOn, Settled
<1> QED
  BY <1>7, <1>8, <1>9, <1>10, <1>11, <1>12 DEF IInv

-----------------------------------------------------------------------------
(* The life of the generation, and its clients. *)

\* The end of a listener's binding: for a generation that is dead it closes.
LEMMA ListenUpNext ==
    ASSUME IInv, ListenUp
    PROVE  IInv'
<1>1. TypeOK /\ QueuesInOrder /\ PaceInOrder /\ HistoryInOrder /\ LifeInOrder
  BY DEF IInv
<1>2. /\ mode = "idle" /\ (restart => dead) /\ server = "binding"
      /\ server' = IF dead THEN "closed" ELSE "open"
      /\ phase' = IF dead THEN phase ELSE "serving"
      /\ UNCHANGED <<dead, restart, mode, vq, aq, epoch, timer, media, clock, frames, audios>>
      /\ UNCHANGED <<pressure, gop, overflow, batch, until, stamped, owed, sess>>
  BY DEF ListenUp, Idle, queues, pace, input, history, clients
<1>3. Queued' = Queued /\ Left' = Left /\ GopBase' = GopBase /\ Base' = Base
  BY <1>2 DEF Queued, Left, GopBase, Base
<1>4. TypeOK'
  <2>1. /\ phase' \in {"discover", "binding", "serving"} /\ server' \in {"none", "binding", "open", "closed"}
        /\ mode' \in {"idle", "drain", "handoff"}
    BY <1>1, <1>2 DEF TypeOK
  <2> QED
    BY <1>1, <1>2, <1>3, <2>1, Typed, TypedNext, ZenonT(30)
<1>5. QueuesInOrder'
  BY <1>1, <1>2, <1>3 DEF QueuesInOrder
<1>6. PaceInOrder'
  <2>1. DeadLetsGo'
    BY <1>1, <1>2, <1>3 DEF PaceInOrder, DeadLetsGo
  <2> QED
    BY <1>1, <1>2, <1>3, <2>1 DEF PaceInOrder
<1>7. LifeInOrder'
  BY <1>1, <1>2 DEF LifeInOrder
<1>8. HistoryInOrder'
  BY <1>1, <1>2, <1>3 DEF HistoryInOrder, OneGop, Settled
<1>9. ClientsInOrder'
  BY <1>2, <1>3 DEF IInv, ClientsInOrder, ClientInOrder, NoneMissing, ReportOwed, FollowsOn, Settled
<1> QED
  BY <1>4, <1>5, <1>6, <1>7, <1>8, <1>9 DEF IInv

\* Time passes: the timer comes nearer with the packet it is armed for.
LEMMA TickNext ==
    ASSUME IInv, Tick
    PROVE  IInv'
<1>1. TypeOK /\ QueuesInOrder /\ PaceInOrder /\ HistoryInOrder /\ LifeInOrder
  BY DEF IInv
<1>2. /\ mode = "idle" /\ ~restart /\ ~dead
      /\ epoch' = IF epoch = None THEN None ELSE IF TooLate THEN epoch ELSE epoch - 1
      /\ timer' = IF timer = None THEN None ELSE IF timer > 0 THEN timer - 1 ELSE 0
      /\ UNCHANGED <<phase, dead, restart, server, mode, vq, aq, media, clock, frames, audios>>
      /\ UNCHANGED <<pressure, gop, overflow, batch, until, stamped, owed, sess>>
  BY DEF Tick, Idle, life, queues, input, history, clients
<1>3. Queued' = Queued /\ Left' = Left /\ GopBase' = GopBase /\ Base' = Base
  BY <1>2 DEF Queued, Left, GopBase, Base
<1>4. /\ vq \in Seq(Packets) /\ aq \in Seq(Packets) /\ Len(vq) \in Nat /\ Len(aq) \in Nat
      /\ Queued \in Nat /\ epoch \in Int \cup {None} /\ timer \in 0..Nap \cup {None}
  BY <1>1, Typed
<1>5. epoch' \in Int \cup {None}
  BY <1>2, <1>4
<1>6. Queued = 0 => timer' = None
  BY <1>1, <1>2 DEF PaceInOrder
<1>7. ASSUME Queued > 0
      PROVE  /\ epoch' \in Int /\ timer' \in 0..Nap
             /\ timer' <= Wake(epoch' + Front(vq, aq).due)
  <2> DEFINE due == Front(vq, aq).due
             x == epoch + due
  <2>1. /\ timer # None /\ epoch # None /\ epoch \in Int /\ timer \in 0..Nap
        /\ timer <= Wake(x)
    BY <1>1, <1>2, <1>4, <1>7 DEF PaceInOrder
  <2>2. due \in Int
    BY <1>4, <1>7, FrontIs DEF Queued
  <2>3. x \in Int
    BY <2>1, <2>2
  <2>4. Nap \in Nat /\ MaxLate \in Nat
    BY ConstantsAre
  <2>5. CASE TooLate
    <3>1. due \in Dues(vq) \cup Dues(aq)
      <4>1. /\ VideoFirst(vq, aq) => vq # << >> /\ Front(vq, aq) = vq[1]
            /\ ~VideoFirst(vq, aq) => aq # << >> /\ Front(vq, aq) = aq[1]
        BY <1>4, <1>7, FrontIs DEF Queued
      <4>2. /\ vq # << >> => 1 \in DOMAIN vq
            /\ aq # << >> => 1 \in DOMAIN aq
        BY <1>4, PacketsIn, LenProperties
      <4> QED
        BY <4>1, <4>2 DEF Dues
    <3> HIDE DEF due
    <3>2. x < -MaxLate
      BY <2>5, <3>1 DEF TooLate
    <3>3. ~(x > 0)
      BY <2>3, <2>4, <3>2
    <3>4. timer <= 0
      BY <2>1, <2>3, <3>3, WakeIs, Zenon
    <3>5. timer' = timer /\ epoch' = epoch
      BY <1>2, <2>1, <2>4, <2>5, <3>4
    <3> QED
      BY <2>1, <3>5 DEF due
  <2>6. CASE ~TooLate
    <3> HIDE DEF due
    <3>1. epoch' = epoch - 1 /\ epoch' \in Int /\ epoch' + due = x - 1 /\ x - 1 \in Int
      BY <1>2, <2>1, <2>2, <2>6
    <3> HIDE DEF x
    <3>2. Wake(x - 1) \in 0..Nap
      BY <3>1, WakeIs
    <3>3. CASE timer > 0
      <4>1. timer' = timer - 1 /\ timer' \in 0..Nap
        BY <1>2, <2>1, <2>4, <3>3
      <4>2. timer - 1 <= Wake(x - 1)
        BY <2>1, <2>3, <3>3, WakeIs, Zenon
      <4> QED
        BY <3>1, <4>1, <4>2 DEF due
    <3>4. CASE ~(timer > 0)
      <4>1. timer' = 0
        BY <1>2, <2>1, <3>4
      <4>2. 0 <= Wake(x - 1) /\ 0 \in 0..Nap
        BY <2>4, <3>2
      <4> QED
        BY <3>1, <4>1, <4>2 DEF due
    <3> QED
      BY <3>3, <3>4
  <2> QED
    BY <2>5, <2>6
<1>8. TypeOK'
  <2>1. /\ phase' \in {"discover", "binding", "serving"} /\ server' \in {"none", "binding", "open", "closed"}
        /\ mode' \in {"idle", "drain", "handoff"}
    BY <1>1, <1>2 DEF TypeOK
  <2>2. timer' \in 0..Nap \cup {None}
    BY <1>4, <1>6, <1>7
  <2> QED
    BY <1>1, <1>2, <1>3, <1>5, <2>1, <2>2, Typed, TypedNext, Zenon
<1>9. QueuesInOrder'
  BY <1>1, <1>2, <1>3 DEF QueuesInOrder
<1>10. PaceInOrder'
  <2>1. Queued > 0 => timer' # None /\ epoch' # None /\ timer' <= Wake(epoch' + Front(vq, aq).due)
    BY <1>7, ConstantsAre
  <2>2. Queued > 0 \/ Queued = 0
    BY <1>4
  <2> QED
    BY <1>1, <1>2, <1>3, <1>6, <2>1, <2>2 DEF PaceInOrder, DeadLetsGo
<1>11. LifeInOrder'
  BY <1>1, <1>2 DEF LifeInOrder
<1>12. HistoryInOrder'
  BY <1>1, <1>2, <1>3 DEF HistoryInOrder, OneGop, Settled
<1>13. ClientsInOrder'
  BY <1>2, <1>3 DEF IInv, ClientsInOrder, ClientInOrder, NoneMissing, ReportOwed, FollowsOn, Settled
<1> QED
  BY <1>8, <1>9, <1>10, <1>11, <1>12, <1>13 DEF IInv

\* A generation that is asked to end does, and so does one whose feed closes.
LEMMA EndsNext ==
    ASSUME IInv, RestartEnds \/ FeedCloses
    PROVE  IInv'
<1>1. mode = "idle" /\ Destroy
  BY DEF IInv, PaceInOrder, RestartEnds, FeedCloses, Idle
<1> QED
  BY <1>1, DestroyKeeps

\* A restart that is asked for empties the queues.
LEMMA RestartNext ==
    ASSUME IInv, ContractBreaks \/ Stalls
    PROVE  IInv'
<1>1. TypeOK
  BY DEF IInv
<1>2. /\ mode = "idle" /\ ~dead /\ Restart
      /\ UNCHANGED <<phase, dead, server, mode, epoch, input, history, batch, until, clients>>
  BY DEF ContractBreaks, Stalls, Idle
<1>3. batch' = << >>
  BY <1>2 DEF IInv, HistoryInOrder
<1>4. media' \in Nat /\ clock' \in Nat /\ frames' \in Nat /\ audios' \in Nat
  BY <1>1, <1>2, Typed DEF input
<1>5. UNCHANGED <<phase, dead, server, mode, epoch, history, until, clients>>
  BY <1>2
<1> QED
  BY <1>2, <1>3, <1>4, <1>5, RestartKeeps

\* A step of clients only, after which each is in order.
LEMMA ClientsKeep ==
    ASSUME IInv, Idle,
           UNCHANGED <<life, mode, queues, pace, input, pressure, history, batch, until>>,
           stamped' \in BOOLEAN, owed' \in BOOLEAN, sess' \in [Sessions -> Clients],
           server = "open" \/ \A s \in Sessions : sess'[s].st = "none",
           dead => \A s \in Sessions : sess'[s].st = "none",
           \A s \in Sessions : /\ NoneMissing(sess[s])' /\ ReportOwed(sess[s])'
                               /\ FollowsOn(sess[s])'
    PROVE  IInv'
<1>1. TypeOK /\ QueuesInOrder /\ PaceInOrder /\ HistoryInOrder /\ LifeInOrder
  BY DEF IInv
<1>2. /\ mode = "idle"
      /\ UNCHANGED <<phase, dead, restart, server, mode, vq, aq, epoch, timer, media, clock>>
      /\ UNCHANGED <<frames, audios, pressure, gop, overflow, batch, until>>
  BY DEF Idle, life, queues, pace, input, history
<1>3. Queued' = Queued /\ Left' = Left /\ GopBase' = GopBase /\ Base' = Base
  BY <1>2 DEF Queued, Left, GopBase, Base
<1>4. TypeOK'
  <2>1. /\ phase' \in {"discover", "binding", "serving"} /\ server' \in {"none", "binding", "open", "closed"}
        /\ mode' \in {"idle", "drain", "handoff"}
    BY <1>1, <1>2 DEF TypeOK
  <2> QED
    BY <1>1, <1>2, <1>3, <2>1, Typed, TypedNext, Zenon
<1>5. QueuesInOrder'
  BY <1>1, <1>2, <1>3 DEF QueuesInOrder
<1>6. PaceInOrder'
  <2>1. DeadLetsGo'
    BY <1>1, <1>2, <1>3 DEF PaceInOrder, DeadLetsGo
  <2> QED
    BY <1>1, <1>2, <1>3, <2>1 DEF PaceInOrder
<1>7. LifeInOrder'
  BY <1>1, <1>2 DEF LifeInOrder
<1>8. HistoryInOrder'
  BY <1>1, <1>2, <1>3 DEF HistoryInOrder, OneGop, Settled
<1>9. ClientsInOrder'
  BY DEF ClientsInOrder, ClientInOrder
<1> QED
  BY <1>4, <1>5, <1>6, <1>7, <1>8, <1>9 DEF IInv

\* A step of one client.
LEMMA ClientKeeps ==
    ASSUME IInv, NEW s \in Sessions, NEW c \in Clients, Client(s, c), server = "open",
           stamped' \in BOOLEAN, owed' \in BOOLEAN, owed => owed',
           NoneMissing(c), FollowsOn(c),
           c.st = "playing" /\ ~c.broke /\ ~c.sr => owed' /\ c.count = 0
    PROVE  IInv'
<1>1. /\ sess \in [Sessions -> Clients] /\ ClientsInOrder /\ ~dead /\ Settled
      /\ stamped \in BOOLEAN /\ owed \in BOOLEAN
  BY Typed DEF IInv, PaceInOrder, DeadLetsGo, Client, Idle, Settled
<1>2. /\ Idle /\ sess' = [sess EXCEPT ![s] = c]
      /\ UNCHANGED <<life, mode, queues, pace, input, pressure, history, batch, until>>
  BY DEF Client
<1>3. sess' \in [Sessions -> Clients]
  BY <1>1, <1>2
<1>4. Base' = Base
  BY <1>2 DEF Base, Left, queues, input
<1>5. ASSUME NEW t \in Sessions
      PROVE  NoneMissing(sess[t])' /\ ReportOwed(sess[t])' /\ FollowsOn(sess[t])'
  <2>1. CASE t = s
    <3>1. sess'[t] = c
      BY <1>1, <1>2, <2>1
    <3> QED
      BY <1>4, <3>1 DEF NoneMissing, ReportOwed, FollowsOn
  <2>2. CASE t # s
    <3>1. sess'[t] = sess[t]
      BY <1>1, <1>2, <2>2
    <3>2. NoneMissing(sess[t]) /\ ReportOwed(sess[t]) /\ FollowsOn(sess[t])
      BY <1>1 DEF ClientsInOrder, ClientInOrder
    <3> QED
      BY <1>4, <3>1, <3>2 DEF NoneMissing, ReportOwed, FollowsOn
  <2> QED
    BY <2>1, <2>2
<1> QED
  BY <1>1, <1>2, <1>3, <1>5, ClientsKeep

\* A client that connects has been sent nothing, and one that leaves is forgotten.
LEMMA ConnectNext ==
    ASSUME IInv, NEW s \in Sessions, Connect(s) \/ Leave(s)
    PROVE  IInv'
<1>1. /\ sess \in [Sessions -> Clients] /\ stamped \in BOOLEAN /\ owed \in BOOLEAN
  BY Typed DEF IInv
<1> DEFINE ready == [NoSession EXCEPT !.st = "ready"]
<1>2. ASSUME NEW c, c \in {NoSession, ready}
      PROVE  c \in Clients /\ c.st \in {"none", "ready"} /\ ~c.broke /\ c.count = 0 /\ c.from = None
  <2>1. CASE c = NoSession
    BY <2>1 DEF NoSession, Clients
  <2>2. CASE c = ready
    BY <2>2 DEF NoSession, Clients
  <2> QED
    BY <1>2, <2>1, <2>2
<1>3. ASSUME NEW c \in {NoSession, ready} PROVE NoneMissing(c) /\ FollowsOn(c)
  <2>1. c.st \in {"none", "ready"} /\ ~c.broke /\ c.count = 0 /\ c.from = None
    BY <1>2
  <2> QED
    BY <2>1 DEF NoneMissing, FollowsOn
<1>4. server = "open"
  BY DEF Connect, Leave, IInv, LifeInOrder
<1>5. PICK c \in {NoSession, ready} : Client(s, c) /\ stamped' = stamped /\ owed' = owed
  BY DEF Connect, Leave
<1> HIDE DEF ready
<1> QED
  BY <1>1, <1>2, <1>3, <1>4, <1>5, ClientKeeps

\* A client that pauses misses what leaves meanwhile.
LEMMA PauseNext ==
    ASSUME IInv, NEW s \in Sessions, Pause(s) \/ Unpause(s)
    PROVE  IInv'
<1> DEFINE c == sess[s]
           d == IF c.st = "playing" THEN [c EXCEPT !.st = "paused", !.broke = TRUE]
                ELSE [c EXCEPT !.st = "playing"]
<1>1. /\ c \in Clients /\ stamped \in BOOLEAN /\ owed \in BOOLEAN
      /\ NoneMissing(c) /\ ReportOwed(c)
  BY Typed DEF IInv, ClientsInOrder, ClientInOrder
<1>2. /\ c.st \in {"playing", "paused"} /\ Client(s, d) /\ stamped' = stamped /\ owed' = owed
      /\ Settled
  BY DEF Pause, Unpause, Client, Idle, Settled
<1>3. server = "open"
  BY <1>2 DEF IInv, LifeInOrder
<1>4. FollowsOn(c)
  BY <1>2 DEF IInv, ClientsInOrder
<1>5. c = [st |-> c.st, from |-> c.from, upto |-> c.upto, count |-> c.count,
           broke |-> c.broke, sr |-> c.sr]
  BY <1>1 DEF Clients
<1> HIDE DEF c
<1>6. d = [st |-> IF c.st = "playing" THEN "paused" ELSE "playing", from |-> c.from,
           upto |-> c.upto, count |-> c.count, broke |-> TRUE, sr |-> c.sr]
  <2>1. CASE c.st = "playing"
    BY <1>5, <2>1, Zenon
  <2>2. CASE c.st # "playing"
    <3>1. c.broke = TRUE
      BY <1>1, <1>2, <2>2, ClientFields DEF NoneMissing
    <3> QED
      BY <1>5, <2>2, <3>1
  <2> QED
    BY <2>1, <2>2
<1> HIDE DEF d
<1>7. /\ d \in Clients /\ d.st \in {"playing", "paused"} /\ d.broke
      /\ d.from = c.from /\ d.upto = c.upto /\ d.count = c.count
  BY <1>1, <1>6, ClientFields DEF Clients
<1>8. NoneMissing(d)
  BY <1>1, <1>7 DEF NoneMissing
<1>9. FollowsOn(d)
  BY <1>4, <1>7 DEF FollowsOn
<1> QED
  BY <1>1, <1>2, <1>3, <1>7, <1>8, <1>9, ClientKeeps

\* A client that joins has the history, which ends where the queues begin, and
\* the report or a claim to it.
LEMMA PlayNext ==
    ASSUME IInv, NEW s \in Sessions, Play(s)
    PROVE  IInv'
<1> DEFINE c == [sess[s] EXCEPT !.st = "playing"]
           d == Sent(c, gop)
           now == stamped \/ Video(gop) # {}
           e == IF now THEN Reported(d) ELSE d
<1>1. /\ sess \in [Sessions -> Clients] /\ stamped \in BOOLEAN /\ owed \in BOOLEAN
      /\ gop \in Seq(Packets) /\ vq \in Seq(Packets) /\ frames \in Nat
      /\ NoneMissing(sess[s]) /\ HistoryInOrder
  BY Typed DEF IInv, ClientsInOrder, ClientInOrder
<1>2. /\ sess[s].st = "ready" /\ Client(s, e) /\ mode = "idle" /\ Settled
      /\ stamped' = now /\ owed' = (owed \/ ~now)
  BY DEF Play, Bootstrap, Client, Idle, Settled
<1>3. server = "open"
  BY <1>2 DEF IInv, LifeInOrder
<1>4. /\ sess[s] \in Clients /\ ~sess[s].broke /\ sess[s].count = 0 /\ sess[s].from = None
  BY <1>1, <1>2 DEF NoneMissing
<1>5. /\ c \in Clients /\ c.st = "playing" /\ ~c.broke /\ c.count = 0 /\ c.from = None
  BY <1>4 DEF Clients
<1> HIDE DEF c
<1>6. NoneMissing(c)
  BY <1>5 DEF NoneMissing
<1>7. Run(gop, GopBase) /\ GopBase \in Int /\ Ahead(gop, GopBase) = Base
  <2>1. /\ Cardinality(Video(gop)) \in Nat /\ Len(vq) \in Nat
        /\ Cardinality(Video(batch)) = 0
    BY <1>1, <1>2, VideoIs, PacketsIn, EmptyRun DEF HistoryInOrder
  <2> QED
    BY <1>1, <1>2, <2>1 DEF HistoryInOrder, GopBase, Base, Left, Ahead
<1>8. c.count > 0 => c.upto < GopBase /\ (~c.broke => c.upto + 1 = GopBase)
  BY <1>5
<1>9. /\ d \in Clients /\ d.st = "playing" /\ d.broke = c.broke
      /\ Video(gop) = {} => d = c
      /\ d.count = 0 => d.from = None
      /\ d.count > 0 => /\ d.from # None /\ d.upto # None
                        /\ d.count <= d.upto - d.from + 1
                        /\ ~d.broke => d.count = d.upto - d.from + 1
      /\ d.count > 0 => d.upto < Base /\ (~d.broke => d.upto + 1 = Base)
  BY <1>1, <1>5, <1>6, <1>7, <1>8, SentIs
<1> HIDE DEF d
<1>10. /\ e \in Clients /\ e.st = d.st /\ e.broke = d.broke
       /\ e.from = d.from /\ e.upto = d.upto /\ e.count = d.count
       /\ now => e.sr
       /\ ~now => e = d
  BY <1>9, ReportedIs
<1>11. ~now => Video(gop) = {}
  OBVIOUS
<1>12. now \in BOOLEAN
  BY <1>1
<1> HIDE DEF now, e
<1>13. NoneMissing(e) /\ FollowsOn(e)
  BY <1>9, <1>10 DEF NoneMissing, FollowsOn
<1>14. ~e.sr => owed' /\ e.count = 0
  BY <1>2, <1>5, <1>9, <1>10, <1>11
<1>15. stamped' \in BOOLEAN /\ owed' \in BOOLEAN /\ (owed => owed')
  BY <1>1, <1>2, <1>12
<1> QED
  BY <1>2, <1>3, <1>10, <1>13, <1>14, <1>15, ClientKeeps

\* The periodic report goes to all.
LEMMA ReportNext ==
    ASSUME IInv, Report
    PROVE  IInv'
<1>1. /\ sess \in [Sessions -> Clients] /\ stamped \in BOOLEAN /\ owed \in BOOLEAN
      /\ ClientsInOrder /\ ~dead /\ Settled
  BY Typed DEF IInv, Report, Idle, Settled
<1>2. /\ Idle /\ sess' = [t \in Sessions |-> Reported(sess[t])]
      /\ UNCHANGED <<life, mode, queues, pace, input, pressure, history, batch, until, stamped, owed>>
  BY DEF Report
<1>3. Base' = Base /\ owed' = owed /\ stamped' = stamped
  BY <1>2 DEF Base, Left, queues, input
<1>4. ASSUME NEW s \in Sessions
      PROVE  /\ sess'[s] \in Clients /\ sess'[s].st = sess[s].st
             /\ NoneMissing(sess[s])' /\ ReportOwed(sess[s])' /\ FollowsOn(sess[s])'
  <2> DEFINE c == sess[s]
             d == sess'[s]
  <2>1. c \in Clients /\ NoneMissing(c) /\ ReportOwed(c) /\ FollowsOn(c)
    BY <1>1 DEF ClientsInOrder, ClientInOrder
  <2>2. d = Reported(c)
    BY <1>2
  <2>3. /\ d \in Clients /\ d.st = c.st /\ d.broke = c.broke
        /\ d.from = c.from /\ d.upto = c.upto /\ d.count = c.count
        /\ c.sr => d.sr
    BY <2>1, <2>2, ReportedIs
  <2>4. NoneMissing(d) /\ (d.st = "playing" /\ ~d.broke /\ ~d.sr => owed /\ d.count = 0)
        /\ FollowsOn(d)
    BY <2>1, <2>3 DEF NoneMissing, ReportOwed, FollowsOn
  <2> QED
    BY <1>3, <2>3, <2>4 DEF NoneMissing, ReportOwed, FollowsOn
<1>5. sess' \in [Sessions -> Clients]
  BY <1>2, <1>4
<1>6. server = "open" \/ \A s \in Sessions : sess'[s].st = "none"
  BY <1>4 DEF IInv, LifeInOrder
<1> QED
  BY <1>1, <1>2, <1>3, <1>4, <1>5, <1>6, ClientsKeep

-----------------------------------------------------------------------------
(* The wait of the packet in front is bounded. *)

\* The packet in front is not farther ahead than a schedule may reach.
FrontIsNear == mode = "idle" /\ Queued > 0 => epoch + Front(vq, aq).due <= MaxFuture

\* What joins the queues does not put off the packet in front.
LEMMA FrontLeads ==
    ASSUME NEW v \in Seq(Packets), NEW a \in Seq(Packets),
           NEW w \in Seq(Packets), NEW b \in Seq(Packets), Len(w) + Len(b) > 0,
           w # << >> => v # << >> /\ v[1] = w[1],
           b # << >> => a # << >> /\ a[1] = b[1]
    PROVE  Front(v, a).due <= Front(w, b).due
<1>1. Len(v) + Len(a) > 0
  <2>1. w # << >> \/ b # << >>
    BY PacketsIn
  <2>2. v # << >> \/ a # << >>
    BY <2>1
  <2> QED
    BY <2>2, PacketsIn
<1>2. /\ v # << >> => v[1].due \in Int /\ Front(v, a).due <= v[1].due
      /\ a # << >> => a[1].due \in Int /\ Front(v, a).due <= a[1].due
  <2>1. /\ v # << >> => Head(v) = v[1] /\ v[1] \in Packets
        /\ a # << >> => Head(a) = a[1] /\ a[1] \in Packets
    BY PacketsIn
  <2>2. /\ v # << >> => v[1].due \in Int
        /\ a # << >> => a[1].due \in Int
    BY <2>1, PacketFields
  <2> QED
    BY <2>1, <2>2 DEF Front, VideoFirst
<1>3. /\ VideoFirst(w, b) => w # << >> /\ Front(w, b) = w[1]
      /\ ~VideoFirst(w, b) => b # << >> /\ Front(w, b) = b[1]
  BY FrontIs
<1> QED
  BY <1>2, <1>3

\* enqueue() arms for a packet that is near: the one the timer stands for, or one
\* the schedule reaches.
LEMMA EnqueueNear ==
    ASSUME IInv, FrontIsNear, mode = "idle", ~restart,
           NEW v \in Seq(Packets), NEW a \in Seq(Packets), Enqueue(v, a), Len(v) + Len(a) > 0,
           vq # << >> => v # << >> /\ v[1] = vq[1],
           aq # << >> => a # << >> /\ a[1] = aq[1]
    PROVE  FrontIsNear'
<1>1. TypeOK /\ PaceInOrder
  BY DEF IInv
<1>2. CASE Full(Len(v) + Len(a))
  <2>1. vq' = << >> /\ aq' = << >>
    BY <1>2 DEF Enqueue, Restart
  <2> QED
    BY <2>1 DEF FrontIsNear, Queued
<1>3. CASE ~Full(Len(v) + Len(a))
  <2>1. /\ vq' = v /\ aq' = a
        /\ IF TimerStands(v, a) THEN UNCHANGED pace ELSE Schedule(v, a)
    BY <1>3, Zenon DEF Enqueue
  <2>2. CASE TimerStands(v, a)
    <3>1. Queued > 0 /\ epoch \in Int /\ epoch' = epoch
      BY <1>1, <2>1, <2>2, Typed DEF TimerStands, PaceInOrder, pace
    <3>2. Front(v, a).due \in Int /\ Front(vq, aq).due \in Int
      BY <1>1, <3>1, Typed, FrontIs DEF Queued
    <3>3. Front(v, a).due <= Front(vq, aq).due
      BY <1>1, <3>1, Typed, FrontLeads DEF Queued
    <3>4. epoch + Front(vq, aq).due <= MaxFuture
      BY <3>1 DEF FrontIsNear
    <3> QED
      BY <2>1, <3>1, <3>2, <3>3, <3>4, ConstantsAre DEF FrontIsNear
  <2>3. CASE ~TimerStands(v, a)
    <3>1. epoch' + Front(v, a).due <= MaxFuture
      BY <1>1, <2>1, <2>3, Typed, ScheduleDoes
    <3> QED
      BY <2>1, <3>1 DEF FrontIsNear
  <2> QED
    BY <2>2, <2>3
<1> QED
  BY <1>2, <1>3

\* No step leaves the packet in front waiting for a moment that is far ahead.
LEMMA StaysNear == IInv /\ FrontIsNear /\ [Next]_vars => FrontIsNear'
<1> SUFFICES ASSUME IInv, FrontIsNear, [Next]_vars PROVE FrontIsNear'
  OBVIOUS
<1>1. TypeOK
  BY DEF IInv
<1>2. ASSUME vq' = << >>, aq' = << >> PROVE FrontIsNear'
  BY <1>2 DEF FrontIsNear, Queued
<1>3. ASSUME UNCHANGED <<vq, aq, epoch, mode>> PROVE FrontIsNear'
  BY <1>3 DEF FrontIsNear, Queued
<1>4. ASSUME NEW d \in Deltas, NEW w \in Spreads, NEW key \in BOOLEAN, Frame(d, w, key)
      PROVE  FrontIsNear'
  <2> DEFINE t == IF media + d < 0 THEN 0 ELSE media + d
             au == AccessUnit(t, w, key)
             v == vq \o au
  <2>1. mode = "idle" /\ ~restart /\ Enqueue(v, aq)
    BY <1>4 DEF Frame, Idle
  <2>2. /\ w \in Nat /\ frames \in Nat /\ vq \in Seq(Packets) /\ aq \in Seq(Packets)
        /\ Len(vq) \in Nat /\ Len(aq) \in Nat /\ media \in Nat /\ d \in Int
    BY <1>1, Typed, EgressConstants
  <2>3. t \in Nat
    BY <2>2
  <2> HIDE DEF t
  <2>4. au \in Seq(Packets) /\ Len(au) \in {1, 2}
    BY <2>2, <2>3, UnitIs, Zenon
  <2> HIDE DEF au
  <2>5. Len(au) > 0
    BY <2>4
  <2>6. v \in Seq(Packets) /\ Len(v) + Len(aq) > 0
    BY <2>2, <2>4, <2>5
  <2>7. vq # << >> => v # << >> /\ v[1] = vq[1]
    BY <2>2, <2>4, PacketsIn
  <2> HIDE DEF v
  <2> QED
    BY <2>1, <2>2, <2>6, <2>7, EnqueueNear
<1>5. ASSUME NEW follow \in BOOLEAN, Audio(follow)
      PROVE  FrontIsNear'
  <2> DEFINE p == Packet("audio", audios, clock', FALSE, TRUE, TRUE)
             a == Append(aq, p)
  <2>1. /\ mode = "idle" /\ ~restart /\ Enqueue(vq, a)
        /\ clock' = IF follow /\ media > clock THEN media ELSE clock + 1
    BY <1>5 DEF Audio, Idle
  <2>2. /\ vq \in Seq(Packets) /\ aq \in Seq(Packets) /\ Len(vq) \in Nat /\ Len(aq) \in Nat
        /\ audios \in Nat /\ clock' \in Int
    BY <1>1, <2>1, Typed
  <2>3. p \in Packets
    BY <2>2 DEF Packet, Packets
  <2> HIDE DEF p
  <2>4. /\ a \in Seq(Packets) /\ Len(vq) + Len(a) > 0
        /\ aq # << >> => a # << >> /\ a[1] = aq[1]
    BY <2>2, <2>3, AppendProperties, PacketsIn
  <2> HIDE DEF a
  <2> QED
    BY <2>1, <2>2, <2>4, EnqueueNear
<1>6. CASE ContractBreaks \/ Stalls
  BY <1>2, <1>6 DEF ContractBreaks, Stalls, Restart
<1>7. CASE FeedCloses \/ RestartEnds
  BY <1>2, <1>7 DEF FeedCloses, RestartEnds, Destroy
<1>8. CASE Drain
  <2>1. (vq' = << >> /\ aq' = << >>) \/ mode' = "drain"
    BY <1>8 DEF Drain, Restart
  <2> QED
    BY <1>2, <2>1 DEF FrontIsNear
<1>9. CASE DrainPacket \/ Handoff \/ HandoffPacket
  BY <1>9 DEF DrainPacket, Handoff, HandoffPacket, FrontIsNear
<1>10. CASE DrainEnd
  <2>1. Schedule(vq, aq) /\ vq' = vq /\ aq' = aq
    BY <1>10 DEF DrainEnd, queues
  <2>2. Queued > 0 => epoch' + Front(vq, aq).due <= MaxFuture
    BY <1>1, <2>1, Typed, ScheduleDoes DEF Queued
  <2> QED
    BY <2>1, <2>2 DEF FrontIsNear, Queued
<1>11. CASE HandoffEnd
  <2>1. vq' = vq /\ aq' = aq /\ (Queued = 0 \/ epoch' = -Front(vq, aq).due)
    BY <1>11 DEF HandoffEnd, queues
  <2>2. Queued > 0 => Front(vq, aq).due \in Int
    BY <1>1, Typed, FrontIs DEF Queued
  <2>3. Queued > 0 => epoch' + Front(vq, aq).due <= MaxFuture
    BY <2>1, <2>2, ConstantsAre, SMTT(30)
  <2> QED
    BY <2>1, <2>3 DEF FrontIsNear, Queued
<1>12. CASE ListenUp \/ ClientNext
  BY <1>3, <1>12 DEF ListenUp, ClientNext, Connect, Play, Pause, Unpause, Leave, Report, Client, queues, pace
<1>13. CASE Tick
  <2>1. /\ mode = "idle" /\ mode' = mode /\ vq' = vq /\ aq' = aq
        /\ epoch' = IF epoch = None THEN None ELSE IF TooLate THEN epoch ELSE epoch - 1
    BY <1>13 DEF Tick, Idle, queues
  <2>2. ASSUME Queued > 0
        PROVE  epoch' + Front(vq, aq).due <= MaxFuture
    <3>1. /\ epoch \in Int /\ epoch # None /\ Front(vq, aq).due \in Int
          /\ epoch + Front(vq, aq).due <= MaxFuture
      BY <1>1, <2>1, <2>2, Typed, FrontIs DEF IInv, PaceInOrder, FrontIsNear, Queued
    <3> QED
      BY <2>1, <3>1, ConstantsAre
  <2> QED
    BY <2>1, <2>2 DEF FrontIsNear, Queued
<1>14. CASE UNCHANGED vars
  BY <1>3, <1>14 DEF vars, queues, pace
<1> QED
  BY <1>4, <1>5, <1>6, <1>7, <1>8, <1>9, <1>10, <1>11, <1>12, <1>13, <1>14
     DEF Next, FeedNext, PaceNext, LifeNext

-----------------------------------------------------------------------------
(* The theorems. *)

\* Nothing has come yet.
LEMMA InitHolds == Init => IInv
<1> SUFFICES ASSUME Init PROVE IInv
  OBVIOUS
<1>1. /\ phase = "discover" /\ dead = FALSE /\ restart = FALSE /\ server = "none" /\ mode = "idle"
      /\ vq = << >> /\ aq = << >> /\ epoch = None /\ timer = None
      /\ media = 0 /\ clock = 0 /\ frames = 0 /\ audios = 0 /\ pressure = FALSE
      /\ gop = << >> /\ overflow = FALSE /\ batch = << >> /\ until = None
      /\ stamped = FALSE /\ owed = FALSE /\ sess = [s \in Sessions |-> NoSession]
  BY DEF Init
<1>2. << >> \in Seq(Packets) /\ Len(vq) = 0 /\ Len(aq) = 0 /\ Len(gop) = 0 /\ Queued = 0
  BY <1>1 DEF Queued
<1>3. NoSession \in Clients /\ NoSession.st = "none" /\ ~NoSession.broke
      /\ NoSession.count = 0 /\ NoSession.from = None
  BY DEF NoSession, Clients
<1>4. \A s \in Sessions : sess[s] = NoSession
  BY <1>1
<1>5. TypeOK
  <2>1. {vq, aq, gop, batch} \subseteq Seq(Packets) /\ {media, clock, frames, audios} \subseteq Nat
    BY <1>1, <1>2
  <2>2. {pressure, overflow, stamped, owed} \subseteq BOOLEAN
    BY <1>1
  <2>3. sess \in [Sessions -> Clients]
    BY <1>1, <1>3
  <2>4. Queued <= MaxQueue /\ Len(gop) <= MaxGop
    BY <1>2, ConstantsAre
  <2>5. sess \in [Sessions -> [st : {"none", "ready", "playing", "paused"},
                               from : Nat \cup {None}, upto : Nat \cup {None}, count : Nat,
                               broke : BOOLEAN, sr : BOOLEAN]]
    BY <2>3, Zenon DEF Clients
  <2> QED
    BY <1>1, <2>1, <2>2, <2>4, <2>5 DEF TypeOK
<1>6. QueuesInOrder
  BY <1>1, <1>2 DEF QueuesInOrder
<1>7. PaceInOrder
  BY <1>1, <1>2, ConstantsAre DEF PaceInOrder, DeadLetsGo
<1>8. LifeInOrder
  BY <1>1, <1>3, <1>4 DEF LifeInOrder
<1>9. HistoryInOrder
  <2>1. 0 - Len(<< >>) - Cardinality(Video(<< >>)) \in Int
    BY EmptyRun
  <2> QED
    BY <1>1, <2>1, EmptyRun DEF HistoryInOrder, OneGop, GopBase, Base, Left
<1>10. ClientsInOrder
  BY <1>3, <1>4 DEF ClientsInOrder, ClientInOrder, NoneMissing, ReportOwed, FollowsOn
<1> QED
  BY <1>5, <1>6, <1>7, <1>8, <1>9, <1>10 DEF IInv

\* No step leaves the order.
LEMMA StepHolds == IInv /\ [Next]_vars => IInv'
<1> SUFFICES ASSUME IInv, [Next]_vars PROVE IInv'
  OBVIOUS
<1>1. CASE FeedNext
  BY <1>1, FrameNext, AudioNext, RestartNext, EndsNext DEF FeedNext
<1>2. CASE PaceNext
  BY <1>2, DrainNext, DrainPacketNext, DrainEndNext, HandoffNext, HandoffPacketNext, HandoffEndNext
     DEF PaceNext
<1>3. CASE LifeNext
  BY <1>3, EndsNext, ListenUpNext, RestartNext, TickNext DEF LifeNext
<1>4. CASE ClientNext
  BY <1>4, ConnectNext, PlayNext, PauseNext, ReportNext DEF ClientNext
<1>5. CASE UNCHANGED vars
  <2>1. /\ UNCHANGED <<phase, dead, restart, server, mode, vq, aq, epoch, timer, media, clock>>
        /\ UNCHANGED <<frames, audios, pressure, gop, overflow, batch, until, stamped, owed, sess>>
    BY <1>5 DEF vars, life, queues, pace, input, history, clients
  <2>2. Queued' = Queued /\ Left' = Left /\ GopBase' = GopBase /\ Base' = Base
    BY <2>1 DEF Queued, Left, GopBase, Base
  <2>3. TypeOK' /\ QueuesInOrder'
    BY <2>1, <2>2 DEF IInv, TypeOK, QueuesInOrder
  <2>4. PaceInOrder' /\ LifeInOrder'
    BY <2>1, <2>2 DEF IInv, PaceInOrder, DeadLetsGo, LifeInOrder
  <2>5. HistoryInOrder'
    BY <2>1, <2>2 DEF IInv, HistoryInOrder, OneGop, Settled
  <2>6. ClientsInOrder'
    BY <2>1, <2>2 DEF IInv, ClientsInOrder, ClientInOrder, NoneMissing, ReportOwed, FollowsOn, Settled
  <2> QED
    BY <2>3, <2>4, <2>5, <2>6 DEF IInv
<1> QED
  BY <1>1, <1>2, <1>3, <1>4, <1>5 DEF Next

\* The order is more than what is promised.
LEMMA Implied == IInv => TypeOK /\ PacerLetsGo /\ JoinsCleanly
<1> SUFFICES ASSUME IInv PROVE TypeOK /\ PacerLetsGo /\ JoinsCleanly
  OBVIOUS
<1>1. TypeOK /\ PaceInOrder /\ HistoryInOrder /\ ClientsInOrder
  BY DEF IInv
<1>2. WakesInTime
  BY <1>1 DEF PaceInOrder, WakesInTime, Idle
<1>3. PauseEnds /\ DeadLetsGo
  BY <1>1 DEF PaceInOrder, PauseEnds, Idle
<1>4. Splices
  BY <1>1 DEF HistoryInOrder, ClientsInOrder, ClientInOrder, NoneMissing, Splices, NoGapNoRepeat
<1>5. ReportFollows
  <2>1. ASSUME NEW s \in Sessions, sess[s].st = "playing", ~sess[s].broke, sess[s].count > 0
        PROVE  sess[s].sr
    BY <1>1, <2>1 DEF ClientsInOrder, ClientInOrder, ReportOwed
  <2> QED
    BY <2>1 DEF ReportFollows
<1> QED
  BY <1>1, <1>2, <1>3, <1>4, <1>5 DEF PacerLetsGo, JoinsCleanly

\* The state is well typed, and no queue or history outgrows its bound, for any
\* number of clients and whatever the camera's clock does.
THEOREM TypesHold == Spec => []TypeOK
<1>1. Init => IInv
  BY InitHolds
<1>2. IInv /\ [Next]_vars => IInv'
  BY StepHolds
<1>3. IInv => TypeOK
  BY Implied
<1> QED
  BY <1>1, <1>2, <1>3, PTL DEF Spec

\* A timer is armed in time for what waits, no pause of the camera outlives its
\* cause, and a generation that is dead has let go of everything.
THEOREM PacerHolds == Spec => []PacerLetsGo
<1>1. Init => IInv
  BY InitHolds
<1>2. IInv /\ [Next]_vars => IInv'
  BY StepHolds
<1>3. IInv => PacerLetsGo
  BY Implied
<1> QED
  BY <1>1, <1>2, <1>3, PTL DEF Spec

\* Whatever the camera's clock does, the packet in front leaves within MAX_FUTURE_MS.
THEOREM WaitsAreBounded == Spec => []WaitIsBounded
<1>1. Init => IInv /\ FrontIsNear
  <2>1. Init => FrontIsNear
    BY DEF Init, FrontIsNear, Queued
  <2> QED
    BY <2>1, InitHolds
<1>2. IInv /\ FrontIsNear /\ [Next]_vars => IInv' /\ FrontIsNear'
  BY StepHolds, StaysNear
<1>3. FrontIsNear => WaitIsBounded
  BY DEF FrontIsNear, WaitIsBounded, Idle
<1> QED
  BY <1>1, <1>2, <1>3, PTL DEF Spec

\* Replayed and live packets splice without a gap or a repeat, and the report
\* that a client is owed follows.
THEOREM JoinsHold == Spec => []JoinsCleanly
<1>1. Init => IInv
  BY InitHolds
<1>2. IInv /\ [Next]_vars => IInv'
  BY StepHolds
<1>3. IInv => JoinsCleanly
  BY Implied
<1> QED
  BY <1>1, <1>2, <1>3, PTL DEF Spec

=============================================================================
