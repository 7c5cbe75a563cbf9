--------------------------- MODULE IngressProofs ---------------------------
(***************************************************************************)
(* Proofs about Ingress, for any number of connections, any watermarks and *)
(* any length of what they deliver: the muxer is fed one connection's      *)
(* stream, whole and in order, while it moves from the settling buffer     *)
(* through the handoff to the steady one; and the socket is paused exactly *)
(* while one of three causes lasts.  IInv adds what makes both inductive:  *)
(* only the adopted connection is open, what each stage of the stream has  *)
(* not got yet, which socket was paused, and that nothing was taken yet    *)
(* from a connection still probed.                                         *)
(***************************************************************************)
EXTENDS Ingress, SequenceTheorems, TLAPS

(* What holds besides. *)

\* The connection that feeds the stream: only it is open, it lasts until its
\* close event, and without it neither buffer holds a byte.
OneCamera ==
    /\ \A s \in Socks : st[s] = "open" => camera = s
    /\ camera # None => st[camera] \in {"open", "closing"}
    /\ camera = None => buf = << >> /\ src = << >>
    /\ serveStarted /\ ~stopped => camera # None
    /\ stopped => camera = None

\* What the stages of the stream have: no muxer, nothing of the handoff.
Stages ==
    /\ ~serveStarted => parsed = << >> /\ ~handing /\ ~pressure
    /\ ~handing => src = << >>
    /\ ~drain => Len(buf) <= Mark

\* Only an adopted socket is ever paused, and the stream knows which.
PausedIsKnown ==
    /\ \A s \in paused : st[s] \in {"open", "closing"}
    /\ camera # None /\ reasons # {} => (st[camera] = "open" => pausedSock = camera)

\* Nothing was taken yet from a connection that is still probed.
Fresh == \A s \in Socks : st[s] \in {"none", "probing"} => parts[s] = 0

\* The inductive invariant.
IInv == TypeOK /\ FeedIsWhole /\ PausesHaveReasons /\ OneCamera /\ Stages /\ PausedIsKnown /\ Fresh
-----------------------------------------------------------------------------
(* Sequences of parts. *)

\* What is assumed of the constants, in a form the provers take.
LEMMA Bounds ==
    /\ Settle \in Nat \ {0} /\ Steady \in Nat \ {0} /\ Batch \in Nat \ {0} /\ MaxParts \in Nat
    /\ None \notin Socks
  BY IngressConstants

\* The first n parts of a connection, and n parts after its first p.
Whole(s, n) == [i \in 1..n |-> <<s, i>>]
More(s, p, n) == [i \in 1..n |-> <<s, p + i>>]

\* What a concatenation is, index by index.
LEMMA Concat ==
    ASSUME NEW a \in Seq(Parts), NEW b \in Seq(Parts)
    PROVE  /\ a \o b \in Seq(Parts)
           /\ Len(a \o b) = Len(a) + Len(b)
           /\ \A i \in 1..(Len(a) + Len(b)) :
                  (a \o b)[i] = IF i <= Len(a) THEN a[i] ELSE b[i - Len(a)]
  BY ConcatProperties

\* Concatenation of parts is associative.
LEMMA Assoc ==
    ASSUME NEW a \in Seq(Parts), NEW b \in Seq(Parts), NEW c \in Seq(Parts)
    PROVE  a \o (b \o c) = (a \o b) \o c
  <1>1. (a \o b) \o c = a \o (b \o c)
    BY ConcatAssociative
  <1>2. QED
    BY <1>1, Zenon

\* They are sequences of parts of these lengths.
LEMMA WholeTypes ==
    ASSUME NEW s \in Socks, NEW n \in Nat
    PROVE  Whole(s, n) \in Seq(Parts) /\ Len(Whole(s, n)) = n
  <1>1. ASSUME NEW f \in [1..n -> Parts] PROVE f \in Seq(Parts) /\ Len(f) = n
    OBVIOUS
  <1>2. Whole(s, n) \in [1..n -> Parts]
    BY DEF Whole, Parts
  <1>3. QED
    BY <1>1, <1>2

\* So are the parts that one write adds.
LEMMA MoreTypes ==
    ASSUME NEW s \in Socks, NEW p \in Nat, NEW n \in Nat
    PROVE  More(s, p, n) \in Seq(Parts) /\ Len(More(s, p, n)) = n
  <1>1. ASSUME NEW f \in [1..n -> Parts] PROVE f \in Seq(Parts) /\ Len(f) = n
    OBVIOUS
  <1>2. More(s, p, n) \in [1..n -> Parts]
    BY DEF More, Parts
  <1>3. QED
    BY <1>1, <1>2

\* What one write adds continues what was written before it.
LEMMA WriteParts ==
    ASSUME NEW s \in Socks, NEW p \in Nat, NEW n \in Nat
    PROVE  Whole(s, p) \o More(s, p, n) = Whole(s, p + n)
  <1> DEFINE new == More(s, p, n)
  <1>3. /\ Whole(s, p) \in Seq(Parts) /\ Len(Whole(s, p)) = p
        /\ new \in Seq(Parts) /\ Len(new) = n
        /\ Whole(s, p + n) \in Seq(Parts) /\ Len(Whole(s, p + n)) = p + n
    <2>1. p + n \in Nat
      OBVIOUS
    <2>2. Whole(s, p + n) \in Seq(Parts) /\ Len(Whole(s, p + n)) = p + n
      BY <2>1, WholeTypes
    <2>3. Whole(s, p) \in Seq(Parts) /\ Len(Whole(s, p)) = p
      BY WholeTypes
    <2>4. new \in Seq(Parts) /\ Len(new) = n
      BY MoreTypes
    <2>5. QED
      BY <2>2, <2>3, <2>4
  <1> HIDE DEF new
  <1>4. \A i \in 1..(p + n) : (Whole(s, p) \o new)[i] = Whole(s, p + n)[i]
    <2> SUFFICES ASSUME NEW i \in 1..(p + n)
                 PROVE  (Whole(s, p) \o new)[i] = Whole(s, p + n)[i]
      OBVIOUS
    <2>0. i \in Nat /\ i \in 1..(Len(Whole(s, p)) + Len(new))
      BY <1>3
    <2>1. (Whole(s, p) \o new)[i] = IF i <= p THEN Whole(s, p)[i] ELSE new[i - p]
      <3>1. (Whole(s, p) \o new)[i] = IF i <= Len(Whole(s, p)) THEN Whole(s, p)[i]
                                      ELSE new[i - Len(Whole(s, p))]
        BY <1>3, <2>0, Concat
      <3>2. QED
        BY <1>3, <3>1
    <2>2. CASE i <= p
      BY <2>1, <2>2 DEF Whole
    <2>3. CASE i > p
      <3>1. i - p \in 1..n
        BY <2>3
      <3>2. new[i - p] = <<s, p + (i - p)>>
        BY <3>1 DEF new, More
      <3>3. p + (i - p) = i
        OBVIOUS
      <3>4. QED
        BY <2>0, <2>1, <2>3, <3>2, <3>3 DEF Whole
    <2>4. QED
      BY <2>0, <2>2, <2>3
  <1>5. Whole(s, p) \o new \in Seq(Parts) /\ Len(Whole(s, p) \o new) = p + n
    <2>1. /\ Whole(s, p) \o new \in Seq(Parts)
          /\ Len(Whole(s, p) \o new) = Len(Whole(s, p)) + Len(new)
      <3>1. Whole(s, p) \in Seq(Parts) /\ new \in Seq(Parts)
        BY <1>3
      <3>2. QED
        BY <3>1, Concat
    <2>2. QED
      BY <1>3, <2>1
  <1>6. Whole(s, p) \o new = Whole(s, p + n)
    BY <1>3, <1>4, <1>5, SeqEqual
  <1>7. QED
    BY <1>6 DEF new

\* The same for the first write, which continues nothing.
LEMMA FirstParts ==
    ASSUME NEW s \in Socks, NEW n \in Nat
    PROVE  Whole(s, 0) \o More(s, 0, n) = Whole(s, n)
  <1>1. 0 \in Nat /\ 0 + n = n
    OBVIOUS
  <1>2. Whole(s, 0) \o More(s, 0, n) = Whole(s, 0 + n)
    BY <1>1, WriteParts, Zenon
  <1>3. QED
    BY <1>1, <1>2, Zenon

\* Taking the head of what follows and putting it at the end changes nothing.
LEMMA HeadMoves ==
    ASSUME NEW b \in Seq(Parts), NEW q \in Seq(Parts), q # << >>
    PROVE  /\ Head(q) \in Parts /\ Tail(q) \in Seq(Parts) /\ Len(Tail(q)) = Len(q) - 1
           /\ Append(b, Head(q)) \in Seq(Parts) /\ Len(Append(b, Head(q))) = Len(b) + 1
           /\ Append(b, Head(q)) \o Tail(q) = b \o q
  <1>1. /\ Head(q) \in Parts /\ Tail(q) \in Seq(Parts) /\ Len(Tail(q)) = Len(q) - 1
        /\ \A i \in 1..Len(Tail(q)) : Tail(q)[i] = q[i + 1]
        /\ Len(b) \in Nat /\ Len(q) \in Nat \ {0} /\ Head(q) = q[1]
    BY HeadTailProperties, EmptySeq, LenProperties
  <1> DEFINE a == Append(b, Head(q))
  <1>2. /\ a \in Seq(Parts) /\ Len(a) = Len(b) + 1
        /\ \A i \in 1..Len(b) : a[i] = b[i]
        /\ a[Len(b) + 1] = q[1]
    BY <1>1, AppendProperties
  <1> HIDE DEF a
  <1>3. /\ a \o Tail(q) \in Seq(Parts) /\ b \o q \in Seq(Parts)
        /\ Len(a \o Tail(q)) = Len(b) + Len(q) /\ Len(b \o q) = Len(b) + Len(q)
    <2>1. /\ a \o Tail(q) \in Seq(Parts) /\ Len(a \o Tail(q)) = Len(a) + Len(Tail(q))
          /\ b \o q \in Seq(Parts) /\ Len(b \o q) = Len(b) + Len(q)
      BY <1>1, <1>2, Concat
    <2>2. Len(a) + Len(Tail(q)) = Len(b) + Len(q)
      BY <1>1, <1>2
    <2>3. QED
      BY <2>1, <2>2
  <1>4. ASSUME NEW i \in 1..(Len(b) + Len(q)) PROVE (a \o Tail(q))[i] = (b \o q)[i]
    <2>1. /\ (a \o Tail(q))[i] = IF i <= Len(a) THEN a[i] ELSE Tail(q)[i - Len(a)]
          /\ (b \o q)[i] = IF i <= Len(b) THEN b[i] ELSE q[i - Len(b)]
      <3>1. Len(a) + Len(Tail(q)) = Len(b) + Len(q)
        BY <1>1, <1>2
      <3>2. i \in 1..(Len(a) + Len(Tail(q)))
        BY <3>1
      <3>3. (a \o Tail(q))[i] = IF i <= Len(a) THEN a[i] ELSE Tail(q)[i - Len(a)]
        BY <1>1, <1>2, <3>2, Concat
      <3>4. (b \o q)[i] = IF i <= Len(b) THEN b[i] ELSE q[i - Len(b)]
        BY Concat
      <3>5. QED
        BY <3>3, <3>4
    <2>0. i \in Nat
      BY <1>1
    <2>2. CASE i <= Len(b)
      BY <1>1, <1>2, <2>1, <2>2
    <2>3. CASE i = Len(b) + 1
      BY <1>1, <1>2, <2>1, <2>3
    <2>4. CASE i > Len(b) + 1
      <3>1. i - Len(a) \in 1..Len(Tail(q)) /\ (i - Len(a)) + 1 = i - Len(b)
        BY <1>1, <1>2, <2>4
      <3>2. QED
        BY <1>1, <1>2, <2>1, <2>4, <3>1
    <2>5. i <= Len(b) \/ i = Len(b) + 1 \/ i > Len(b) + 1
      BY <1>1, <2>0
    <2>6. QED
      BY <2>2, <2>3, <2>4, <2>5
  <1>5. a \o Tail(q) = b \o q
    BY <1>3, <1>4, SeqEqual
  <1>6. QED
    BY <1>1, <1>2, <1>5 DEF a

-----------------------------------------------------------------------------
(* Types. *)

\* TypeOK, one variable at a time.
LEMMA Typed ==
    ASSUME TypeOK
    PROVE  /\ st \in [Socks -> {"none", "probing", "open", "closing"}]
           /\ probe \in [Socks -> 0..1] /\ parts \in [Socks -> 0..MaxParts]
           /\ camera \in Socks \cup {None} /\ pausedSock \in Socks \cup {None}
           /\ buf \in Seq(Parts) /\ src \in Seq(Parts) /\ parsed \in Seq(Parts)
           /\ Len(buf) \in Nat /\ Len(src) \in Nat /\ Len(parsed) \in Nat
           /\ handing \in BOOLEAN /\ drain \in BOOLEAN /\ timer \in BOOLEAN
           /\ stopped \in BOOLEAN /\ pressure \in BOOLEAN
           /\ reasons \subseteq Reasons /\ paused \subseteq Socks
           /\ serve \in {"none", "starting", "up", "gone"}
           /\ << >> \in Seq(Parts) /\ Len(<< >>) = 0
  BY LenProperties, EmptySeq DEF TypeOK

\* Closing connections, whichever, leaves the others.
LEMMA CloseTypes ==
    ASSUME TypeOK, NEW S
    PROVE  /\ Close(st, S) \in [Socks -> {"none", "probing", "open", "closing"}]
           /\ \A s \in Socks : Close(st, S)[s] = IF s \in S /\ st[s] # "none" THEN "closing"
                                                 ELSE st[s]
  BY Typed DEF Close

-----------------------------------------------------------------------------
(* Pauses. *)

\* What setting the reasons does to the adopted socket.
LEMMA CameraPauses ==
    ASSUME TypeOK, PausesHaveReasons, OneCamera, PausedIsKnown,
           NEW rs \in SUBSET Reasons, SetReasons(rs, camera, Usable(camera), pausedSock),
           UNCHANGED <<camera, st>>
    PROVE  /\ reasons' = rs /\ paused' \subseteq Socks /\ pausedSock' \in Socks \cup {None}
           /\ PausedIsKnown'
           /\ camera' # None /\ st'[camera'] = "open" => (camera' \in paused' <=> rs # {})
  <1>1. Usable(camera) <=> camera # None /\ st[camera] = "open"
    BY DEF Usable, OneCamera
  <1>2. CASE Usable(camera)
    BY <1>1, <1>2, Typed DEF SetReasons, HeldBy, PausesHaveReasons, PausedIsKnown
  <1>3. CASE ~Usable(camera)
    BY <1>1, <1>3, Typed DEF SetReasons, PausedIsKnown
  <1>4. QED
    BY <1>2, <1>3

-----------------------------------------------------------------------------
(* The steps. *)

\* A step that neither moves bytes nor concerns the adopted connection but by
\* closing it.
LEMMA ConnsNext ==
    ASSUME IInv, st' \in [Socks -> {"none", "probing", "open", "closing"}],
           probe' \in [Socks -> 0..1], UNCHANGED <<parts, feed, bytes, pauses, muxer>>,
           \A s \in Socks : \/ st'[s] = st[s]
                            \/ st'[s] = "closing" /\ st[s] \in {"probing", "open"}
                            \/ st'[s] = "probing" /\ st[s] = "none" /\ ~stopped
    PROVE  IInv'
  <1> USE DEF feed, bytes, pauses, muxer, IInv
  <1>1. TypeOK'
    BY Typed DEF TypeOK, Mark, serveStarted
  <1>2. FeedIsWhole'
    BY Typed DEF FeedIsWhole, InOrder, OneFeed, StoppedHoldsNothing
  <1>3. PausesHaveReasons'
    BY Typed DEF PausesHaveReasons, OneCamera
  <1>4. OneCamera' /\ Stages' /\ PausedIsKnown' /\ Fresh'
    BY Typed DEF OneCamera, Stages, PausedIsKnown, Fresh, Mark, serveStarted
  <1>5. QED
    BY <1>1, <1>2, <1>3, <1>4

\* A new candidate: what came with the signature is its beginning.
LEMMA AdoptNext ==
    ASSUME IInv, NEW s \in Socks, NEW n \in 0..Batch, Adopt(s, n)
    PROVE  IInv'
  <1> USE Bounds DEF IInv
  <1>1. /\ st[s] = "probing" /\ ~stopped /\ ~serveStarted /\ camera # s
        /\ parsed = << >> /\ src = << >> /\ ~handing /\ ~pressure
        /\ s \notin paused
    BY Typed DEF Adopt, Supersedes, FeedIsWhole, StoppedHoldsNothing, OneCamera, Stages,
                 PausedIsKnown
  <1> DEFINE got == probe[s] + n
  <1>2. /\ got \in Nat /\ got <= MaxParts /\ got <= Settle + Batch
        /\ buf' = More(s, 0, got)
        /\ parts' = [parts EXCEPT ![s] = got]
        /\ probe' = [probe EXCEPT ![s] = 0]
        /\ st' = [Close(st, {camera}) EXCEPT ![s] = "open"]
        /\ camera' = s /\ timer' = TRUE
        /\ UNCHANGED <<handing, src, muxer>>
    <2>1. got \in Nat /\ got <= 1 + Batch /\ parts[s] = 0
      <3>1. probe[s] \in 0..1
        BY Typed
      <3>2. QED
        BY <1>1, <3>1 DEF Fresh
    <2>2. got <= MaxParts /\ got <= Settle + Batch
      BY <2>1 DEF Adopt
    <2>3. buf' = More(s, parts[s], got)
      BY DEF Adopt, NextParts, More
    <2>4. QED
      BY <2>1, <2>2, <2>3 DEF Adopt, SettleTimer
  <1>3. /\ buf' \in Seq(Parts) /\ Len(buf') = got
        /\ Whole(s, 0) \o buf' = Whole(s, got)
    <2>1. got \in Nat
      BY <1>2
    <2>2. /\ More(s, 0, got) \in Seq(Parts) /\ Len(More(s, 0, got)) = got
          /\ Whole(s, 0) \o More(s, 0, got) = Whole(s, got)
      <3> HIDE Bounds DEF got
      <3>1. More(s, 0, got) \in Seq(Parts) /\ Len(More(s, 0, got)) = got
        BY <2>1, MoreTypes
      <3>2. Whole(s, 0) \o More(s, 0, got) = Whole(s, got)
        BY <2>1, FirstParts, Zenon
      <3>3. QED
        BY <3>1, <3>2, Zenon
    <2>3. QED
      BY <1>2, <2>1, <2>2
  <1> HIDE DEF got
  <1>4. \/ /\ drain' = TRUE /\ reasons' = {"flv-drain"} /\ pausedSock' = s
           /\ paused' = paused \cup {s}
        \/ /\ drain' = FALSE /\ reasons' = {} /\ pausedSock' = None /\ paused' = paused
           /\ Len(buf') < Settle
    <2>1. CASE Full(buf', Settle)
      BY <2>1 DEF Adopt, SetReasons, HeldBy
    <2>2. CASE ~Full(buf', Settle)
      BY <1>2, <1>3, <2>2 DEF Adopt, ClearPauses, Full
    <2>3. QED
      BY <2>1, <2>2
  <1>5. /\ st'[s] = "open" /\ st' \in [Socks -> {"none", "probing", "open", "closing"}]
        /\ \A d \in Socks \ {s} : st'[d] = IF d = camera /\ st[d] # "none" THEN "closing" ELSE st[d]
    BY <1>2, CloseTypes
  <1>6. TypeOK'
    <2>1. /\ probe' \in [Socks -> 0..1] /\ parts' \in [Socks -> 0..MaxParts]
          /\ buf' \in Seq(Parts) /\ Len(buf') <= Mark' + Batch
      BY <1>1, <1>2, <1>3, Typed DEF Mark, serveStarted, muxer
    <2>2. drain' \in BOOLEAN /\ reasons' \subseteq Reasons /\ paused' \subseteq Socks
          /\ pausedSock' \in Socks \cup {None}
      BY <1>4, Typed DEF Reasons
    <2>3. QED
      BY <1>2, <1>5, <2>1, <2>2, Typed DEF TypeOK, muxer
  <1>7. FeedIsWhole'
    <2>1. /\ Whole(s, 0) \in Seq(Parts) /\ Len(Whole(s, 0)) = 0
          /\ Whole(s, got) \in Seq(Parts)
      BY <1>2, WholeTypes
    <2>2. parsed' \o buf' \o src' = Whole(s, got)
      BY <1>1, <1>2, <1>3, <2>1, EmptySeq, ConcatEmptySeq DEF muxer
    <2>3. QED
      BY <1>1, <1>2, <2>2, Typed
         DEF FeedIsWhole, InOrder, OneFeed, StoppedHoldsNothing, Whole, muxer
  <1>8. PausesHaveReasons'
    BY <1>1, <1>2, <1>4 DEF PausesHaveReasons, muxer
  <1>9. OneCamera' /\ Fresh'
    <2>1. OneCamera'
      BY <1>1, <1>2, <1>5 DEF OneCamera, muxer
    <2>2. Fresh'
      BY <1>2, <1>5, Typed DEF Fresh
    <2>3. QED
      BY <2>1, <2>2
  <1>10. Stages' /\ PausedIsKnown'
    <2>1. Stages'
      BY <1>1, <1>2, <1>3, <1>4 DEF Stages, Mark, serveStarted, muxer
    <2>2. PausedIsKnown'
      BY <1>2, <1>4, <1>5, Typed DEF PausedIsKnown
    <2>3. QED
      BY <2>1, <2>2
  <1>11. QED
    BY <1>6, <1>7, <1>8, <1>9, <1>10

\* A chunk of the feed goes on where the last one ended.
LEMMA DataNext ==
    ASSUME IInv, NEW s \in Socks, NEW n \in 0..Batch, Data(s, n)
    PROVE  IInv'
  <1> USE Bounds DEF IInv
  <1>1. /\ st[s] = "open" /\ camera = s /\ reasons = {} /\ ~drain /\ ~handing /\ ~pressure
        /\ src = << >> /\ Len(buf) <= Mark /\ ~stopped /\ s \notin paused
    BY DEF Data, PausesHaveReasons, Stages, OneCamera
  <1> DEFINE new == More(s, parts[s], n)
  <1>2. /\ buf' = buf \o new /\ parts' = [parts EXCEPT ![s] = parts[s] + n]
        /\ parts[s] + n <= MaxParts /\ parts[s] \in Nat /\ n \in Nat /\ n <= Batch
        /\ UNCHANGED <<st, probe, feed, handing, src, muxer>>
    BY Typed DEF Data, NextParts, More
  <1>3. /\ new \in Seq(Parts) /\ Len(new) = n
        /\ Whole(s, parts[s]) \o new = Whole(s, parts[s] + n)
    <2>1. parts[s] \in Nat /\ n \in Nat
      BY <1>2
    <2> HIDE Bounds
    <2>2. new \in Seq(Parts) /\ Len(new) = n
      BY <2>1, MoreTypes
    <2>3. Whole(s, parts[s]) \o new = Whole(s, parts[s] + n)
      BY <2>1, WriteParts, Zenon
    <2>4. QED
      BY <2>2, <2>3, Zenon
  <1> HIDE DEF new
  <1>4. /\ buf' \in Seq(Parts) /\ Len(buf') = Len(buf) + n
    BY <1>2, <1>3, Typed, Concat
  <1>5. \/ /\ drain' = TRUE /\ SetReasons({"flv-drain"}, camera, Usable(camera), pausedSock)
        \/ UNCHANGED pauses /\ Len(buf') < Mark
    <2>1. CASE Full(buf', Mark)
      BY <1>1, <2>1 DEF Data, Add
    <2>2. CASE ~Full(buf', Mark)
      BY <1>1, <1>4, <2>2, Typed DEF Data, Full, Mark
    <2>3. QED
      BY <2>1, <2>2
  <1>6. /\ reasons' \subseteq Reasons /\ drain' \in BOOLEAN /\ paused' \subseteq Socks
        /\ pausedSock' \in Socks \cup {None}
        /\ ("flv-drain" \in reasons' <=> drain')
        /\ "handoff" \notin reasons' /\ "egress-pressure" \notin reasons'
        /\ camera' \in paused' <=> reasons' # {}
        /\ PausedIsKnown'
    <2>1. CASE drain' = TRUE /\ SetReasons({"flv-drain"}, camera, Usable(camera), pausedSock)
      BY <1>1, <1>2, <2>1, CameraPauses DEF Reasons, feed
    <2>2. CASE UNCHANGED pauses
      BY <1>1, <1>2, <2>2, Typed DEF pauses, feed, PausedIsKnown, Reasons
    <2>3. QED
      BY <1>5, <2>1, <2>2
  <1>7. TypeOK'
    <2>1. parts' \in [Socks -> 0..MaxParts]
      BY <1>2, Typed
    <2>3. Mark' = Mark
      BY <1>2 DEF Mark, serveStarted, muxer
    <2>4. Len(buf') <= Mark' + Batch
      <3>1. Mark \in Nat
        BY DEF Mark
      <3>2. Len(buf') <= Mark + Batch
        BY <1>1, <1>2, <1>4, <3>1, Typed
      <3>3. QED
        BY <2>3, <3>2
    <2>2. QED
      BY <1>2, <1>4, <1>6, <2>1, <2>4, Typed DEF TypeOK, feed, muxer
  <1>8. FeedIsWhole'
    <2>1. parsed \o buf = Whole(s, parts[s])
      <3>1. parsed \o buf \in Seq(Parts)
        BY Typed, Concat
      <3>2. QED
        BY <1>1, <3>1, ConcatEmptySeq DEF FeedIsWhole, InOrder, Whole
    <2>2. parsed' \o buf' \o src' = Whole(s, parts[s] + n)
      <3>1. parsed \o (buf \o new) = (parsed \o buf) \o new
        <4>1. parsed \in Seq(Parts) /\ buf \in Seq(Parts) /\ new \in Seq(Parts)
          BY <1>3, Typed
        <4>2. ASSUME NEW b \in Seq(Parts), NEW q \in Seq(Parts)
              PROVE  parsed \o (b \o q) = (parsed \o b) \o q
          <5>1. parsed \in Seq(Parts)
            BY <4>1
          <5>2. QED
            BY <5>1, Assoc, Zenon
        <4>3. QED
          BY <4>1, <4>2, Zenon
      <3>2. Whole(s, parts[s] + n) \in Seq(Parts)
        <4>1. parts[s] + n \in Nat
          BY <1>2
        <4>2. QED
          BY <4>1, WholeTypes
      <3>3. QED
        BY <1>1, <1>2, <1>3, <2>1, <3>1, <3>2, ConcatEmptySeq DEF muxer
    <2>3. QED
      BY <1>1, <1>2, <2>2, Typed
         DEF FeedIsWhole, InOrder, OneFeed, StoppedHoldsNothing, Whole, muxer, feed
  <1>9. PausesHaveReasons'
    BY <1>1, <1>2, <1>6 DEF PausesHaveReasons, muxer
  <1>10. OneCamera' /\ Fresh'
    BY <1>1, <1>2, Typed DEF OneCamera, Fresh, feed, muxer, serveStarted
  <1>11. Stages'
    BY <1>1, <1>2, <1>5 DEF Stages, Mark, serveStarted, muxer, pauses
  <1>12. QED
    BY <1>6, <1>7, <1>8, <1>9, <1>10, <1>11

\* A byte moves from one place to the next: its order stays.
LEMMA MoveNext ==
    ASSUME IInv, Pipe \/ Parse
    PROVE  IInv'
  <1> USE Bounds DEF IInv
  <1>1. /\ UNCHANGED <<conns, feed, handing, pauses, serve, stopped, pressure>>
        /\ serveStarted /\ serveStarted' /\ Mark = Steady /\ Mark' = Steady
        /\ ~handing => src = << >>
        /\ \/ /\ handing /\ src # << >> /\ Len(buf) < Steady /\ parsed' = parsed
              /\ buf' = Append(buf, Head(src)) /\ src' = Tail(src)
           \/ /\ buf # << >> /\ src' = src
              /\ parsed' = Append(parsed, Head(buf)) /\ buf' = Tail(buf)
    <2>1. CASE Pipe
      BY <2>1, Typed DEF Pipe, Full, muxer, Stages, Mark, serveStarted
    <2>2. CASE Parse
      BY <2>2, Typed DEF Parse, Stages, Mark, serveStarted
    <2>3. QED
      BY <2>1, <2>2
  <1>2. /\ buf' \in Seq(Parts) /\ src' \in Seq(Parts) /\ parsed' \in Seq(Parts)
        /\ Len(buf') \in Nat /\ Len(src') <= Len(src)
        /\ Len(buf') <= Len(buf) \/ Len(buf') <= Steady
        /\ parsed' \o buf' \o src' = parsed \o buf \o src
    <2>1. CASE handing /\ src # << >> /\ Len(buf) < Steady /\ parsed' = parsed
               /\ buf' = Append(buf, Head(src)) /\ src' = Tail(src)
      <3>1. /\ buf' \in Seq(Parts) /\ src' \in Seq(Parts) /\ buf' \o src' = buf \o src
            /\ Len(buf') = Len(buf) + 1 /\ Len(src') = Len(src) - 1
        BY <2>1, Typed, HeadMoves
      <3>2. /\ parsed \o buf \o src = parsed \o (buf \o src)
            /\ parsed \o buf' \o src' = parsed \o (buf' \o src')
        <4>1. parsed \in Seq(Parts) /\ buf \in Seq(Parts) /\ src \in Seq(Parts)
          BY Typed
        <4>2. buf' \in Seq(Parts) /\ src' \in Seq(Parts)
          BY <3>1
        <4> HIDE Bounds
        <4>4. ASSUME NEW b \in Seq(Parts), NEW q \in Seq(Parts)
              PROVE  parsed \o (b \o q) = (parsed \o b) \o q
          <5>1. parsed \in Seq(Parts)
            BY <4>1
          <5>2. QED
            BY <5>1, Assoc, Zenon
        <4>5. QED
          BY <4>1, <4>2, <4>4, Zenon
      <3>3. /\ Len(buf') \in Nat /\ Len(src') <= Len(src) /\ Len(buf') <= Steady
        <4>1. Len(src') \in Nat /\ Len(buf') \in Nat /\ Len(src) \in Nat /\ Len(buf) \in Nat
          BY <3>1, Typed, LenProperties
        <4>2. QED
          BY <2>1, <3>1, <4>1
      <3>4. parsed' \o buf' \o src' = parsed \o buf \o src
        BY <2>1, <3>1, <3>2
      <3>5. parsed' \in Seq(Parts)
        BY <2>1, Typed
      <3>6. QED
        BY <3>1, <3>3, <3>4, <3>5
    <2>2. CASE buf # << >> /\ src' = src /\ parsed' = Append(parsed, Head(buf)) /\ buf' = Tail(buf)
      <3>1. /\ parsed' \in Seq(Parts) /\ buf' \in Seq(Parts) /\ parsed' \o buf' = parsed \o buf
            /\ Len(buf') = Len(buf) - 1 /\ Len(buf) \in Nat \ {0}
        BY <2>2, Typed, HeadMoves, EmptySeq
      <3>2. Len(buf') \in Nat /\ Len(buf') <= Len(buf)
        BY <3>1
      <3>3. src' \in Seq(Parts) /\ Len(src') <= Len(src)
        BY <2>2, Typed
      <3>4. parsed' \o buf' \o src' = parsed \o buf \o src
        BY <2>2, <3>1, Zenon
      <3>5. QED
        BY <3>1, <3>2, <3>3, <3>4
    <2>3. QED
      BY <1>1, <2>1, <2>2
  <1>3. camera # None
    BY <1>1 DEF OneCamera
  <1>4. ~stopped
    BY <1>3 DEF OneCamera
  <1>5. TypeOK'
    <2>1. Len(buf) <= Steady + Batch /\ Len(src) <= Settle + Batch
      BY <1>1 DEF TypeOK
    <2>2. Len(buf') <= Mark' + Batch /\ Len(src') <= Settle + Batch
      <3>1. Len(src') \in Nat
        BY <1>2, LenProperties
      <3>2. Len(src') <= Settle + Batch
        BY <1>2, <2>1, <3>1, Typed
      <3>3. Len(buf') <= Mark' + Batch
        BY <1>1, <1>2, <2>1, Typed, SMTT(30)
      <3>4. QED
        BY <3>2, <3>3
    <2>3. QED
      BY <1>1, <1>2, <2>2, Typed DEF TypeOK, conns, feed, pauses
  <1>6. FeedIsWhole'
    <2>1. InOrder'
      BY <1>1, <1>2, <1>3 DEF FeedIsWhole, InOrder, conns, feed
    <2>2. OneFeed'
      <3>1. /\ parsed' \o buf' \o src' = Whole(camera, parts[camera])
            /\ camera \in Socks /\ parts[camera] \in Nat
        BY <1>2, <1>3, Typed DEF FeedIsWhole, InOrder, Whole
      <3>2. \A i \in 1..Len(parsed') :
                parsed'[i] = Whole(camera, parts[camera])[i] /\ i \in 1..parts[camera]
        <4>1. /\ parsed' \o buf' \in Seq(Parts) /\ Len(parsed' \o buf') = Len(parsed') + Len(buf')
              /\ \A i \in 1..Len(parsed') : (parsed' \o buf')[i] = parsed'[i]
          BY <1>2, Concat
        <4>2. /\ Len(parsed' \o buf' \o src') = Len(parsed' \o buf') + Len(src')
              /\ \A i \in 1..Len(parsed' \o buf') :
                     (parsed' \o buf' \o src')[i] = (parsed' \o buf')[i]
          <5> DEFINE p == parsed' \o buf'
          <5>1. p \in Seq(Parts) /\ src' \in Seq(Parts)
            BY <1>2, <4>1
          <5> HIDE DEF p
          <5>2. /\ Len(p \o src') = Len(p) + Len(src')
                /\ \A i \in 1..Len(p) : (p \o src')[i] = p[i]
            BY <5>1, Concat, LenProperties
          <5>3. QED
            BY <5>2 DEF p
        <4>3. Len(parsed') \in Nat /\ Len(buf') \in Nat /\ Len(src') \in Nat
          BY <1>2, LenProperties
        <4>4. Len(Whole(camera, parts[camera])) = parts[camera]
          BY <3>1, WholeTypes
        <4>5. parts[camera] = Len(parsed') + Len(buf') + Len(src')
          BY <3>1, <4>1, <4>2, <4>4
        <4>6. \A i \in 1..Len(parsed') : i \in 1..Len(parsed' \o buf') /\ i \in 1..parts[camera]
          BY <4>1, <4>3, <4>5
        <4>7. QED
          BY <3>1, <4>1, <4>2, <4>6
      <3>3. \A i \in 1..Len(parsed') : parsed'[i] = <<camera, i>>
        BY <3>2 DEF Whole
      <3>4. DOMAIN parsed' = 1..Len(parsed') /\ Len(parsed') \in Nat
        BY <1>2, LenProperties
      <3>5. Len(parsed') # 0 => parsed'[1] = <<camera, 1>>
        BY <3>3, <3>4
      <3>6. QED
        BY <3>3, <3>4, <3>5 DEF OneFeed
    <2>3. QED
      BY <1>1, <1>4, <2>1, <2>2 DEF FeedIsWhole, StoppedHoldsNothing
  <1>7. PausesHaveReasons'
    BY <1>1 DEF PausesHaveReasons, conns, feed, pauses
  <1>8. OneCamera' /\ Fresh' /\ PausedIsKnown'
    BY <1>1, <1>3 DEF OneCamera, Fresh, PausedIsKnown, conns, feed, pauses, serveStarted
  <1>9. Stages'
    BY <1>1, <1>2, Typed DEF Stages, pauses
  <1>10. QED
    BY <1>5, <1>6, <1>7, <1>8, <1>9

\* What a discarded candidate leaves: nothing, as before the first one.
LEMMA EmptiedNext ==
    ASSUME IInv,
           st' \in [Socks -> {"none", "probing", "open", "closing"}],
           parts' \in [Socks -> 0..MaxParts], probe' \in [Socks -> 0..1],
           \A s \in Socks :
               /\ st'[s] \in {"none", "probing"} => parts'[s] = 0
               /\ st'[s] = "open" => st[s] = "open" /\ s # camera
               /\ st'[s] = "probing" => ~stopped'
               /\ s \in paused' => s \in paused /\ st'[s] \in {"open", "closing"},
           paused' \subseteq paused,
           camera' = None, timer' = FALSE, buf' = << >>, src' = << >>, handing' = FALSE,
           drain' = FALSE, reasons' = {}, pausedSock' \in {None, pausedSock},
           pressure' = FALSE, stopped' \in BOOLEAN, serve' \in {"none", "starting", "up", "gone"},
           parsed' = parsed,
           serve' = "none" => serve = "none",
           serve' # "none" => stopped'
    PROVE  IInv'
  <1> USE Bounds DEF IInv
  <1>1. \A s \in Socks : st'[s] # "open"
    BY DEF OneCamera
  <1>2. TypeOK'
    <2>1. Len(buf') <= Mark' + Batch /\ Len(src') <= Settle + Batch
      BY Typed DEF Mark
    <2>2. QED
      BY <2>1, Typed DEF TypeOK
  <1>3. FeedIsWhole'
    BY <1>1 DEF FeedIsWhole, InOrder, OneFeed, StoppedHoldsNothing
  <1>4. PausesHaveReasons'
    BY DEF PausesHaveReasons
  <1>5. OneCamera'
    BY <1>1 DEF OneCamera, serveStarted
  <1>6. Stages'
    BY Typed DEF Stages, serveStarted, Mark
  <1>7. PausedIsKnown' /\ Fresh'
    BY Typed DEF PausedIsKnown, Fresh
  <1>8. QED
    BY <1>2, <1>3, <1>4, <1>5, <1>6, <1>7

\* A candidate is given up, for its silence or its end.
LEMMA CandidateNext ==
    ASSUME IInv, DiscardIdle \/ \E s \in Socks : CandidateClosed(s)
    PROVE  IInv'
  <1>0. TypeOK /\ IInv
    BY DEF IInv
  <1>1. ~serveStarted /\ camera # None /\ serve = "none" /\ ~stopped
    BY Bounds DEF DiscardIdle, CandidateClosed, serveStarted, IInv, OneCamera
  <1>2. src = << >> /\ handing = FALSE /\ pressure = FALSE /\ reasons \subseteq {"flv-drain"}
    BY <1>0, <1>1, Typed DEF IInv, Stages, PausesHaveReasons, Reasons
  <1>3. CASE DiscardIdle
    <2>1. /\ camera' = None /\ timer' = FALSE /\ buf' = << >> /\ st' = Close(st, {camera})
          /\ drain' = FALSE /\ reasons' = {} /\ pausedSock' = None
          /\ UNCHANGED <<probe, parts, paused, handing, src, muxer>>
      BY <1>3 DEF DiscardIdle, ClearPauses
    <2>2. /\ st' \in [Socks -> {"none", "probing", "open", "closing"}]
          /\ \A s \in Socks : st'[s] = IF s \in {camera} /\ st[s] # "none" THEN "closing"
                                       ELSE st[s]
      BY <1>0, <2>1, CloseTypes
    <2>3. \A s \in Socks :
              /\ st'[s] \in {"none", "probing"} => parts'[s] = 0
              /\ st'[s] = "open" => st[s] = "open" /\ s # camera
              /\ st'[s] = "probing" => ~stopped'
              /\ s \in paused' => s \in paused /\ st'[s] \in {"open", "closing"}
      BY <1>0, <1>1, <2>1, <2>2 DEF IInv, Fresh, PausedIsKnown, OneCamera, muxer
    <2>4. QED
      BY <1>0, <1>1, <1>2, <2>1, <2>2, <2>3, Typed, EmptiedNext DEF muxer
  <1>4. ASSUME NEW d \in Socks, CandidateClosed(d) PROVE IInv'
    <2>1. /\ camera = d /\ camera' = None /\ timer' = FALSE /\ buf' = << >>
          /\ st' = [st EXCEPT ![d] = "none"]
          /\ probe' = [probe EXCEPT ![d] = 0] /\ parts' = [parts EXCEPT ![d] = 0]
          /\ drain' = FALSE /\ reasons' = {} /\ pausedSock' = None /\ paused' = paused \ {d}
          /\ UNCHANGED <<handing, src, muxer>>
      BY <1>2, <1>4 DEF CandidateClosed, Gone
    <2>2. /\ st' \in [Socks -> {"none", "probing", "open", "closing"}]
          /\ probe' \in [Socks -> 0..1] /\ parts' \in [Socks -> 0..MaxParts]
      BY <1>0, <2>1, Typed, Bounds
    <2>3. \A s \in Socks :
              /\ st'[s] \in {"none", "probing"} => parts'[s] = 0
              /\ st'[s] = "open" => st[s] = "open" /\ s # camera
              /\ st'[s] = "probing" => ~stopped'
              /\ s \in paused' => s \in paused /\ st'[s] \in {"open", "closing"}
      BY <1>0, <1>1, <2>1, Typed DEF IInv, Fresh, PausedIsKnown, muxer
    <2>4. QED
      BY <1>0, <1>1, <1>2, <2>1, <2>2, <2>3, Typed, EmptiedNext DEF muxer
  <1>5. QED
    BY <1>3, <1>4

\* The stream ends, whatever the muxer is doing: it never starts afterwards.
LEMMA StopNext ==
    ASSUME IInv, NEW m \in {"none", "starting", "up", "gone"}, m = "none" => serve = "none",
           StopWith(m)
    PROVE  IInv'
  <1>0. TypeOK /\ IInv
    BY DEF IInv
  <1>1. /\ stopped' = TRUE /\ serve' = m /\ pressure' = FALSE /\ st' = Close(st, Socks)
        /\ camera' = None /\ timer' = FALSE /\ buf' = << >> /\ handing' = FALSE /\ src' = << >>
        /\ drain' = FALSE /\ reasons' = {} /\ pausedSock' = None
        /\ UNCHANGED <<probe, parts, parsed, paused>>
    BY DEF StopWith, ClearPauses
  <1>2. /\ st' \in [Socks -> {"none", "probing", "open", "closing"}]
        /\ \A s \in Socks : st'[s] = IF s \in Socks /\ st[s] # "none" THEN "closing" ELSE st[s]
    BY <1>0, <1>1, CloseTypes
  <1>3. \A s \in Socks :
            /\ st'[s] \in {"none", "probing"} => parts'[s] = 0
            /\ st'[s] = "open" => st[s] = "open" /\ s # camera
            /\ st'[s] = "probing" => ~stopped'
            /\ s \in paused' => s \in paused /\ st'[s] \in {"open", "closing"}
    BY <1>0, <1>1, <1>2 DEF IInv, Fresh, PausedIsKnown
  <1>4. QED
    BY <1>0, <1>1, <1>2, <1>3, Typed, EmptiedNext

\* The close event of another connection than the adopted one.
LEMMA StrayNext ==
    ASSUME IInv, NEW d \in Socks, StrayClosed(d)
    PROVE  IInv'
  <1>0. TypeOK /\ IInv
    BY DEF IInv
  <1>1. /\ st[d] = "closing" /\ camera # d /\ st' = [st EXCEPT ![d] = "none"]
        /\ probe' = [probe EXCEPT ![d] = 0] /\ parts' = [parts EXCEPT ![d] = 0]
        /\ paused' = paused \ {d}
        /\ UNCHANGED <<feed, bytes, drain, reasons, pausedSock, muxer>>
    BY DEF StrayClosed, Gone
  <1>2. TypeOK'
    <2>1. /\ st' \in [Socks -> {"none", "probing", "open", "closing"}]
          /\ probe' \in [Socks -> 0..1] /\ parts' \in [Socks -> 0..MaxParts]
      BY <1>0, <1>1, Typed, Bounds
    <2>2. QED
      BY <1>0, <1>1, <2>1 DEF TypeOK, feed, bytes, muxer, Mark, serveStarted
  <1>3. FeedIsWhole'
    <2>1. InOrder'
      BY <1>0, <1>1, Typed DEF IInv, FeedIsWhole, InOrder, feed, bytes, muxer
    <2>2. OneFeed' /\ StoppedHoldsNothing'
      BY <1>0, <1>1, Typed DEF IInv, FeedIsWhole, OneFeed, StoppedHoldsNothing, bytes, muxer
    <2>3. QED
      BY <2>1, <2>2 DEF FeedIsWhole
  <1>4. PausesHaveReasons' /\ PausedIsKnown'
    BY <1>0, <1>1, Typed DEF IInv, PausesHaveReasons, PausedIsKnown, feed, bytes, muxer
  <1>5. OneCamera' /\ Stages' /\ Fresh'
    BY <1>0, <1>1, Typed
       DEF IInv, OneCamera, Stages, Fresh, feed, bytes, muxer, Mark, serveStarted
  <1>6. QED
    BY <1>2, <1>3, <1>4, <1>5 DEF IInv

\* One reason comes or goes, and its cause with it; no byte moves.
LEMMA ReasonNext ==
    ASSUME IInv, Drained \/ HandoffEnds \/ \E on \in BOOLEAN : EgressPressure(on)
    PROVE  IInv'
  <1>0. TypeOK /\ IInv
    BY DEF IInv
  <1> DEFINE Caused(rs) ==
               /\ SetReasons(rs, camera, Usable(camera), pausedSock)
               /\ "flv-drain" \in rs <=> drain'
               /\ "handoff" \in rs <=> handing'
               /\ "egress-pressure" \in rs <=> pressure'
             Changed ==
               /\ UNCHANGED <<conns, feed, buf, serve, stopped, parsed>>
               /\ src' = src /\ {handing', drain', pressure'} \subseteq BOOLEAN
               /\ handing' \/ pressure' => serveStarted
               /\ ~handing' => src' = << >>
               /\ ~drain' => Len(buf') <= Mark
               /\ \E rs \in SUBSET Reasons : Caused(rs)
  <1>1. Changed
    <2>1. CASE Drained
      <3>1. SetReasons(reasons \ {"flv-drain"}, camera, Usable(camera), pausedSock)
        BY <2>1 DEF Drained, Remove
      <3>2. reasons \ {"flv-drain"} \in SUBSET Reasons
        BY <1>0, Typed
      <3>3. /\ ("handoff" \in reasons <=> handing) /\ ("egress-pressure" \in reasons <=> pressure)
        BY <1>0 DEF IInv, PausesHaveReasons
      <3>4. drain' = FALSE /\ UNCHANGED <<conns, feed, bytes, muxer>> /\ ~Full(buf, Mark)
        BY <2>1 DEF Drained
      <3>5. Len(buf) <= Mark
        BY <1>0, <3>4, Typed, Bounds DEF Full, Mark
      <3>6. QED
        BY <1>0, <3>1, <3>2, <3>3, <3>4, <3>5, Typed DEF IInv, Stages, bytes, muxer
    <2>2. CASE HandoffEnds
      <3>1. SetReasons(reasons \ {"handoff"}, camera, Usable(camera), pausedSock)
        BY <2>2 DEF HandoffEnds, Remove
      <3>2. reasons \ {"handoff"} \in SUBSET Reasons
        BY <1>0, Typed
      <3>3. /\ ("flv-drain" \in reasons <=> drain) /\ ("egress-pressure" \in reasons <=> pressure)
        BY <1>0 DEF IInv, PausesHaveReasons
      <3>4. handing' = FALSE /\ src' = << >> /\ src = << >>
            /\ UNCHANGED <<conns, feed, buf, drain, muxer>>
        BY <2>2 DEF HandoffEnds, Transferred
      <3>5. QED
        BY <1>0, <3>1, <3>2, <3>3, <3>4, Typed DEF IInv, Stages, muxer
    <2>3. ASSUME NEW on \in BOOLEAN, EgressPressure(on)
          PROVE  Changed
      <3>1. PICK rs \in SUBSET Reasons :
                /\ SetReasons(rs, camera, Usable(camera), pausedSock)
                /\ rs = IF on THEN reasons \cup {"egress-pressure"}
                        ELSE reasons \ {"egress-pressure"}
        BY <1>0, <2>3, Typed DEF EgressPressure, Add, Remove, Reasons
      <3>2. /\ ("flv-drain" \in reasons <=> drain) /\ ("handoff" \in reasons <=> handing)
        BY <1>0 DEF IInv, PausesHaveReasons
      <3>3. /\ pressure' = on /\ serveStarted
            /\ UNCHANGED <<conns, feed, bytes, drain, serve, stopped, parsed>>
        BY <2>3 DEF EgressPressure, serveStarted
      <3>4. /\ "flv-drain" \in rs <=> drain
            /\ "handoff" \in rs <=> handing
            /\ "egress-pressure" \in rs <=> on
        BY <3>1, <3>2
      <3>5. QED
        BY <1>0, <3>1, <3>3, <3>4, Typed DEF IInv, Stages, bytes
    <2>4. QED
      BY <2>1, <2>2, <2>3
  <1>2. PICK rs \in SUBSET Reasons : Caused(rs)
    BY <1>1
  <1>3. /\ reasons' = rs /\ paused' \subseteq Socks /\ pausedSock' \in Socks \cup {None}
        /\ PausedIsKnown'
        /\ camera' # None /\ st'[camera'] = "open" => (camera' \in paused' <=> rs # {})
    BY <1>0, <1>1, <1>2, CameraPauses DEF IInv, conns, feed
  <1>4. TypeOK'
    BY <1>0, <1>1, <1>2, <1>3, Typed DEF TypeOK, conns, feed, Mark, serveStarted
  <1>5. FeedIsWhole'
    BY <1>0, <1>1 DEF IInv, FeedIsWhole, InOrder, OneFeed, StoppedHoldsNothing, conns, feed
  <1>6. PausesHaveReasons'
    BY <1>2, <1>3 DEF PausesHaveReasons
  <1>7. OneCamera' /\ Stages' /\ Fresh'
    BY <1>0, <1>1 DEF IInv, OneCamera, Stages, Fresh, conns, feed, Mark, serveStarted
  <1>8. QED
    BY <1>3, <1>4, <1>5, <1>6, <1>7 DEF IInv

\* The candidate's buffer becomes the source of the handoff.
LEMMA PromoteNext ==
    ASSUME IInv, Promote
    PROVE  IInv'
  <1>0. TypeOK /\ IInv
    BY DEF IInv
  <1>1. /\ serve = "none" /\ ~serveStarted /\ camera # None /\ ~stopped
        /\ parsed = << >> /\ src = << >> /\ ~handing /\ ~pressure
    BY <1>0 DEF Promote, serveStarted, IInv, Stages, OneCamera
  <1>2. /\ timer' = FALSE /\ serve' = "starting" /\ serveStarted' /\ handing' = TRUE
        /\ src' = buf /\ buf' = << >> /\ drain' = FALSE
        /\ UNCHANGED <<conns, camera, stopped, pressure, parsed>>
    BY DEF Promote, serveStarted
  <1>3. /\ HandoffReasons \in SUBSET Reasons /\ "handoff" \in HandoffReasons
        /\ "flv-drain" \notin HandoffReasons /\ "egress-pressure" \notin HandoffReasons
    BY <1>0, <1>1, Typed DEF HandoffReasons, Reasons, IInv, PausesHaveReasons
  <1>4. SetReasons(HandoffReasons, camera, Usable(camera), pausedSock)
    BY DEF Promote
  <1>5. /\ reasons' = HandoffReasons /\ paused' \subseteq Socks
        /\ pausedSock' \in Socks \cup {None} /\ PausedIsKnown'
        /\ camera' # None /\ st'[camera'] = "open" => (camera' \in paused' <=> HandoffReasons # {})
    BY <1>0, <1>2, <1>3, <1>4, CameraPauses DEF IInv, conns
  <1>6. TypeOK'
    <2>1. Len(buf) <= Settle + Batch
      BY <1>0, <1>1 DEF TypeOK, Mark
    <2>2. buf' \in Seq(Parts) /\ src' \in Seq(Parts) /\ parsed' \in Seq(Parts)
      BY <1>0, <1>2, Typed
    <2>3. Len(buf') <= Mark' + Batch /\ Len(src') <= Settle + Batch
      BY <1>0, <1>2, <2>1, Typed, Bounds DEF Mark
    <2>4. QED
      BY <1>0, <1>2, <1>3, <1>5, <2>2, <2>3, Typed DEF TypeOK, conns
  <1>7. FeedIsWhole'
    <2>1. parsed' \o buf' \o src' = parsed \o buf \o src
      BY <1>0, <1>1, <1>2, Typed, ConcatEmptySeq
    <2>2. QED
      BY <1>0, <1>1, <1>2, <2>1 DEF IInv, FeedIsWhole, InOrder, OneFeed, StoppedHoldsNothing, conns
  <1>8. PausesHaveReasons'
    BY <1>1, <1>2, <1>3, <1>5 DEF PausesHaveReasons
  <1>9. OneCamera' /\ Fresh'
    BY <1>0, <1>1, <1>2 DEF IInv, OneCamera, Fresh, conns
  <1>10. Stages'
    BY <1>0, <1>2, Typed, Bounds DEF Stages, Mark
  <1>11. QED
    BY <1>5, <1>6, <1>7, <1>8, <1>9, <1>10 DEF IInv

\* Once started, the muxer never goes back to not having been.
LEMMA ServeUpNext ==
    ASSUME IInv, ServeUp
    PROVE  IInv'
  <1>1. /\ serve = "starting" /\ serve' \in {"up", "gone"} /\ serveStarted /\ serveStarted'
        /\ UNCHANGED <<conns, feed, bytes, pauses, stopped, pressure, parsed>>
    BY DEF ServeUp, serveStarted
  <1>2. TypeOK'
    BY <1>1 DEF IInv, TypeOK, conns, feed, bytes, pauses, Mark
  <1>3. FeedIsWhole' /\ PausesHaveReasons'
    BY <1>1 DEF IInv, FeedIsWhole, InOrder, OneFeed, StoppedHoldsNothing, PausesHaveReasons,
                conns, feed, bytes, pauses
  <1>4. OneCamera' /\ Stages' /\ PausedIsKnown' /\ Fresh'
    BY <1>1 DEF IInv, OneCamera, Stages, PausedIsKnown, Fresh, conns, feed, bytes, pauses, Mark
  <1>5. QED
    BY <1>2, <1>3, <1>4 DEF IInv

-----------------------------------------------------------------------------
(* The theorems. *)

\* The state the stream is made in satisfies the invariant.
LEMMA InitIInv ==
    Init => IInv
  <1> SUFFICES ASSUME Init PROVE IInv
    OBVIOUS
  <1>1. TypeOK
    <2>1. << >> \in Seq(Parts) /\ Len(<< >>) = 0 /\ 0 <= Settle + Batch
      BY Bounds, EmptySeq
    <2>2. Mark = Settle /\ st \in [Socks -> {"none", "probing", "open", "closing"}]
          /\ probe \in [Socks -> 0..1] /\ parts \in [Socks -> 0..MaxParts]
      BY Bounds DEF Init, Mark, serveStarted
    <2>3. QED
      BY <2>1, <2>2 DEF Init, TypeOK
  <1>2. FeedIsWhole /\ PausesHaveReasons /\ OneCamera /\ Stages /\ PausedIsKnown /\ Fresh
    BY Bounds, EmptySeq
       DEF Init, FeedIsWhole, InOrder, OneFeed, StoppedHoldsNothing, PausesHaveReasons, OneCamera,
           Stages, PausedIsKnown, Fresh, Mark, serveStarted
  <1>3. QED
    BY <1>1, <1>2 DEF IInv

\* No step of the stream, its sockets or its muxer leaves the invariant.
LEMMA IInvNext ==
    IInv /\ [Next]_vars => IInv'
  <1> SUFFICES ASSUME IInv, [Next]_vars PROVE IInv'
    OBVIOUS
  <1>0. TypeOK /\ IInv
    BY DEF IInv
  <1>1. CASE UNCHANGED vars
    BY <1>0, <1>1, Typed, ConnsNext DEF vars, conns
  <1>2. ASSUME NEW s \in Socks,
               Accept(s) \/ KeepPrefix(s) \/ RejectProbe(s) \/ RejectDuplicate(s) \/ PeerCloses(s)
        PROVE  IInv'
    <2>1. UNCHANGED <<parts, feed, bytes, pauses, muxer>>
      BY <1>2 DEF Accept, KeepPrefix, RejectProbe, RejectDuplicate, PeerCloses
    <2>2. CASE Accept(s)
      <3>1. /\ st' \in [Socks -> {"none", "probing", "open", "closing"}] /\ probe' = probe
            /\ \A d \in Socks : st'[d] = st[d] \/ (st'[d] = "probing" /\ st[d] = "none" /\ ~stopped)
        BY <1>0, <2>2, Typed DEF Accept
      <3>2. QED
        BY <1>0, <2>1, <3>1, Typed, ConnsNext
    <2>3. CASE KeepPrefix(s)
      <3>1. st' = st /\ probe' \in [Socks -> 0..1]
        BY <1>0, <2>3, Typed DEF KeepPrefix
      <3>2. QED
        BY <1>0, <2>1, <3>1, Typed, ConnsNext
    <2>4. CASE RejectProbe(s) \/ RejectDuplicate(s) \/ PeerCloses(s)
      <3>1. st' = Close(st, {s}) /\ probe' = probe /\ st[s] \in {"probing", "open"}
        BY <2>4 DEF RejectProbe, RejectDuplicate, PeerCloses
      <3>2. /\ st' \in [Socks -> {"none", "probing", "open", "closing"}]
            /\ \A d \in Socks : st'[d] = IF d \in {s} /\ st[d] # "none" THEN "closing" ELSE st[d]
        BY <1>0, <3>1, CloseTypes
      <3>3. \A d \in Socks : \/ st'[d] = st[d]
                             \/ st'[d] = "closing" /\ st[d] \in {"probing", "open"}
        BY <3>1, <3>2
      <3>4. QED
        BY <1>0, <2>1, <3>1, <3>2, <3>3, Typed, ConnsNext
    <2>5. QED
      BY <1>2, <2>2, <2>3, <2>4
  <1>3. CASE Camera
    BY <1>0, <1>2, <1>3, AdoptNext, DataNext DEF Camera
  <1>4. ASSUME NEW s \in Socks, Closed(s) PROVE IInv'
    <2>1. CASE StrayClosed(s)
      BY <1>0, <2>1, StrayNext
    <2>2. CASE CandidateClosed(s)
      BY <1>0, <2>2, CandidateNext
    <2>3. CASE FeedClosed(s)
      <3>1. /\ StopWith(IF serve = "up" THEN "gone" ELSE serve)
            /\ serve \in {"none", "starting", "up", "gone"}
        BY <1>0, <2>3, Typed DEF FeedClosed
      <3>2. QED
        BY <1>0, <3>1, StopNext
    <2>4. QED
      BY <1>4, <2>1, <2>2, <2>3 DEF Closed
  <1>5. CASE Settled
    BY <1>0, <1>5, PromoteNext, CandidateNext DEF Settled
  <1>6. CASE Handing
    BY <1>0, <1>6, MoveNext, ReasonNext DEF Handing
  <1>7. CASE Muxer
    <2>1. CASE ServeDies
      BY <1>0, <2>1, StopNext DEF ServeDies
    <2>2. QED
      BY <1>0, <1>7, <2>1, ServeUpNext, ReasonNext DEF Muxer
  <1>8. CASE Parse
    BY <1>0, <1>8, MoveNext
  <1>9. CASE Drained
    BY <1>0, <1>9, ReasonNext
  <1>10. CASE Stop
    <2>1. /\ StopWith(IF serve = "up" THEN "gone" ELSE serve)
          /\ serve \in {"none", "starting", "up", "gone"}
      BY <1>0, <1>10, Typed DEF Stop
    <2>2. QED
      BY <1>0, <2>1, StopNext
  <1>11. QED
    BY <1>1, <1>3, <1>4, <1>5, <1>6, <1>7, <1>8, <1>9, <1>10 DEF Next

\* The inductive invariant holds in every state of every behaviour.
LEMMA IInvHolds ==
    Spec => []IInv
  BY InitIInv, IInvNext, PTL DEF Spec

\* What a stream retains of the camera's push stays within the mark of its
\* buffer and one data event more, through probing, settling and handing over.
THEOREM TypeCorrect ==
    Spec => []TypeOK
  <1>1. IInv => TypeOK
    BY DEF IInv
  <1>2. QED
    BY <1>1, IInvHolds, PTL

\* The muxer gets one connection's stream whole and in order, across the
\* handoff from the settling buffer to the steady one, and stop() keeps no byte.
THEOREM FeedStaysWhole ==
    Spec => []FeedIsWhole
  <1>1. IInv => FeedIsWhole
    BY DEF IInv
  <1>2. QED
    BY <1>1, IInvHolds, PTL

\* The adopted socket is paused exactly while one of the three causes lasts:
\* none of their ends resumes a socket that another one still holds.
THEOREM PausesKeepReasons ==
    Spec => []PausesHaveReasons
  <1>1. IInv => PausesHaveReasons
    BY DEF IInv
  <1>2. QED
    BY <1>1, IInvHolds, PTL
=============================================================================
