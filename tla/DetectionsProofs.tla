-------------------------- MODULE DetectionsProofs --------------------------
(***************************************************************************)
(* Proofs about Detections, for every set of kinds of events and for all   *)
(* durations as long as an event is given up no later than its hold ends:  *)
(* the one timer serves all the holds, and the throttle keeps no object    *)
(* back.                                                                   *)
(***************************************************************************)
EXTENDS Detections, WellFoundedInduction, TLAPS

(* The inductive invariant. *)

\* A hold keeps the sensor on, and the timer looks again no later than Margin
\* after its deadline.
Watched ==
    \A k \in Keys : holds[k] # None => motion /\ timer # None /\ timer <= holds[k] + Margin

\* The timer runs only for a hold, and the sensor is on only with the timer.
TimerHasHold ==
    /\ timer # None => \E k \in Keys : holds[k] # None
    /\ live /\ motion => timer # None
    /\ ~live => \A k \in Keys : holds[k] = None

\* The hold of an event outlasts its idle timer.
Covered == \A k \in Ongoing :
    events[k].idle > 0 => holds[k] # None /\ events[k].idle <= holds[k]

IInv == TypeOK /\ Watched /\ TimerHasHold /\ Covered /\ KnownIsReported

-----------------------------------------------------------------------------
(* What recomputeMotion() does. *)

\* The earliest of several deadlines is one of them.
LEMMA LeastIsLeast ==
    ASSUME NEW T \in SUBSET Nat, T # {}
    PROVE  Least(T) \in T /\ \A n \in T : Least(T) <= n
  <1> DEFINE Less == {p \in Nat \X Nat : p[1] < p[2]}
  <1>1. IsWellFoundedOn(Less, Nat)
    BY NatLessThanWellFounded DEF OpToRel
  <1>2. PICK n \in T : \A m \in T : ~(<<m, n>> \in Less)
    BY <1>1, WFMin
  <1>3. \A m \in T : ~(m < n)
    BY <1>2
  <1>4. \A m \in T : n <= m
    BY <1>3
  <1>5. QED
    BY <1>4 DEF Least

\* The new timer is due no later than Margin after any hold that is kept.
LEMMA RecomputeWatches ==
    ASSUME NEW hs \in [Keys -> Left \cup {None}], Recompute(hs)
    PROVE  /\ holds' \in [Keys -> Left \cup {None}]
           /\ motion' \in BOOLEAN
           /\ timer' \in (-Late..Longest) \cup {None}
           /\ Watched'
           /\ timer' # None => \E k \in Keys : holds'[k] # None
           /\ motion' => timer' # None
           /\ \A k \in Keys : hs[k] # None /\ hs[k] > 0 => holds'[k] = hs[k]
  <1> DEFINE kept == {k \in Keys : hs[k] # None /\ hs[k] > 0}
             deadlines == {hs[k] : k \in kept} \cup {TimerCap}
             next == Least(deadlines)
  <1>1. /\ holds' = [k \in Keys |-> IF k \in kept THEN hs[k] ELSE None]
        /\ motion' = (kept # {})
        /\ timer' = IF kept = {} THEN None ELSE next + Margin
    BY DEF Recompute
  <1>2. \A k \in kept : hs[k] \in Nat /\ hs[k] <= Longest
    BY DetectionConstants DEF Left, Longest
  <1>3. deadlines \in SUBSET Nat /\ deadlines # {}
    BY <1>2, DetectionConstants
  <1>4. next \in Nat /\ next <= TimerCap /\ \A k \in kept : next <= hs[k]
    BY <1>3, LeastIsLeast
  <1> HIDE DEF next
  <1>5. timer' \in (-Late..Longest) \cup {None}
    BY <1>1, <1>4, DetectionConstants DEF Longest
  <1>6. kept # {} => timer' # None
    BY <1>1, <1>4, DetectionConstants
  <1>7. \A k \in Keys : holds'[k] # None => k \in kept /\ holds'[k] = hs[k]
    BY <1>1
  <1>8. Watched'
    <2> SUFFICES ASSUME NEW k \in Keys, holds'[k] # None
                 PROVE  motion' /\ timer' # None /\ timer' <= holds'[k] + Margin
      BY DEF Watched, Keys
    <2>1. k \in kept /\ holds'[k] = hs[k]
      BY <1>7
    <2>2. timer' = next + Margin
      BY <2>1, <1>1
    <2>3. next <= hs[k] /\ hs[k] \in Nat
      BY <2>1, <1>2, <1>4
    <2>4. QED
      BY <2>1, <2>2, <2>3, <1>1, <1>4, <1>6, DetectionConstants
  <1>9. QED
    BY <1>1, <1>5, <1>6, <1>7, <1>8

\* holdMotion(): the hold of key j is ms, the live ones stay.
LEMMA HoldWatches ==
    ASSUME IInv, NEW j \in Keys, NEW ms \in 1..Longest, HoldMotion(j, ms)
    PROVE  /\ holds' \in [Keys -> Left \cup {None}]
           /\ motion' \in BOOLEAN
           /\ timer' \in (-Late..Longest) \cup {None}
           /\ Watched'
           /\ timer' # None => \E k \in Keys : holds'[k] # None
           /\ motion' => timer' # None
           /\ holds'[j] = ms
           /\ \A k \in Keys : k # j /\ holds[k] # None /\ holds[k] > 0 => holds'[k] = holds[k]
  <1> DEFINE hs == [holds EXCEPT ![j] = ms]
  <1>1. ms \in Left /\ ms # None /\ ms > 0
    BY DetectionConstants DEF Left
  <1>2. /\ hs \in [Keys -> Left \cup {None}]
        /\ hs[j] = ms
        /\ \A k \in Keys : k # j => hs[k] = holds[k]
    BY <1>1 DEF IInv, TypeOK
  <1>3. Recompute(hs)
    BY DEF HoldMotion
  <1> HIDE DEF hs
  <1>4. QED
    BY <1>1, <1>2, <1>3, RecomputeWatches

-----------------------------------------------------------------------------
(* The steps. *)

\* A message or an idle timer: one hold is set, at most one event changes, and
\* the hold it sets outlasts what is left of it.
LEMMA HoldKeeps ==
    ASSUME IInv, live, UNCHANGED live, NEW j \in Keys, NEW ms \in 1..Longest,
           HoldMotion(j, ms),
           events' \in [Kinds -> Event \cup {None}],
           told' \in [Kinds -> Sigs \cup {None}],
           \A k \in Kinds : k # j => events'[k] = events[k],
           j \in Kinds /\ events'[j] # None => events'[j].idle <= ms
    PROVE  TypeOK' /\ Watched' /\ TimerHasHold' /\ Covered'
  <1>1. /\ holds' \in [Keys -> Left \cup {None}]
        /\ motion' \in BOOLEAN
        /\ timer' \in (-Late..Longest) \cup {None}
        /\ Watched'
        /\ timer' # None => \E k \in Keys : holds'[k] # None
        /\ motion' => timer' # None
        /\ holds'[j] = ms
        /\ \A k \in Keys : k # j /\ holds[k] # None /\ holds[k] > 0 => holds'[k] = holds[k]
    BY HoldWatches
  <1>2. TypeOK'
    BY <1>1 DEF TypeOK
  <1>3. TimerHasHold'
    BY <1>1 DEF TimerHasHold
  <1>4. Covered'
    <2> SUFFICES ASSUME NEW k \in Kinds, events'[k] # None, events'[k].idle > 0
                 PROVE  holds'[k] # None /\ events'[k].idle <= holds'[k]
      BY DEF Covered, Ongoing
    <2>1. CASE k = j
      BY <1>1, <2>1, DetectionConstants
    <2>2. CASE k # j
      <3>1. k \in Ongoing /\ events[k] \in Event /\ events[k].idle > 0
        BY <2>2 DEF Ongoing, IInv, TypeOK
      <3>2. holds[k] # None /\ events[k].idle <= holds[k] /\ k \in Keys
        BY <3>1 DEF IInv, Covered, Keys
      <3>3. holds[k] \in Int /\ events[k].idle \in Int
        BY <3>1, <3>2, DetectionConstants DEF IInv, TypeOK, Left, Event
      <3>4. holds[k] > 0
        BY <3>1, <3>2, <3>3
      <3>5. QED
        BY <1>1, <2>2, <3>2, <3>4
    <2>3. QED
      BY <2>1, <2>2
  <1>5. QED
    BY <1>1, <1>2, <1>3, <1>4

\* The durations are possible times left.
LEMMA Durations ==
    /\ EventHold \in 1..Longest /\ EventLinger \in 1..Longest
    /\ StartHold \in 1..Longest /\ PulseHold \in 1..Longest /\ StopLinger \in 1..Longest
  BY DetectionConstants DEF Longest

\* onMotionEvent()
LEMMA MotionEventKeeps == ASSUME IInv, MotionEvent PROVE IInv'
  <1>1. PICK ms \in {StartHold, PulseHold, StopLinger} : HoldMotion(Motion, ms)
    BY DEF MotionEvent
  <1>2. live /\ UNCHANGED <<live, events, told>>
    BY DEF MotionEvent
  <1>3. ms \in 1..Longest /\ Motion \in Keys /\ Motion \notin Kinds
    BY Durations, DetectionConstants DEF Motion, Keys
  <1>4. TypeOK' /\ Watched' /\ TimerHasHold' /\ Covered'
    BY <1>1, <1>2, <1>3, HoldKeeps DEF IInv, TypeOK
  <1>5. KnownIsReported'
    BY <1>2 DEF IInv, KnownIsReported, Ongoing
  <1>6. QED
    BY <1>4, <1>5 DEF IInv

\* What onSmartDetect() detects is a set of detections, or nothing.
LEMMA DetectedType ==
    ASSUME NEW p \in Payloads, NEW starting \in BOOLEAN,
           NEW known \in Sigs \cup {None}, NEW one \in Sigs \cup {None}
    PROVE  Detected(p, starting, known, one) \in Sigs \cup {None}
  BY DEF Detected, Payloads

\* An 'enter', a 'moving', a 'packageDetected'.
LEMMA StartOrUpdateKeeps ==
    ASSUME IInv, NEW k \in Kinds, NEW enter \in BOOLEAN, NEW p \in Payloads,
           StartOrUpdate(k, enter, p)
    PROVE  IInv'
  <1> DEFINE starting == enter \/ events[k] = None
             one == IF k = Package THEN CHOOSE s \in Sigs : TRUE ELSE None
             sig == Detected(p, starting, Known(k), one)
             emit == Reports(k, sig, starting)
             since == IF emit THEN 0 ELSE IF events[k] = None THEN EmitEvery
                      ELSE events[k].since
             e == [known |-> IF sig # None THEN sig ELSE Known(k),
                   since |-> since, idle |-> IdleEnd]
  <1>1. /\ live /\ UNCHANGED live
        /\ events' = [events EXCEPT ![k] = e]
        /\ told' = [told EXCEPT ![k] = IF emit THEN sig
                                       ELSE IF events[k] = None THEN None ELSE @]
        /\ HoldMotion(k, EventHold)
    BY DEF StartOrUpdate
  <1>2. events[k] \in Event \cup {None} /\ Known(k) \in Sigs \cup {None}
    BY DEF IInv, TypeOK, Known, Event
  <1>3. one \in Sigs \cup {None} /\ starting \in BOOLEAN
    BY DetectionConstants
  <1> HIDE DEF one, starting
  <1>4. sig \in Sigs \cup {None}
    BY <1>2, <1>3, DetectedType
  <1>5. since \in 0..EmitEvery
    BY <1>2, DetectionConstants DEF Event
  <1>6. e \in Event /\ e.idle = IdleEnd
    BY <1>2, <1>4, <1>5, DetectionConstants DEF Event
  <1>7. KnownIsReported'
    <2> SUFFICES ASSUME NEW j \in Kinds, events'[j] # None, events'[j].known # None
                 PROVE  told'[j] = events'[j].known
      BY DEF KnownIsReported, Ongoing
    <2>1. CASE j # k
      BY <1>1, <2>1 DEF IInv, TypeOK, KnownIsReported, Ongoing
    <2>2. CASE j = k
      <3>1. events'[k] = e /\ told'[k] = IF emit THEN sig
                                         ELSE IF events[k] = None THEN None ELSE told[k]
        BY <1>1 DEF IInv, TypeOK
      <3>2. CASE emit
        BY <2>2, <3>1, <3>2 DEF Reports
      <3>3. CASE ~emit /\ sig # None
        <4>1. events[k] # None /\ sig = events[k].known
          BY <3>3 DEF Reports
        <4>2. told[k] = events[k].known
          BY <3>3, <4>1 DEF IInv, KnownIsReported, Ongoing
        <4>3. QED
          BY <2>2, <3>1, <3>3, <4>1, <4>2
      <3>4. CASE ~emit /\ sig = None
        <4>1. events'[k].known = Known(k)
          BY <3>1, <3>4
        <4>2. events[k] # None /\ Known(k) = events[k].known
          BY <2>2, <4>1 DEF Known
        <4>3. told[k] = events[k].known
          BY <2>2, <4>1, <4>2 DEF IInv, KnownIsReported, Ongoing
        <4>4. QED
          BY <2>2, <3>1, <3>4, <4>1, <4>2, <4>3
      <3>5. QED
        BY <3>2, <3>3, <3>4
    <2>3. QED
      BY <2>1, <2>2
  <1> HIDE DEF e, emit, sig
  <1>8. events' \in [Kinds -> Event \cup {None}] /\ told' \in [Kinds -> Sigs \cup {None}]
    BY <1>1, <1>4, <1>6 DEF IInv, TypeOK
  <1>9. events'[k].idle <= EventHold /\ \A j \in Kinds : j # k => events'[j] = events[j]
    BY <1>1, <1>6, DetectionConstants DEF IInv, TypeOK
  <1>10. TypeOK' /\ Watched' /\ TimerHasHold' /\ Covered'
    BY <1>1, <1>8, <1>9, Durations, HoldKeeps DEF Keys
  <1>11. QED
    BY <1>7, <1>10 DEF IInv

\* An event ends, reported once more or not, and its motion lingers.
LEMMA EndKeeps ==
    ASSUME IInv, live, UNCHANGED live, NEW k \in Kinds, HoldMotion(k, EventLinger),
           events' = [events EXCEPT ![k] = None],
           told' \in [Kinds -> Sigs \cup {None}],
           \A j \in Kinds : j # k => told'[j] = told[j]
    PROVE  IInv'
  <1>1. events' \in [Kinds -> Event \cup {None}] /\ events'[k] = None
    BY DEF IInv, TypeOK
  <1>2. \A j \in Kinds : j # k => events'[j] = events[j]
    BY DEF IInv, TypeOK
  <1>3. TypeOK' /\ Watched' /\ TimerHasHold' /\ Covered'
    BY <1>1, <1>2, Durations, HoldKeeps DEF Keys
  <1>4. KnownIsReported'
    BY <1>1, <1>2 DEF IInv, KnownIsReported, Ongoing
  <1>5. QED
    BY <1>3, <1>4 DEF IInv

\* A 'leave'.
LEMMA LeaveKeeps ==
    ASSUME IInv, NEW k \in Kinds, NEW p \in Payloads, Leave(k, p)
    PROVE  IInv'
  <1> DEFINE sig == Detected(p, FALSE, Known(k), None)
  <1>1. /\ live /\ UNCHANGED live
        /\ events' = [events EXCEPT ![k] = None]
        /\ told' = [told EXCEPT ![k] = IF sig # None THEN sig ELSE @]
        /\ HoldMotion(k, EventLinger)
    BY DEF Leave
  <1>2. Known(k) \in Sigs \cup {None}
    BY DEF IInv, TypeOK, Known, Event
  <1>3. sig \in Sigs \cup {None}
    BY <1>2, DetectedType
  <1> HIDE DEF sig
  <1>4. /\ told' \in [Kinds -> Sigs \cup {None}]
        /\ \A j \in Kinds : j # k => told'[j] = told[j]
    BY <1>1, <1>3 DEF IInv, TypeOK
  <1>5. QED
    BY <1>1, <1>4, EndKeeps

\* The idle timer.
LEMMA IdleTimerKeeps == ASSUME IInv, NEW k \in Kinds, IdleTimer(k) PROVE IInv'
  <1>1. /\ live /\ UNCHANGED <<live, told>>
        /\ events' = [events EXCEPT ![k] = None]
        /\ HoldMotion(k, EventLinger)
    BY DEF IdleTimer, IInv, TypeOK
  <1>2. told' \in [Kinds -> Sigs \cup {None}]
    BY <1>1 DEF IInv, TypeOK
  <1>3. QED
    BY <1>1, <1>2, EndKeeps

\* The motion timer.
LEMMA MotionTimerKeeps == ASSUME IInv, MotionTimer PROVE IInv'
  <1>1. Recompute(holds) /\ timer # None /\ UNCHANGED <<live, events, told>>
    BY DEF MotionTimer
  <1>2. /\ holds' \in [Keys -> Left \cup {None}]
        /\ motion' \in BOOLEAN
        /\ timer' \in (-Late..Longest) \cup {None}
        /\ Watched'
        /\ timer' # None => \E k \in Keys : holds'[k] # None
        /\ motion' => timer' # None
        /\ \A k \in Keys : holds[k] # None /\ holds[k] > 0 => holds'[k] = holds[k]
    BY <1>1, RecomputeWatches DEF IInv, TypeOK
  <1>3. live
    BY <1>1 DEF IInv, TypeOK
  <1>4. TypeOK' /\ TimerHasHold'
    BY <1>1, <1>2, <1>3 DEF IInv, TypeOK, TimerHasHold
  <1>5. Covered'
    <2> SUFFICES ASSUME NEW k \in Kinds, events[k] # None, events[k].idle > 0
                 PROVE  holds'[k] # None /\ events[k].idle <= holds'[k]
      BY <1>1 DEF Covered, Ongoing
    <2>1. k \in Keys /\ holds[k] # None /\ events[k].idle <= holds[k]
      BY DEF IInv, Covered, Ongoing, Keys
    <2>2. holds[k] \in Int /\ events[k].idle \in Int
      BY <2>1, DetectionConstants DEF IInv, TypeOK, Left, Event
    <2>3. QED
      BY <1>2, <2>1, <2>2
  <1>6. KnownIsReported'
    BY <1>1 DEF IInv, KnownIsReported, Ongoing
  <1>7. QED
    BY <1>2, <1>4, <1>5, <1>6 DEF IInv

\* The object goes, and the next one comes.
LEMMA LifeKeeps == ASSUME IInv, Gone \/ Constructed PROVE IInv'
  <1>1. CASE Gone
    BY <1>1 DEF Gone, IInv, TypeOK, Watched, TimerHasHold, Covered, KnownIsReported, Ongoing
  <1>2. CASE Constructed
    BY <1>2 DEF Constructed, IInv, TypeOK, Watched, TimerHasHold, Covered, KnownIsReported,
                Ongoing
  <1>3. QED
    BY <1>1, <1>2

\* Time passes.
LEMMA TickKeeps == ASSUME IInv, Tick PROVE IInv'
  <1> Longest \in Nat /\ Late \in Nat /\ IdleEnd \in Nat /\ EmitEvery \in Nat
    BY DetectionConstants DEF Longest
  <1>1. /\ UNCHANGED <<live, motion, told>>
        /\ timer = None => timer' = None
        /\ timer # None => timer' = timer - 1 /\ timer \in (1 - Late)..Longest
    <2>1. timer # None => timer # -Late
      BY DEF Tick, Due
    <2>2. timer # None => timer \in -Late..Longest
      BY DEF IInv, TypeOK
    <2>3. timer # None => timer \in (1 - Late)..Longest
      BY <2>1, <2>2
    <2>4. QED
      BY <2>3 DEF Tick
  <1>2. \A k \in Keys :
           IF holds[k] = None THEN holds'[k] = None
           ELSE /\ holds'[k] = holds[k] - 1 /\ holds[k] \in Int /\ holds'[k] # None
                /\ holds'[k] \in Left /\ timer # None /\ timer <= holds[k] + Margin
    <2> SUFFICES ASSUME NEW k \in Keys, holds[k] # None
                 PROVE  /\ holds'[k] = holds[k] - 1 /\ holds[k] \in Int /\ holds'[k] # None
                        /\ holds'[k] \in Left /\ timer # None /\ timer <= holds[k] + Margin
      BY DEF Tick
    <2>1. holds[k] \in Left /\ holds'[k] = holds[k] - 1
      BY DEF IInv, TypeOK, Tick
    <2>2. timer # None /\ timer <= holds[k] + Margin
      BY DEF IInv, Watched
    <2>3. QED
      BY <1>1, <2>1, <2>2, DetectionConstants DEF Left, Longest
  <1>3. \A k \in Kinds :
           IF events[k] = None THEN events'[k] = None
           ELSE /\ events'[k] \in Event /\ events'[k].idle = events[k].idle - 1
                /\ events[k].idle \in Int /\ events'[k].known = events[k].known
    <2> SUFFICES ASSUME NEW k \in Kinds, events[k] # None
                 PROVE  /\ events'[k] \in Event /\ events'[k].idle = events[k].idle - 1
                        /\ events[k].idle \in Int /\ events'[k].known = events[k].known
      BY DEF Tick
    <2>1. events[k] \in Event
      BY DEF IInv, TypeOK
    <2>2. events[k].idle \in (1 - Late)..IdleEnd
      <3>1. events[k].idle # None /\ events[k].idle \in -Late..IdleEnd
        BY <2>1, DetectionConstants DEF Event
      <3>2. events[k].idle # -Late
        BY <3>1 DEF Tick, Due, Ongoing
      <3>3. QED
        BY <3>1, <3>2
    <2>3. events'[k] = [events[k] EXCEPT !.idle = @ - 1,
                                         !.since = IF @ < EmitEvery THEN @ + 1 ELSE @]
      BY DEF Tick
    <2>4. /\ events[k].known \in Sigs \cup {None} /\ events[k].since \in 0..EmitEvery
          /\ (IF events[k].since < EmitEvery THEN events[k].since + 1
                                             ELSE events[k].since) \in 0..EmitEvery
      BY <2>1 DEF Event
    <2>5. events'[k].idle = events[k].idle - 1 /\ events'[k].known = events[k].known
      BY <2>1, <2>3 DEF Event
    <2>6. events[k].idle - 1 \in -Late..IdleEnd
      BY <2>2
    <2>7. events'[k] \in Event
      BY <2>1, <2>3, <2>4, <2>6 DEF Event
    <2>8. QED
      BY <2>2, <2>5, <2>7
  <1>4. TypeOK'
    <2>1. timer' \in (-Late..Longest) \cup {None}
      BY <1>1, DetectionConstants DEF Longest
    <2>2. holds' \in [Keys -> Left \cup {None}] /\ events' \in [Kinds -> Event \cup {None}]
      BY <1>2, <1>3 DEF Tick
    <2>3. QED
      BY <1>1, <1>3, <2>1, <2>2 DEF IInv, TypeOK
  <1>5. Watched'
    BY <1>1, <1>2, DetectionConstants DEF IInv, Watched, TypeOK
  <1>6. TimerHasHold'
    <2>1. timer # None => timer' # None
      BY <1>1, DetectionConstants
    <2>2. QED
      BY <1>1, <1>2, <2>1 DEF IInv, TimerHasHold
  <1>7. Covered'
    <2> SUFFICES ASSUME NEW k \in Kinds, events'[k] # None, events'[k].idle > 0
                 PROVE  holds'[k] # None /\ events'[k].idle <= holds'[k]
      BY DEF Covered, Ongoing
    <2>1. /\ events[k] # None /\ events[k].idle \in Int
          /\ events'[k].idle = events[k].idle - 1
      BY <1>3
    <2>2. holds[k] # None /\ events[k].idle <= holds[k]
      BY <2>1 DEF IInv, Covered, Ongoing
    <2>3. QED
      BY <1>2, <2>1, <2>2 DEF Keys
  <1>8. KnownIsReported'
    BY <1>1, <1>3 DEF IInv, KnownIsReported, Ongoing
  <1>9. QED
    BY <1>4, <1>5, <1>6, <1>7, <1>8 DEF IInv

\* The inductive invariant holds at first, every step keeps it, so it always does.
LEMMA Inductive == Spec => []IInv
  <1>1. Init => IInv
    BY DEF Init, IInv, TypeOK, Watched, TimerHasHold, Covered, KnownIsReported, Ongoing
  <1>2. IInv /\ [Next]_vars => IInv'
    <2> SUFFICES ASSUME IInv, [Next]_vars PROVE IInv'
      OBVIOUS
    <2>1. CASE MotionEvent
      BY <2>1, MotionEventKeeps
    <2>2. CASE SmartEvent
      BY <2>2, StartOrUpdateKeeps, LeaveKeeps DEF SmartEvent
    <2>3. CASE Timers
      BY <2>3, MotionTimerKeeps, IdleTimerKeeps DEF Timers
    <2>4. CASE Gone \/ Constructed
      BY <2>4, LifeKeeps
    <2>5. CASE Tick
      BY <2>5, TickKeeps
    <2>6. CASE UNCHANGED vars
      BY <2>6 DEF vars, IInv, TypeOK, Watched, TimerHasHold, Covered, KnownIsReported, Ongoing
    <2>7. QED
      BY <2>1, <2>2, <2>3, <2>4, <2>5, <2>6 DEF Next
  <1>3. QED
    BY <1>1, <1>2, PTL DEF Spec

-----------------------------------------------------------------------------
(* The theorems. *)

\* A camera object that is gone leaves no event and no timer; every time left is
\* within its range, so no timer is ever missed.
THEOREM TypeCorrect == Spec => []TypeOK
  BY Inductive, PTL DEF IInv

\* recomputeMotion() and its one timer make the motion sensor the union of the
\* holds: it is on during every smart event, and off soon after the last hold.
THEOREM MotionStaysUnion == Spec => []MotionIsUnion
  <1>1. IInv => MotionCoversEvents
    BY DEF IInv, Covered, Watched, MotionCoversEvents, Keys, Ongoing
  <1>2. IInv => MotionHasReason
    <2> SUFFICES ASSUME IInv, live, motion
                 PROVE  /\ timer # None
                        /\ \E k \in Keys : holds[k] # None /\ holds[k] >= -(Margin + Late)
      BY DEF MotionHasReason
    <2>1. timer # None /\ timer \in -Late..Longest
      BY DEF IInv, TimerHasHold, TypeOK
    <2>2. PICK k \in Keys : holds[k] # None
      BY <2>1 DEF IInv, TimerHasHold
    <2>3. timer <= holds[k] + Margin /\ holds[k] \in Int
      BY <2>2, DetectionConstants DEF IInv, Watched, TypeOK, Left
    <2>4. QED
      BY <2>1, <2>2, <2>3, DetectionConstants
  <1>3. QED
    BY <1>1, <1>2, Inductive, PTL DEF MotionIsUnion

\* The throttle of onSmartDetect() never keeps an object back: what an ongoing
\* event is known to show has been reported.
THEOREM KnownStaysReported == Spec => []KnownIsReported
  BY Inductive, PTL DEF IInv
=============================================================================
