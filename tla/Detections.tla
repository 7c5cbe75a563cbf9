----------------------------- MODULE Detections -----------------------------
(***************************************************************************)
(* DetectionEngine of src/src/detections.ts: the camera's smart events and *)
(* motion messages become object detections and one motion sensor.         *)
(*                                                                         *)
(* Motion is the union of holds, one per kind of event and one for the     *)
(* explicit motion messages, with deadlines of their own; a single timer   *)
(* wakes the engine for the earliest of them.  An ongoing smart event also *)
(* has an idle timer, for the camera that never says 'leave'.              *)
(*                                                                         *)
(* Deadlines and timers are kept as the time left, and count below zero    *)
(* when they are overdue; the event loop may be late by Late.              *)
(***************************************************************************)
EXTENDS Integers, FiniteSets

CONSTANTS
    Kinds,         \* keys of smartEvents: zone, line, ...
    Package,       \* the key of 'packageDetected': no update, no 'leave'
    Sigs,          \* what a set of detections reports: its classes and trackers
    None,
    EmitEvery,     \* DETECT_EMIT_INTERVAL_MS
    EventHold,     \* DETECT_MOTION_HOLD_MS
    EventLinger,   \* DETECT_MOTION_LINGER_MS
    IdleEnd,       \* DETECT_EVENT_IDLE_END_MS
    StartHold,     \* MOTION_START_HOLD_MS
    PulseHold,     \* MOTION_PULSE_HOLD_MS
    StopLinger,    \* MOTION_STOP_LINGER_MS
    TimerCap,      \* the longest the motion timer sleeps
    Margin,        \* the 25 ms it adds
    Late           \* how late the event loop may be

ASSUME DetectionConstants ==
    /\ {EmitEvery, EventHold, EventLinger, IdleEnd, StartHold, PulseHold,
        StopLinger, TimerCap, Margin} \subseteq Nat \ {0}
    /\ IdleEnd <= EventHold
    /\ Late \in Nat /\ Package \in Kinds /\ "motion" \notin Kinds
    /\ Sigs # {} /\ None \notin Sigs \cup Int

VARIABLES
    live,      \* the camera object exists and is not released
    events,    \* Kinds -> the ongoing smart event, or None
    holds,     \* key -> the time left of its hold, or None
    timer,     \* motionTimer: the time left, or None
    motion,    \* motionDetected, kept by Scrypted also without the object
    told       \* Kinds -> what the last report of the ongoing event said

vars == <<live, events, holds, timer, motion, told>>

Motion == "motion"
Keys == Kinds \cup {Motion}
Longest == EventHold + EventLinger + StartHold + PulseHold + StopLinger + TimerCap + Margin
Left == -(Margin + Late + 1)..Longest

\* lastDetections, the time since lastEmit, the time left of idleTimer.
Event == [known : Sigs \cup {None}, since : 0..EmitEvery, idle : -Late..IdleEnd]

TypeOK ==
    /\ live \in BOOLEAN /\ motion \in BOOLEAN
    /\ events \in [Kinds -> Event \cup {None}]
    /\ holds \in [Keys -> Left \cup {None}]
    /\ timer \in (-Late..Longest) \cup {None}
    /\ told \in [Kinds -> Sigs \cup {None}]
    /\ ~live => timer = None /\ \A k \in Kinds : events[k] = None

Init ==
    /\ live = TRUE /\ motion = FALSE
    /\ events = [k \in Kinds |-> None] /\ told = [k \in Kinds |-> None]
    /\ holds = [k \in Keys |-> None] /\ timer = None

Ongoing == {k \in Kinds : events[k] # None}

-----------------------------------------------------------------------------
(* Motion. *)

Least(S) == CHOOSE n \in S : \A m \in S : n <= m

\* recomputeMotion() over the holds hs: the expired ones go.
Recompute(hs) ==
    LET kept == {k \in Keys : hs[k] # None /\ hs[k] > 0}
        next == Least({hs[k] : k \in kept} \cup {TimerCap})
    IN  /\ holds' = [k \in Keys |-> IF k \in kept THEN hs[k] ELSE None]
        /\ motion' = (kept # {})
        /\ timer' = IF kept = {} THEN None ELSE next + Margin

HoldMotion(k, ms) == Recompute([holds EXCEPT ![k] = ms])

\* onMotionEvent(): start, pulse or stop; anything else counts as a start.
MotionEvent ==
    /\ live
    /\ \E ms \in {StartHold, PulseHold, StopLinger} : HoldMotion(Motion, ms)
    /\ UNCHANGED <<live, events, told>>

\* Mutant: only holdMotion() arms the timer.
MotionTimerOnce ==
    /\ timer # None /\ timer <= 0
    /\ holds' = [k \in Keys |-> IF holds[k] # None /\ holds[k] > 0 THEN holds[k] ELSE None]
    /\ motion' = (\E k \in Keys : holds'[k] # None)
    /\ timer' = None
    /\ UNCHANGED <<live, events, told>>

\* The motion timer fires.
MotionTimer ==
    /\ timer # None /\ timer <= 0
    /\ Recompute(holds)
    /\ UNCHANGED <<live, events, told>>

-----------------------------------------------------------------------------
(* Smart events.  A message of kind 'none' changes nothing. *)

\* A payload: the tracks that move, all the tracks, the objectTypes union and
\* whether that names a single type.
Payloads == [moving : Sigs \cup {None}, tracks : Sigs \cup {None},
             union : Sigs \cup {None}, single : BOOLEAN]

\* The detections onSmartDetect() takes from payload p.  known: lastDetections;
\* one: the class a packageDetected message has when it names none.
Detected(p, starting, known, one) ==
    LET chosen == IF p.moving # None THEN p.moving
                  ELSE IF starting THEN p.tracks ELSE None
        union == IF starting \/ p.single THEN p.union ELSE None
    IN  IF chosen # None THEN chosen
        ELSE IF known # None THEN known
        ELSE IF union # None THEN union ELSE one

Known(k) == IF events[k] = None THEN None ELSE events[k].known

\* Mutant: a new object does not get past the throttle.
ReportsThrottled(k, sig, starting) ==
    sig # None /\ (starting \/ events[k] = None \/ events[k].since = EmitEvery)

\* Whether detections sig of event k are reported now, or held back.
Reports(k, sig, starting) ==
    /\ sig # None
    /\ \/ starting \/ events[k] = None
       \/ sig # events[k].known
       \/ events[k].since = EmitEvery

\* 'enter', 'moving', 'packageDetected' or no edge: the event starts or goes on.
StartOrUpdate(k, enter, p) ==
    /\ live /\ (k = Package => enter)
    /\ LET starting == enter \/ events[k] = None
           one == IF k = Package THEN CHOOSE s \in Sigs : TRUE ELSE None
           sig == Detected(p, starting, Known(k), one)
           emit == Reports(k, sig, starting)
       IN  /\ events' = [events EXCEPT ![k] =
                   [known |-> IF sig # None THEN sig ELSE Known(k),
                    since |-> IF emit THEN 0 ELSE IF events[k] = None THEN EmitEvery
                              ELSE events[k].since,
                    idle |-> IdleEnd]]
           /\ told' = [told EXCEPT ![k] = IF emit THEN sig
                                          ELSE IF events[k] = None THEN None ELSE @]
    /\ HoldMotion(k, EventHold)
    /\ UNCHANGED live

\* 'leave': what is known of the event is reported once more, motion lingers.
Leave(k, p) ==
    /\ live /\ k # Package
    /\ LET sig == Detected(p, FALSE, Known(k), None)
       IN  told' = [told EXCEPT ![k] = IF sig # None THEN sig ELSE @]
    /\ events' = [events EXCEPT ![k] = None]
    /\ HoldMotion(k, EventLinger)
    /\ UNCHANGED live

\* endSmartEvent(), the idle timer: the 'leave' was lost.
IdleTimer(k) ==
    /\ events[k] # None /\ events[k].idle <= 0
    /\ events' = [events EXCEPT ![k] = None]
    /\ HoldMotion(k, EventLinger)
    /\ UNCHANGED <<live, told>>

-----------------------------------------------------------------------------
(* The life of the object. *)

\* Mutant: dispose() forgets the motion timer.
GoneTimed ==
    /\ live /\ live' = FALSE
    /\ events' = [k \in Kinds |-> None] /\ holds' = [k \in Keys |-> None]
    /\ UNCHANGED <<timer, motion, told>>

\* dispose() on release, or the end of the process: the sensor keeps its value.
Gone ==
    /\ live /\ live' = FALSE
    /\ events' = [k \in Kinds |-> None]
    /\ holds' = [k \in Keys |-> None] /\ timer' = None
    /\ UNCHANGED <<motion, told>>

\* The constructor of the next object of this camera.
Constructed ==
    /\ ~live /\ live' = TRUE
    /\ motion' = FALSE
    /\ told' = [k \in Kinds |-> None]
    /\ UNCHANGED <<events, holds, timer>>

Due(n) == n # None /\ n = -Late

Tick ==
    /\ ~Due(timer) /\ \A k \in Ongoing : ~Due(events[k].idle)
    /\ holds' = [k \in Keys |-> IF holds[k] = None THEN None ELSE holds[k] - 1]
    /\ timer' = IF timer = None THEN None ELSE timer - 1
    /\ events' = [k \in Kinds |->
           IF events[k] = None THEN None
           ELSE [events[k] EXCEPT !.idle = @ - 1,
                                  !.since = IF @ < EmitEvery THEN @ + 1 ELSE @]]
    /\ UNCHANGED <<live, motion, told>>

SmartEvent == \E k \in Kinds, p \in Payloads :
                  \/ \E enter \in BOOLEAN : StartOrUpdate(k, enter, p)
                  \/ Leave(k, p)

Timers == MotionTimer \/ \E k \in Kinds : IdleTimer(k)

Next == MotionEvent \/ SmartEvent \/ Timers \/ Gone \/ Constructed \/ Tick

Spec == Init /\ [][Next]_vars

-----------------------------------------------------------------------------
(* Properties. *)

\* Motion is on for as long as the camera goes on with a smart event, whatever
\* the other events and the motion messages do to the one timer meanwhile.
MotionCoversEvents == \A k \in Ongoing : events[k].idle > 0 => motion

\* Motion does not stay latched: the sensor is on only while a hold is live, or
\* expired so recently that its timer has not had the time to run; and only
\* with a timer that will look again.
MotionHasReason ==
    live /\ motion =>
        /\ timer # None
        /\ \E k \in Keys : holds[k] # None /\ holds[k] >= -(Margin + Late)

\* The one timer makes the sensor the union of the holds: no hold is cut short by
\* another, and none is kept up by one.
MotionIsUnion == MotionCoversEvents /\ MotionHasReason

\* The throttle never keeps an object back: what an ongoing event is known to
\* show is what its last report said.
KnownIsReported == \A k \in Ongoing : events[k].known # None => told[k] = events[k].known
=============================================================================
