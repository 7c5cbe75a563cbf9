-------------------------- MODULE CameraApiProofs --------------------------
(***************************************************************************)
(* Proofs about the two components that a camera's HTTPS calls go through: *)
(* LoginClient, for every set of callers, all budgets and all cooldowns,   *)
(* and ZoneConfig, for every set of privacy masks.                         *)
(*                                                                         *)
(* Of the client: a call never outlives its deadline, because every step   *)
(* of a call runs on a timer that expires with it (TimersAreDeadlines) and *)
(* time does not pass a timer; and logins keep their distance while they   *)
(* fail, because the two numbers that the client remembers are the end and *)
(* the length of the streak (MemoryIsStreak).                              *)
(*                                                                         *)
(* Of the zones: no save is lost to an apply under way, what the storage   *)
(* remembers of earlier applies never makes one skip too much, and a       *)
(* released object is silent.                                              *)
(***************************************************************************)
EXTENDS LoginClient, ZoneConfig, TLAPS, SequenceTheorems

(* LoginClient: the inductive invariant. *)

\* The timer of a step is the deadline of its call.
TimersAreDeadlines == \A c \in Calls : call[c].phase # "idle" => call[c].timer = call[c].due

\* lastLoginFail and loginFailures are what the camera could have counted.
MemoryIsStreak ==
    /\ failures = Len(streak)
    /\ streak # << >> => lastFail = streak[Len(streak)].until

\* The conjuncts that need each other.
LoginInv == LoginTypeOK /\ now > 0 /\ TimersAreDeadlines /\ MemoryIsStreak /\ BudgetKept /\ LoginsSpaced

-----------------------------------------------------------------------------
\* Each step that a call can enter is typed, has the call's deadline as its
\* timer, and is entered before it.
LEMMA EnterIsTimed ==
    ASSUME NEW due \in Nat, NEW retried \in BOOLEAN, NEW phase \in {"login", "asking"}
    PROVE  /\ Enter(phase, due, retried) \in
                  [phase : {"idle", "login", "asking"}, due : Nat, timer : Nat, retried : BOOLEAN]
           /\ Enter(phase, due, retried).timer = Enter(phase, due, retried).due
           /\ Enter(phase, due, retried).due = due
           /\ Enter(phase, due, retried).phase = phase
  BY DEF Enter, Bounded

\* What the request of a call becomes: nothing, or a request before its deadline.
LEMMA AskingIsTimed ==
    ASSUME NEW due \in Nat, NEW retried \in BOOLEAN, now \in Nat
    PROVE  /\ Asking(due, retried) \in
                  [phase : {"idle", "login", "asking"}, due : Nat, timer : Nat, retried : BOOLEAN]
           /\ Asking(due, retried).phase # "login"
           /\ Asking(due, retried).phase # "idle" =>
                  /\ Asking(due, retried).timer = Asking(due, retried).due
                  /\ now <= Asking(due, retried).due
  BY DEF Asking, Enter, Bounded, Overdue, Idle

\* What login() leaves, whoever calls it: the call waits for a pending login or
\* is over, and a login is started only out of the back-off.
LEMMA LogInIsSound ==
    ASSUME LoginInv, NEW c \in Calls, NEW due \in Nat, NEW retried \in BOOLEAN,
           LogIn(c, due, retried),
           UNCHANGED <<now, lastFail, failures, streak>>, cookie' \in BOOLEAN
    PROVE  LoginInv'
<1> USE DEF LoginInv
<1>1. CASE call' = [call EXCEPT ![c] = Idle] /\ UNCHANGED login
  BY <1>1 DEF LoginTypeOK, TimersAreDeadlines, MemoryIsStreak, BudgetKept, LoginsSpaced, CooledDown, Idle
<1>2. CASE /\ ~Overdue(due)
           /\ call' = [call EXCEPT ![c] = Enter("login", due, retried)]
           /\ login.pending /\ UNCHANGED login
  <2>1. now <= due
    BY <1>2 DEF Overdue, LoginTypeOK
  <2>2. LoginTypeOK' /\ TimersAreDeadlines' /\ BudgetKept'
    BY <1>2, <2>1, EnterIsTimed DEF LoginTypeOK, TimersAreDeadlines, BudgetKept
  <2>3. MemoryIsStreak' /\ LoginsSpaced'
    BY <1>2 DEF MemoryIsStreak, LoginsSpaced, CooledDown
  <2> QED
    BY <2>2, <2>3
<1>3. CASE /\ ~Overdue(due) /\ ~InBackoff
           /\ call' = [call EXCEPT ![c] = Enter("login", due, retried)]
           /\ login' = [pending |-> TRUE, from |-> now, until |-> due]
  <2>1. now <= due
    BY <1>3 DEF Overdue, LoginTypeOK
  <2>2. LoginTypeOK'
    BY <1>3, <2>1, EnterIsTimed DEF LoginTypeOK
  <2>3. TimersAreDeadlines' /\ BudgetKept'
    BY <1>3, <2>1, EnterIsTimed DEF LoginTypeOK, TimersAreDeadlines, BudgetKept
  <2>4. streak # << >> => CooledDown(now, streak[Len(streak)], Len(streak))
    <3> SUFFICES ASSUME streak # << >>
                 PROVE  ~(now - lastFail < Cooldown(failures))
      BY DEF MemoryIsStreak, CooledDown
    <3>1. Len(streak) \in Nat /\ Len(streak) # 0
      BY EmptySeq, LenProperties DEF LoginTypeOK
    <3>2. lastFail > 0
      BY <3>1 DEF LoginTypeOK, MemoryIsStreak
    <3> QED
      BY <1>3, <3>2 DEF InBackoff
  <2>5. MemoryIsStreak' /\ LoginsSpaced'
    BY <1>3, <2>4 DEF MemoryIsStreak, LoginsSpaced, CooledDown
  <2> QED
    BY <2>2, <2>3, <2>5
<1> QED
  BY <1>1, <1>2, <1>3 DEF LogIn

\* Nobody has called and nothing has failed yet.
LEMMA LoginInitHolds == LoginInit => LoginInv
<1> SUFFICES ASSUME LoginInit PROVE LoginInv
  OBVIOUS
<1>1. Len(streak) = 0 /\ streak \in Seq([from : Nat, until : Nat])
  BY DEF LoginInit
<1>2. LoginTypeOK
  BY <1>1 DEF LoginInit, LoginTypeOK, Idle, NoLogin
<1>3. TimersAreDeadlines /\ BudgetKept
  BY DEF LoginInit, TimersAreDeadlines, BudgetKept, Idle
<1>4. MemoryIsStreak /\ LoginsSpaced
  BY <1>1 DEF LoginInit, MemoryIsStreak, LoginsSpaced, NoLogin
<1> QED
  BY <1>2, <1>3, <1>4 DEF LoginInv, LoginInit

\* The failed login joins the streak at the distance that its start has kept.
LEMMA FailureKeepsDistance ==
    ASSUME LoginInv, LoginFails
    PROVE  LoginsSpaced' /\ MemoryIsStreak'
<1> DEFINE attempt == [from |-> login.from, until |-> now]
<1> USE DEF LoginInv
<1>1. /\ streak \in Seq([from : Nat, until : Nat])
      /\ attempt \in [from : Nat, until : Nat] /\ failures \in Nat
  BY DEF LoginTypeOK
<1>2. streak' = Append(streak, attempt) /\ login.pending /\ ~login'.pending
  BY DEF LoginFails, NoLogin
<1>3. /\ Len(streak') = Len(streak) + 1 /\ Len(streak) \in Nat
      /\ streak'[Len(streak')] = attempt
      /\ \A n \in 1..Len(streak) : streak'[n] = streak[n]
  BY <1>1, <1>2, AppendProperties, LenProperties
<1>4. MemoryIsStreak'
  BY <1>1, <1>3 DEF MemoryIsStreak, LoginFails, FailuresAfter
<1>5. ASSUME NEW n \in 1..Len(streak') - 1
      PROVE  CooledDown(streak'[n + 1].from, streak'[n], n)
  <2>1. CASE n = Len(streak)
    <3>1. streak # << >> /\ streak'[n] = streak[n] /\ streak'[n + 1] = attempt
      BY <2>1, <1>3, EmptySeq
    <3>2. CooledDown(login.from, streak[Len(streak)], Len(streak))
      BY <3>1, <1>2 DEF LoginsSpaced
    <3> QED
      BY <3>1, <3>2, <2>1
  <2>2. CASE n # Len(streak)
    <3>1. n \in 1..Len(streak) - 1 /\ streak'[n] = streak[n] /\ streak'[n + 1] = streak[n + 1]
      BY <2>2, <1>3
    <3>2. CooledDown(streak[n + 1].from, streak[n], n)
      BY <3>1 DEF LoginsSpaced
    <3> QED
      BY <3>1, <3>2
  <2> QED
    BY <2>1, <2>2
<1>6. LoginsSpaced'
  BY <1>2, <1>5 DEF LoginsSpaced, CooledDown
<1> QED
  BY <1>4, <1>6

\* One case for each thing that can happen to a call, and one for the clock.
LEMMA LoginStepHolds == LoginInv /\ [LoginNext]_loginVars => LoginInv'
<1> SUFFICES ASSUME LoginInv, [LoginNext]_loginVars PROVE LoginInv'
  OBVIOUS
<1> USE DEF LoginInv
<1>1. ASSUME NEW c \in Calls, NEW budget \in Budgets, Begin(c, budget) PROVE LoginInv'
  <2>1. now + budget \in Nat /\ now \in Nat /\ FALSE \in BOOLEAN
    BY LoginConstants DEF LoginTypeOK
  <2>2. CASE cookie
    <3>1. /\ call' = [call EXCEPT ![c] = Asking(now + budget, FALSE)]
          /\ UNCHANGED <<login, now, cookie, lastFail, failures, streak>>
      BY <1>1, <2>2 DEF Begin
    <3>2. LoginTypeOK'
      BY <3>1, <2>1, AskingIsTimed DEF LoginTypeOK
    <3>3. TimersAreDeadlines'
      BY <3>1, <2>1, AskingIsTimed DEF LoginTypeOK, TimersAreDeadlines
    <3>4. BudgetKept'
      BY <3>1, <2>1, AskingIsTimed DEF LoginTypeOK, BudgetKept
    <3> QED
      BY <3>1, <3>2, <3>3, <3>4 DEF MemoryIsStreak, LoginsSpaced, CooledDown
  <2>3. CASE ~cookie
    <3>1. LogIn(c, now + budget, FALSE) /\ UNCHANGED <<now, lastFail, failures, streak, cookie>>
      BY <1>1, <2>3 DEF Begin
    <3> QED
      BY <3>1, <2>1, LogInIsSound DEF LoginTypeOK
  <2> QED
    BY <2>2, <2>3
<1>2. ASSUME NEW c \in Calls, Refused(c) PROVE LoginInv'
  <2>1. CASE call[c].retried
    <3>1. /\ call' = [call EXCEPT ![c] = Idle]
          /\ UNCHANGED <<now, cookie, login, lastFail, failures, streak>>
      BY <1>2, <2>1 DEF Refused
    <3> QED
      BY <3>1 DEF Idle, LoginTypeOK, TimersAreDeadlines, BudgetKept, MemoryIsStreak, LoginsSpaced, CooledDown
  <2>2. CASE ~call[c].retried
    <3>1. LogIn(c, call[c].due, TRUE) /\ UNCHANGED <<now, lastFail, failures, streak>> /\ cookie' = FALSE
      BY <1>2, <2>2 DEF Refused
    <3>2. call[c].due \in Nat
      BY DEF LoginTypeOK
    <3> QED
      BY <3>1, <3>2, LogInIsSound
  <2> QED
    BY <2>1, <2>2
<1>3. ASSUME NEW c \in Calls, Answered(c) \/ TimesOut(c) PROVE LoginInv'
  <2>1. /\ call' = [call EXCEPT ![c] = Idle]
        /\ UNCHANGED <<now, cookie, login, lastFail, failures, streak>>
    BY <1>3 DEF Answered, TimesOut
  <2> QED
    BY <2>1 DEF Idle, LoginTypeOK, TimersAreDeadlines, BudgetKept, MemoryIsStreak, LoginsSpaced, CooledDown
<1>4. ASSUME LoginSucceeds PROVE LoginInv'
  <2>1. \A c \in Calls : call[c].due \in Nat /\ call[c].retried \in BOOLEAN
    BY DEF LoginTypeOK
  <2>2. /\ now \in Nat /\ now' = now /\ login' = NoLogin /\ streak' = << >>
        /\ cookie' = TRUE /\ lastFail' = 0 /\ failures' = 0 /\ ~login'.pending
    BY <1>4 DEF LoginSucceeds, LoginTypeOK, FailuresAfter, NoLogin
  <2>3. \A c \in Calls :
          /\ call'[c] \in [phase : {"idle", "login", "asking"}, due : Nat, timer : Nat, retried : BOOLEAN]
          /\ call'[c].phase # "login"
          /\ call'[c].phase # "idle" => call'[c].timer = call'[c].due /\ now <= call'[c].due
    BY <1>4, <2>1, <2>2, AskingIsTimed DEF LoginSucceeds, LoginTypeOK, TimersAreDeadlines, BudgetKept
  <2>4. Len(streak') = 0 /\ streak' \in Seq([from : Nat, until : Nat])
    BY <2>2
  <2>5. LoginTypeOK'
    <3>1. call' = [c \in Calls |-> IF call[c].phase = "login" THEN Asking(call[c].due, call[c].retried)
                                   ELSE call[c]]
      BY <1>4 DEF LoginSucceeds
    <3>2. call' \in [Calls -> [phase : {"idle", "login", "asking"}, due : Nat, timer : Nat,
                               retried : BOOLEAN]]
      BY <3>1, <2>3
    <3> QED
      BY <2>2, <2>3, <2>4, <3>2 DEF LoginTypeOK, NoLogin
  <2>6. TimersAreDeadlines' /\ BudgetKept'
    BY <2>2, <2>3 DEF TimersAreDeadlines, BudgetKept
  <2>7. MemoryIsStreak' /\ LoginsSpaced'
    BY <2>2, <2>4 DEF MemoryIsStreak, LoginsSpaced
  <2> QED
    BY <2>2, <2>5, <2>6, <2>7
<1>5. ASSUME LoginFails PROVE LoginInv'
  <2>1. LoginTypeOK'
    <3>1. streak' \in Seq([from : Nat, until : Nat])
      BY <1>5, AppendProperties DEF LoginFails, LoginTypeOK
    <3> QED
      BY <1>5, <3>1 DEF LoginFails, LoginTypeOK, NoLogin, Idle, FailuresAfter
  <2>2. TimersAreDeadlines' /\ BudgetKept'
    BY <1>5 DEF LoginFails, LoginTypeOK, TimersAreDeadlines, BudgetKept, Idle
  <2> QED
    BY <1>5, <2>1, <2>2, FailureKeepsDistance DEF LoginFails
<1>6. ASSUME Tick PROVE LoginInv'
  <2>1. LoginTypeOK' /\ now' > 0 /\ TimersAreDeadlines'
    BY <1>6 DEF Tick, LoginTypeOK, TimersAreDeadlines
  <2>2. BudgetKept'
    BY <1>6 DEF Tick, LoginTypeOK, TimersAreDeadlines, BudgetKept
  <2>3. MemoryIsStreak' /\ LoginsSpaced'
    BY <1>6 DEF Tick, MemoryIsStreak, LoginsSpaced, CooledDown
  <2> QED
    BY <2>1, <2>2, <2>3
<1>7. CASE UNCHANGED loginVars
  BY <1>7 DEF loginVars, LoginTypeOK, TimersAreDeadlines, BudgetKept, MemoryIsStreak, LoginsSpaced, CooledDown
<1> QED
  BY <1>1, <1>2, <1>3, <1>4, <1>5, <1>6, <1>7 DEF LoginNext

\* The inductive invariant always holds.
LEMMA LoginInvHolds == LoginSpec => []LoginInv
  BY LoginInitHolds, LoginStepHolds, PTL DEF LoginSpec

-----------------------------------------------------------------------------
\* For all constants: the types of LoginClient, and that a call waits for a
\* login only while one is pending.
THEOREM LoginTypesHold == LoginSpec => []LoginTypeOK
<1>1. LoginInv => LoginTypeOK
  BY DEF LoginInv
<1> QED
  BY <1>1, LoginInvHolds, PTL

\* A call is never at work after its deadline.
THEOREM DeadlineHolds == LoginSpec => []BudgetKept
<1>1. LoginInv => BudgetKept
  BY DEF LoginInv
<1> QED
  BY <1>1, LoginInvHolds, PTL

\* While logins fail, each keeps the distance that the number of failures
\* before it demands, however many callers want to log in.
THEOREM LoginsKeepDistance == LoginSpec => []LoginsSpaced
<1>1. LoginInv => LoginsSpaced
  BY DEF LoginInv
<1> QED
  BY <1>1, LoginInvHolds, PTL

-----------------------------------------------------------------------------
(* ZoneConfig: the inductive invariant. *)

\* An 'online' handler that is to apply waits for an import.
ImportIsAwaited == thenApply => import.at # "idle"

\* A sequence of the masks is under way only where they are not done already,
\* and nothing makes them done before its end.
SequenceIsNeeded ==
    apply.at \in {"clearing", "settling", "setting"} => ~MasksAreDone(apply.zones)

\* What the motion zones should be, they are, or will be once the commands are
\* sent; and where no apply ever turned them on, the camera has none.
MotionAgrees ==
    /\ owed.motion \subseteq
           {IF apply.at = "features" THEN apply.zones.motion ELSE camera.motion}
    /\ owed.motion # {} /\ ~flags.motion => ~camera.motion

\* The same of the masks, between the sequences that change them: an apply may
\* skip its sequence on the strength of the fingerprint or of the count.
MasksAgree ==
    /\ apply.at = "idle" => owed.masks \subseteq {camera.masks}
    /\ apply.at = "features" => owed.masks \subseteq {apply.zones.masks}
    /\ apply.at \in {"idle", "features"} /\ owed.masks # {} =>
           /\ flags.fp \subseteq {camera.masks}
           /\ ~flags.count => camera.masks = {}

\* The three parts of LatestConfig, each with what carries it: what was read is
\* on the camera, what was not read is to come, what was lost is made again.
Agrees == MotionAgrees /\ MasksAgree
Comes == SavesAreApplied /\ ImportIsAwaited
Retries == SequenceIsNeeded /\ LostIsRetried

IInv == TypeOK /\ Agrees /\ Comes /\ Retries
-----------------------------------------------------------------------------
(* Types. *)

\* The fields of the records, and changes of them.
LEMMA ZoneTypes ==
    /\ NoZones \in Zones
    /\ \A z \in Zones : z.motion \in BOOLEAN /\ z.masks \in SUBSET Masks
    /\ \A z \in Zones, b \in BOOLEAN : [z EXCEPT !.motion = b] \in Zones
    /\ \A z \in Zones, m \in SUBSET Masks : [z EXCEPT !.masks = m] \in Zones
    /\ \A b \in BOOLEAN, m \in SUBSET Masks : [motion |-> b, masks |-> m] \in Zones
  BY DEF Zones, NoZones

\* The same of the flags in the storage,
LEMMA FlagTypes ==
    /\ \A f \in Flags : f.motion \in BOOLEAN /\ f.count \in BOOLEAN /\ f.imported \in BOOLEAN
    /\ \A f \in Flags, b \in BOOLEAN : [f EXCEPT !.motion = b] \in Flags
    /\ \A f \in Flags, b, c \in BOOLEAN : [f EXCEPT !.imported = b, !.count = c] \in Flags
    /\ \A f \in Flags, b \in BOOLEAN, p \in SUBSET SUBSET Masks :
           [f EXCEPT !.count = b, !.fp = p] \in Flags
  BY DEF Flags

\* of the apply,
LEMMA ApplyTypes ==
    /\ NoApply \in Applies
    /\ \A a \in Applies : a.zones \in Zones
    /\ \A a \in Applies, at \in ApplyAt : [a EXCEPT !.at = at] \in Applies
    /\ \A z \in Zones, at \in ApplyAt : [at |-> at, zones |-> z] \in Applies
  BY ZoneTypes DEF Applies, NoApply, ApplyAt

\* of what is owed to the user,
LEMMA OwedTypes ==
    /\ \A o \in Owed : /\ o.motion \in SUBSET BOOLEAN
                       /\ o.masks \in SUBSET SUBSET Masks /\ o.lost \in SUBSET SUBSET Masks
    /\ \A o \in Owed, b \in SUBSET BOOLEAN : [o EXCEPT !.motion = b] \in Owed
    /\ \A o \in Owed, b \in SUBSET BOOLEAN, m \in SUBSET SUBSET Masks :
           [o EXCEPT !.motion = b, !.masks = m] \in Owed
    /\ \A o \in Owed, m, l \in SUBSET SUBSET Masks : [o EXCEPT !.masks = m, !.lost = l] \in Owed
  BY DEF Owed

\* and of the import.
LEMMA ImportTypes ==
    /\ NoImport \in Imports
    /\ \A i \in Imports : i.got \in Zones /\ i.ok \in BOOLEAN
    /\ \A i \in Imports, at \in ImportAt : [i EXCEPT !.at = at] \in Imports
    /\ \A i \in Imports, b \in BOOLEAN : [i EXCEPT !.ok = b] \in Imports
    /\ \A i \in Imports, at \in ImportAt, b \in BOOLEAN : [i EXCEPT !.at = at, !.ok = b] \in Imports
    /\ \A i \in Imports, b \in BOOLEAN : [i EXCEPT !.got.motion = b] \in Imports
    /\ \A i \in Imports, m \in SUBSET Masks : [i EXCEPT !.got.masks = m] \in Imports
  <1>1. NoImport \in Imports
    BY ZoneTypes DEF Imports, NoImport, ImportAt
  <1>2. QED
    BY <1>1 DEF Imports, Zones

\* A new camera object and whatever the camera had before are well typed.
LEMMA InitTypes == Init => TypeOK
  <1> SUFFICES ASSUME Init PROVE TypeOK
    OBVIOUS
  <1>1. flags \in Flags /\ owed \in Owed
    BY ZoneTypes DEF Init, Flags, Owed
  <1>2. QED
    BY <1>1, ZoneTypes, ImportTypes, ApplyTypes DEF Init, TypeOK, NoImport, NoApply, Runs

\* The end of an import, of what it read so far.
LEMMA ImportEndsTyped ==
    ASSUME TypeOK, live, NEW i \in Imports, EndImport(i),
           UNCHANGED <<camera, session, live, apply, waiting, saved, owed>>
    PROVE  TypeOK'
  <1>1. stored' \in Zones
    BY ZoneTypes, ImportTypes DEF TypeOK, EndImport
  <1>2. flags' \in Flags
    BY FlagTypes, ImportTypes DEF TypeOK, EndImport
  <1>3. import' \in Imports /\ queued' \in BOOLEAN /\ thenApply' \in BOOLEAN
    BY ImportTypes DEF TypeOK, EndImport
  <1>4. QED
    BY <1>1, <1>2, <1>3 DEF TypeOK

\* What is known of lost masks.
LEMMA LostTyped == TypeOK => MasksLost \in Owed
  <1> SUFFICES ASSUME TypeOK PROVE MasksLost \in Owed
    OBVIOUS
  <1>1. owed \in Owed /\ apply.zones.masks \in SUBSET Masks
    BY ApplyTypes, ZoneTypes DEF TypeOK
  <1>2. owed.lost \cup {apply.zones.masks} \in SUBSET SUBSET Masks
    BY <1>1, OwedTypes
  <1>3. QED
    BY <1>1, <1>2, OwedTypes DEF MasksLost

\* What the answer to a write of masks leaves.
LEMMA WriteTyped ==
    ASSUME TypeOK, NEW m \in SUBSET Masks
    PROVE  /\ WriteFails(m) => /\ camera' \in Zones /\ owed' \in Owed /\ flags' \in Flags
                               /\ apply' \in Applies /\ waiting' \subseteq Runs
           /\ Latch(apply.zones) => owed' \in Owed /\ flags' \in Flags
           /\ Finish => apply' \in Applies /\ waiting' \subseteq Runs
  <1>1. WriteFails(m) => /\ camera' \in Zones /\ owed' \in Owed /\ flags' \in Flags
                         /\ apply' \in Applies /\ waiting' \subseteq Runs
    <2> SUFFICES ASSUME WriteFails(m)
                 PROVE  /\ camera' \in Zones /\ owed' \in Owed /\ flags' \in Flags
                        /\ apply' \in Applies /\ waiting' \subseteq Runs
      OBVIOUS
    <2>1. camera' \in Zones
      BY ZoneTypes DEF TypeOK, WriteFails
    <2>2. owed' \in Owed
      BY LostTyped DEF WriteFails
    <2>3. QED
      BY <2>1, <2>2, ApplyTypes DEF TypeOK, WriteFails, Finish
  <1>2. Finish => apply' \in Applies /\ waiting' \subseteq Runs
    BY ApplyTypes DEF TypeOK, Finish
  <1>3. Latch(apply.zones) => owed' \in Owed /\ flags' \in Flags
    <2> SUFFICES ASSUME Latch(apply.zones) PROVE owed' \in Owed /\ flags' \in Flags
      OBVIOUS
    <2>1. apply.zones.masks \in SUBSET Masks
      BY ApplyTypes, ZoneTypes DEF TypeOK
    <2>2. {apply.zones.masks} \in SUBSET SUBSET Masks /\ (apply.zones.masks # {}) \in BOOLEAN
      BY <2>1
    <2>3. owed' \in Owed
      BY <2>2, OwedTypes DEF TypeOK, Latch
    <2>4. flags' \in Flags
      BY <2>2, FlagTypes DEF TypeOK, Latch
    <2>5. QED
      BY <2>3, <2>4
  <1>4. QED
    BY <1>1, <1>2, <1>3

\* Every step of the zone queue, of an import and of the object keeps the types.
LEMMA TypeNext ==
    ASSUME TypeOK, [Next]_vars
    PROVE  TypeOK'
  <1>1. CASE Save
    BY <1>1 DEF TypeOK, Save, QueueApply, Runs
  <1>2. CASE BeginApply
    <2>1. apply' \in Applies /\ waiting' \subseteq Runs
      BY <1>2, ApplyTypes DEF TypeOK, BeginApply, ApplyAt, Runs
    <2>2. owed' \in Owed
      <3> DEFINE b == IF owed.motion = {} THEN {} ELSE {stored.motion}
                 m == IF owed.masks = {} THEN {} ELSE {stored.masks}
      <3>1. b \in SUBSET BOOLEAN /\ m \in SUBSET SUBSET Masks
        BY ZoneTypes DEF TypeOK
      <3>2. owed' = [owed EXCEPT !.motion = b, !.masks = m] \/ owed' = owed
        BY <1>2 DEF BeginApply, ghosts
      <3> HIDE DEF b, m
      <3>3. owed \in Owed
        BY DEF TypeOK
      <3>4. [owed EXCEPT !.motion = b, !.masks = m] \in Owed
        BY <3>1, <3>3, OwedTypes
      <3>5. QED
        BY <3>2, <3>3, <3>4
    <2>3. QED
      BY <1>2, <2>1, <2>2 DEF TypeOK, BeginApply, storage, ghosts
  <1>3. CASE SendZones
    <2>1. apply' \in Applies /\ waiting' \subseteq Runs
      BY <1>3, ApplyTypes DEF TypeOK, SendZones, Finish, ApplyAt
    <2>2. owed' \in Owed /\ camera' \in Zones
      <3>1. apply.zones.motion \in BOOLEAN
        BY ApplyTypes, ZoneTypes DEF TypeOK
      <3>2. CASE SendsMotion(apply.zones) /\ session # "none"
        <4>1. /\ camera' = [camera EXCEPT !.motion = apply.zones.motion]
              /\ owed' = [owed EXCEPT !.motion = {apply.zones.motion}]
          BY <1>3, <3>2 DEF SendZones
        <4>2. QED
          BY <3>1, <4>1, ZoneTypes, OwedTypes DEF TypeOK
      <3>3. CASE SendsMotion(apply.zones) /\ session = "none"
        <4>1. camera' = camera /\ owed' = [owed EXCEPT !.motion = {}]
          BY <1>3, <3>3 DEF SendZones
        <4>2. QED
          BY <4>1, OwedTypes DEF TypeOK
      <3>4. CASE ~SendsMotion(apply.zones)
        BY <1>3, <3>4 DEF TypeOK, SendZones
      <3>5. QED
        BY <3>2, <3>3, <3>4
    <2>3. flags' \in Flags
      BY <1>3, ApplyTypes, ZoneTypes, FlagTypes DEF TypeOK, SendZones
    <2>4. QED
      BY <1>3, <2>1, <2>2, <2>3 DEF TypeOK, SendZones
  <1>4. CASE Cleared
    <2>1. apply' \in Applies /\ waiting' \subseteq Runs
      BY <1>4, WriteTyped, ApplyTypes DEF TypeOK, Cleared, ApplyAt
    <2>2. camera' \in Zones /\ owed' \in Owed /\ flags' \in Flags
      BY <1>4, WriteTyped, ZoneTypes DEF TypeOK, Cleared
    <2>3. QED
      BY <1>4, <2>1, <2>2 DEF TypeOK, Cleared
  <1>5. CASE Settled
    BY <1>5, ApplyTypes DEF TypeOK, Settled, ApplyAt, storage, ghosts
  <1>6. CASE MasksSet
    <2>1. apply.zones.masks \in SUBSET Masks
      BY ApplyTypes, ZoneTypes DEF TypeOK
    <2>2. apply' \in Applies /\ waiting' \subseteq Runs
      BY <1>6, <2>1, WriteTyped DEF MasksSet
    <2>3. camera' \in Zones /\ owed' \in Owed /\ flags' \in Flags
      BY <1>6, <2>1, WriteTyped, ZoneTypes DEF TypeOK, MasksSet
    <2>4. QED
      BY <1>6, <2>2, <2>3 DEF TypeOK, MasksSet
  <1>7. CASE LazyImport
    BY <1>7, ImportTypes DEF TypeOK, LazyImport, StartImport, ImportAt, storage, ghosts
  <1>8. CASE MasksRead
    <2>1. PICK m \in SUBSET Masks :
              LET i == [import EXCEPT !.got.masks = m]
              IN  IF session = "none" THEN EndImport(i)
                  ELSE import' = [i EXCEPT !.at = "smart"]
                       /\ UNCHANGED <<storage, queued, thenApply>>
      BY <1>8, ZoneTypes DEF TypeOK, MasksRead
    <2>2. [import EXCEPT !.got.masks = m] \in Imports
      BY ImportTypes DEF TypeOK
    <2>3. live /\ UNCHANGED <<camera, session, live, apply, waiting, saved, owed>>
      BY <1>8 DEF TypeOK, MasksRead, ghosts
    <2>4. CASE session = "none"
      BY <2>1, <2>2, <2>3, <2>4, ImportEndsTyped
    <2>5. CASE session # "none"
      BY <2>1, <2>2, <2>3, <2>5, ImportTypes DEF TypeOK, storage, ImportAt
    <2>6. QED
      BY <2>4, <2>5
  <1>9. CASE SmartRead
    BY <1>9, ImportTypes DEF TypeOK, SmartRead, ImportAt, storage, ghosts
  <1>10. CASE MotionRead
    <2>1. PICK i \in Imports : EndImport(i)
      BY <1>10, ImportTypes, ZoneTypes DEF TypeOK, MotionRead
    <2>2. live /\ UNCHANGED <<camera, session, live, apply, waiting, saved, owed>>
      BY <1>10 DEF TypeOK, MotionRead, ghosts
    <2>3. QED
      BY <2>1, <2>2, ImportEndsTyped
  <1>11. CASE Connect
    BY <1>11 DEF TypeOK, Connect, storage, ghosts
  <1>12. CASE Online
    BY <1>12, ImportTypes DEF TypeOK, Online, QueueApply, StartImport, ImportAt, storage, ghosts
  <1>13. CASE Release
    <2>1. camera' \in Zones
      BY <1>13, ApplyTypes, ZoneTypes DEF TypeOK, Release, Late
    <2>2. owed' \in Owed
      BY <1>13, OwedTypes, LostTyped DEF TypeOK, Release, Lost
    <2>3. QED
      BY <1>13, <2>1, <2>2, ImportTypes, ApplyTypes DEF TypeOK, Release, storage, NoImport, NoApply
  <1>14. CASE Construct
    BY <1>14 DEF TypeOK, Construct, storage
  <1>15. CASE UNCHANGED vars
    BY <1>15 DEF TypeOK, vars, storage, ghosts
  <1>16. QED
    BY <1>1, <1>2, <1>3, <1>4, <1>5, <1>6, <1>7, <1>8, <1>9, <1>10, <1>11, <1>12, <1>13,
       <1>14, <1>15 DEF Next, ApplySteps, ImportSteps

-----------------------------------------------------------------------------
\* The end of an import forgets no mask and takes no apply out of the queue.
LEMMA ImportEndKeeps ==
    ASSUME flags \in Flags, queued \in BOOLEAN, NEW i, EndImport(i)
    PROVE  /\ flags'.fp = flags.fp /\ flags'.motion = flags.motion
           /\ ~flags'.count => ~flags.count
           /\ queued => queued'
  <1>1. PICK b, c : flags' = [flags EXCEPT !.imported = b, !.count = flags.count \/ c]
    BY DEF EndImport
  <1>2. QED
    BY <1>1 DEF Flags, EndImport

\* Every step keeps the camera in agreement with what it owes: one step per action
\* of the apply and of the import.
LEMMA AgreesNext ==
    ASSUME IInv, [Next]_vars
    PROVE  Agrees'
  <1> USE DEF IInv, Agrees, MotionAgrees, MasksAgree, NoApply, Zones, Flags, Owed, Applies
  <1>0. /\ apply \in Applies /\ camera \in Zones /\ flags \in Flags /\ owed \in Owed
        /\ live \in BOOLEAN /\ queued \in BOOLEAN /\ saved \in BOOLEAN
    BY DEF TypeOK
  <1>1. CASE Save
    BY <1>0, <1>1 DEF Save, QueueApply
  <1>2. CASE BeginApply
    <2>1. /\ UNCHANGED <<camera, flags>>
          /\ apply.at = "idle"
      BY <1>2 DEF BeginApply, storage
    <2>2. CASE UNCHANGED <<apply, owed>>
      BY <1>0, <2>1, <2>2
    <2>3. CASE ~UNCHANGED <<apply, owed>>
      <3>1. apply' = [at |-> "features", zones |-> stored]
        BY <1>2, <2>3 DEF BeginApply, ghosts
      <3>2. owed' = [owed EXCEPT
                !.motion = IF owed.motion = {} THEN {} ELSE {stored.motion},
                !.masks = IF owed.masks = {} THEN {} ELSE {stored.masks}]
        BY <1>2, <2>3 DEF BeginApply, ghosts
      <3>3. QED
        BY <1>0, <2>1, <3>1, <3>2
    <2>4. QED
      BY <2>2, <2>3
  <1>3. CASE SendZones
    <2>1. MotionAgrees'
      <3>1. apply'.at # "features"
        BY <1>0, <1>3 DEF SendZones, Finish
      <3>2. flags'.motion = apply.zones.motion
        BY <1>0, <1>3 DEF SendZones
      <3>3. CASE SendsMotion(apply.zones)
        BY <1>0, <1>3, <3>1, <3>2, <3>3 DEF SendZones
      <3>4. CASE ~SendsMotion(apply.zones)
        BY <1>0, <1>3, <3>1, <3>2, <3>4 DEF SendZones, SendsMotion
      <3>5. QED
        BY <3>3, <3>4
    <2>2. MasksAgree'
      <3>1. /\ owed'.masks = owed.masks /\ camera'.masks = camera.masks
            /\ flags'.fp = flags.fp /\ flags'.count = flags.count
        BY <1>0, <1>3 DEF SendZones
      <3>2. CASE MasksAreDone(apply.zones)
        <4>1. apply' = NoApply /\ apply.at = "features"
          BY <1>3, <3>2 DEF SendZones, Finish
        <4>2. QED
          BY <1>0, <3>1, <3>2, <4>1 DEF MasksAreDone
      <3>3. CASE ~MasksAreDone(apply.zones)
        BY <1>0, <1>3, <3>1, <3>3 DEF SendZones
      <3>4. QED
        BY <3>2, <3>3
    <2>3. QED
      BY <2>1, <2>2
  <1>4. CASE Cleared
    <2>1. CASE WriteFails({})
      BY <1>0, <1>4, <2>1 DEF Cleared, WriteFails, MasksLost, Finish
    <2>2. CASE ~WriteFails({})
      <3>1. /\ camera' = [camera EXCEPT !.masks = {}]
            /\ UNCHANGED <<live, queued, saved>>
            /\ apply.at = "clearing"
        BY <1>4, <2>2 DEF Cleared
      <3>2. CASE apply.zones.masks = {}
        <4>1. /\ flags' = [flags EXCEPT !.count = FALSE, !.fp = {{}}]
              /\ owed' = [owed EXCEPT !.masks = {{}}, !.lost = {}]
              /\ apply' = NoApply
          BY <1>4, <2>2, <3>2 DEF Cleared, Latch, Finish
        <4>2. QED
          BY <1>0, <3>1, <4>1
      <3>3. CASE apply.zones.masks # {}
        BY <1>0, <1>4, <2>2, <3>1, <3>3 DEF Cleared
      <3>4. QED
        BY <3>2, <3>3
    <2>3. QED
      BY <2>1, <2>2
  <1>5. CASE Settled
    BY <1>0, <1>5 DEF Settled, storage, ghosts
  <1>6. CASE MasksSet
    <2>1. CASE WriteFails(apply.zones.masks)
      BY <1>0, <1>6, <2>1 DEF MasksSet, WriteFails, MasksLost, Finish
    <2>2. CASE ~WriteFails(apply.zones.masks)
      <3>1. /\ camera' = [camera EXCEPT !.masks = apply.zones.masks]
            /\ flags' = [flags EXCEPT !.count = apply.zones.masks # {},
                                      !.fp = {apply.zones.masks}]
            /\ owed' = [owed EXCEPT !.masks = {apply.zones.masks}, !.lost = {}]
            /\ apply' = NoApply
            /\ UNCHANGED <<live, queued, saved>>
            /\ apply.at = "setting"
        BY <1>6, <2>2 DEF MasksSet, Latch, Finish
      <3>2. QED
        BY <1>0, <3>1
    <2>3. QED
      BY <2>1, <2>2
  <1>7. CASE LazyImport
    BY <1>0, <1>7 DEF LazyImport, storage, ghosts
  <1>8. CASE MasksRead
    <2>1. /\ flags'.fp = flags.fp /\ flags'.motion = flags.motion
          /\ ~flags'.count => ~flags.count
          /\ queued => queued'
      <3>1. \/ \E i : EndImport(i)
            \/ UNCHANGED <<storage, queued>>
        BY <1>8 DEF MasksRead
      <3>2. QED
        BY <1>0, <3>1, ImportEndKeeps DEF storage
    <2>2. UNCHANGED <<camera, live, apply, saved, owed>>
      BY <1>0, <1>8 DEF MasksRead, ghosts
    <2>3. QED
      BY <2>1, <2>2
  <1>9. CASE SmartRead
    BY <1>0, <1>9 DEF SmartRead, storage, ghosts
  <1>10. CASE MotionRead
    <2>1. PICK i : EndImport(i)
      BY <1>10 DEF MotionRead
    <2>2. UNCHANGED <<camera, live, apply, saved, owed>>
      BY <1>10 DEF MotionRead, ghosts
    <2>3. QED
      BY <1>0, <2>1, <2>2, ImportEndKeeps
  <1>11. CASE Connect
    BY <1>0, <1>11 DEF Connect, storage, ghosts
  <1>12. CASE Online
    BY <1>0, <1>12 DEF Online, QueueApply, storage, ghosts
  <1>13. CASE Release
    BY <1>0, <1>13 DEF Release, Late, Lost, MasksLost, storage
  <1>14. CASE Construct
    BY <1>0, <1>14 DEF Construct, storage
  <1>15. CASE UNCHANGED vars
    BY <1>0, <1>15 DEF vars, storage, ghosts
  <1>16. QED
    BY <1>1, <1>2, <1>3, <1>4, <1>5, <1>6, <1>7, <1>8, <1>9, <1>10, <1>11, <1>12, <1>13, <1>14,
       <1>15
       DEF Next, ApplySteps, ImportSteps

\* No step loses a save: an apply that finds no session leaves it to the next
\* 'online', and an 'online' to the queue or to its import.
LEMMA ComesNext ==
    ASSUME IInv, [Next]_vars
    PROVE  Comes'
  <1> USE DEF IInv, Comes, SavesAreApplied, ImportIsAwaited
  <1>0. queued \in BOOLEAN /\ thenApply \in BOOLEAN /\ saved \in BOOLEAN /\ live \in BOOLEAN
    BY DEF TypeOK
  <1>1. CASE Save
    BY <1>0, <1>1 DEF Save, QueueApply
  <1>2. CASE BeginApply
    BY <1>0, <1>2 DEF BeginApply, ghosts
  <1>3. CASE SendZones \/ Cleared \/ Settled \/ MasksSet
    BY <1>0, <1>3 DEF SendZones, Cleared, Settled, MasksSet, ghosts
  <1>4. CASE LazyImport
    BY <1>0, <1>4 DEF LazyImport, StartImport, ghosts
  <1>5. CASE MasksRead
    <2>1. PICK m : LET i == [import EXCEPT !.got.masks = m]
                   IN  IF session = "none" THEN EndImport(i)
                       ELSE import' = [i EXCEPT !.at = "smart"]
                            /\ UNCHANGED <<storage, queued, thenApply>>
      BY <1>5 DEF MasksRead
    <2>2. UNCHANGED <<live, session, saved>> /\ import \in Imports
      BY <1>5 DEF MasksRead, ghosts, TypeOK
    <2>3. CASE session = "none"
      BY <1>0, <2>1, <2>2, <2>3 DEF EndImport
    <2>4. CASE session # "none"
      <3>1. import'.at = "smart" /\ UNCHANGED <<queued, thenApply>>
        BY <2>1, <2>2, <2>4 DEF Imports
      <3>2. QED
        BY <1>0, <2>2, <3>1
    <2>5. QED
      BY <2>3, <2>4
  <1>6. CASE SmartRead
    <2>1. import'.at = "motion"
      BY <1>6 DEF SmartRead, TypeOK, Imports
    <2>2. QED
      BY <1>0, <1>6, <2>1 DEF SmartRead, ghosts
  <1>7. CASE MotionRead
    BY <1>0, <1>7 DEF MotionRead, EndImport, ghosts
  <1>8. CASE Connect
    BY <1>0, <1>8 DEF Connect, ghosts
  <1>9. CASE Online
    <2>1. live /\ ~flags.imported => import'.at # "idle"
      BY <1>9 DEF Online, StartImport, NoImport
    <2>2. QED
      BY <1>0, <1>9, <2>1 DEF Online, QueueApply, ghosts
  <1>10. CASE Release \/ Construct
    BY <1>0, <1>10 DEF Release, Construct
  <1>11. CASE UNCHANGED vars
    BY <1>0, <1>11 DEF vars, ghosts
  <1>12. QED
    BY <1>1, <1>2, <1>3, <1>4, <1>5, <1>6, <1>7, <1>8, <1>9, <1>10, <1>11
       DEF Next, ApplySteps, ImportSteps

\* As long as the fingerprint stays and the count does not fall, nothing becomes
\* done, and a sequence that goes on or ends without a loss changes nothing.
LEMMA StaysNeeded ==
    ASSUME Retries,
           flags'.fp = flags.fp, ~flags'.count => ~flags.count,
           owed'.lost = owed.lost,
           apply'.at \in {"clearing", "settling", "setting"} =>
               ~MasksAreDone(apply.zones) /\ apply'.zones = apply.zones
    PROVE  Retries'
  <1>1. ASSUME NEW z, MasksAreDone(z)' PROVE MasksAreDone(z)
    BY <1>1 DEF MasksAreDone
  <1>2. SequenceIsNeeded'
    BY DEF SequenceIsNeeded, MasksAreDone
  <1>3. LostIsRetried'
    BY <1>1 DEF Retries, LostIsRetried
  <1>4. QED
    BY <1>2, <1>3 DEF Retries

\* Every step keeps what was lost from being taken for done: what a sequence
\* under way was needed for, it still is when the sequence ends in a loss.
LEMMA RetriesNext ==
    ASSUME IInv, [Next]_vars
    PROVE  Retries'
  <1> USE DEF IInv
  <1>0. apply \in Applies /\ flags \in Flags /\ owed \in Owed /\ queued \in BOOLEAN
    BY DEF TypeOK
  <1>1. ASSUME owed' = MasksLost, flags' = flags, apply' = NoApply,
               apply.at \in {"clearing", "settling", "setting"}
        PROVE  Retries'
    <2>1. owed'.lost = owed.lost \cup {apply.zones.masks}
      BY <1>0, <1>1 DEF MasksLost, Owed
    <2>2. ~MasksAreDone(apply.zones)
      BY <1>1 DEF Retries, SequenceIsNeeded
    <2>3. LostIsRetried'
      BY <1>1, <2>1, <2>2 DEF Retries, LostIsRetried, MasksAreDone
    <2>4. QED
      BY <1>1, <2>3 DEF Retries, SequenceIsNeeded, NoApply
  <1>2. ASSUME owed'.lost = {}, apply' = NoApply PROVE Retries'
    BY <1>2 DEF Retries, SequenceIsNeeded, LostIsRetried, NoApply
  <1>3. CASE BeginApply
    <2>1. UNCHANGED flags /\ owed'.lost = owed.lost
      BY <1>0, <1>3 DEF BeginApply, storage, ghosts, Owed
    <2>2. apply' = apply \/ apply'.at = "features"
      BY <1>3 DEF BeginApply
    <2>3. apply.at = "idle"
      BY <1>3 DEF BeginApply
    <2>4. QED
      BY <2>1, <2>2, <2>3, StaysNeeded
  <1>4. CASE SendZones
    <2>1. flags'.fp = flags.fp /\ flags'.count = flags.count /\ owed'.lost = owed.lost
      BY <1>0, <1>4 DEF SendZones, Flags, Owed
    <2>2. CASE MasksAreDone(apply.zones)
      BY <1>4, <2>1, <2>2, StaysNeeded DEF SendZones, Finish, NoApply
    <2>3. CASE ~MasksAreDone(apply.zones)
      <3>1. apply'.zones = apply.zones
        BY <1>0, <1>4, <2>3 DEF SendZones, Applies
      <3>2. QED
        BY <2>1, <2>3, <3>1, StaysNeeded
    <2>4. QED
      BY <2>2, <2>3
  <1>5. CASE Cleared
    <2>1. CASE WriteFails({})
      BY <1>1, <1>5, <2>1 DEF Cleared, WriteFails, Finish
    <2>2. CASE Latch(apply.zones) /\ Finish
      BY <1>0, <1>2, <2>2 DEF Latch, Finish, Owed
    <2>3. CASE apply' = [apply EXCEPT !.at = "settling"] /\ UNCHANGED <<flags, owed>>
      <3>1. apply'.zones = apply.zones /\ ~MasksAreDone(apply.zones)
        BY <1>0, <1>5, <2>3 DEF Cleared, Retries, SequenceIsNeeded, Applies
      <3>2. QED
        BY <2>3, <3>1, StaysNeeded
    <2>4. QED
      BY <1>5, <2>1, <2>2, <2>3 DEF Cleared
  <1>6. CASE Settled
    <2>1. apply'.zones = apply.zones /\ ~MasksAreDone(apply.zones)
      BY <1>0, <1>6 DEF Settled, Retries, SequenceIsNeeded, Applies
    <2>2. QED
      BY <1>6, <2>1, StaysNeeded DEF Settled, storage, ghosts
  <1>7. CASE MasksSet
    <2>1. CASE WriteFails(apply.zones.masks)
      BY <1>1, <1>7, <2>1 DEF MasksSet, WriteFails, Finish
    <2>2. CASE Latch(apply.zones) /\ Finish
      BY <1>0, <1>2, <2>2 DEF Latch, Finish, Owed
    <2>3. QED
      BY <1>7, <2>1, <2>2 DEF MasksSet
  <1>8. CASE Release
    <2>1. apply' = NoApply /\ UNCHANGED flags
      BY <1>8 DEF Release, storage
    <2>2. CASE apply.at \in {"clearing", "settling", "setting"}
      BY <1>1, <1>8, <2>1, <2>2 DEF Release, Lost
    <2>3. CASE apply.at \notin {"clearing", "settling", "setting"}
      <3>1. apply.at \in {"idle", "features"}
        BY <1>0, <2>3 DEF Applies, ApplyAt
      <3>2. owed'.lost = owed.lost
        BY <1>0, <1>8, <3>1 DEF Release, Lost, Owed
      <3>3. QED
        BY <2>1, <3>2, StaysNeeded DEF NoApply
    <2>4. QED
      BY <2>2, <2>3
  <1>9. CASE MasksRead \/ MotionRead
    <2>1. (\E i : EndImport(i)) \/ UNCHANGED <<storage, queued>>
      BY <1>9 DEF MasksRead, MotionRead
    <2>2. flags'.fp = flags.fp /\ (~flags'.count => ~flags.count)
      BY <1>0, <2>1, ImportEndKeeps DEF storage
    <2>3. UNCHANGED <<apply, owed>>
      BY <1>9 DEF MasksRead, MotionRead, ghosts
    <2>4. QED
      BY <2>2, <2>3, StaysNeeded DEF Retries, SequenceIsNeeded
  <1>10. CASE \/ Save \/ LazyImport \/ SmartRead \/ Connect \/ Online \/ Construct
              \/ UNCHANGED vars
    <2>1. UNCHANGED <<flags, apply, owed>>
      BY <1>10 DEF Save, LazyImport, SmartRead, Connect, Online, Construct, vars, storage, ghosts
    <2>2. QED
      BY <2>1, StaysNeeded DEF Retries, SequenceIsNeeded
  <1>11. QED
    BY <1>3, <1>4, <1>5, <1>6, <1>7, <1>8, <1>9, <1>10 DEF Next, ApplySteps, ImportSteps

\* An object that has sent and read nothing owes nothing.
LEMMA InitHolds == Init => IInv
  BY InitTypes, ZoneTypes
     DEF Init, IInv, NoApply, NoImport, Agrees, MotionAgrees, MasksAgree, Comes, SavesAreApplied,
         ImportIsAwaited, Retries, SequenceIsNeeded, LostIsRetried

\* IInv is inductive.
LEMMA IInvHolds == Spec => []IInv
  <1>1. IInv /\ [Next]_vars => IInv'
    BY TypeNext, AgreesNext, ComesNext, RetriesNext DEF IInv
  <1>2. QED
    BY <1>1, InitHolds, PTL DEF Spec
-----------------------------------------------------------------------------
\* Type correctness: the zones and latches of camera.ts, its apply and its import
\* keep their shape.
THEOREM TypeCorrect == Spec => []TypeOK
  <1>1. IInv => TypeOK
    BY DEF IInv
  <1>2. QED
    BY <1>1, IInvHolds, PTL

\* The last save stands: no apply that ends for want of a session, no import and
\* no lost reply leaves it without an apply to come; no skipped sequence and no
\* fingerprint of an earlier apply leaves the camera with something else than the
\* last apply read; and no masks whose write was lost pass for applied.
THEOREM LatestConfigStands == Spec => []LatestConfig
  <1>1. IInv => LatestConfig
    BY DEF IInv, Agrees, MotionAgrees, MasksAgree, Comes, SavesAreApplied, ImportIsAwaited,
           Retries, LastReadIsOn, LatestConfig
  <1>2. QED
    BY <1>1, IInvHolds, PTL

\* A released camera object writes neither to its storage nor to the camera, also
\* when an apply or an import was in flight.
THEOREM ReleasedIsSilent == Spec => ReleasedWritesNothing
  <1>1. IInv /\ [Next]_vars => [~live => UNCHANGED <<storage, camera>>]_vars
    <2> SUFFICES ASSUME TypeOK, ~live, Next PROVE UNCHANGED <<storage, camera>>
      BY DEF IInv
    <2>1. import.at = "idle" /\ apply.at = "idle" /\ ~queued
      BY DEF TypeOK
    <2>2. Connect \/ Online \/ Construct
      BY <2>1 DEF Next, Save, ApplySteps, BeginApply, SendZones, Cleared, Settled, MasksSet,
                  LazyImport, ImportSteps, MasksRead, SmartRead, MotionRead, Release
    <2>3. QED
      BY <2>2 DEF Connect, Online, Construct
  <1>2. QED
    BY <1>1, IInvHolds, PTL DEF Spec, ReleasedWritesNothing
=============================================================================
