----------------------------- MODULE LoginClient -----------------------------
(***************************************************************************)
(* CameraApiClient of src/src/client.ts: the calls of one camera's HTTPS   *)
(* client share a session cookie and one pending login.  A failed login    *)
(* starts a back-off that doubles up to a maximum; a call that is answered *)
(* 401 logs in again and is repeated once; and the whole of a call, with   *)
(* its logins and its repetition, has one absolute deadline.               *)
(*                                                                         *)
(* Time is discrete and does not pass what is due.  The camera may answer  *)
(* anything, in particular 401 to a cookie that a newer one has replaced.  *)
(***************************************************************************)
EXTENDS Integers, Sequences

CONSTANTS
    Calls,         \* slots of concurrent calls
    Budgets,       \* their timeoutMs
    DefaultBudget, \* timeoutMs when none is given
    CooldownMin,   \* LOGIN_COOLDOWN_MS
    CooldownMax,   \* LOGIN_COOLDOWN_MAX_MS
    MaxTime        \* bound of the exploration

ASSUME LoginConstants ==
    /\ Budgets \subseteq Nat \ {0} /\ DefaultBudget \in Budgets
    /\ {CooldownMin, CooldownMax, MaxTime} \subseteq Nat \ {0}

VARIABLES
    now,
    cookie,     \* a cookie is known
    login,      \* loginPromise: pending, sent at from, abandoned at until
    lastFail,   \* lastLoginFail, 0 if the last login succeeded
    failures,   \* loginFailures
    call,       \* Calls -> what the call is doing
    streak      \* history: the logins that failed since the last success

loginVars == <<now, cookie, login, lastFail, failures, call, streak>>

Idle == [phase |-> "idle", due |-> 0, timer |-> 0, retried |-> FALSE]
NoLogin == [pending |-> FALSE, from |-> 0, until |-> 0]

LoginInit ==
    /\ now = 1 /\ cookie = FALSE
    /\ login = NoLogin /\ lastFail = 0 /\ failures = 0
    /\ call = [c \in Calls |-> Idle]
    /\ streak = << >>

-----------------------------------------------------------------------------
(* The back-off. *)

Cooldown(n) ==
    LET doubled == CooldownMin * 2^(IF n = 0 THEN 0 ELSE n - 1)
    IN  IF doubled < CooldownMax THEN doubled ELSE CooldownMax

\* Mutant: a fixed cooldown.
InBackoffFixed == lastFail > 0 /\ now - lastFail < CooldownMin
InBackoff == lastFail > 0 /\ now - lastFail < Cooldown(failures)

\* Mutant: a success does not end the doubling.
FailuresKept(ok) == IF ok THEN failures ELSE failures + 1
FailuresAfter(ok) == IF ok THEN 0 ELSE failures + 1

-----------------------------------------------------------------------------
(* A call. *)

\* bounded(): the timer of the step that a call enters.  (Mutant: a fresh
\* allowance for every step.)
BoundedFresh(due) == now + DefaultBudget
Bounded(due) == due

\* remaining() throws once the deadline is reached.
Overdue(due) == now >= due

Enter(phase, due, retried) ==
    [phase |-> phase, due |-> due, timer |-> Bounded(due), retried |-> retried]

\* The request is sent, unless it is too late for it.
Asking(due, retried) ==
    IF Overdue(due) THEN Idle ELSE Enter("asking", due, retried)

\* login(): join the pending one, or fail in the back-off, or start one that
\* has what is left of this call's budget.
LogIn(c, due, retried) ==
    LET wait == call' = [call EXCEPT ![c] = Enter("login", due, retried)]
        fail == call' = [call EXCEPT ![c] = Idle] /\ UNCHANGED login
    IN  IF Overdue(due) THEN fail
        ELSE IF login.pending THEN wait /\ UNCHANGED login
        ELSE IF InBackoff THEN fail
        ELSE wait /\ login' = [pending |-> TRUE, from |-> now, until |-> due]

Begin(c, budget) ==
    /\ call[c].phase = "idle"
    /\ IF cookie
       THEN /\ call' = [call EXCEPT ![c] = Asking(now + budget, FALSE)]
            /\ UNCHANGED login
       ELSE LogIn(c, now + budget, FALSE)
    /\ UNCHANGED <<now, cookie, lastFail, failures, streak>>

\* 401: whatever cookie is known by now is dropped.
Refused(c) ==
    /\ call[c].phase = "asking"
    /\ IF call[c].retried
       THEN call' = [call EXCEPT ![c] = Idle] /\ UNCHANGED <<cookie, login>>
       ELSE cookie' = FALSE /\ LogIn(c, call[c].due, TRUE)
    /\ UNCHANGED <<now, lastFail, failures, streak>>

\* Any other answer, or an error of the connection.
Answered(c) ==
    /\ call[c].phase = "asking"
    /\ call' = [call EXCEPT ![c] = Idle]
    /\ UNCHANGED <<now, cookie, login, lastFail, failures, streak>>

TimesOut(c) ==
    /\ call[c].phase # "idle" /\ now >= call[c].timer
    /\ call' = [call EXCEPT ![c] = Idle]
    /\ UNCHANGED <<now, cookie, login, lastFail, failures, streak>>

-----------------------------------------------------------------------------
(* The pending login settles for all who wait for it. *)

\* The cookie arrives, in time for those whose deadline is not over.
LoginSucceeds ==
    /\ login.pending
    /\ login' = NoLogin /\ cookie' = TRUE
    /\ lastFail' = 0 /\ failures' = FailuresAfter(TRUE) /\ streak' = << >>
    /\ call' = [c \in Calls |->
                   IF call[c].phase = "login" THEN Asking(call[c].due, call[c].retried)
                   ELSE call[c]]
    /\ UNCHANGED now

\* Refused, no cookie in the answer, an error, or out of time.
LoginFails ==
    /\ login.pending
    /\ login' = NoLogin
    /\ lastFail' = now /\ failures' = FailuresAfter(FALSE)
    /\ streak' = Append(streak, [from |-> login.from, until |-> now])
    /\ call' = [c \in Calls |-> IF call[c].phase = "login" THEN Idle ELSE call[c]]
    /\ UNCHANGED <<now, cookie>>

\* A timer that is due fires before time goes on.
Tick ==
    /\ now < MaxTime
    /\ login.pending => now < login.until
    /\ \A c \in Calls : call[c].phase # "idle" => now < call[c].timer
    /\ now' = now + 1
    /\ UNCHANGED <<cookie, login, lastFail, failures, call, streak>>

-----------------------------------------------------------------------------
LoginNext ==
    \/ \E c \in Calls :
           \/ \E budget \in Budgets : Begin(c, budget)
           \/ Refused(c) \/ Answered(c) \/ TimesOut(c)
    \/ LoginSucceeds \/ LoginFails \/ Tick

LoginSpec == LoginInit /\ [][LoginNext]_loginVars

-----------------------------------------------------------------------------
(* Correctness *)

\* Types; a call waits for a login only while one is pending, and the back-off
\* and the count of failures begin and end together.
LoginTypeOK ==
    /\ now \in Nat /\ cookie \in BOOLEAN
    /\ login \in [pending : BOOLEAN, from : Nat, until : Nat]
    /\ lastFail \in Nat /\ failures \in Nat
    /\ call \in [Calls -> [phase : {"idle", "login", "asking"}, due : Nat, timer : Nat,
                           retried : BOOLEAN]]
    /\ streak \in Seq([from : Nat, until : Nat])
    /\ \A c \in Calls : call[c].phase = "login" => login.pending
    /\ lastFail = 0 <=> failures = 0

\* "One absolute transaction budget": no call is still at work after its
\* deadline, however many logins and repetitions it went through and whoever's
\* login it waited for.
BudgetKept == \A c \in Calls : call[c].phase # "idle" => now <= call[c].due

\* What the camera sees of bad credentials: after n failed logins in a row the
\* next one is sent only when the n-th cooldown has passed, whatever calls
\* there are, and the cooldown grows with n.
CooledDown(at, attempt, n) == ~(at - attempt.until < Cooldown(n))
LoginsSpaced ==
    /\ \A n \in 1..Len(streak) - 1 : CooledDown(streak[n + 1].from, streak[n], n)
    /\ login.pending /\ streak # << >> =>
           CooledDown(login.from, streak[Len(streak)], Len(streak))
=============================================================================
