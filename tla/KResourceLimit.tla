---------------------------- MODULE KResourceLimit ----------------------------
(***************************************************************************)
(* The account of one limitable resource (KResourceLimit), with the light  *)
(* condition variable on which Reserve waits for room                      *)
(* (KLightConditionVariable).                                              *)
(*                                                                         *)
(* The hint of a resource counts what will still be held once everything   *)
(* that is on its way out has gone: a thread that exits gives its hint     *)
(* back at once and its value when it is destroyed.                        *)
(*                                                                         *)
(* Every operation holds m_lock, and Reserve lets go of it only in Wait.   *)
(* m_lock is a KLightLock, which excludes others until a thread is         *)
(* terminated while it is blocked in Lock: that thread goes on without the *)
(* lock (see KLightLock) and its Unlock frees the lock of another.  Which  *)
(* of the blocked threads is next is left open.  Reserve acts on what it   *)
(* found in a step of its own, so that such a thread can come between.     *)
(*                                                                         *)
(* s64 is LimitWidth bits wide here, so that sums do wrap around.          *)
(***************************************************************************)
EXTENDS KernelCommon

CONSTANTS LimitWidth,  \* bits of an s64
          Limits,      \* the limits that SetLimitValue is given, of an s64
          InitialLimit, \* one of them
          Terminable   \* the threads that may be terminated

ASSUME LimitAssumption ==
    /\ IsFiniteSet(Threads)
    /\ LimitWidth \in Nat \ {0}
    /\ Limits \subseteq Signed(LimitWidth)
    /\ InitialLimit \in Limits \cap Nat
    /\ Terminable \subseteq Threads

VARIABLES limit,     \* m_limit_values
          value,     \* m_current_values
          hint,      \* m_current_hints
          peak,      \* m_peak_values
          waiters,   \* m_waiter_count
          mlock,     \* owner of m_lock
          waitList,  \* KLightConditionVariable::m_wait_list
          pc,        \* where each thread is in Reserve, Release or SetLimitValue
          want,      \* the value it is called with
          expired,   \* its timeout has passed
          term,      \* it is to terminate
          own,       \* the value it has reserved and not released
          ownHint,   \* and the hint
          raised,    \* the limit was raised since the thread began to wait
          intruded   \* a thread has entered an operation without m_lock

account == <<limit, value, hint, peak>>
holdings == <<own, ownHint>>
limitVars == <<account, holdings, waiters, mlock, waitList, pc, want, expired, term,
          raised, intruded>>

Places == {"idle", "reserve", "first", "loop", "add", "sleep", "wait", "relock",
           "release", "releasing", "setlimit", "setting"}

S64 == Signed(LimitWidth)
MaxS64 == Half(LimitWidth) - 1
WrappingAdd(x, y) == Wrap(LimitWidth, x + y)

LimitTypeOK ==
    /\ {limit, value, hint, peak} \subseteq S64
    /\ waiters \in 0..Cardinality(Threads)
    /\ mlock \in Threads \union {NoThread}
    /\ waitList \subseteq Threads
    /\ pc \in [Threads -> Places]
    /\ want \in [Threads -> S64]
    /\ intruded \in BOOLEAN
    /\ {expired, term, raised} \subseteq [Threads -> BOOLEAN]
    /\ {own, ownHint} \subseteq [Threads -> 0..MaxS64]

LimitInit ==
    /\ limit = InitialLimit
    /\ value = 0
    /\ hint = 0
    /\ peak = 0
    /\ waiters = 0
    /\ mlock = NoThread
    /\ waitList = {}
    /\ pc = [t \in Threads |-> "idle"]
    /\ want = [t \in Threads |-> 0]
    /\ expired = [t \in Threads |-> FALSE]
    /\ term = [t \in Threads |-> FALSE]
    /\ own = [t \in Threads |-> 0]
    /\ ownHint = [t \in Threads |-> 0]
    /\ raised = [t \in Threads |-> FALSE]
    /\ intruded = FALSE

-----------------------------------------------------------------------------
\* Where a thread that is blocked in Lock will be once Lock has returned.
AfterLock(place) == CASE place = "reserve" -> "first"
                      [] place = "relock" -> "loop"
                      [] place = "release" -> "releasing"
                      [] place = "setlimit" -> "setting"
                      [] OTHER -> place

Blocked(t) == pc[t] \in {"reserve", "relock", "release", "setlimit"}

Where(t) == AfterLock(pc[t])

\* Thread t is at the given place behind Lock, or gets there with the lock now.
Inside(t, at) == Where(t) = at /\ (Blocked(t) => mlock = NoThread)

\* The owner of m_lock when t stays inside.
Keeping(t) == IF Blocked(t) THEN t ELSE mlock

\* Unlock frees the lock, whoever owns it.
Unlock == mlock' = NoThread

\* Reserve is called with a timeout in the future.
ReserveCall(t, v) ==
    /\ pc[t] = "idle"
    /\ own[t] = 0
    /\ ~term[t]
    /\ pc' = [pc EXCEPT ![t] = "reserve"]
    /\ want' = [want EXCEPT ![t] = v]
    /\ UNCHANGED <<account, holdings, waiters, mlock, waitList, expired, term,
                   raised, intruded>>

WouldOverflow(v) == WrappingAdd(value, v) <= value

Fits(v) == WrappingAdd(value, v) <= limit

MayWait(t) ==
    /\ WrappingAdd(hint, want[t]) <= limit
    /\ ~expired[t]

\* The waiters but t once it is back from Wait.
OtherWaiters(t) == IF Where(t) = "first" THEN waiters ELSE waiters - 1

\* The call returns, and its arguments are gone.
LocalsGone(t) ==
    /\ want' = [want EXCEPT ![t] = 0]
    /\ expired' = [expired EXCEPT ![t] = FALSE]
    /\ raised' = [raised EXCEPT ![t] = FALSE]

ReserveFails(t) ==
    /\ Inside(t, "first") \/ Inside(t, "loop")
    /\ \/ Where(t) = "first" /\ hint >= limit
       \/ WouldOverflow(want[t])
       \/ ~Fits(want[t]) /\ ~MayWait(t)
    /\ pc' = [pc EXCEPT ![t] = "idle"]
    /\ waiters' = OtherWaiters(t)
    /\ LocalsGone(t)
    /\ Unlock
    /\ UNCHANGED <<account, holdings, waitList, term, intruded>>

\* The loop finds room, or finds that it has to wait.
ReserveDecides(t) ==
    /\ Inside(t, "first") \/ Inside(t, "loop")
    /\ Where(t) = "first" => hint < limit
    /\ ~WouldOverflow(want[t])
    /\ mlock' = Keeping(t)
    /\ \/ /\ Fits(want[t])
          /\ pc' = [pc EXCEPT ![t] = "add"]
          /\ waiters' = OtherWaiters(t)
       \/ /\ ~Fits(want[t])
          /\ MayWait(t)
          /\ pc' = [pc EXCEPT ![t] = "sleep"]
          /\ waiters' = OtherWaiters(t) + 1
    /\ UNCHANGED <<account, holdings, waitList, want, expired, term, raised, intruded>>

ReserveSucceeds(t) ==
    /\ pc[t] = "add"
    /\ value' = WrappingAdd(value, want[t])
    /\ hint' = WrappingAdd(hint, want[t])
    /\ peak' = IF value' > peak THEN value' ELSE peak
    /\ own' = [own EXCEPT ![t] = want[t]]
    /\ ownHint' = [ownHint EXCEPT ![t] = want[t]]
    /\ pc' = [pc EXCEPT ![t] = "idle"]
    /\ LocalsGone(t)
    /\ Unlock
    /\ UNCHANGED <<limit, waiters, waitList, term, intruded>>

\* Wait: the lock is released in the section that enters the wait list.  A
\* thread that is to terminate does not wait and keeps the lock.
ReserveWaits(t) ==
    /\ pc[t] = "sleep"
    /\ IF term[t]
       THEN /\ pc' = [pc EXCEPT ![t] = "loop"]
            /\ UNCHANGED <<mlock, waitList, raised>>
       ELSE /\ pc' = [pc EXCEPT ![t] = "wait"]
            /\ waitList' = waitList \union {t}
            /\ raised' = [raised EXCEPT ![t] = FALSE]
            /\ Unlock
    /\ UNCHANGED <<account, holdings, waiters, want, expired, term, intruded>>

\* The threads of S leave the wait list and go for the lock.
Woken(S) == [t \in Threads |-> IF t \in S THEN "relock" ELSE pc[t]]

\* The clock reaches the timeout of t.
Expire(t) ==
    /\ pc[t] \in {"reserve", "first", "loop", "add", "sleep", "wait", "relock"}
    /\ ~expired[t]
    /\ expired' = [expired EXCEPT ![t] = TRUE]
    /\ UNCHANGED <<account, holdings, waiters, mlock, waitList, pc, want, term,
                   raised, intruded>>

\* The timer task of t, CancelWait with ResultTimedOut.
OnTimer(t) ==
    /\ expired[t]
    /\ t \in waitList
    /\ waitList' = waitList \ {t}
    /\ pc' = Woken({t})
    /\ UNCHANGED <<account, holdings, waiters, mlock, want, expired, term, raised,
                   intruded>>

\* The wait of t is not one that terminating threads may keep.  A wait for m_lock
\* ends as well, and Lock returns without the lock; a thread that is still on its
\* way to that wait is not disturbed.
RequestTerminate(t) ==
    /\ t \in Terminable
    /\ ~term[t]
    /\ term' = [term EXCEPT ![t] = TRUE]
    /\ waitList' = waitList \ {t}
    /\ \/ pc' = Woken(waitList \intersect {t}) /\ UNCHANGED intruded
       \/ /\ Blocked(t) /\ mlock # NoThread
          /\ pc' = [pc EXCEPT ![t] = Where(t)]
          /\ intruded' = TRUE
    /\ UNCHANGED <<account, holdings, waiters, mlock, want, expired, raised>>

-----------------------------------------------------------------------------
\* Fault: only one waiter is woken.
Signaled_One == IF waitList = {} THEN {} ELSE {CHOOSE t \in waitList : TRUE}

\* Broadcast.
Signaled == IF waiters # 0 THEN waitList ELSE {}

\* Fault: the hint is taken off with the value, given back before or not.
HintLeft_Again(v, h) == hint - (IF v > h THEN v ELSE h)

HintLeft(v, h) == hint - h

\* Release of what t holds: all of it, its hint ahead of its value
\* (KThread::Exit), or the value after the hint (KThread::PostDestroy).
ReleaseCall(t, v) ==
    /\ pc[t] = "idle"
    /\ own[t] > 0
    /\ v \in {own[t], 0}
    /\ v + ownHint[t] > 0
    /\ pc' = [pc EXCEPT ![t] = "release"]
    /\ want' = [want EXCEPT ![t] = v]
    /\ UNCHANGED <<account, holdings, waiters, mlock, waitList, expired, term,
                   raised, intruded>>

Release(t) ==
    LET v == want[t]
        h == ownHint[t] IN
    /\ Inside(t, "releasing")
    /\ value' = Wrap(LimitWidth, value - v)
    /\ hint' = Wrap(LimitWidth, HintLeft(v, h))
    /\ own' = [own EXCEPT ![t] = @ - v]
    /\ ownHint' = [ownHint EXCEPT ![t] = 0]
    /\ waitList' = waitList \ Signaled
    /\ pc' = [Woken(Signaled) EXCEPT ![t] = "idle"]
    /\ LocalsGone(t)
    /\ Unlock
    /\ UNCHANGED <<limit, peak, waiters, term, intruded>>

\* Fault: the limit is compared with the hint.
MayLimit_Hint(v) == hint <= v

MayLimit(v) == value <= v

SetLimitCall(t, v) ==
    /\ pc[t] = "idle"
    /\ pc' = [pc EXCEPT ![t] = "setlimit"]
    /\ want' = [want EXCEPT ![t] = v]
    /\ UNCHANGED <<account, holdings, waiters, mlock, waitList, expired, term,
                   raised, intruded>>

SetLimitValue(t) ==
    LET v == want[t] IN
    /\ Inside(t, "setting")
    /\ IF MayLimit(v)
       THEN /\ limit' = v
            /\ peak' = value
            /\ raised' = [u \in Threads |-> raised[u] \/ (u \in waitList /\ v > limit)]
       ELSE UNCHANGED <<limit, peak, raised>>
    /\ pc' = [pc EXCEPT ![t] = "idle"]
    /\ want' = [want EXCEPT ![t] = 0]
    /\ Unlock
    /\ UNCHANGED <<value, hint, holdings, waiters, waitList, expired, term, intruded>>

-----------------------------------------------------------------------------
LimitNext ==
    \E t \in Threads :
      \/ \E v \in 0..MaxS64 : ReserveCall(t, v)
      \/ ReserveFails(t)
      \/ ReserveDecides(t)
      \/ ReserveSucceeds(t)
      \/ ReserveWaits(t)
      \/ Expire(t)
      \/ OnTimer(t)
      \/ RequestTerminate(t)
      \/ \E v \in 0..MaxS64 : ReleaseCall(t, v)
      \/ Release(t)
      \/ \E v \in Limits : SetLimitCall(t, v)
      \/ SetLimitValue(t)

LimitSpec == LimitInit /\ [][LimitNext]_limitVars

-----------------------------------------------------------------------------
(* What the assertions of every operation say: the hint never exceeds the   *)
(* value, the value never exceeds the limit nor the peak, whatever wraps    *)
(* around and however the limit is moved under the reservations.            *)
WithinLimit ==
    /\ 0 <= hint /\ hint <= value
    /\ value <= limit
    /\ value <= peak

\* The units that the threads hold, of the value or of the hint.
Units(held) == {u \in Threads \X (1..MaxS64) : u[2] <= held[u[1]]}

(* The account is exact: value and hint are the sums of what the threads    *)
(* hold, so a Reserve that failed, timed out or was terminated left nothing *)
(* behind and a hint given back ahead of its value is not given back twice. *)
AccountExact ==
    /\ value = Cardinality(Units(own))
    /\ hint = Cardinality(Units(ownHint))

(* The account of a resource is right, exact and within the limit, as long  *)
(* as no thread was terminated while it was blocked in m_lock.              *)
AccountsExact == intruded \/ (WithinLimit /\ AccountExact)

\* A thread asleep does not fit, or the limit was raised since it fell asleep.
SleepersDoNotFit ==
    \A t \in waitList : raised[t] \/ value + want[t] > limit

(* No release is missed: a thread asleep in Reserve does not fit, unless    *)
(* the limit was raised since it fell asleep (SetLimitValue wakes nobody),  *)
(* or a thread was terminated while it was blocked in m_lock.               *)
NoRoomMissed == intruded \/ SleepersDoNotFit
=============================================================================
