-------------------------- MODULE KConditionVariable --------------------------
(***************************************************************************)
(* User-mode mutexes and condition variables (k_condition_variable.cpp).   *)
(* A mutex is a word in user memory: the owner's handle and a wait bit.    *)
(* The guest takes and releases an uncontended mutex by itself; a          *)
(* contended one goes through WaitForAddress and SignalToAddress.  A       *)
(* condition variable has a user word that tells the guest whether to call *)
(* Signal at all.                                                          *)
(*                                                                         *)
(* Kernel code under the scheduler lock is one step, except the loop of    *)
(* Signal: it is unrolled, because guest code on other cores touches the   *)
(* same words between its iterations.  Which waiter has the best priority  *)
(* is left open (see KPriorityInheritance).                                *)
(***************************************************************************)
EXTENDS Integers, FiniteSets

CONSTANTS Threads, Mutexes, CondVars, Terminable, NoThread, NoCv

ASSUME CondVarAssumption == /\ NoThread \notin Threads
                            /\ NoCv \notin CondVars
                            /\ Terminable \subseteq Threads

VARIABLES tagOwner,    \* the handle in the mutex word
          waitBit,     \* its HandleWaitMask bit
          cvFlag,      \* the has-waiter word of a condition variable
          pc, arg,     \* guest position and the mutex it works with
          seen,        \* the owner's handle the guest passes to svcArbitrateLock
          tstate,      \* m_thread_state
          result,      \* m_wait_result
          lockOwner,   \* GetLockOwner()
          cvKey,       \* the condition variable whose tree it is in
          timed,       \* its timer task is registered
          life,        \* "live", asked to "terminate", "dead", handle "closed", "final"
          signal,      \* Signal in progress: who, on what, how many more
          crashed      \* CancelWait dereferenced a null lock owner: nothing runs any more

userVars == <<tagOwner, waitBit, cvFlag>>
guestVars == <<pc, arg, seen>>
waitVars == <<tstate, result, lockOwner, cvKey, timed>>
vars == <<userVars, guestVars, waitVars, life, signal, crashed>>

NoSignal == [by |-> NoThread, cv |-> NoCv, left |-> 0]
Everyone == -1   \* count <= 0

TypeOK ==
  /\ tagOwner \in [Mutexes -> Threads \cup {NoThread}]
  /\ waitBit \in [Mutexes -> BOOLEAN]
  /\ cvFlag \in [CondVars -> {0, 1}]
  /\ pc \in [Threads -> {"idle", "locking", "arbitrate", "waitlock", "crit",
                         "unlocking", "waitcv"}]
  /\ arg \in [Threads -> Mutexes]
  /\ seen \in [Threads -> Threads \cup {NoThread}]
  /\ tstate \in [Threads -> {"Runnable", "Waiting"}]
  /\ result \in [Threads -> {"Success", "TimedOut", "Terminated", "InvalidState",
                             "InvalidHandle"}]
  /\ lockOwner \in [Threads -> Threads \cup {NoThread}]
  /\ cvKey \in [Threads -> CondVars \cup {NoCv}]
  /\ timed \in [Threads -> BOOLEAN]
  /\ life \in [Threads -> {"live", "terminate", "dead", "closed", "final"}]
  /\ signal \in [by : Threads \cup {NoThread}, cv : CondVars \cup {NoCv},
                 left : {Everyone, 0, 1}]
  /\ crashed \in BOOLEAN

Init ==
  /\ tagOwner = [m \in Mutexes |-> NoThread]
  /\ waitBit = [m \in Mutexes |-> FALSE]
  /\ cvFlag = [c \in CondVars |-> 0]
  /\ pc = [t \in Threads |-> "idle"]
  /\ arg \in [Threads -> Mutexes]
  /\ seen = [t \in Threads |-> NoThread]
  /\ tstate = [t \in Threads |-> "Runnable"]
  /\ result = [t \in Threads |-> "Success"]
  /\ lockOwner = [t \in Threads |-> NoThread]
  /\ cvKey = [t \in Threads |-> NoCv]
  /\ timed = [t \in Threads |-> FALSE]
  /\ life = [t \in Threads |-> "live"]
  /\ signal = NoSignal
  /\ crashed = FALSE
-----------------------------------------------------------------------------
Alive(t) == life[t] \in {"live", "terminate"}

\* t executes and is not inside Signal.
At(t, at) == pc[t] = at /\ tstate[t] = "Runnable" /\ Alive(t) /\ signal.by # t

SchedulerFree == signal = NoSignal

\* Fault: the lookup of a closed handle succeeds.
Resolves_Always(t) == TRUE

\* The handle table still knows the thread.
Resolves(t) == life[t] \in {"live", "terminate", "dead"}

Waiters(o, m) == {t \in Threads : lockOwner[t] = o /\ arg[t] = m}
-----------------------------------------------------------------------------
(* Guest code: the user half of the mutex *)

GuestLock(t, m) ==
  /\ At(t, "idle")
  /\ pc' = [pc EXCEPT ![t] = "locking"]
  /\ arg' = [arg EXCEPT ![t] = m]
  /\ UNCHANGED <<userVars, seen, waitVars, life, signal, crashed>>

\* Take a free word, notice that the word was handed over, or set the wait bit
\* and ask the kernel to wait for the owner.
GuestTryLock(t) ==
  LET m == arg[t] IN
  /\ At(t, "locking")
  /\ \/ /\ tagOwner[m] \in {NoThread, t}
        /\ tagOwner' = [tagOwner EXCEPT ![m] = t]
        /\ pc' = [pc EXCEPT ![t] = "crit"]
        /\ UNCHANGED <<waitBit, seen>>
     \/ /\ tagOwner[m] \notin {NoThread, t}
        /\ waitBit' = [waitBit EXCEPT ![m] = TRUE]
        /\ seen' = [seen EXCEPT ![t] = tagOwner[m]]
        /\ pc' = [pc EXCEPT ![t] = "arbitrate"]
        /\ UNCHANGED tagOwner
  /\ UNCHANGED <<cvFlag, arg, waitVars, life, signal, crashed>>

\* Clear an uncontended word, or ask the kernel to pass the mutex on.
GuestUnlock(t) ==
  LET m == arg[t] IN
  /\ At(t, "crit")
  /\ \/ /\ tagOwner[m] = t /\ ~ waitBit[m]
        /\ tagOwner' = [tagOwner EXCEPT ![m] = NoThread]
        /\ pc' = [pc EXCEPT ![t] = "idle"]
     \/ /\ ~ (tagOwner[m] = t /\ ~ waitBit[m])
        /\ pc' = [pc EXCEPT ![t] = "unlocking"]
        /\ UNCHANGED tagOwner
  /\ UNCHANGED <<waitBit, cvFlag, arg, seen, waitVars, life, signal, crashed>>

\* Back from svcArbitrateLock the guest looks at the word again.
WaitForAddressReturn(t) ==
  /\ At(t, "waitlock")
  /\ pc' = [pc EXCEPT ![t] = "locking"]
  /\ UNCHANGED <<userVars, arg, seen, waitVars, life, signal, crashed>>

\* Back from svcWaitProcessWideKeyAtomic it owns the mutex, or must take it again.
WaitReturn(t) ==
  /\ At(t, "waitcv")
  /\ pc' = [pc EXCEPT ![t] = IF result[t] = "Success" THEN "crit" ELSE "locking"]
  /\ UNCHANGED <<userVars, arg, seen, waitVars, life, signal, crashed>>
-----------------------------------------------------------------------------
(* KConditionVariable *)

\* Fault: the word is not read again under the scheduler lock.
TagIs_Unchecked(m, o) == TRUE

\* test_tag is handle | HandleWaitMask.
TagIs(m, o) == tagOwner[m] = o /\ waitBit[m]

\* WaitForAddress (svcArbitrateLock).
WaitForAddress(t) ==
  LET m == arg[t]
      o == seen[t] IN
  /\ At(t, "arbitrate")
  /\ SchedulerFree
  /\ IF life[t] = "live" /\ TagIs(m, o) /\ Resolves(o)
       THEN /\ lockOwner' = [lockOwner EXCEPT ![t] = o]
            /\ tstate' = [tstate EXCEPT ![t] = "Waiting"]
            /\ pc' = [pc EXCEPT ![t] = "waitlock"]
       ELSE /\ pc' = [pc EXCEPT ![t] = "locking"]
            /\ UNCHANGED <<lockOwner, tstate>>
  /\ UNCHANGED <<userVars, arg, seen, result, cvKey, timed, life, signal, crashed>>

\* RemoveUserWaiterByKey, the write of the next tag and the wake-up of the next
\* owner, as SignalToAddress and Wait do them for the mutex t holds.
PassOn(t, n) ==
  LET m == arg[t]
      others == Waiters(t, m) \ {n} IN
  IF Waiters(t, m) = {}
    THEN /\ n = t
         /\ tagOwner' = [tagOwner EXCEPT ![m] = NoThread]
         /\ waitBit' = [waitBit EXCEPT ![m] = FALSE]
         /\ UNCHANGED lockOwner
    ELSE /\ n \in Waiters(t, m)
         /\ tagOwner' = [tagOwner EXCEPT ![m] = n]
         /\ waitBit' = [waitBit EXCEPT ![m] = others # {}]
         /\ lockOwner' = [u \in Threads |-> IF u = n THEN NoThread
                                            ELSE IF u \in others THEN n
                                            ELSE lockOwner[u]]

\* SignalToAddress (svcArbitrateUnlock).
SignalToAddress(t, n) ==
  /\ At(t, "unlocking")
  /\ SchedulerFree
  /\ PassOn(t, n)
  /\ tstate' = [tstate EXCEPT ![n] = "Runnable"]
  /\ result' = [result EXCEPT ![n] = "Success"]
  /\ timed' = [timed EXCEPT ![n] = FALSE]
  /\ pc' = [pc EXCEPT ![t] = "idle"]
  /\ UNCHANGED <<cvFlag, arg, seen, cvKey, life, signal, crashed>>

\* Wait (svcWaitProcessWideKeyAtomic): release the mutex and wait for c, with a
\* timeout that is zero, positive or infinite.
Wait(t, c, n, timeout) ==
  /\ At(t, "crit")
  /\ SchedulerFree
  /\ life[t] = "live"
  /\ PassOn(t, n)
  /\ cvFlag' = [cvFlag EXCEPT ![c] = 1]
  /\ IF timeout = "zero"
       THEN /\ pc' = [pc EXCEPT ![t] = "locking"]
            /\ tstate' = [tstate EXCEPT ![n] = "Runnable"]
            /\ result' = [result EXCEPT ![n] = "Success", ![t] = "TimedOut"]
            /\ timed' = [timed EXCEPT ![n] = FALSE]
            /\ UNCHANGED cvKey
       ELSE /\ pc' = [pc EXCEPT ![t] = "waitcv"]
            /\ tstate' = [tstate EXCEPT ![n] = "Runnable", ![t] = "Waiting"]
            /\ result' = [result EXCEPT ![n] = "Success"]
            /\ timed' = [timed EXCEPT ![n] = FALSE, ![t] = timeout = "positive"]
            /\ cvKey' = [cvKey EXCEPT ![t] = c]
  /\ UNCHANGED <<arg, seen, life, signal, crashed>>

\* Signal (svcSignalProcessWideKey): the guest calls it when the word is set.
Signal(t, c, count) ==
  /\ At(t, "idle") \/ At(t, "crit")
  /\ SchedulerFree
  /\ cvFlag[c] # 0
  /\ signal' = [by |-> t, cv |-> c, left |-> count]
  /\ UNCHANGED <<userVars, guestVars, waitVars, life, crashed>>

\* UpdateLockAtomic: a free word becomes t's, any other gets the wait bit.
TagBit(m) == waitBit[m] \/ tagOwner[m] # NoThread
TagOwner(m, t) == IF tagOwner[m] = NoThread THEN t ELSE tagOwner[m]

OneLess(left) == IF left = Everyone THEN left ELSE left - 1

\* One iteration of Signal: w leaves the tree; SignalImpl gives it the mutex if
\* the word is free and otherwise makes it a waiter of the word's owner.
SignalImpl(w) ==
  LET m == arg[w]
      o == tagOwner[m] IN
  /\ signal.left # 0
  /\ cvKey[w] # NoCv /\ cvKey[w] = signal.cv
  /\ cvKey' = [cvKey EXCEPT ![w] = NoCv]
  /\ tagOwner' = [tagOwner EXCEPT ![m] = TagOwner(m, w)]
  /\ waitBit' = [waitBit EXCEPT ![m] = TagBit(m)]
  /\ signal' = [signal EXCEPT !.left = OneLess(@)]
  /\ IF o # NoThread /\ Resolves(o)
       THEN lockOwner' = [lockOwner EXCEPT ![w] = o] /\ UNCHANGED <<tstate, result, timed>>
       ELSE /\ tstate' = [tstate EXCEPT ![w] = "Runnable"]
            /\ result' = [result EXCEPT ![w] = IF o = NoThread THEN "Success" ELSE "InvalidState"]
            /\ timed' = [timed EXCEPT ![w] = FALSE]
            /\ UNCHANGED lockOwner
  /\ UNCHANGED <<cvFlag, guestVars, life, crashed>>

\* Fault: the has-waiter word is cleared by every Signal.
NobodyWaits_Assumed(c) == TRUE

NobodyWaits(c) == \A t \in Threads : cvKey[t] # c

\* The end of Signal: clear the has-waiter word if the tree has no waiter left.
SignalEnd ==
  /\ ~ SchedulerFree
  /\ signal.left = 0 \/ NobodyWaits(signal.cv)
  /\ cvFlag' = [cvFlag EXCEPT ![signal.cv] = IF NobodyWaits(signal.cv) THEN 0 ELSE @]
  /\ signal' = NoSignal
  /\ UNCHANGED <<tagOwner, waitBit, guestVars, waitVars, life, crashed>>
-----------------------------------------------------------------------------
(* Cancelled waits, exit *)

\* Fault: a thread that has been moved to its mutex' owner is left there.
OwnerAfterCancel_Kept(t) == lockOwner[t]

OwnerAfterCancel(t) == NoThread

\* Fault: a cancelled wait reports success.
WaitResult_Success(r) == "Success"

WaitResult(r) == r

\* The CancelWait of both thread queues: off the owner's list and off the tree.
CancelWait(t, r) ==
  /\ lockOwner' = [lockOwner EXCEPT ![t] = OwnerAfterCancel(t)]
  /\ cvKey' = [cvKey EXCEPT ![t] = NoCv]
  /\ tstate' = [tstate EXCEPT ![t] = "Runnable"]
  /\ result' = [result EXCEPT ![t] = WaitResult(r)]
  /\ timed' = [timed EXCEPT ![t] = FALSE]

\* OnTimer.
Timeout(t) ==
  /\ SchedulerFree
  /\ timed[t] /\ tstate[t] = "Waiting"
  /\ CancelWait(t, "TimedOut")
  /\ UNCHANGED <<userVars, guestVars, life, signal, crashed>>

\* RequestTerminate by another thread.
RequestTerminate(t) ==
  /\ SchedulerFree
  /\ t \in Terminable /\ life[t] = "live"
  /\ life' = [life EXCEPT ![t] = "terminate"]
  /\ IF tstate[t] = "Waiting" THEN CancelWait(t, "Terminated") ELSE UNCHANGED waitVars
  /\ UNCHANGED <<userVars, guestVars, signal, crashed>>

\* A terminating thread exits on its way back to user mode, so that it has
\* returned from WaitForAddress before.
Exit(t) ==
  /\ SchedulerFree
  /\ life[t] = "terminate" /\ tstate[t] = "Runnable" /\ pc[t] # "waitlock"
  /\ life' = [life EXCEPT ![t] = "dead"]
  /\ UNCHANGED <<userVars, guestVars, waitVars, signal, crashed>>

\* svcCloseHandle on its handle: the table's reference is gone.
CloseHandle(t) ==
  /\ SchedulerFree
  /\ life[t] = "dead"
  /\ life' = [life EXCEPT ![t] = "closed"]
  /\ UNCHANGED <<userVars, guestVars, waitVars, signal, crashed>>

\* WaitForAddress keeps a reference to the thread it called AddWaiter on, until
\* its wait is over.  A thread that got its waiters by a hand-over has none.
Referenced(t) == \E w \in Threads : pc[w] = "waitlock" /\ seen[w] = t

\* Finalize, once the last reference is closed: cancel the waits of all waiters.
\* A waiter is off the owner's list by then.  The CancelWait of Wait allows for
\* that, the one of WaitForAddress uses the null owner.
Finalize(t) ==
  LET ws == {w \in Threads : lockOwner[w] = t} IN
  /\ SchedulerFree
  /\ life[t] = "closed" /\ ~ Referenced(t)
  /\ IF \E w \in ws : pc[w] = "waitlock"
       THEN crashed' = TRUE /\ UNCHANGED <<waitVars, life>>
       ELSE /\ life' = [life EXCEPT ![t] = "final"]
            /\ lockOwner' = [w \in Threads |-> IF w \in ws THEN NoThread ELSE lockOwner[w]]
            /\ tstate' = [w \in Threads |-> IF w \in ws THEN "Runnable" ELSE tstate[w]]
            /\ result' = [w \in Threads |-> IF w \in ws THEN "InvalidState" ELSE result[w]]
            /\ timed' = [w \in Threads |-> w \notin ws /\ timed[w]]
            /\ UNCHANGED <<cvKey, crashed>>
  /\ UNCHANGED <<userVars, guestVars, signal>>
-----------------------------------------------------------------------------
Step(t) ==
  \/ \E m \in Mutexes : GuestLock(t, m)
  \/ GuestTryLock(t)
  \/ GuestUnlock(t)
  \/ WaitForAddressReturn(t)
  \/ WaitReturn(t)
  \/ WaitForAddress(t)
  \/ \E n \in Threads : SignalToAddress(t, n)
  \/ \E c \in CondVars, n \in Threads, timeout \in {"zero", "positive", "infinite"} :
       Wait(t, c, n, timeout)
  \/ \E c \in CondVars, count \in {1, Everyone} : Signal(t, c, count)
  \/ SignalImpl(t)

Interfere(t) == Timeout(t) \/ RequestTerminate(t) \/ Exit(t) \/ CloseHandle(t) \/ Finalize(t)

Next == ~ crashed /\ (SignalEnd \/ \E t \in Threads : Step(t) \/ Interfere(t))

Spec == Init /\ [][Next]_vars
-----------------------------------------------------------------------------
(* Properties *)

Holds(t, m) == pc[t] \in {"crit", "unlocking"} /\ arg[t] = m

\* No waiter is lost: a thread queued on an owner finds that owner and the wait
\* bit in the word, so that the owner's unlock must enter the kernel.
WaiterIsTagged ==
  \A t \in Threads : lockOwner[t] # NoThread =>
    tagOwner[arg[t]] = lockOwner[t] /\ waitBit[arg[t]]

\* A thread in a condition variable's tree is announced in user memory: no guest
\* skips the Signal that would wake it.
WaiterIsAnnounced == \A t \in Threads : cvKey[t] # NoCv => cvFlag[cvKey[t]] = 1

\* A thread that runs is in no queue, one that waits is in exactly one: no
\* timeout, termination or hand-over leaves it behind or takes it out twice.
QueuedOnce ==
  \A t \in Threads :
    (tstate[t] = "Waiting") <=> ((lockOwner[t] # NoThread) # (cvKey[t] # NoCv))

\* Finalize leaves nobody waiting for a thread that no longer exists.
NoWaiterOnFinalized ==
  \A t \in Threads : lockOwner[t] # NoThread => life[lockOwner[t]] # "final"

Holders == [m \in Mutexes |-> {t \in Threads : Holds(t, m)}]

AbstractMutex == INSTANCE Mutex WITH Locks <- Mutexes, holders <- Holders

\* No waiter is lost: it is queued once, where a guest or a thread that exists
\* finds it.  This is said of a process that has not crashed in Finalize.
NoWaiterLost ==
  crashed \/ (WaiterIsTagged /\ WaiterIsAnnounced /\ QueuedOnce /\ NoWaiterOnFinalized)

\* The user mutex is a mutex: waits, hand-overs and condition variables included.
ImplementsMutex == AbstractMutex!Spec
=============================================================================
