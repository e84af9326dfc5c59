------------------------------ MODULE KLightLock ------------------------------
(***************************************************************************)
(* The kernel's light lock (k_light_lock.cpp) together with the parts of   *)
(* KThread it leans on: kernel waiter bookkeeping, suspension that is      *)
(* deferred while a thread has kernel waiters, and termination requests.   *)
(*                                                                         *)
(* A lock word m_tag is the owner's pointer with bit 0 saying "has         *)
(* waiters"; it is split into owner[l] and tagBit[l].  Code under          *)
(* KScopedSchedulerLock is one step, an atomic read-modify-write is one    *)
(* step, everything else interleaves.                                      *)
(***************************************************************************)
EXTENDS Integers, FiniteSets

CONSTANTS Threads,       \* threads that use the locks
          NumLocks,      \* the locks are 1..NumLocks; callers nest them upwards
          SuspendTypes,  \* the KThread::SuspendType values in play
          Suspendable,   \* threads another thread may suspend
          Terminable,    \* threads another thread may ask to terminate
          NoThread       \* nullptr

ASSUME LightLockAssumption == /\ IsFiniteSet(Threads)
                              /\ NoThread \notin Threads
                              /\ NumLocks \in Nat
                              /\ Suspendable \subseteq Threads
                              /\ Terminable \subseteq Threads

VARIABLES owner,       \* m_tag with bit 0 cleared
          tagBit,      \* bit 0 of m_tag
          pc,          \* where a thread is in Lock / Unlock
          arg,         \* the lock it is working on, its address key when it waits
          seen,        \* the owner it read from m_tag (_owner of LockSlowPath)
          held,        \* locks for which Lock() has returned and Unlock() has not
          lockOwner,   \* GetLockOwner(): the thread whose waiter it is
          numWaiters,  \* m_num_kernel_waiters
          tstate,      \* m_thread_state & Mask
          susp,        \* the suspend bits of m_thread_state
          request,     \* m_suspend_request_flags
          allowed,     \* m_suspend_allowed_flags
          terminating  \* m_termination_requested

tagVars == <<owner, tagBit>>
localVars == <<pc, arg, seen, held>>
waitVars == <<lockOwner, numWaiters, tstate>>
suspVars == <<susp, request, allowed>>
vars == <<tagVars, localVars, waitVars, suspVars, terminating>>

Locks == 1..NumLocks

TypeOK ==
  /\ owner \in [Locks -> Threads \cup {NoThread}]
  /\ tagBit \in [Locks -> {0, 1}]
  /\ pc \in [Threads -> {"run", "lock", "lockslow", "wait", "unlockslow"}]
  /\ arg \in [Threads -> Locks \cup {0}]
  /\ seen \in [Threads -> Threads \cup {NoThread}]
  /\ held \in [Threads -> SUBSET Locks]
  /\ lockOwner \in [Threads -> Threads \cup {NoThread}]
  /\ numWaiters \in [Threads -> Int]
  /\ tstate \in [Threads -> {"Runnable", "Waiting"}]
  /\ susp \in [Threads -> SUBSET SuspendTypes]
  /\ request \in [Threads -> SUBSET SuspendTypes]
  /\ allowed \in [Threads -> SUBSET SuspendTypes]
  /\ terminating \in [Threads -> BOOLEAN]

Init ==
  /\ owner = [l \in Locks |-> NoThread]
  /\ tagBit = [l \in Locks |-> 0]
  /\ pc = [t \in Threads |-> "run"]
  /\ arg = [t \in Threads |-> 0]
  /\ seen = [t \in Threads |-> NoThread]
  /\ held = [t \in Threads |-> {}]
  /\ lockOwner = [t \in Threads |-> NoThread]
  /\ numWaiters = [t \in Threads |-> 0]
  /\ tstate = [t \in Threads |-> "Runnable"]
  /\ susp = [t \in Threads |-> {}]
  /\ request = [t \in Threads |-> {}]
  /\ allowed = [t \in Threads |-> SuspendTypes]
  /\ terminating = [t \in Threads |-> FALSE]
-----------------------------------------------------------------------------
(* KThread helpers *)

\* The waiters of the LockWithPriorityInheritanceInfo thread o keeps for lock l.
Waiters(o, l) == {t \in Threads : lockOwner[t] = o /\ arg[t] = l}

GetSuspendFlags(t) == allowed[t] \cap request[t]

IsSuspended(t) == GetSuspendFlags(t) # {}

\* ContinueIfHasKernelWaiters on t, given its waiter count: Continue clears the
\* suspend bits of its state.
ContinuedBits(t, waiters) ==
  IF IsSuspended(t) /\ waiters > 0 THEN {} ELSE susp[t]

\* TrySuspend on t: nothing while it has kernel waiters, else UpdateState.
TrySuspendBits(t, flags, waiters) == IF waiters > 0 THEN susp[t] ELSE flags

\* Fault: UnlockSlowPath does not suspend again.
BitsAfterUnlock_Kept(t, waiters) == susp[t]

\* "We may have unsuspended in the process of acquiring the lock, so we'll re-suspend
\* now if so": t has unlocked and has so many waiters left.
BitsAfterUnlock(t, waiters) ==
  IF IsSuspended(t) THEN TrySuspendBits(t, GetSuspendFlags(t), waiters) ELSE susp[t]

\* Fault: RemoveWaiterImpl leaves the count alone.
CountWithoutWaiterOf_Stale(o) == numWaiters

\* RemoveWaiterImpl: owner o, if there is one, loses a kernel waiter.
CountWithoutWaiterOf(o) ==
  [u \in Threads |-> IF u = o THEN numWaiters[u] - 1 ELSE numWaiters[u]]
-----------------------------------------------------------------------------
(* KLightLock *)

\* Fault: BeginWait does not block the thread.
Runs_Unblocked(t, at) == pc[t] = at

Runs(t, at) == pc[t] = at /\ tstate[t] = "Runnable"

\* A thread enters Lock().  Callers take nested light locks in one global order.
CallLock(t, l) ==
  /\ Runs(t, "run")
  /\ \A h \in held[t] : h < l
  /\ pc' = [pc EXCEPT ![t] = "lock"]
  /\ arg' = [arg EXCEPT ![t] = l]
  /\ UNCHANGED <<tagVars, seen, held, waitVars, suspVars, terminating>>

TagIsZero(l) == owner[l] = NoThread

OrWaiterBit(bit) == 1

\* The compare-exchange loop of Lock(): take a free lock, or set bit 0.
LockExchange(t) ==
  /\ Runs(t, "lock")
  /\ LET l == arg[t] IN
     \/ /\ TagIsZero(l)
        /\ owner' = [owner EXCEPT ![l] = t]
        /\ held' = [held EXCEPT ![t] = @ \cup {l}]
        /\ pc' = [pc EXCEPT ![t] = "run"]
        /\ UNCHANGED <<tagBit, seen>>
     \/ /\ ~ TagIsZero(l)
        /\ tagBit' = [tagBit EXCEPT ![l] = OrWaiterBit(@)]
        /\ seen' = [seen EXCEPT ![t] = owner[l]]
        /\ pc' = [pc EXCEPT ![t] = "lockslow"]
        /\ UNCHANGED <<owner, held>>
  /\ UNCHANGED <<arg, waitVars, suspVars, terminating>>

\* Fault: the tag is not read again under the scheduler lock.
TagIs_Unchecked(l, o) == TRUE

\* m_tag still is _owner, that is o with the waiter bit.
TagIs(l, o) == owner[l] = o /\ tagBit[l] = 1

\* LockSlowPath: give up if the tag moved on, else wait on the owner.
LockSlowPath(t) ==
  /\ Runs(t, "lockslow")
  /\ LET l == arg[t]
         o == seen[t] IN
     \/ /\ ~ TagIs(l, o)
        /\ pc' = [pc EXCEPT ![t] = "lock"]
        /\ UNCHANGED <<waitVars, susp>>
     \/ /\ TagIs(l, o)
        /\ lockOwner' = [lockOwner EXCEPT ![t] = o]
        /\ numWaiters' = [numWaiters EXCEPT ![o] = @ + 1]
        /\ tstate' = [tstate EXCEPT ![t] = "Waiting"]
        /\ susp' = [susp EXCEPT ![o] = ContinuedBits(o, numWaiters[o] + 1)]
        /\ pc' = [pc EXCEPT ![t] = "wait"]
  /\ UNCHANGED <<tagVars, arg, seen, held, request, allowed, terminating>>

\* The woken thread leaves LockSlowPath with true, so Lock() returns.
LockReturn(t) ==
  /\ Runs(t, "wait")
  /\ pc' = [pc EXCEPT ![t] = "run"]
  /\ held' = [held EXCEPT ![t] = @ \cup {arg[t]}]
  /\ UNCHANGED <<tagVars, arg, seen, waitVars, suspVars, terminating>>

\* m_tag is the plain thread pointer.
Uncontended(t, l) == owner[l] = t /\ tagBit[l] = 0

\* The compare-exchange of Unlock(): it succeeds on an uncontended tag.
Unlock(t, l) ==
  /\ Runs(t, "run")
  /\ l \in held[t]
  /\ \/ /\ Uncontended(t, l)
        /\ owner' = [owner EXCEPT ![l] = NoThread]
        /\ held' = [held EXCEPT ![t] = @ \ {l}]
        /\ UNCHANGED <<pc, arg>>
     \/ /\ ~ Uncontended(t, l)
        /\ pc' = [pc EXCEPT ![t] = "unlockslow"]
        /\ arg' = [arg EXCEPT ![t] = l]
        /\ UNCHANGED <<owner, held>>
  /\ UNCHANGED <<tagBit, seen, waitVars, suspVars, terminating>>

\* UnlockSlowPath when nobody waits: the tag becomes 0.
UnlockToNobody(t) ==
  /\ Waiters(t, arg[t]) = {}
  /\ owner' = [owner EXCEPT ![arg[t]] = NoThread]
  /\ tagBit' = [tagBit EXCEPT ![arg[t]] = 0]
  /\ susp' = [susp EXCEPT ![t] = BitsAfterUnlock(t, numWaiters[t])]
  /\ UNCHANGED waitVars

\* UnlockSlowPath when n is the highest-priority waiter: n gets the lock and the
\* other waiters, and runs even if suspended when it has some.
UnlockToWaiter(t, n) ==
  LET l      == arg[t]
      others == Waiters(t, l) \ {n}
      left   == numWaiters[t] - Cardinality(Waiters(t, l))
      gained == numWaiters[n] + Cardinality(others)
  IN  /\ n \in Waiters(t, l)
      /\ owner' = [owner EXCEPT ![l] = n]
      /\ tagBit' = [tagBit EXCEPT ![l] = IF others = {} THEN 0 ELSE 1]
      /\ lockOwner' = [u \in Threads |-> IF u = n THEN NoThread
                                         ELSE IF u \in others THEN n
                                         ELSE lockOwner[u]]
      /\ numWaiters' = [numWaiters EXCEPT ![t] = left, ![n] = gained]
      /\ tstate' = [tstate EXCEPT ![n] = "Runnable"]
      /\ susp' = [susp EXCEPT ![n] = ContinuedBits(n, gained),
                              ![t] = BitsAfterUnlock(t, left)]

UnlockSlowPath(t) ==
  /\ Runs(t, "unlockslow")
  /\ UnlockToNobody(t) \/ \E n \in Threads : UnlockToWaiter(t, n)
  /\ held' = [held EXCEPT ![t] = @ \ {arg[t]}]
  /\ pc' = [pc EXCEPT ![t] = "run"]
  /\ UNCHANGED <<arg, seen, request, allowed, terminating>>
-----------------------------------------------------------------------------
(* What other threads may do to a thread at any time *)

\* RequestSuspend: note the request, suspend unless kernel waiters depend on t.
RequestSuspend(t, s) ==
  /\ t \in Suspendable
  /\ s \notin request[t]
  /\ request' = [request EXCEPT ![t] = @ \cup {s}]
  /\ susp' = [susp EXCEPT ![t] =
                TrySuspendBits(t, allowed[t] \cap (request[t] \cup {s}), numWaiters[t])]
  /\ UNCHANGED <<tagVars, localVars, waitVars, allowed, terminating>>

\* Resume: drop the request and UpdateState with what is still requested.
Resume(t, s) ==
  /\ s \in request[t]
  /\ request' = [request EXCEPT ![t] = @ \ {s}]
  /\ susp' = [susp EXCEPT ![t] = allowed[t] \cap (request[t] \ {s})]
  /\ UNCHANGED <<tagVars, localVars, waitVars, allowed, terminating>>

\* RequestTerminate: the first request lifts a suspension and cancels a wait,
\* which takes t off its owner's waiters (ThreadQueueImplForKLightLock::CancelWait).
RequestTerminate(t) ==
  /\ t \in Terminable
  /\ ~ terminating[t]
  /\ terminating' = [terminating EXCEPT ![t] = TRUE]
  /\ allowed' = [allowed EXCEPT ![t] = IF IsSuspended(t) THEN {} ELSE @]
  /\ susp' = [susp EXCEPT ![t] = IF IsSuspended(t) THEN {} ELSE @]
  /\ tstate' = [tstate EXCEPT ![t] = "Runnable"]
  /\ lockOwner' = [lockOwner EXCEPT ![t] = NoThread]
  /\ numWaiters' = CountWithoutWaiterOf(lockOwner[t])
  /\ UNCHANGED <<tagVars, localVars, request>>
-----------------------------------------------------------------------------
Step(t) == \/ \E l \in Locks : CallLock(t, l) \/ Unlock(t, l)
           \/ LockExchange(t)
           \/ LockSlowPath(t)
           \/ LockReturn(t)
           \/ UnlockSlowPath(t)

Interfere(t) == \/ \E s \in SuspendTypes : RequestSuspend(t, s) \/ Resume(t, s)
                \/ RequestTerminate(t)

Next == \E t \in Threads : Step(t) \/ Interfere(t)

Spec == Init /\ [][Next]_vars
-----------------------------------------------------------------------------
(* Properties *)

\* No thread has been asked to terminate.  A termination request ends the wait of
\* LockSlowPath early, and Lock() then returns without the lock.
Undisturbed == \A t \in Threads : ~ terminating[t]

\* What the kernel asserts with IsLockedByCurrentThread() inside its critical sections:
\* as long as nobody is asked to terminate, the tag of a held lock names its holder.
LockedByHolder ==
  Undisturbed => \A t \in Threads : \A l \in held[t] : owner[l] = t

\* Lock() gives exclusion: before a termination request, two threads never are between
\* the return of Lock() and the release in Unlock() of the same light lock.
MutualExclusion ==
  Undisturbed => \A t, u \in Threads : t # u => held[t] \cap held[u] = {}

\* No waiter is lost: before a termination request, a blocked thread is on the waiter
\* list of the thread the tag names, and the tag tells that owner to take the slow path
\* of Unlock().
WaiterIsKnown ==
  Undisturbed => \A t \in Threads : tstate[t] = "Waiting" =>
    /\ lockOwner[t] = owner[arg[t]]
    /\ lockOwner[t] \in Threads \ {t}
    /\ tagBit[arg[t]] = 1

\* m_num_kernel_waiters counts the threads that wait on a thread, also when waits are
\* cancelled by termination requests.
WaiterCountExact ==
  \A t \in Threads : numWaiters[t] = Cardinality({u \in Threads : lockOwner[u] = t})

\* Lock l is in the hands of t: Lock() has returned, or is about to after a wait.
InHand(t, l) ==
  \/ l \in held[t]
  \/ pc[t] = "wait" /\ tstate[t] = "Runnable" /\ arg[t] = l

\* A suspension that was put off is not forgotten: a thread whose suspend bits are not
\* those that are requested has kernel waiters, or has a lock in hand that it cannot
\* release but through UnlockSlowPath, which suspends it (its waiter was terminated).
PutOffOnly ==
  \A t \in Threads : susp[t] # GetSuspendFlags(t) =>
    \/ numWaiters[t] > 0
    \/ \E l \in Locks : InHand(t, l) /\ ~ Uncontended(t, l)

\* A step that leaves t suspended and with kernel waiters found it so, or is a Resume.
NotSuspendedByWait(t) ==
  numWaiters'[t] > 0 /\ susp'[t] # {} =>
    \/ numWaiters[t] > 0 /\ susp[t] # {}
    \/ \E s \in SuspendTypes : Resume(t, s)

\* Suspension is put off while others wait on a light lock, and only so long.  A thread
\* is never suspended while it has kernel waiters and never gets one while suspended,
\* except by Resume, which drops one of several requests and does not look at waiters.
SuspensionPutOff == [][PutOffOnly' /\ \A t \in Threads : NotSuspendedByWait(t)]_vars

-----------------------------------------------------------------------------
(* The abstract lock *)

Holders == [l \in Locks |-> {t \in Threads : l \in held[t]}]

\* A light lock, seen through held, is a plain mutex: see Mutex.tla.
AbstractLock == INSTANCE Mutex WITH holders <- Holders

\* Until a thread is asked to terminate, every step of the tag protocol is an Acquire,
\* a Release or invisible.
ImplementsMutex == AbstractLock!Init /\ [][Undisturbed => AbstractLock!Next]_Holders
=============================================================================
