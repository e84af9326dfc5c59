--------------------------- MODULE KLightLockProofs ---------------------------
(***************************************************************************)
(* Mutual exclusion of the light lock for any number of threads, locks and *)
(* suspend types, until a thread is asked to terminate: after that the tag *)
(* need not name the holder.  Types and waiter counts survive termination. *)
(***************************************************************************)
EXTENDS KLightLock, FiniteSetTheorems, TLAPS

-----------------------------------------------------------------------------
(* The inductive invariant *)

\* The tag names the threads that hold the lock or were handed it.
HolderInv ==
  \A t \in Threads : \A l \in held[t] : owner[l] = t

\* A woken waiter has been handed the lock by UnlockSlowPath.
HandoffInv ==
  \A t \in Threads : pc[t] = "wait" /\ tstate[t] = "Runnable" =>
    arg[t] \in Locks /\ owner[arg[t]] = t

\* A thread outside a wait is runnable and on no waiter list; a blocked one is
\* on the list of the owner named by a tag whose bit 0 is set.
WaiterInv ==
  \A t \in Threads :
    /\ tstate[t] = "Waiting" <=> lockOwner[t] # NoThread
    /\ tstate[t] = "Waiting" =>
         /\ pc[t] = "wait"
         /\ arg[t] \in Locks
         /\ lockOwner[t] = owner[arg[t]]
         /\ tagBit[arg[t]] = 1

\* The lock a thread works on.
LocalInv ==
  \A t \in Threads :
    /\ pc[t] \in {"lock", "lockslow", "wait"} => arg[t] \notin held[t]
    /\ pc[t] = "unlockslow" => arg[t] \in held[t]

\* Only a holder or a thread that was handed the lock is named by its tag.
OwnerInv ==
  \A l \in Locks : \A t \in Threads :
    owner[l] = t => l \in held[t] \/ (pc[t] = "wait" /\ arg[t] = l /\ tstate[t] = "Runnable")

IInv == HolderInv /\ HandoffInv /\ WaiterInv /\ LocalInv /\ OwnerInv
-----------------------------------------------------------------------------
(* Types, with and without termination requests *)

TypeInv ==
  /\ TypeOK
  /\ \A t \in Threads : pc[t] # "run" => arg[t] \in Locks
  /\ \A t \in Threads : pc[t] = "lockslow" => seen[t] \in Threads

\* Initially no thread works on a lock.
LEMMA InitTypeInv == Init => TypeInv
  BY LightLockAssumption DEF Init, TypeInv, TypeOK, Locks

\* The number of waiters on a lock is a number, as there are finitely many threads.
LEMMA WaiterCountType ==
  ASSUME NEW t, NEW l, NEW n
  PROVE Cardinality(Waiters(t, l)) \in Nat /\ Cardinality(Waiters(t, l) \ {n}) \in Nat
  <1>1. IsFiniteSet(Waiters(t, l)) /\ IsFiniteSet(Waiters(t, l) \ {n})
    BY LightLockAssumption, FS_Subset DEF Waiters
  <1> QED BY <1>1, FS_CardinalityType

\* Each step keeps the types, and a thread inside Lock or Unlock works on a lock.
LEMMA NextTypeInv == ASSUME TypeInv, [Next]_vars PROVE TypeInv'
  <1> USE LightLockAssumption DEF TypeInv, TypeOK, tagVars, localVars, waitVars, suspVars, Runs,
          TagIsZero, OrWaiterBit, TagIs, Uncontended, CountWithoutWaiterOf
  <1>1. ASSUME NEW t \in Threads, NEW l \in Locks, CallLock(t, l) \/ Unlock(t, l)
        PROVE TypeInv'
    BY <1>1 DEF CallLock, Unlock
  <1>2. ASSUME NEW t \in Threads, LockExchange(t) \/ LockReturn(t) PROVE TypeInv'
    BY <1>2 DEF LockExchange, LockReturn
  <1>3. ASSUME NEW t \in Threads, LockSlowPath(t) PROVE TypeInv'
    BY <1>3 DEF LockSlowPath, ContinuedBits
  <1>4. ASSUME NEW t \in Threads, UnlockSlowPath(t), UnlockToNobody(t) PROVE TypeInv'
    BY <1>4 DEF UnlockSlowPath, UnlockToNobody, BitsAfterUnlock, TrySuspendBits, GetSuspendFlags
  <1>5. ASSUME NEW t \in Threads, NEW n \in Threads, UnlockSlowPath(t), UnlockToWaiter(t, n)
        PROVE TypeInv'
    <2> DEFINE k == Cardinality(Waiters(t, arg[t]))
               m == Cardinality(Waiters(t, arg[t]) \ {n})
    <2>a. k \in Nat /\ m \in Nat BY WaiterCountType
    <2>b. numWaiters' = [numWaiters EXCEPT ![t] = numWaiters[t] - k,
                                           ![n] = numWaiters[n] + m]
      BY <1>5 DEF UnlockToWaiter
    <2> HIDE DEF k, m
    <2>1. numWaiters' \in [Threads -> Int] BY <2>a, <2>b
    <2>2. susp' \in [Threads -> SUBSET SuspendTypes]
      BY <1>5 DEF UnlockToWaiter, ContinuedBits, BitsAfterUnlock, TrySuspendBits, GetSuspendFlags
    <2>3. /\ owner' \in [Locks -> Threads \cup {NoThread}]
          /\ tagBit' \in [Locks -> {0, 1}]
          /\ lockOwner' \in [Threads -> Threads \cup {NoThread}]
          /\ tstate' \in [Threads -> {"Runnable", "Waiting"}]
      BY <1>5 DEF UnlockSlowPath, UnlockToWaiter
    <2> QED BY <1>5, <2>1, <2>2, <2>3 DEF UnlockSlowPath
  <1>6. ASSUME NEW t \in Threads, NEW s \in SuspendTypes,
               RequestSuspend(t, s) \/ Resume(t, s)
        PROVE TypeInv'
    BY <1>6 DEF RequestSuspend, Resume, TrySuspendBits
  <1>7. ASSUME NEW t \in Threads, RequestTerminate(t) PROVE TypeInv'
    BY <1>7 DEF RequestTerminate
  <1>8. CASE UNCHANGED vars BY <1>8 DEF vars
  <1> QED
    BY <1>1, <1>2, <1>3, <1>4, <1>5, <1>6, <1>7, <1>8
    DEF Next, Step, Interfere, UnlockSlowPath

\* Every field keeps its type through every step, termination requests included.
THEOREM TypeCorrect == Spec => []TypeOK
  <1>1. Init => TypeInv BY InitTypeInv
  <1>2. TypeInv /\ [Next]_vars => TypeInv' BY NextTypeInv
  <1>3. TypeInv => TypeOK BY DEF TypeInv
  <1> QED BY <1>1, <1>2, <1>3, PTL DEF Spec
-----------------------------------------------------------------------------
\* Initially all locks are free.
LEMMA InitIInv == Init => IInv
  BY LightLockAssumption
  DEF Init, IInv, HolderInv, HandoffInv, WaiterInv, LocalInv, OwnerInv, Locks

\* Each step of Lock and Unlock, and each suspension, keeps the invariant.
LEMMA NextIInv == ASSUME Undisturbed', TypeInv, IInv, [Next]_vars PROVE IInv'
  <1> USE LightLockAssumption DEF IInv, TypeInv, tagVars, localVars, waitVars, suspVars, Runs,
          TagIsZero, OrWaiterBit, TagIs, Uncontended, CountWithoutWaiterOf
  <1>1. ASSUME NEW t \in Threads, NEW l \in Locks, CallLock(t, l) PROVE IInv'
    <2>2. HolderInv' BY <1>1 DEF CallLock, TypeOK, HolderInv
    <2>3. HandoffInv' BY <1>1 DEF CallLock, TypeOK, HandoffInv
    <2>4. WaiterInv' BY <1>1 DEF CallLock, TypeOK, WaiterInv
    <2>5. LocalInv' BY <1>1 DEF CallLock, TypeOK, LocalInv, Locks
    <2>6. OwnerInv' BY <1>1 DEF CallLock, TypeOK, OwnerInv
    <2> QED BY <2>2, <2>3, <2>4, <2>5, <2>6
  <1>2. ASSUME NEW t \in Threads, LockExchange(t) PROVE IInv'
    <2>0. arg[t] \in Locks BY <1>2 DEF LockExchange
    <2>2. HolderInv' BY <1>2, <2>0 DEF LockExchange, TypeOK, HolderInv
    <2>3. HandoffInv' BY <1>2, <2>0 DEF LockExchange, TypeOK, HandoffInv
    <2>4. WaiterInv' BY <1>2, <2>0 DEF LockExchange, TypeOK, WaiterInv
    <2>5. LocalInv' BY <1>2, <2>0 DEF LockExchange, TypeOK, LocalInv
    <2>6. OwnerInv' BY <1>2, <2>0 DEF LockExchange, TypeOK, OwnerInv
    <2> QED BY <2>2, <2>3, <2>4, <2>5, <2>6
  <1>3. ASSUME NEW t \in Threads, LockSlowPath(t) PROVE IInv'
    <2>0. arg[t] \in Locks /\ seen[t] \in Threads BY <1>3 DEF LockSlowPath
    <2>2. HolderInv' BY <1>3, <2>0 DEF LockSlowPath, TypeOK, HolderInv
    <2>3. HandoffInv' BY <1>3, <2>0 DEF LockSlowPath, TypeOK, HandoffInv
    <2>4. WaiterInv' BY <1>3, <2>0 DEF LockSlowPath, TypeOK, WaiterInv
    <2>5. LocalInv' BY <1>3, <2>0 DEF LockSlowPath, TypeOK, LocalInv
    <2>6. OwnerInv' BY <1>3, <2>0 DEF LockSlowPath, TypeOK, OwnerInv
    <2> QED BY <2>2, <2>3, <2>4, <2>5, <2>6
  <1>4. ASSUME NEW t \in Threads, LockReturn(t) PROVE IInv'
    <2>0. arg[t] \in Locks /\ owner[arg[t]] = t BY <1>4 DEF LockReturn, HandoffInv
    <2>2. HolderInv' BY <1>4, <2>0 DEF LockReturn, TypeOK, HolderInv
    <2>3. HandoffInv' BY <1>4, <2>0 DEF LockReturn, TypeOK, HandoffInv
    <2>4. WaiterInv' BY <1>4, <2>0 DEF LockReturn, TypeOK, WaiterInv
    <2>5. LocalInv' BY <1>4, <2>0 DEF LockReturn, TypeOK, LocalInv
    <2>6. OwnerInv' BY <1>4, <2>0 DEF LockReturn, TypeOK, OwnerInv
    <2> QED BY <2>2, <2>3, <2>4, <2>5, <2>6
  <1>5. ASSUME NEW t \in Threads, NEW l \in Locks, Unlock(t, l) PROVE IInv'
    <2>2. HolderInv' BY <1>5 DEF Unlock, TypeOK, HolderInv
    <2>3. HandoffInv' BY <1>5 DEF Unlock, TypeOK, HandoffInv, HolderInv
    <2>4. WaiterInv' BY <1>5 DEF Unlock, TypeOK, WaiterInv, HolderInv
    <2>5. LocalInv' BY <1>5 DEF Unlock, TypeOK, LocalInv, HolderInv
    <2>6. OwnerInv' BY <1>5 DEF Unlock, TypeOK, OwnerInv
    <2> QED BY <2>2, <2>3, <2>4, <2>5, <2>6
  <1>6. ASSUME NEW t \in Threads, Runs(t, "unlockslow"), UnlockSlowPath(t),
               UnlockToNobody(t)
        PROVE IInv'
    <2> USE DEF UnlockSlowPath, UnlockToNobody, Waiters
    <2>0. arg[t] \in Locks /\ arg[t] \in held[t] /\ owner[arg[t]] = t
      BY <1>6 DEF LocalInv, HolderInv, TypeOK
    <2>2. HolderInv' BY <1>6, <2>0 DEF TypeOK, HolderInv
    <2>3. HandoffInv' BY <1>6, <2>0 DEF TypeOK, HandoffInv
    <2>4. WaiterInv' BY <1>6, <2>0 DEF TypeOK, WaiterInv
    <2>5. LocalInv' BY <1>6, <2>0 DEF TypeOK, LocalInv
    <2>6. OwnerInv' BY <1>6, <2>0 DEF TypeOK, OwnerInv
    <2> QED BY <2>2, <2>3, <2>4, <2>5, <2>6
  <1>7. ASSUME NEW t \in Threads, NEW n \in Threads, UnlockSlowPath(t),
               UnlockToWaiter(t, n)
        PROVE IInv'
    <2> DEFINE l == arg[t]
               W == Waiters(t, l)
    <2>0. l \in Locks /\ l \in held[t] /\ owner[l] = t /\ pc[t] = "unlockslow"
      BY <1>7 DEF UnlockSlowPath, LocalInv, HolderInv, TypeOK
    <2>1. n \in W /\ tstate[n] = "Waiting" /\ pc[n] = "wait" /\ arg[n] = l /\ n # t
      BY <1>7, <2>0 DEF UnlockToWaiter, Waiters, WaiterInv, TypeOK
    <2>2. /\ owner' = [owner EXCEPT ![l] = n]
          /\ tagBit' = [tagBit EXCEPT ![l] = IF W \ {n} = {} THEN 0 ELSE 1]
          /\ lockOwner' = [u \in Threads |-> IF u = n THEN NoThread
                                              ELSE IF u \in W \ {n} THEN n
                                              ELSE lockOwner[u]]
          /\ tstate' = [tstate EXCEPT ![n] = "Runnable"]
          /\ held' = [held EXCEPT ![t] = @ \ {l}]
          /\ pc' = [pc EXCEPT ![t] = "run"]
          /\ UNCHANGED <<arg, seen>>
      BY <1>7 DEF UnlockSlowPath, UnlockToWaiter
    <2> HIDE DEF W
    <2>5. HolderInv' BY <2>0, <2>1, <2>2 DEF TypeOK, HolderInv
    <2>6. HandoffInv' BY <2>0, <2>1, <2>2 DEF TypeOK, HandoffInv
    <2>7. WaiterInv'
      BY <2>0, <2>1, <2>2 DEF W, TypeOK, WaiterInv, Waiters
    <2>8. LocalInv' BY <2>0, <2>1, <2>2 DEF TypeOK, LocalInv
    <2>9. OwnerInv' BY <2>0, <2>1, <2>2 DEF TypeOK, OwnerInv
    <2> QED BY <2>5, <2>6, <2>7, <2>8, <2>9
  <1>8. ASSUME NEW t \in Threads, NEW s \in SuspendTypes,
               RequestSuspend(t, s) \/ Resume(t, s)
        PROVE IInv'
    <2>2. HolderInv' BY <1>8 DEF RequestSuspend, Resume, HolderInv
    <2>3. HandoffInv' BY <1>8 DEF RequestSuspend, Resume, HandoffInv
    <2>4. WaiterInv' BY <1>8 DEF RequestSuspend, Resume, WaiterInv
    <2>5. LocalInv' BY <1>8 DEF RequestSuspend, Resume, LocalInv
    <2>6. OwnerInv' BY <1>8 DEF RequestSuspend, Resume, OwnerInv
    <2> QED BY <2>2, <2>3, <2>4, <2>5, <2>6
  <1>9. CASE UNCHANGED vars
    BY <1>9 DEF vars, HolderInv, HandoffInv, WaiterInv, LocalInv, OwnerInv
  <1>10. ASSUME NEW t \in Threads PROVE ~ RequestTerminate(t)
    BY DEF Undisturbed, RequestTerminate, TypeOK
  <1> QED
    BY <1>1, <1>2, <1>3, <1>4, <1>5, <1>6, <1>7, <1>8, <1>9, <1>10
    DEF Next, Step, Interfere, UnlockSlowPath
-----------------------------------------------------------------------------
\* A termination request is never taken back.
LEMMA RequestStays == ASSUME TypeInv, [Next]_vars, Undisturbed' PROVE Undisturbed
  <1> USE DEF Undisturbed, suspVars
  <1>1. ASSUME NEW t \in Threads, Step(t) PROVE UNCHANGED terminating
    BY <1>1 DEF Step, CallLock, Unlock, LockExchange, LockSlowPath, LockReturn, UnlockSlowPath
  <1>2. ASSUME NEW t \in Threads, Interfere(t), NEW u \in Threads
        PROVE terminating[u] => terminating'[u]
    BY <1>2 DEF Interfere, RequestSuspend, Resume, RequestTerminate, TypeInv, TypeOK
  <1>3. CASE UNCHANGED vars BY <1>3 DEF vars
  <1> QED BY <1>1, <1>2, <1>3 DEF Next

\* The invariant holds until the first termination request.
LEMMA Invariance == Spec => [](TypeInv /\ (Undisturbed => IInv))
  <1> DEFINE Inv == TypeInv /\ (Undisturbed => IInv)
  <1>1. Init => Inv BY InitTypeInv, InitIInv
  <1>2. Inv /\ [Next]_vars => Inv' BY NextTypeInv, NextIInv, RequestStays
  <1> QED BY <1>1, <1>2, PTL DEF Spec

\* The tag of every held lock names its holder, so the kernel's
\* IsLockedByCurrentThread() assertions hold.
THEOREM HolderIsOwner == Spec => []LockedByHolder
  <1>1. (Undisturbed => IInv) => LockedByHolder
    BY DEF IInv, HolderInv, LockedByHolder
  <1> QED BY <1>1, Invariance, PTL

\* Two threads are never inside the critical section of one light lock.
THEOREM Exclusion == Spec => []MutualExclusion
  <1>1. (Undisturbed => IInv) => MutualExclusion
    <2> SUFFICES ASSUME IInv, NEW t \in Threads, NEW u \in Threads, t # u,
                        NEW l \in held[t], l \in held[u]
                 PROVE FALSE
      BY DEF MutualExclusion
    <2> QED BY DEF IInv, HolderInv
  <1> QED BY <1>1, Invariance, PTL

\* A blocked thread is on the list of the owner its lock's tag names, and bit 0
\* sends that owner into UnlockSlowPath: the hand-off cannot miss it.
THEOREM NoLostWaiter == Spec => []WaiterIsKnown
  <1>1. TypeInv /\ (Undisturbed => IInv) => WaiterIsKnown
    <2> SUFFICES ASSUME TypeInv, IInv, NEW t \in Threads, tstate[t] = "Waiting"
                 PROVE /\ lockOwner[t] = owner[arg[t]]
                       /\ lockOwner[t] \in Threads \ {t}
                       /\ tagBit[arg[t]] = 1
      BY DEF WaiterIsKnown
    <2>1. /\ lockOwner[t] # NoThread /\ pc[t] = "wait" /\ arg[t] \in Locks
          /\ lockOwner[t] = owner[arg[t]] /\ tagBit[arg[t]] = 1
      BY DEF IInv, WaiterInv
    <2>2. lockOwner[t] \in Threads BY <2>1 DEF TypeInv, TypeOK
    <2>3. owner[arg[t]] # t BY <2>1 DEF IInv, OwnerInv, LocalInv
    <2> QED BY <2>1, <2>2, <2>3
  <1> QED BY <1>1, Invariance, PTL
-----------------------------------------------------------------------------
(* The waiter counts, termination requests included. *)

\* Only a thread inside the wait of LockSlowPath is on a waiter list.
BlockedInv ==
  \A t \in Threads : lockOwner[t] # NoThread => pc[t] = "wait" /\ tstate[t] = "Waiting"

CountInv == BlockedInv /\ WaiterCountExact

WaitersOf(o) == {u \in Threads : lockOwner[u] = o}

\* Waiter lists are finite, and so are the parts UnlockSlowPath splits them into.
LEMMA WaitersFinite ==
  ASSUME NEW S, S \subseteq Threads PROVE IsFiniteSet(S) /\ Cardinality(S) \in Nat
  BY LightLockAssumption, FS_Subset, FS_CardinalityType

\* AddWaiterImpl and RemoveWaiterImpl: the list of o changes by one thread t.
LEMMA OneWaiterCount ==
  ASSUME NEW t \in Threads, NEW o \in Threads,
         TypeInv, WaiterCountExact
  PROVE /\ t \notin WaitersOf(o) => Cardinality(WaitersOf(o) \cup {t}) = numWaiters[o] + 1
        /\ t \in WaitersOf(o) => Cardinality(WaitersOf(o) \ {t}) = numWaiters[o] - 1
  <1>1. IsFiniteSet(WaitersOf(o)) BY WaitersFinite DEF WaitersOf
  <1>2. numWaiters[o] = Cardinality(WaitersOf(o)) BY DEF WaiterCountExact, WaitersOf
  <1> QED BY <1>1, <1>2, FS_AddElement, FS_RemoveElement

\* UnlockSlowPath moves the waiters of one lock from t to n, except n itself.
LEMMA HandOverCount ==
  ASSUME NEW t \in Threads, NEW n \in Threads, NEW l, t # n,
         TypeInv, WaiterCountExact, n \in Waiters(t, l)
  PROVE /\ Cardinality(WaitersOf(t) \ Waiters(t, l)) =
             numWaiters[t] - Cardinality(Waiters(t, l))
        /\ Cardinality(WaitersOf(n) \cup (Waiters(t, l) \ {n})) =
             numWaiters[n] + Cardinality(Waiters(t, l) \ {n})
  <1> DEFINE W == Waiters(t, l)
  <1>1. /\ IsFiniteSet(WaitersOf(t)) /\ IsFiniteSet(WaitersOf(n))
        /\ IsFiniteSet(W) /\ IsFiniteSet(W \ {n})
        /\ Cardinality(WaitersOf(n)) \in Nat /\ Cardinality(W \ {n}) \in Nat
    BY WaitersFinite DEF WaitersOf, Waiters
  <1>2. /\ numWaiters[t] = Cardinality(WaitersOf(t))
        /\ numWaiters[n] = Cardinality(WaitersOf(n))
    BY DEF WaiterCountExact, WaitersOf
  <1>3. WaitersOf(t) \cap W = W BY DEF WaitersOf, Waiters
  <1>4. WaitersOf(n) \cap (W \ {n}) = {} BY DEF WaitersOf, Waiters
  <1>5. Cardinality(WaitersOf(t) \ W) = Cardinality(WaitersOf(t)) - Cardinality(W)
    BY <1>1, <1>3, FS_Difference
  <1>6. Cardinality(WaitersOf(n) \cup (W \ {n})) =
          Cardinality(WaitersOf(n)) + Cardinality(W \ {n})
    <2>1. Cardinality(WaitersOf(n) \cup (W \ {n})) =
            Cardinality(WaitersOf(n)) + Cardinality(W \ {n}) - Cardinality(WaitersOf(n) \cap (W \ {n}))
      BY <1>1, FS_Union
    <2>2. Cardinality(WaitersOf(n) \cap (W \ {n})) = 0 BY <1>4, FS_EmptySet
    <2> HIDE DEF W
    <2> QED BY <1>1, <2>1, <2>2
  <1> QED BY <1>2, <1>5, <1>6

\* Each step keeps the counts: one waiter more, one fewer, or a hand-over.
LEMMA NextCountInv == ASSUME TypeInv, CountInv, [Next]_vars PROVE CountInv'
  <1> USE LightLockAssumption
      DEF tagVars, localVars, waitVars, suspVars, Runs
  <1>1. ASSUME UNCHANGED <<lockOwner, numWaiters, tstate>>,
               \A t \in Threads : pc'[t] = pc[t] \/ tstate[t] = "Runnable"
        PROVE CountInv'
    BY <1>1 DEF CountInv, BlockedInv, WaiterCountExact
  <1>2. ASSUME NEW t \in Threads,
               \/ \E l \in Locks : CallLock(t, l) \/ Unlock(t, l)
               \/ LockExchange(t) \/ LockReturn(t)
        PROVE CountInv'
    BY <1>1, <1>2 DEF CallLock, Unlock, LockExchange, LockReturn, TypeInv, TypeOK
  <1>3. ASSUME NEW t \in Threads, LockSlowPath(t) PROVE CountInv'
    <2>1. CASE ~ TagIs(arg[t], seen[t])
      BY <1>1, <1>3, <2>1 DEF LockSlowPath, TypeInv, TypeOK
    <2>2. CASE TagIs(arg[t], seen[t])
      <3>0. PICK o \in Threads : o = seen[t] BY <1>3 DEF LockSlowPath, TypeInv
      <3>1. /\ o \in Threads /\ lockOwner[t] = NoThread
            /\ lockOwner' = [lockOwner EXCEPT ![t] = o]
            /\ numWaiters' = [numWaiters EXCEPT ![o] = @ + 1]
            /\ tstate' = [tstate EXCEPT ![t] = "Waiting"]
            /\ pc' = [pc EXCEPT ![t] = "wait"]
        BY <1>3, <2>2, <3>0 DEF LockSlowPath, CountInv, BlockedInv
      <3>2. BlockedInv' BY <3>1 DEF CountInv, BlockedInv, TypeInv, TypeOK
      <3>3. ASSUME NEW u \in Threads PROVE numWaiters'[u] = Cardinality(WaitersOf(u)')
        <4>1. u # o => WaitersOf(u)' = WaitersOf(u)
          BY <3>1 DEF WaitersOf, TypeInv, TypeOK
        <4>2. WaitersOf(o)' = WaitersOf(o) \cup {t} /\ t \notin WaitersOf(o)
          <5>1. ASSUME NEW v \in Threads PROVE lockOwner'[v] = IF v = t THEN o ELSE lockOwner[v]
            BY <3>1 DEF TypeInv, TypeOK
          <5> QED BY <3>1, <5>1 DEF WaitersOf
        <4>3. Cardinality(WaitersOf(o) \cup {t}) = numWaiters[o] + 1
          BY <3>1, <4>2, OneWaiterCount DEF CountInv
        <4>4. numWaiters'[u] = IF u = o THEN numWaiters[o] + 1 ELSE numWaiters[u]
          BY <3>1 DEF TypeInv, TypeOK
        <4>5. numWaiters[u] = Cardinality(WaitersOf(u))
          BY DEF CountInv, WaiterCountExact, WaitersOf
        <4>6. CASE u = o BY <4>2, <4>3, <4>4, <4>6
        <4>7. CASE u # o BY <4>1, <4>4, <4>5, <4>7
        <4> QED BY <4>6, <4>7
      <3> QED BY <3>2, <3>3 DEF CountInv, WaiterCountExact, WaitersOf
    <2> QED BY <2>1, <2>2
  <1>4. ASSUME NEW t \in Threads, UnlockSlowPath(t), UnlockToNobody(t) PROVE CountInv'
    BY <1>1, <1>4 DEF UnlockSlowPath, UnlockToNobody, TypeInv, TypeOK
  <1>5. ASSUME NEW t \in Threads, NEW n \in Threads, UnlockSlowPath(t), UnlockToWaiter(t, n)
        PROVE CountInv'
    <2> DEFINE W == Waiters(t, arg[t])
    <2>1. n \in W /\ lockOwner[n] = t /\ t # n /\ pc[t] = "unlockslow"
          /\ lockOwner[t] = NoThread
      BY <1>5 DEF UnlockSlowPath, UnlockToWaiter, Waiters, CountInv, BlockedInv
    <2>2. /\ lockOwner' = [u \in Threads |-> IF u = n THEN NoThread
                                             ELSE IF u \in W \ {n} THEN n
                                             ELSE lockOwner[u]]
          /\ numWaiters' = [numWaiters EXCEPT
                              ![t] = numWaiters[t] - Cardinality(W),
                              ![n] = numWaiters[n] + Cardinality(W \ {n})]
          /\ tstate' = [tstate EXCEPT ![n] = "Runnable"]
          /\ pc' = [pc EXCEPT ![t] = "run"]
      BY <1>5 DEF UnlockSlowPath, UnlockToWaiter
    <2>3. \A u \in W : lockOwner[u] = t /\ u \in Threads BY DEF Waiters
    <2>4. /\ Cardinality(WaitersOf(t) \ W) = numWaiters[t] - Cardinality(W)
          /\ Cardinality(WaitersOf(n) \cup (W \ {n})) = numWaiters[n] + Cardinality(W \ {n})
      BY <2>1, HandOverCount DEF CountInv
    <2> HIDE DEF W
    <2>5. BlockedInv' BY <2>1, <2>2, <2>3 DEF CountInv, BlockedInv, TypeInv, TypeOK
    <2>6. ASSUME NEW u \in Threads PROVE numWaiters'[u] = Cardinality(WaitersOf(u)')
      <3>1. WaitersOf(t)' = WaitersOf(t) \ W
        BY <2>1, <2>2, <2>3 DEF WaitersOf
      <3>2. WaitersOf(n)' = WaitersOf(n) \cup (W \ {n})
        BY <2>1, <2>2, <2>3 DEF WaitersOf
      <3>3. u # t /\ u # n => WaitersOf(u)' = WaitersOf(u)
        BY <2>1, <2>2, <2>3 DEF WaitersOf
      <3>4. numWaiters'[u] = IF u = n THEN numWaiters[n] + Cardinality(W \ {n})
                             ELSE IF u = t THEN numWaiters[t] - Cardinality(W)
                             ELSE numWaiters[u]
        BY <2>1, <2>2 DEF TypeInv, TypeOK
      <3>5. numWaiters[u] = Cardinality(WaitersOf(u))
        BY DEF CountInv, WaiterCountExact, WaitersOf
      <3> QED BY <2>4, <3>1, <3>2, <3>3, <3>4, <3>5
    <2> QED BY <2>5, <2>6 DEF CountInv, WaiterCountExact, WaitersOf
  <1>6. ASSUME NEW t \in Threads, NEW s \in SuspendTypes, RequestSuspend(t, s) \/ Resume(t, s)
        PROVE CountInv'
    BY <1>1, <1>6 DEF RequestSuspend, Resume
  <1>7. ASSUME NEW t \in Threads, RequestTerminate(t) PROVE CountInv'
    <2> DEFINE o == lockOwner[t]
    <2>1. /\ lockOwner' = [lockOwner EXCEPT ![t] = NoThread]
          /\ numWaiters' = CountWithoutWaiterOf(o)
          /\ tstate' = [tstate EXCEPT ![t] = "Runnable"]
          /\ UNCHANGED pc
      BY <1>7 DEF RequestTerminate
    <2>2. BlockedInv' BY <2>1 DEF CountInv, BlockedInv, TypeInv, TypeOK
    <2>3. ASSUME NEW u \in Threads PROVE numWaiters'[u] = Cardinality(WaitersOf(u)')
      <3>1. u # o => WaitersOf(u)' = WaitersOf(u)
        BY <2>1 DEF WaitersOf, TypeInv, TypeOK
      <3>2. u = o => WaitersOf(u)' = WaitersOf(u) \ {t} /\ t \in WaitersOf(u)
        BY <2>1 DEF WaitersOf, TypeInv, TypeOK
      <3>3. u = o => Cardinality(WaitersOf(u) \ {t}) = numWaiters[u] - 1
        BY <3>2, OneWaiterCount DEF CountInv
      <3>4. numWaiters'[u] = IF u = o THEN numWaiters[u] - 1 ELSE numWaiters[u]
        BY <2>1 DEF CountWithoutWaiterOf
      <3>5. numWaiters[u] = Cardinality(WaitersOf(u))
        BY DEF CountInv, WaiterCountExact, WaitersOf
      <3> QED BY <3>1, <3>2, <3>3, <3>4, <3>5
    <2> QED BY <2>2, <2>3 DEF CountInv, WaiterCountExact, WaitersOf
  <1>8. CASE UNCHANGED vars BY <1>1, <1>8 DEF vars
  <1> QED
    BY <1>2, <1>3, <1>4, <1>5, <1>6, <1>7, <1>8
    DEF Next, Step, Interfere, UnlockSlowPath

\* m_num_kernel_waiters is exact in every reachable state, whoever waits for whom
\* and whichever waits a termination request cancels.
THEOREM WaiterCounts == Spec => []WaiterCountExact
  <1>1. Init => TypeInv /\ CountInv
    <2> SUFFICES ASSUME Init PROVE CountInv BY InitTypeInv
    <2>1. \A t \in Threads : {u \in Threads : lockOwner[u] = t} = {}
      BY LightLockAssumption DEF Init
    <2> QED BY <2>1, FS_EmptySet DEF Init, CountInv, BlockedInv, WaiterCountExact
  <1>2. TypeInv /\ CountInv /\ [Next]_vars => (TypeInv /\ CountInv)'
    BY NextTypeInv, NextCountInv
  <1>3. CountInv => WaiterCountExact BY DEF CountInv
  <1> QED BY <1>1, <1>2, <1>3, PTL DEF Spec
-----------------------------------------------------------------------------
(* Suspension, termination requests included. *)

\* The suspend bits of a thread are among the flags that are requested and allowed.
BitsInv == \A t \in Threads : susp[t] \subseteq GetSuspendFlags(t)

\* Whoever others wait for has the lock in hand and releases it by UnlockSlowPath.
WaitedInv ==
  \A t \in Threads : lockOwner[t] # NoThread =>
    InHand(lockOwner[t], arg[t]) /\ ~ Uncontended(lockOwner[t], arg[t])

\* Whoever a tag names has the lock in hand.
NamedInv == \A l \in Locks : \A t \in Threads : owner[l] = t => InHand(t, l)

SuspendInv == BitsInv /\ WaitedInv /\ NamedInv /\ LocalInv /\ PutOffOnly

\* Counts are not negative.
LEMMA CountIsNat == ASSUME CountInv, NEW t \in Threads PROVE numWaiters[t] \in Nat
  BY WaitersFinite DEF CountInv, WaiterCountExact

\* Steps that leave the tags, the waiter lists and the suspensions alone keep the
\* invariant if they keep what threads have in hand.
LEMMA SameHands ==
  ASSUME SuspendInv, UNCHANGED <<owner, tagBit, lockOwner, numWaiters, susp, request, allowed>>,
         \A t \in Threads, l \in Locks : InHand(t, l) => InHand(t, l)',
         \A t \in Threads : lockOwner[t] # NoThread => arg'[t] = arg[t] /\ arg[t] \in Locks
                                                      /\ lockOwner[t] \in Threads,
         LocalInv'
  PROVE SuspendInv'
  <1>1. BitsInv' BY DEF SuspendInv, BitsInv, GetSuspendFlags
  <1>2. WaitedInv' BY DEF SuspendInv, WaitedInv, Uncontended
  <1>3. NamedInv' BY DEF SuspendInv, NamedInv
  <1>4. PutOffOnly' BY DEF SuspendInv, PutOffOnly, GetSuspendFlags, Uncontended
  <1> QED BY <1>1, <1>2, <1>3, <1>4 DEF SuspendInv

\* Each step keeps the invariant.  CountInv gives that counts are numbers and that only
\* blocked threads are on waiter lists.
LEMMA NextSuspendInv ==
  ASSUME TypeInv, CountInv, SuspendInv, [Next]_vars PROVE SuspendInv'
  <1> USE LightLockAssumption DEF tagVars, localVars, waitVars, suspVars, Runs
  <1>t. /\ owner \in [Locks -> Threads \cup {NoThread}] /\ tagBit \in [Locks -> {0, 1}]
        /\ pc \in [Threads -> {"run", "lock", "lockslow", "wait", "unlockslow"}]
        /\ arg \in [Threads -> Locks \cup {0}] /\ held \in [Threads -> SUBSET Locks]
        /\ lockOwner \in [Threads -> Threads \cup {NoThread}]
        /\ numWaiters \in [Threads -> Int] /\ tstate \in [Threads -> {"Runnable", "Waiting"}]
        /\ susp \in [Threads -> SUBSET SuspendTypes]
        /\ request \in [Threads -> SUBSET SuspendTypes]
        /\ allowed \in [Threads -> SUBSET SuspendTypes]
        /\ \A t \in Threads : pc[t] # "run" => arg[t] \in Locks
        /\ \A t \in Threads : pc[t] = "lockslow" => seen[t] \in Threads
    BY DEF TypeInv, TypeOK
  <1>b. \A t \in Threads : lockOwner[t] # NoThread =>
          pc[t] = "wait" /\ tstate[t] = "Waiting" /\ arg[t] \in Locks /\ lockOwner[t] \in Threads
    BY <1>t DEF CountInv, BlockedInv
  <1>i. BitsInv /\ WaitedInv /\ NamedInv /\ LocalInv /\ PutOffOnly BY DEF SuspendInv
  <1>n. \A t \in Threads : numWaiters[t] \in Nat BY CountIsNat
  <1>1. ASSUME NEW t \in Threads, NEW l \in Locks, CallLock(t, l) PROVE SuspendInv'
    <2>1. LocalInv' BY <1>t, <1>i, <1>1 DEF CallLock, LocalInv, Locks
    <2>2. \A u \in Threads, k \in Locks : InHand(u, k) => InHand(u, k)'
      BY <1>t, <1>1 DEF CallLock, InHand
    <2>3. \A u \in Threads : lockOwner[u] # NoThread => arg'[u] = arg[u]
      BY <1>t, <1>b, <1>1 DEF CallLock
    <2>4. UNCHANGED <<owner, tagBit, lockOwner, numWaiters, susp, request, allowed>>
      BY <1>1 DEF CallLock
    <2> QED BY <1>b, <2>1, <2>2, <2>3, <2>4, SameHands
  <1>2. ASSUME NEW t \in Threads, LockReturn(t) PROVE SuspendInv'
    <2>1. LocalInv' BY <1>t, <1>i, <1>2 DEF LockReturn, LocalInv
    <2>2. \A u \in Threads, k \in Locks : InHand(u, k) => InHand(u, k)'
      BY <1>t, <1>2 DEF LockReturn, InHand
    <2>3. UNCHANGED <<owner, tagBit, lockOwner, numWaiters, susp, request, allowed, arg>>
      BY <1>2 DEF LockReturn
    <2> QED BY <1>b, <2>1, <2>2, <2>3, SameHands
  <1>3. ASSUME NEW t \in Threads, LockExchange(t) PROVE SuspendInv'
    <2>0. arg[t] \in Locks /\ arg[t] \notin held[t] /\ pc[t] = "lock"
      BY <1>t, <1>i, <1>3 DEF LockExchange, LocalInv
    <2>1. UNCHANGED <<arg, tstate, lockOwner, numWaiters, susp, request, allowed>>
      BY <1>3 DEF LockExchange
    <2>2. LocalInv' BY <1>t, <1>i, <1>3 DEF LockExchange, LocalInv
    <2>3. \A u \in Threads, k \in Locks : InHand(u, k) => InHand(u, k)'
      BY <1>t, <1>3 DEF LockExchange, InHand
    <2>4. \A u \in Threads, k \in Locks :
            InHand(u, k) /\ ~ Uncontended(u, k) => ~ Uncontended(u, k)'
      BY <1>t, <1>3, <2>0 DEF LockExchange, InHand, Uncontended, TagIsZero, OrWaiterBit
    <2>5. BitsInv' BY <1>i, <2>1 DEF BitsInv, GetSuspendFlags
    <2>6. WaitedInv' BY <1>b, <1>i, <2>1, <2>3, <2>4 DEF WaitedInv
    <2>7. NamedInv'
      BY <1>t, <1>i, <1>3, <2>0, <2>3 DEF LockExchange, NamedInv, InHand
    <2>8. PutOffOnly' BY <1>i, <2>1, <2>3, <2>4 DEF PutOffOnly, GetSuspendFlags
    <2> QED BY <2>2, <2>5, <2>6, <2>7, <2>8 DEF SuspendInv
  <1>4. ASSUME NEW t \in Threads, LockSlowPath(t) PROVE SuspendInv'
    <2>0. arg[t] \in Locks /\ pc[t] = "lockslow" /\ tstate[t] = "Runnable"
      BY <1>t, <1>4 DEF LockSlowPath
    <2>1. LocalInv' BY <1>t, <1>i, <1>4 DEF LockSlowPath, LocalInv
    <2>2. UNCHANGED <<owner, tagBit, arg, held, request, allowed>> BY <1>4 DEF LockSlowPath
    <2>3. \A u \in Threads, k \in Locks : InHand(u, k) => InHand(u, k)'
      BY <1>t, <1>4 DEF LockSlowPath, InHand
    <2>4. CASE ~ TagIs(arg[t], seen[t])
      BY <1>b, <1>4, <2>1, <2>2, <2>3, <2>4, SameHands DEF LockSlowPath
    <2>5. CASE TagIs(arg[t], seen[t])
      <3>0. PICK o \in Threads : o = seen[t] BY <1>t, <2>0
      <3>1. /\ lockOwner' = [lockOwner EXCEPT ![t] = o]
            /\ numWaiters' = [numWaiters EXCEPT ![o] = @ + 1]
            /\ susp' = [susp EXCEPT ![o] = ContinuedBits(o, numWaiters[o] + 1)]
        BY <1>4, <2>5, <3>0 DEF LockSlowPath
      <3>2. InHand(o, arg[t]) /\ ~ Uncontended(o, arg[t])
        BY <1>i, <2>0, <2>5, <3>0 DEF TagIs, NamedInv, Uncontended
      <3>3. BitsInv'
        BY <1>t, <1>i, <2>2, <3>1 DEF BitsInv, GetSuspendFlags, ContinuedBits
      <3>4. WaitedInv'
        BY <1>t, <1>b, <1>i, <2>0, <2>2, <2>3, <3>1, <3>2 DEF WaitedInv, Uncontended
      <3>5. NamedInv' BY <1>i, <2>2, <2>3 DEF NamedInv
      <3>6. PutOffOnly'
        <4>1. numWaiters'[o] > 0 BY <1>t, <1>n, <3>1
        <4>2. \A u \in Threads : u # o => susp'[u] = susp[u] /\ numWaiters'[u] = numWaiters[u]
          BY <1>t, <3>1
        <4> QED BY <1>i, <2>2, <2>3, <4>1, <4>2 DEF PutOffOnly, GetSuspendFlags, Uncontended
      <3> QED BY <2>1, <3>3, <3>4, <3>5, <3>6 DEF SuspendInv
    <2> QED BY <2>4, <2>5
  <1>5. ASSUME NEW t \in Threads, NEW l \in Locks, Unlock(t, l) PROVE SuspendInv'
    <2>1. LocalInv' BY <1>t, <1>i, <1>5 DEF Unlock, LocalInv
    <2>2. UNCHANGED <<tagBit, lockOwner, numWaiters, tstate, susp, request, allowed>>
      BY <1>5 DEF Unlock
    <2>3. \A u \in Threads : lockOwner[u] # NoThread => arg'[u] = arg[u]
      BY <1>t, <1>b, <1>5 DEF Unlock
    <2>4. CASE ~ Uncontended(t, l)
      <3>1. \A u \in Threads, k \in Locks : InHand(u, k) => InHand(u, k)'
        BY <1>t, <1>5, <2>4 DEF Unlock, InHand
      <3>2. UNCHANGED owner BY <1>5, <2>4 DEF Unlock
      <3> QED BY <1>b, <2>1, <2>2, <2>3, <3>1, <3>2, SameHands
    <2>5. CASE Uncontended(t, l)
      <3>1. /\ owner' = [owner EXCEPT ![l] = NoThread]
            /\ held' = [held EXCEPT ![t] = @ \ {l}]
            /\ UNCHANGED <<pc, arg>>
        BY <1>5, <2>5 DEF Unlock
      <3>2. \A u \in Threads, k \in Locks :
              InHand(u, k) /\ ~ Uncontended(u, k) => InHand(u, k)' /\ ~ Uncontended(u, k)'
        BY <1>t, <2>2, <2>5, <3>1 DEF InHand, Uncontended
      <3>3. BitsInv' BY <1>i, <2>2 DEF BitsInv, GetSuspendFlags
      <3>4. WaitedInv' BY <1>b, <1>i, <2>2, <3>1, <3>2 DEF WaitedInv
      <3>5. NamedInv' BY <1>t, <1>i, <2>2, <2>5, <3>1 DEF NamedInv, InHand, Uncontended
      <3>6. PutOffOnly' BY <1>i, <2>2, <3>2 DEF PutOffOnly, GetSuspendFlags
      <3> QED BY <2>1, <3>3, <3>4, <3>5, <3>6 DEF SuspendInv
    <2> QED BY <2>4, <2>5
  <1>6. ASSUME NEW t \in Threads, UnlockSlowPath(t), UnlockToNobody(t) PROVE SuspendInv'
    <2> DEFINE l == arg[t]
    <2>0. l \in Locks /\ l \in held[t] /\ pc[t] = "unlockslow"
      BY <1>t, <1>i, <1>6 DEF UnlockSlowPath, LocalInv
    <2>1. /\ owner' = [owner EXCEPT ![l] = NoThread]
          /\ tagBit' = [tagBit EXCEPT ![l] = 0]
          /\ susp' = [susp EXCEPT ![t] = BitsAfterUnlock(t, numWaiters[t])]
          /\ held' = [held EXCEPT ![t] = @ \ {l}]
          /\ pc' = [pc EXCEPT ![t] = "run"]
          /\ UNCHANGED <<lockOwner, numWaiters, tstate, arg, request, allowed>>
      BY <1>6 DEF UnlockSlowPath, UnlockToNobody
    <2>2. \A u \in Threads : lockOwner[u] # NoThread => ~ (lockOwner[u] = t /\ arg[u] = l)
      BY <1>6 DEF UnlockToNobody, Waiters
    <2>3. \A u \in Threads, k \in Locks :
            InHand(u, k) /\ ~ (u = t /\ k = l) => InHand(u, k)'
      BY <1>t, <2>0, <2>1 DEF InHand
    <2>4. \A u \in Threads, k \in Locks : ~ Uncontended(u, k) => ~ Uncontended(u, k)'
      BY <1>t, <2>0, <2>1 DEF Uncontended
    <2>5. LocalInv' BY <1>t, <1>i, <2>0, <2>1 DEF LocalInv
    <2>6. BitsInv'
      BY <1>t, <1>i, <2>1 DEF BitsInv, GetSuspendFlags, BitsAfterUnlock, TrySuspendBits
    <2>7. WaitedInv' BY <1>b, <1>i, <2>1, <2>2, <2>3, <2>4 DEF WaitedInv
    <2>8. NamedInv' BY <1>t, <1>i, <2>0, <2>1, <2>3 DEF NamedInv
    <2>9. PutOffOnly'
      <3>1. susp'[t] = GetSuspendFlags(t)' \/ numWaiters'[t] > 0
        BY <1>t, <1>i, <2>1
        DEF BitsInv, GetSuspendFlags, IsSuspended, BitsAfterUnlock, TrySuspendBits
      <3>2. \A u \in Threads : u # t => susp'[u] = susp[u] BY <1>t, <2>1
      <3> QED BY <1>i, <2>1, <2>3, <2>4, <3>1, <3>2 DEF PutOffOnly, GetSuspendFlags
    <2> QED BY <2>5, <2>6, <2>7, <2>8, <2>9 DEF SuspendInv
  <1>7. ASSUME NEW t \in Threads, NEW n \in Threads, UnlockSlowPath(t), UnlockToWaiter(t, n)
        PROVE SuspendInv'
    <2> DEFINE l == arg[t]
               W == Waiters(t, l)
               left == numWaiters[t] - Cardinality(W)
               gained == numWaiters[n] + Cardinality(W \ {n})
    <2>0. l \in Locks /\ l \in held[t] /\ pc[t] = "unlockslow"
      BY <1>t, <1>i, <1>7 DEF UnlockSlowPath, LocalInv
    <2>1. n \in W /\ lockOwner[n] = t /\ pc[n] = "wait" /\ tstate[n] = "Waiting"
          /\ arg[n] = l /\ n # t
      BY <1>b, <1>7, <2>0 DEF UnlockToWaiter, Waiters
    <2>2. /\ owner' = [owner EXCEPT ![l] = n]
          /\ tagBit' = [tagBit EXCEPT ![l] = IF W \ {n} = {} THEN 0 ELSE 1]
          /\ lockOwner' = [u \in Threads |-> IF u = n THEN NoThread
                                             ELSE IF u \in W \ {n} THEN n
                                             ELSE lockOwner[u]]
          /\ numWaiters' = [numWaiters EXCEPT ![t] = left, ![n] = gained]
          /\ tstate' = [tstate EXCEPT ![n] = "Runnable"]
          /\ susp' = [susp EXCEPT ![n] = ContinuedBits(n, gained),
                                  ![t] = BitsAfterUnlock(t, left)]
          /\ held' = [held EXCEPT ![t] = @ \ {l}]
          /\ pc' = [pc EXCEPT ![t] = "run"]
          /\ UNCHANGED <<arg, request, allowed>>
      BY <1>7 DEF UnlockSlowPath, UnlockToWaiter
    <2>3. Cardinality(W) \in Nat /\ Cardinality(W \ {n}) \in Nat BY WaiterCountType
    <2>4. left \in Int /\ gained \in Int /\ gained >= numWaiters[n]
      <3> HIDE DEF W
      <3> QED BY <1>t, <2>3
    <2>5. \A u \in Threads : u \in W <=> lockOwner[u] = t /\ arg[u] = l BY DEF Waiters
    <2> HIDE DEF W, left, gained
    <2>6. \A u \in Threads, k \in Locks :
            InHand(u, k) /\ ~ (u = t /\ k = l) => InHand(u, k)'
      BY <1>t, <2>0, <2>1, <2>2 DEF InHand
    <2>7. InHand(n, l)' BY <1>t, <2>0, <2>1, <2>2 DEF InHand
    <2>8. ~ InHand(n, l)
      BY <1>t, <1>i, <2>0, <2>1 DEF InHand, LocalInv
    <2>9. \A u \in Threads, k \in Locks :
            InHand(u, k) /\ ~ Uncontended(u, k) => ~ Uncontended(u, k)'
      BY <1>t, <2>0, <2>2, <2>8 DEF Uncontended
    <2>10. LocalInv' BY <1>t, <1>i, <2>0, <2>1, <2>2 DEF LocalInv
    <2>11. BitsInv'
      BY <1>t, <1>i, <2>1, <2>2
      DEF BitsInv, GetSuspendFlags, ContinuedBits, BitsAfterUnlock, TrySuspendBits
    <2>12. WaitedInv'
      <3> SUFFICES ASSUME NEW u \in Threads, lockOwner'[u] # NoThread
                   PROVE InHand(lockOwner[u], arg[u])' /\ ~ Uncontended(lockOwner[u], arg[u])'
        BY DEF WaitedInv
      <3>1. CASE u \in W \ {n}
        <4>1. lockOwner'[u] = n /\ arg'[u] = l BY <2>2, <2>5, <3>1
        <4>2. tagBit'[l] = 1 BY <1>t, <2>0, <2>2, <3>1
        <4>3. arg'[t] = l BY <2>2
        <4> QED BY <2>7, <4>1, <4>2, <4>3 DEF Uncontended, InHand
      <3>2. CASE u \notin W
        <4>1. lockOwner'[u] = lockOwner[u] /\ lockOwner[u] # NoThread /\ arg'[u] = arg[u]
          BY <2>1, <2>2, <3>2
        <4>2. InHand(lockOwner[u], arg[u]) /\ ~ Uncontended(lockOwner[u], arg[u])
          BY <1>i, <4>1 DEF WaitedInv
        <4>3. ~ (lockOwner[u] = t /\ arg[u] = l) BY <2>5, <3>2
        <4>4. PICK o \in Threads, k \in Locks : o = lockOwner[u] /\ k = arg[u] BY <1>b, <4>1
        <4>5. InHand(o, k)' /\ ~ Uncontended(o, k)' BY <2>6, <2>9, <4>2, <4>3, <4>4
        <4> QED BY <4>1, <4>4, <4>5 DEF InHand, Uncontended
      <3>3. u # n BY <2>2
      <3> QED BY <3>1, <3>2, <3>3
    <2>13. NamedInv' BY <1>t, <1>i, <2>0, <2>2, <2>6, <2>7 DEF NamedInv
    <2>14. PutOffOnly'
      <3>1. susp'[t] = GetSuspendFlags(t)' \/ numWaiters'[t] > 0
        BY <1>t, <1>i, <2>1, <2>2
        DEF BitsInv, GetSuspendFlags, IsSuspended, BitsAfterUnlock, TrySuspendBits
      <3>2. numWaiters'[n] > 0 \/ (susp'[n] = susp[n] /\ ~ numWaiters[n] > 0)
        <4>1. numWaiters'[n] = gained BY <1>t, <2>1, <2>2
        <4>2. ~ gained > 0 => susp'[n] = susp[n] BY <1>t, <2>1, <2>2 DEF ContinuedBits
        <4>3. numWaiters[n] \in Nat /\ gained \in Int /\ gained >= numWaiters[n] BY <1>n, <2>4
        <4>4. CASE gained > 0 BY <4>1, <4>4
        <4>5. CASE ~ gained > 0
          <5>1. ~ numWaiters[n] > 0 BY <4>3, <4>5
          <5> QED BY <4>2, <4>5, <5>1
        <4> QED BY <4>4, <4>5
      <3>3. \A u \in Threads \ {t, n} : susp'[u] = susp[u] /\ numWaiters'[u] = numWaiters[u]
        BY <1>t, <2>2
      <3> QED BY <1>i, <2>1, <2>2, <2>6, <2>9, <3>1, <3>2, <3>3 DEF PutOffOnly, GetSuspendFlags
    <2> QED BY <2>10, <2>11, <2>12, <2>13, <2>14 DEF SuspendInv
  <1>8. ASSUME NEW t \in Threads, NEW s \in SuspendTypes, RequestSuspend(t, s) \/ Resume(t, s)
        PROVE SuspendInv'
    <2>1. UNCHANGED <<owner, tagBit, pc, arg, held, lockOwner, numWaiters, tstate, allowed>>
      BY <1>8 DEF RequestSuspend, Resume
    <2>2. BitsInv'
      BY <1>t, <1>i, <1>8 DEF RequestSuspend, Resume, BitsInv, GetSuspendFlags, TrySuspendBits
    <2>3. WaitedInv' /\ NamedInv' /\ LocalInv'
      BY <1>i, <2>1 DEF WaitedInv, NamedInv, LocalInv, InHand, Uncontended
    <2>4. PutOffOnly'
      <3>1. susp'[t] = GetSuspendFlags(t)' \/ numWaiters'[t] > 0
        BY <1>t, <1>8 DEF RequestSuspend, Resume, GetSuspendFlags, TrySuspendBits
      <3>2. \A u \in Threads \ {t} : susp'[u] = susp[u] /\ request'[u] = request[u]
        BY <1>t, <1>8 DEF RequestSuspend, Resume
      <3> QED BY <1>i, <2>1, <3>1, <3>2 DEF PutOffOnly, GetSuspendFlags, InHand, Uncontended
    <2> QED BY <2>2, <2>3, <2>4 DEF SuspendInv
  <1>9. ASSUME NEW t \in Threads, RequestTerminate(t) PROVE SuspendInv'
    <2>1. /\ lockOwner' = [lockOwner EXCEPT ![t] = NoThread]
          /\ tstate' = [tstate EXCEPT ![t] = "Runnable"]
          /\ UNCHANGED <<owner, tagBit, pc, arg, held, request>>
      BY <1>9 DEF RequestTerminate
    <2>2. \A u \in Threads, k \in Locks : InHand(u, k) => InHand(u, k)'
      BY <1>t, <2>1 DEF InHand
    <2>3. BitsInv'
      BY <1>t, <1>i, <1>9 DEF RequestTerminate, BitsInv, GetSuspendFlags, IsSuspended
    <2>4. WaitedInv' BY <1>t, <1>b, <1>i, <2>1, <2>2 DEF WaitedInv, Uncontended
    <2>5. NamedInv' BY <1>i, <2>1, <2>2 DEF NamedInv
    <2>6. LocalInv' BY <1>i, <2>1 DEF LocalInv
    <2>7. PutOffOnly'
      <3>1. susp'[t] = GetSuspendFlags(t)' \/ (susp'[t] = susp[t] /\ GetSuspendFlags(t)' = GetSuspendFlags(t))
        BY <1>t, <1>9 DEF RequestTerminate, GetSuspendFlags
      <3>2. \A u \in Threads \ {t} : susp'[u] = susp[u] /\ GetSuspendFlags(u)' = GetSuspendFlags(u)
        BY <1>t, <1>9 DEF RequestTerminate, GetSuspendFlags
      <3>3. \A u \in Threads : u # lockOwner[t] => numWaiters'[u] = numWaiters[u]
        BY <1>9 DEF RequestTerminate, CountWithoutWaiterOf
      <3>4. \A u \in Threads, k \in Locks : ~ Uncontended(u, k) => ~ Uncontended(u, k)'
        BY <2>1 DEF Uncontended
      <3>5. ASSUME NEW o \in Threads, o = lockOwner[t]
            PROVE \E k \in Locks : InHand(o, k)' /\ ~ Uncontended(o, k)'
        <4>1. arg[t] \in Locks /\ InHand(o, arg[t]) /\ ~ Uncontended(o, arg[t])
          BY <1>b, <1>i, <3>5 DEF WaitedInv
        <4>2. PICK k \in Locks : k = arg[t] BY <4>1
        <4> QED BY <2>2, <3>4, <4>1, <4>2
      <3> QED BY <1>i, <2>2, <3>1, <3>2, <3>3, <3>4, <3>5 DEF PutOffOnly
    <2> QED BY <2>3, <2>4, <2>5, <2>6, <2>7 DEF SuspendInv
  <1>10. CASE UNCHANGED vars
    <2>1. UNCHANGED <<owner, tagBit, pc, arg, held, lockOwner, numWaiters, tstate, susp,
                      request, allowed>>
      BY <1>10 DEF vars
    <2> QED BY <1>b, <1>i, <2>1, SameHands DEF InHand, LocalInv
  <1> QED
    BY <1>1, <1>2, <1>3, <1>4, <1>5, <1>6, <1>7, <1>8, <1>9, <1>10
    DEF Next, Step, Interfere, UnlockSlowPath

\* Of the steps that change a count or suspend bits, only Resume can leave a thread
\* suspended with kernel waiters.
LEMMA SuspendStep ==
  ASSUME TypeInv, CountInv, SuspendInv, [Next]_vars, NEW u \in Threads
  PROVE NotSuspendedByWait(u)
  <1> USE LightLockAssumption DEF tagVars, localVars, waitVars, suspVars
  <1>t. /\ numWaiters \in [Threads -> Int] /\ susp \in [Threads -> SUBSET SuspendTypes]
        /\ lockOwner \in [Threads -> Threads \cup {NoThread}]
    BY DEF TypeInv, TypeOK
  <1>n. \A t \in Threads : numWaiters[t] \in Nat BY CountIsNat
  <1>i. \A t \in Threads : ~ IsSuspended(t) => susp[t] = {}
    BY DEF SuspendInv, BitsInv, IsSuspended
  <1>0. ASSUME numWaiters'[u] = numWaiters[u], susp'[u] \in {susp[u], {}}
        PROVE NotSuspendedByWait(u)
    BY <1>0 DEF NotSuspendedByWait
  <1>1. ASSUME NEW t \in Threads,
               \/ LockExchange(t) \/ LockReturn(t)
               \/ \E l \in Locks : CallLock(t, l) \/ Unlock(t, l)
        PROVE NotSuspendedByWait(u)
    BY <1>0, <1>1 DEF CallLock, Unlock, LockExchange, LockReturn
  <1>2. ASSUME NEW t \in Threads, LockSlowPath(t) PROVE NotSuspendedByWait(u)
    <2>1. CASE ~ TagIs(arg[t], seen[t]) BY <1>0, <1>2, <2>1 DEF LockSlowPath
    <2>2. CASE TagIs(arg[t], seen[t])
      <3>1. PICK o \in Threads : o = seen[t] BY <1>2 DEF LockSlowPath, Runs, TypeInv
      <3>2. /\ numWaiters' = [numWaiters EXCEPT ![o] = @ + 1]
            /\ susp' = [susp EXCEPT ![o] = ContinuedBits(o, numWaiters[o] + 1)]
        BY <1>2, <2>2, <3>1 DEF LockSlowPath
      <3>3. susp'[o] = {} BY <1>t, <1>n, <1>i, <3>2 DEF ContinuedBits
      <3> QED BY <1>t, <1>0, <3>2, <3>3 DEF NotSuspendedByWait
    <2> QED BY <2>1, <2>2
  <1>3. ASSUME NEW t \in Threads, UnlockSlowPath(t), UnlockToNobody(t)
        PROVE NotSuspendedByWait(u)
    BY <1>t, <1>3
    DEF UnlockSlowPath, UnlockToNobody, NotSuspendedByWait, BitsAfterUnlock, TrySuspendBits
  <1>4. ASSUME NEW t \in Threads, NEW n \in Threads, UnlockSlowPath(t), UnlockToWaiter(t, n)
        PROVE NotSuspendedByWait(u)
    <2> DEFINE k == Cardinality(Waiters(t, arg[t]))
               m == Cardinality(Waiters(t, arg[t]) \ {n})
    <2>1. k \in Nat /\ m \in Nat BY WaiterCountType
    <2>2. /\ numWaiters' = [numWaiters EXCEPT ![t] = numWaiters[t] - k,
                                              ![n] = numWaiters[n] + m]
          /\ susp' = [susp EXCEPT ![n] = ContinuedBits(n, numWaiters[n] + m),
                                  ![t] = BitsAfterUnlock(t, numWaiters[t] - k)]
      BY <1>4 DEF UnlockToWaiter
    <2> HIDE DEF k, m
    <2>3. numWaiters'[u] = IF u = n THEN numWaiters[n] + m
                           ELSE IF u = t THEN numWaiters[t] - k ELSE numWaiters[u]
      BY <1>t, <2>2, <1>4 DEF UnlockToWaiter, Waiters
    <2> QED BY <1>t, <1>n, <1>i, <2>1, <2>2
            DEF NotSuspendedByWait, ContinuedBits, BitsAfterUnlock, TrySuspendBits
  <1>5. ASSUME NEW t \in Threads, NEW s \in SuspendTypes, RequestSuspend(t, s)
        PROVE NotSuspendedByWait(u)
    BY <1>t, <1>5 DEF RequestSuspend, NotSuspendedByWait, TrySuspendBits
  <1>6. ASSUME NEW t \in Threads, NEW s \in SuspendTypes, Resume(t, s)
        PROVE NotSuspendedByWait(u)
    <2>1. CASE u = t BY <1>6, <2>1 DEF NotSuspendedByWait
    <2>2. CASE u # t BY <1>t, <1>0, <1>6, <2>2 DEF Resume
    <2> QED BY <2>1, <2>2
  <1>7. ASSUME NEW t \in Threads, RequestTerminate(t) PROVE NotSuspendedByWait(u)
    BY <1>t, <1>7 DEF RequestTerminate, CountWithoutWaiterOf, NotSuspendedByWait
  <1>8. CASE UNCHANGED vars BY <1>0, <1>8 DEF vars
  <1> QED
    BY <1>1, <1>2, <1>3, <1>4, <1>5, <1>6, <1>7, <1>8
    DEF Next, Step, Interfere, UnlockSlowPath

\* Whatever the number of suspend types, a suspension is put off exactly as long as others
\* wait, and only Resume suspends a thread that has kernel waiters.
THEOREM SuspensionSound == Spec => SuspensionPutOff
  <1>1. Init => TypeInv /\ CountInv /\ SuspendInv
    <2> SUFFICES ASSUME Init PROVE CountInv /\ SuspendInv BY InitTypeInv
    <2>1. \A t \in Threads : {u \in Threads : lockOwner[u] = t} = {}
      BY LightLockAssumption DEF Init
    <2>2. CountInv BY <2>1, FS_EmptySet DEF Init, CountInv, BlockedInv, WaiterCountExact
    <2>3. SuspendInv
      BY LightLockAssumption
      DEF Init, SuspendInv, BitsInv, WaitedInv, NamedInv, LocalInv, PutOffOnly,
          GetSuspendFlags, Locks
    <2> QED BY <2>2, <2>3
  <1>2. TypeInv /\ CountInv /\ SuspendInv /\ [Next]_vars => (TypeInv /\ CountInv /\ SuspendInv)'
    BY NextTypeInv, NextCountInv, NextSuspendInv
  <1>3. TypeInv /\ CountInv /\ SuspendInv /\ [Next]_vars =>
          [PutOffOnly' /\ \A t \in Threads : NotSuspendedByWait(t)]_vars
    <2>1. SuspendInv' => PutOffOnly' BY DEF SuspendInv
    <2> QED BY <1>2, <2>1, SuspendStep
  <1> QED BY <1>1, <1>2, <1>3, PTL DEF Spec, SuspensionPutOff
-----------------------------------------------------------------------------
(* Refinement: through held, the tag protocol is a mutex. *)

\* Steps that leave held alone are invisible; the others acquire or release.
LEMMA StepSimulation ==
  ASSUME TypeInv, IInv, [Next]_vars
  PROVE [AbstractLock!Next]_Holders
  <1> USE LightLockAssumption
      DEF TypeInv, IInv, tagVars, localVars, waitVars, suspVars, Runs,
          TagIsZero, OrWaiterBit, TagIs, Uncontended, Holders,
          AbstractLock!Next, AbstractLock!Acquire, AbstractLock!Release
  <1>1. CASE UNCHANGED held BY <1>1
  <1>2. ASSUME NEW t \in Threads, NEW l \in Locks, owner[l] \in {NoThread, t},
               l \notin held[t], held' = [held EXCEPT ![t] = @ \cup {l}]
        PROVE AbstractLock!Acquire(t, l)
    <2>1. Holders[l] = {} BY <1>2 DEF HolderInv
    <2>2. ASSUME NEW k \in Locks
          PROVE {u \in Threads : k \in held'[u]} = IF k = l THEN {t} ELSE Holders[k]
      <3>1. ASSUME NEW u \in Threads
            PROVE k \in held'[u] <=> (k \in held[u] \/ (k = l /\ u = t))
        BY <1>2 DEF TypeOK
      <3>2. k = l => \A u \in Threads : k \notin held[u] BY <2>1
      <3> QED BY <3>1, <3>2
    <2>3. Holders' = [Holders EXCEPT ![l] = {t}] BY <2>2
    <2> QED BY <2>1, <2>3
  <1>3. ASSUME NEW t \in Threads, NEW l \in Locks, l \in held[t],
               held' = [held EXCEPT ![t] = @ \ {l}]
        PROVE AbstractLock!Release(t, l)
    <2>1. Holders[l] = {t} BY <1>3 DEF HolderInv
    <2>2. ASSUME NEW k \in Locks
          PROVE {u \in Threads : k \in held'[u]} = IF k = l THEN {} ELSE Holders[k]
      <3>1. ASSUME NEW u \in Threads
            PROVE k \in held'[u] <=> (k \in held[u] /\ ~ (k = l /\ u = t))
        BY <1>3 DEF TypeOK
      <3>2. k = l => \A u \in Threads : k \in held[u] => u = t BY <2>1
      <3> QED BY <3>1, <3>2
    <2>3. Holders' = [Holders EXCEPT ![l] = {}] BY <2>2
    <2> QED BY <2>1, <2>3
  <1>4. ASSUME NEW t \in Threads, LockExchange(t) PROVE [AbstractLock!Next]_Holders
    <2>1. arg[t] \in Locks /\ arg[t] \notin held[t] BY <1>4 DEF LockExchange, LocalInv
    <2>2. CASE TagIsZero(arg[t])
      <3>1. owner[arg[t]] = NoThread /\ held' = [held EXCEPT ![t] = @ \cup {arg[t]}]
        BY <1>4, <2>2 DEF LockExchange
      <3>2. AbstractLock!Acquire(t, arg[t]) BY <1>2, <2>1, <3>1
      <3> QED BY <2>1, <3>2
    <2>3. CASE ~ TagIsZero(arg[t]) BY <1>1, <1>4, <2>3 DEF LockExchange
    <2> QED BY <2>2, <2>3
  <1>5. ASSUME NEW t \in Threads, LockReturn(t) PROVE [AbstractLock!Next]_Holders
    BY <1>2, <1>5 DEF LockReturn, LocalInv, HandoffInv
  <1>6. ASSUME NEW t \in Threads, NEW l \in Locks, Unlock(t, l)
        PROVE [AbstractLock!Next]_Holders
    BY <1>1, <1>3, <1>6 DEF Unlock
  <1>7. ASSUME NEW t \in Threads, UnlockSlowPath(t) PROVE [AbstractLock!Next]_Holders
    BY <1>3, <1>7 DEF UnlockSlowPath, LocalInv
  <1>8. ASSUME NEW t \in Threads,
               \/ LockSlowPath(t) \/ Interfere(t) \/ \E l \in Locks : CallLock(t, l)
        PROVE UNCHANGED held
    BY <1>8 DEF LockSlowPath, CallLock, Interfere, RequestSuspend, Resume, RequestTerminate
  <1>9. UNCHANGED vars => UNCHANGED held BY DEF vars
  <1> QED BY <1>1, <1>4, <1>5, <1>6, <1>7, <1>8, <1>9 DEF Next, Step

\* Until a termination request, the light lock implements the mutex its users rely on.
THEOREM Refinement == Spec => ImplementsMutex
  <1>1. Init => AbstractLock!Init BY DEF Init, AbstractLock!Init, Holders
  <1>2. TypeInv /\ (Undisturbed => IInv) /\ [Next]_vars => [Undisturbed => AbstractLock!Next]_Holders
    BY StepSimulation
  <1> QED BY <1>1, <1>2, Invariance, PTL DEF Spec, ImplementsMutex
=============================================================================
