------------------------- MODULE KPriorityInheritance -------------------------
(***************************************************************************)
(* Priority inheritance between KThreads (k_thread.cpp): a thread runs at  *)
(* the best priority among its base priority and those of the threads that *)
(* wait for a lock it owns.  A lower number is a better priority.          *)
(*                                                                         *)
(* All the operations run under the scheduler lock.  The loop of           *)
(* RestorePriority is unrolled: while cursor names a thread the scheduler  *)
(* lock is held and only the next iteration can happen.                    *)
(***************************************************************************)
EXTENDS KernelCommon

CONSTANTS Keys,
          Highest, Lowest,   \* Svc::HighestThreadPriority, Svc::LowestThreadPriority
          NoKey

ASSUME PriorityAssumption == /\ IsFiniteSet(Threads) /\ NoKey \notin Keys
                             /\ Highest \in Nat /\ Lowest \in Nat /\ Highest <= Lowest

VARIABLES base,       \* m_base_priority
          priority,   \* m_priority
          lockOwner,  \* GetLockOwner(): owner of the lock the thread waits for
          key,        \* its address key while it waits
          inCvTree,   \* it sits in a condition variable or arbiter tree
          rank,       \* the priority at which it was inserted in the tree it is in
          cursor      \* the thread variable of RestorePriority's loop

inheritanceVars == <<base, priority, lockOwner, key, inCvTree, rank, cursor>>

Priorities == Highest..Lowest

InheritanceTypeOK ==
  /\ base \in [Threads -> Priorities]
  /\ priority \in [Threads -> Priorities]
  /\ lockOwner \in [Threads -> Threads \cup {NoThread}]
  /\ key \in [Threads -> Keys \cup {NoKey}]
  /\ inCvTree \in [Threads -> BOOLEAN]
  /\ rank \in [Threads -> Priorities]
  /\ cursor \in Threads \cup {NoThread}

InheritanceInit ==
  /\ base \in [Threads -> Priorities]
  /\ priority = base
  /\ lockOwner = [t \in Threads |-> NoThread]
  /\ key = [t \in Threads |-> NoKey]
  /\ inCvTree = [t \in Threads |-> FALSE]
  /\ rank = base
  /\ cursor = NoThread
-----------------------------------------------------------------------------
InTree(t) == lockOwner[t] # NoThread \/ inCvTree[t]

\* The waiters in the tree of the lock o holds under key k.
Waiters(o, k) == {w \in Threads : lockOwner[w] = o /\ key[w] = k}

\* Fault: any waiter is taken for the front of the tree.
IsFront_Any(w) == TRUE

\* w may be GetHighestPriorityWaiter() of its lock: the front of the tree.
IsFront(w) == \A u \in Waiters(lockOwner[w], key[w]) : rank[w] <= rank[u]

\* What RestorePriority takes the minimum of.
Candidates(t) ==
  {base[t]} \cup {priority[w] : w \in {u \in Threads : lockOwner[u] = t /\ IsFront(u)}}

Best(p, S) == p \in S /\ \A q \in S : p <= q

\* Fault: RestorePriority never stops on an unchanged priority.
Settled_Never(t, p) == FALSE

Settled(t, p) == p = priority[t]

\* The thread is taken out of its tree and inserted again at the new priority.
Reranked(t, p) == p

\* One iteration of RestorePriority.
RestorePriority ==
  /\ cursor # NoThread
  /\ \E p \in Priorities :
       /\ Best(p, Candidates(cursor))
       /\ IF Settled(cursor, p)
            THEN cursor' = NoThread /\ UNCHANGED <<priority, rank>>
            ELSE /\ priority' = [priority EXCEPT ![cursor] = p]
                 /\ rank' = [rank EXCEPT ![cursor] =
                               IF InTree(cursor) THEN Reranked(cursor, p) ELSE @]
                 /\ cursor' = lockOwner[cursor]
  /\ UNCHANGED <<base, lockOwner, key, inCvTree>>

\* Fault: the comparison of AddWaiter is the wrong way round.
RaisesOwner_Swapped(o, w) == priority[o] < priority[w]

RaisesOwner(o, w) == priority[w] < priority[o]

\* AddWaiter: w starts to wait for the lock o holds under key k.
AddWaiter(o, w, k) ==
  /\ cursor = NoThread
  /\ ~ InTree(w)
  /\ lockOwner' = [lockOwner EXCEPT ![w] = o]
  /\ key' = [key EXCEPT ![w] = k]
  /\ rank' = [rank EXCEPT ![w] = priority[w]]
  /\ cursor' = IF RaisesOwner(o, w) THEN o ELSE NoThread
  /\ UNCHANGED <<base, priority, inCvTree>>

\* Fault: an owner keeps what it inherited.
MayLower_Never(o, w) == FALSE

\* o may have inherited from w, which leaves it.
MayLower(o, w) == priority[o] = priority[w] /\ priority[o] < base[o]

\* RemoveWaiter: w's wait for its lock is cancelled.
RemoveWaiter(w) ==
  /\ cursor = NoThread
  /\ lockOwner[w] # NoThread
  /\ lockOwner' = [lockOwner EXCEPT ![w] = NoThread]
  /\ key' = [key EXCEPT ![w] = NoKey]
  /\ cursor' = IF MayLower(lockOwner[w], w) THEN lockOwner[w] ELSE NoThread
  /\ UNCHANGED <<base, priority, inCvTree, rank>>

\* RemoveWaiterByKey: o releases the lock of key k, its first waiter n becomes
\* the owner of the lock and of the waiters that are left.
RemoveWaiterByKey(o, k, n) ==
  /\ cursor = NoThread
  /\ n \in Waiters(o, k)
  /\ IsFront(n)
  /\ lockOwner' = [w \in Threads |-> IF w = n THEN NoThread
                                     ELSE IF w \in Waiters(o, k) THEN n
                                     ELSE lockOwner[w]]
  /\ key' = [key EXCEPT ![n] = NoKey]
  /\ cursor' = IF MayLower(o, n) THEN o ELSE NoThread
  /\ UNCHANGED <<base, priority, inCvTree, rank>>

NewBase(p) == p

\* SetBasePriority (svcSetThreadPriority).
SetBasePriority(t, p) ==
  /\ cursor = NoThread
  /\ base' = [base EXCEPT ![t] = NewBase(p)]
  /\ cursor' = t
  /\ UNCHANGED <<priority, lockOwner, key, inCvTree, rank>>

\* IncreaseBasePriority (a termination request): only ever improves it.
IncreaseBasePriority(t, p) ==
  /\ cursor = NoThread
  /\ base[t] > p
  /\ base' = [base EXCEPT ![t] = p]
  /\ cursor' = t
  /\ UNCHANGED <<priority, lockOwner, key, inCvTree, rank>>

\* The thread waits on a condition variable or an address arbiter.
EnterTree(t) ==
  /\ cursor = NoThread
  /\ ~ InTree(t)
  /\ inCvTree' = [inCvTree EXCEPT ![t] = TRUE]
  /\ rank' = [rank EXCEPT ![t] = priority[t]]
  /\ UNCHANGED <<base, priority, lockOwner, key, cursor>>

\* It is signalled, times out or is cancelled.
LeaveTree(t) ==
  /\ cursor = NoThread
  /\ inCvTree[t]
  /\ inCvTree' = [inCvTree EXCEPT ![t] = FALSE]
  /\ UNCHANGED <<base, priority, lockOwner, key, rank, cursor>>

InheritanceNext ==
  \/ RestorePriority
  \/ \E o, w \in Threads, k \in Keys : AddWaiter(o, w, k) \/ RemoveWaiterByKey(o, k, w)
  \/ \E t \in Threads : RemoveWaiter(t) \/ EnterTree(t) \/ LeaveTree(t)
  \/ \E t \in Threads, p \in Priorities : SetBasePriority(t, p) \/ IncreaseBasePriority(t, p)

InheritanceSpec == InheritanceInit /\ [][InheritanceNext]_inheritanceVars

\* The loop is straight-line code: its thread takes the next iteration.
FairInheritanceSpec == InheritanceSpec /\ WF_inheritanceVars(RestorePriority)
-----------------------------------------------------------------------------
(* Properties *)

\* t has the best of its base priority and its waiters' priorities.
Inherits(t) ==
  Best(priority[t], {base[t]} \cup {priority[w] : w \in {u \in Threads : lockOwner[u] = t}})

\* Whenever the scheduler lock is free every thread runs at the priority it
\* should inherit: the shortcuts of AddWaiter, RemoveWaiter, RemoveWaiterByKey
\* and the early return of RestorePriority never leave a chain half updated.
PriorityInherited == cursor = NoThread => \A t \in Threads : Inherits(t)

\* "prevent violating red black tree invariants": a thread in a lock's or a
\* condition variable's tree is filed under its current priority.
TreesSorted == \A t \in Threads : InTree(t) => rank[t] = priority[t]

\* Whoever waits for a thread of S is in S.
WaitClosed(S) == \A u \in Threads : lockOwner[u] \in S => u \in S

\* The threads blocked behind t, directly or through others, and t itself.
Behind(t) ==
  {u \in Threads : \A S \in SUBSET Threads : t \in S /\ WaitClosed(S) => u \in S}

\* No thread behind t takes part in a deadlock.
Acyclic(t) ==
  \A u \in Behind(t) : \A w \in Threads : lockOwner[w] = u => u \notin Behind(w)

\* The reference definition: with no deadlock behind it, a thread has exactly the
\* best base priority among the threads blocked behind it, neither inverted nor
\* boosted for a thread that gave up or was served.
ExactInheritance ==
  cursor = NoThread =>
    \A t \in Threads : Acyclic(t) => Best(priority[t], {base[u] : u \in Behind(t)})

\* The lock goes to a waiter of the best priority: whoever is handed from the old
\* owner to the new one does not have a better priority than it.
HandedToBest ==
  [][\A n, w \in Threads : lockOwner[w] # NoThread /\ lockOwner'[w] = n /\ lockOwner[w] # n
        => priority[n] <= priority[w]]_inheritanceVars

\* RestorePriority ends, even when lock owners wait for each other in a cycle.
RestoreEnds == cursor # NoThread ~> cursor = NoThread
=============================================================================
