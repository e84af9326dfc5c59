-------------------------- MODULE KSchedulingProofs --------------------------
(***************************************************************************)
(* What decides when threads run, for any number of threads and cores: the *)
(* tree of timer tasks (KHardwareTimer), the tree of waiters and the       *)
(* priorities that owners inherit (KPriorityInheritance), and the switch   *)
(* of the cores to the threads chosen for them (KSchedulerSwitch).         *)
(***************************************************************************)
EXTENDS KHardwareTimer, KPriorityInheritance, KSchedulerSwitch, FiniteSetTheorems, TLAPS

\* A non-empty set of natural numbers has a least element.
LEMMA LeastNatural ==
  ASSUME NEW S \in SUBSET Nat, S # {}
  PROVE  \E m \in S : \A n \in S : m <= n
  <1> DEFINE R == OpToRel(<, Nat)
  <1>1. IsWellFoundedOn(R, Nat) BY NatLessThanWellFounded, Zenon
  <1>2. \E m \in S : \A n \in S : ~ (<<n, m>> \in R)
    <2> HIDE DEF R
    <2> QED BY <1>1, WFMin, Zenon
  <1>3. ASSUME NEW m \in S, NEW n \in S, ~ (<<n, m>> \in R) PROVE m <= n
    <2>1. <<n, m>> \in Nat \X Nat OBVIOUS
    <2>2. ~ (n < m) BY <1>3, <2>1, Zenon DEF OpToRel
    <2> QED BY <2>2
  <1> QED BY <1>2, <1>3, Zenon
-----------------------------------------------------------------------------
(***************************************************************************)
(* KPriorityInheritance, for any keys and any range of priorities.  The    *)
(* inductive invariant says that only the thread the loop of               *)
(* RestorePriority is about to visit may have a priority that differs from *)
(* what it should inherit, and that the trees are sorted.                  *)
(***************************************************************************)

\* The inductive invariant.
InheritanceInv ==
  /\ InheritanceTypeOK
  /\ TreesSorted
  /\ \A t \in Threads : t # cursor => Inherits(t)
-----------------------------------------------------------------------------
\* A thread that waits for a lock has a front waiter of that lock ahead of it.
LEMMA FrontExists ==
  ASSUME InheritanceTypeOK, NEW w \in Threads
  PROVE  \E u \in Waiters(lockOwner[w], key[w]) : IsFront(u) /\ rank[u] <= rank[w]
  <1> DEFINE W == Waiters(lockOwner[w], key[w])
             S == {rank[u] : u \in W}
  <1>1. w \in W BY DEF Waiters
  <1>2. S \in SUBSET Nat /\ S # {}
    BY <1>1, ThreadsAssumption, PriorityAssumption DEF InheritanceTypeOK, Priorities, Waiters
  <1>3. PICK m \in S : \A n \in S : m <= n BY <1>2, LeastNatural, Zenon
  <1>4. PICK u \in W : rank[u] = m OBVIOUS
  <1>5. lockOwner[u] = lockOwner[w] /\ key[u] = key[w] BY <1>4 DEF Waiters
  <1>6. IsFront(u)
    <2>1. ASSUME NEW v \in W PROVE rank[u] <= rank[v] BY <1>3, <1>4
    <2> QED BY <2>1, <1>5 DEF IsFront
  <1>7. rank[u] <= rank[w] BY <1>1, <1>3, <1>4
  <1> QED BY <1>4, <1>6, <1>7

\* With sorted trees, the best candidate is the best over all the waiters.
LEMMA CandidatesSuffice ==
  ASSUME InheritanceTypeOK, TreesSorted, NEW t \in Threads, NEW p, Best(p, Candidates(t))
  PROVE  /\ p \in {base[t]} \cup {priority[w] : w \in {u \in Threads : lockOwner[u] = t}}
         /\ p <= base[t]
         /\ \A w \in Threads : lockOwner[w] = t => p <= priority[w]
  <1>1. p \in Candidates(t) /\ \A q \in Candidates(t) : p <= q BY DEF Best
  <1>2. p \in {base[t]} \cup {priority[w] : w \in {u \in Threads : lockOwner[u] = t}}
    BY <1>1 DEF Candidates
  <1>3. p <= base[t] BY <1>1 DEF Candidates
  <1>4. ASSUME NEW w \in Threads, lockOwner[w] = t PROVE p <= priority[w]
    <2>1. PICK u \in Waiters(t, key[w]) : IsFront(u) /\ rank[u] <= rank[w]
      BY <1>4, FrontExists
    <2>2. u \in Threads /\ lockOwner[u] = t BY <2>1 DEF Waiters
    <2>3. priority[u] \in Candidates(t) BY <2>1, <2>2 DEF Candidates
    <2>4. t # NoThread BY ThreadsAssumption, PriorityAssumption
    <2>5. rank[u] = priority[u] /\ rank[w] = priority[w]
      BY <1>4, <2>2, <2>4 DEF TreesSorted, InTree
    <2>6. p \in Int /\ priority[u] \in Int /\ priority[w] \in Int
      BY <1>2, <2>2, ThreadsAssumption, PriorityAssumption DEF InheritanceTypeOK, Priorities
    <2> QED BY <1>1, <2>1, <2>3, <2>5, <2>6
  <1> QED BY <1>2, <1>3, <1>4

\* Initially nobody waits.
LEMMA InitInheritanceInv == InheritanceInit => InheritanceInv
  <1> SUFFICES ASSUME InheritanceInit PROVE InheritanceInv OBVIOUS
  <1> USE ThreadsAssumption, PriorityAssumption DEF InheritanceInit
  <1>1. InheritanceTypeOK BY DEF InheritanceTypeOK
  <1>2. TreesSorted BY DEF TreesSorted, InTree
  <1>3. ASSUME NEW t \in Threads PROVE Inherits(t)
    BY <1>1 DEF Inherits, Best, InheritanceTypeOK, Priorities
  <1> QED BY <1>1, <1>2, <1>3 DEF InheritanceInv

\* What Inherits says, without the set of candidates.
LEMMA InheritsUnfold ==
  ASSUME NEW t \in Threads
  PROVE  Inherits(t) <=>
           /\ priority[t] = base[t] \/ \E w \in Threads : lockOwner[w] = t /\ priority[t] = priority[w]
           /\ priority[t] <= base[t]
           /\ \A w \in Threads : lockOwner[w] = t => priority[t] <= priority[w]
  BY DEF Inherits, Best

\* Every step keeps the trees sorted and disturbs no thread but the cursor.
LEMMA NextInheritanceInv == InheritanceInv /\ [InheritanceNext]_inheritanceVars => InheritanceInv'
  <1> SUFFICES ASSUME InheritanceInv, [InheritanceNext]_inheritanceVars PROVE InheritanceInv' OBVIOUS
  <1> USE ThreadsAssumption, PriorityAssumption DEF InheritanceInv
  <1>1. CASE RestorePriority
    <2>1. cursor \in Threads BY <1>1 DEF RestorePriority, InheritanceTypeOK
    <2>2. PICK p \in Priorities :
            /\ Best(p, Candidates(cursor))
            /\ IF Settled(cursor, p)
                 THEN cursor' = NoThread /\ UNCHANGED <<priority, rank>>
                 ELSE /\ priority' = [priority EXCEPT ![cursor] = p]
                      /\ rank' = [rank EXCEPT ![cursor] =
                                    IF InTree(cursor) THEN Reranked(cursor, p) ELSE @]
                      /\ cursor' = lockOwner[cursor]
      BY <1>1 DEF RestorePriority
    <2>3. UNCHANGED <<base, lockOwner, key, inCvTree>> BY <1>1 DEF RestorePriority
    <2>4. /\ p = base[cursor]
             \/ \E w \in Threads : lockOwner[w] = cursor /\ p = priority[w]
          /\ p <= base[cursor]
          /\ \A w \in Threads : lockOwner[w] = cursor => p <= priority[w]
      BY <2>1, <2>2, CandidatesSuffice
    <2>5. CASE Settled(cursor, p)
      <3>1. cursor' = NoThread /\ UNCHANGED <<priority, rank>> BY <2>2, <2>5
      <3>2. InheritanceTypeOK' BY <2>3, <3>1 DEF InheritanceTypeOK
      <3>3. TreesSorted' BY <2>3, <3>1 DEF TreesSorted, InTree
      <3>4. Inherits(cursor) BY <2>1, <2>4, <2>5, InheritsUnfold DEF Settled
      <3>5. ASSUME NEW t \in Threads PROVE Inherits(t)'
        BY <2>3, <3>1, <3>4 DEF Inherits, Best
      <3> QED BY <3>2, <3>3, <3>5
    <2>6. CASE ~ Settled(cursor, p)
      <3>1. /\ priority' = [priority EXCEPT ![cursor] = p]
            /\ rank' = [rank EXCEPT ![cursor] = IF InTree(cursor) THEN p ELSE @]
            /\ cursor' = lockOwner[cursor]
        BY <2>2, <2>6 DEF Reranked
      <3>2. InheritanceTypeOK' BY <2>1, <2>3, <3>1 DEF InheritanceTypeOK
      <3>3. TreesSorted' BY <2>1, <2>3, <3>1 DEF TreesSorted, InTree, InheritanceTypeOK
      <3>4. ASSUME NEW t \in Threads, t # cursor' PROVE Inherits(t)'
        <4>1. lockOwner[cursor] # t BY <3>1, <3>4
        <4>2. \A w \in Threads : lockOwner[w] = t => priority'[w] = priority[w]
          BY <3>1, <4>1 DEF InheritanceTypeOK
        <4>3. CASE t = cursor
          <5>1. priority'[t] = p BY <3>1, <4>3 DEF InheritanceTypeOK
          <5> QED BY <2>3, <2>4, <4>2, <4>3, <5>1 DEF Inherits, Best
        <4>4. CASE t # cursor
          <5>1. priority'[t] = priority[t] BY <3>1, <4>4 DEF InheritanceTypeOK
          <5>2. Inherits(t) BY <4>4
          <5> QED BY <2>3, <4>2, <5>1, <5>2 DEF Inherits, Best
        <4> QED BY <4>3, <4>4
      <3> QED BY <3>2, <3>3, <3>4
    <2> QED BY <2>5, <2>6
  <1>2. ASSUME NEW o \in Threads, NEW w \in Threads, NEW k \in Keys, AddWaiter(o, w, k)
        PROVE  InheritanceInv'
    <2>1. /\ cursor = NoThread
          /\ lockOwner' = [lockOwner EXCEPT ![w] = o]
          /\ lockOwner[w] = NoThread
          /\ cursor' = IF priority[w] < priority[o] THEN o ELSE NoThread
          /\ UNCHANGED <<base, priority, inCvTree>>
      BY <1>2 DEF AddWaiter, InTree, RaisesOwner
    <2>2. InheritanceTypeOK' BY <1>2 DEF AddWaiter, InheritanceTypeOK
    <2>3. TreesSorted' BY <1>2 DEF AddWaiter, TreesSorted, InTree, InheritanceTypeOK
    <2>4. ASSUME NEW t \in Threads, t # cursor' PROVE Inherits(t)'
      <3>1. Inherits(t) BY <2>1
      <3>2. CASE t # o
        <4>1. {u \in Threads : lockOwner'[u] = t} = {u \in Threads : lockOwner[u] = t}
          BY <2>1, <3>2 DEF InheritanceTypeOK
        <4> QED BY <2>1, <3>1, <4>1 DEF Inherits, Best
      <3>3. CASE t = o
        <4>1. ~ (priority[w] < priority[o]) BY <2>1, <2>4, <3>3
        <4>2. priority[o] <= priority[w] BY <4>1 DEF InheritanceTypeOK, Priorities
        <4>3. {u \in Threads : lockOwner'[u] = t} = {u \in Threads : lockOwner[u] = t} \cup {w}
          BY <2>1, <3>3 DEF InheritanceTypeOK
        <4> QED BY <2>1, <3>1, <3>3, <4>2, <4>3 DEF Inherits, Best
      <3> QED BY <3>2, <3>3
    <2> QED BY <2>2, <2>3, <2>4
  <1>3. ASSUME NEW w \in Threads, RemoveWaiter(w) PROVE InheritanceInv'
    <2> DEFINE o == lockOwner[w]
    <2>1. /\ cursor = NoThread /\ o \in Threads
          /\ lockOwner' = [lockOwner EXCEPT ![w] = NoThread]
          /\ cursor' = IF MayLower(o, w) THEN o ELSE NoThread
          /\ UNCHANGED <<base, priority, inCvTree>>
      BY <1>3 DEF RemoveWaiter, InheritanceTypeOK
    <2>2. InheritanceTypeOK' BY <1>3 DEF RemoveWaiter, InheritanceTypeOK
    <2>3. TreesSorted' BY <1>3 DEF RemoveWaiter, TreesSorted, InTree, InheritanceTypeOK
    <2>4. ASSUME NEW t \in Threads, t # cursor' PROVE Inherits(t)'
      <3>1. Inherits(t) BY <2>1
      <3>2. CASE t # o
        <4>1. {u \in Threads : lockOwner'[u] = t} = {u \in Threads : lockOwner[u] = t}
          BY <2>1, <3>2 DEF InheritanceTypeOK
        <4> QED BY <2>1, <3>1, <4>1 DEF Inherits, Best
      <3>3. CASE t = o
        <4>1. ~ MayLower(o, w) BY <2>1, <2>4, <3>3
        <4>2. {u \in Threads : lockOwner'[u] = o} = {u \in Threads : lockOwner[u] = o} \ {w}
          BY <2>1 DEF InheritanceTypeOK
        <4>3. priority[o] <= base[o] /\ priority[o] \in Int /\ base[o] \in Int
          BY <2>1, <3>1, <3>3 DEF Inherits, Best, InheritanceTypeOK, Priorities
        <4>4. priority[o] # priority[w] \/ priority[o] = base[o]
          BY <4>1, <4>3 DEF MayLower
        <4> HIDE DEF o
        <4> QED BY <2>1, <3>1, <3>3, <4>2, <4>4 DEF Inherits, Best
      <3> QED BY <3>2, <3>3
    <2> QED BY <2>2, <2>3, <2>4
  <1>4. ASSUME NEW o \in Threads, NEW n \in Threads, NEW k \in Keys, RemoveWaiterByKey(o, k, n)
        PROVE  InheritanceInv'
    <2> DEFINE W == Waiters(o, k)
    <2>1. /\ cursor = NoThread /\ n \in W
          /\ lockOwner' = [w \in Threads |-> IF w = n THEN NoThread
                                             ELSE IF w \in W THEN n ELSE lockOwner[w]]
          /\ cursor' = IF MayLower(o, n) THEN o ELSE NoThread
          /\ UNCHANGED <<base, priority, inCvTree, rank>>
      BY <1>4 DEF RemoveWaiterByKey
    <2>2. InheritanceTypeOK' BY <1>4 DEF RemoveWaiterByKey, InheritanceTypeOK
    <2>3. \A w \in W : lockOwner[w] = o BY DEF Waiters
    <2>4. TreesSorted' BY <2>1, <2>3 DEF TreesSorted, InTree, InheritanceTypeOK
    <2>5. \A w \in W : w \in Threads /\ priority[n] <= priority[w]
      <3>1. lockOwner[n] = o /\ key[n] = k BY <2>1 DEF Waiters
      <3>2. \A w \in W : rank[n] <= rank[w] BY <1>4, <3>1 DEF RemoveWaiterByKey, IsFront
      <3>3. \A w \in W : w \in Threads /\ rank[w] = priority[w]
        BY <2>3 DEF TreesSorted, InTree, Waiters
      <3> QED BY <2>1, <3>2, <3>3
    <2>6. ASSUME NEW t \in Threads, t # cursor' PROVE Inherits(t)'
      <3>1. Inherits(t) BY <2>1
      <3> DEFINE A == {u \in Threads : lockOwner[u] = t}
                 B == {u \in Threads : lockOwner'[u] = t}
      <3>2. CASE t # o /\ t # n
        <4>1. B = A BY <2>1, <2>3, <3>2 DEF InheritanceTypeOK
        <4>2. Best(priority[t], {base[t]} \cup {priority[w] : w \in A})
          BY <3>1 DEF Inherits
        <4> HIDE DEF W, A, B
        <4>3. Best(priority[t], {base[t]} \cup {priority[w] : w \in B}) BY <4>1, <4>2
        <4> QED BY <2>1, <4>3 DEF Inherits, Best, B
      <3>3. CASE t # o /\ t = n
        <4>1. B = A \cup (W \ {n}) BY <2>1, <2>3, <2>5, <3>3 DEF InheritanceTypeOK
        <4>2. Best(priority[t], {base[t]} \cup {priority[w] : w \in A})
          BY <3>1 DEF Inherits
        <4>3. \A w \in W : priority[t] <= priority[w] BY <2>5, <3>3
        <4> HIDE DEF W, A, B
        <4>4. Best(priority[t], {base[t]} \cup {priority[w] : w \in B})
          BY <4>1, <4>2, <4>3 DEF Best
        <4> QED BY <2>1, <4>4 DEF Inherits, Best, B
      <3>4. CASE t = o /\ t # n
        <4>1. B = A \ W BY <2>1, <2>3, <3>4 DEF InheritanceTypeOK
        <4>2. ~ MayLower(o, n) BY <2>1, <2>6, <3>4
        <4>3. n \in A BY <2>1, <2>3, <3>4
        <4>3a. priority[o] <= base[o] /\ priority[o] \in Int /\ base[o] \in Int
          BY <3>1, <3>4 DEF Inherits, Best, InheritanceTypeOK, Priorities
        <4>4. priority[o] # priority[n] \/ priority[o] = base[o]
          BY <4>2, <4>3a DEF MayLower
        <4>5. priority[o] <= priority[n] BY <3>1, <3>4, <4>3 DEF Inherits, Best
        <4>6. \A w \in W : priority[o] # base[o] => priority[o] # priority[w]
          BY <2>5, <4>4, <4>5 DEF InheritanceTypeOK, Priorities
        <4> HIDE DEF W
        <4> QED BY <2>1, <3>1, <3>4, <4>1, <4>6 DEF Inherits, Best
      <3>5. CASE t = o /\ t = n
        <4>1. ~ MayLower(o, n) BY <2>1, <2>6, <3>5
        <4>1a. priority[t] <= base[t] /\ priority[t] \in Int /\ base[t] \in Int
          BY <3>1 DEF Inherits, Best, InheritanceTypeOK, Priorities
        <4>2. priority[t] = base[t] BY <3>5, <4>1, <4>1a DEF MayLower
        <4>3. B \subseteq A BY <2>1, <2>3, <3>5 DEF InheritanceTypeOK
        <4> QED BY <2>1, <3>1, <4>2, <4>3 DEF Inherits, Best
      <3> QED BY <3>2, <3>3, <3>4, <3>5
    <2> QED BY <2>2, <2>4, <2>6
  <1>5. ASSUME NEW t \in Threads, NEW p \in Priorities,
               SetBasePriority(t, p) \/ IncreaseBasePriority(t, p)
        PROVE  InheritanceInv'
    <2>1. /\ base' = [base EXCEPT ![t] = p] /\ cursor' = t /\ cursor = NoThread
          /\ UNCHANGED <<priority, lockOwner, key, inCvTree, rank>>
      BY <1>5 DEF SetBasePriority, IncreaseBasePriority, NewBase
    <2>2. InheritanceTypeOK' BY <2>1 DEF InheritanceTypeOK
    <2>3. TreesSorted' BY <2>1 DEF TreesSorted, InTree
    <2>4. ASSUME NEW u \in Threads, u # cursor' PROVE Inherits(u)'
      <3>1. base'[u] = base[u] /\ Inherits(u) BY <2>1, <2>4 DEF InheritanceTypeOK
      <3> QED BY <2>1, <3>1 DEF Inherits, Best
    <2> QED BY <2>2, <2>3, <2>4
  <1>6. ASSUME NEW t \in Threads, EnterTree(t) \/ LeaveTree(t) PROVE InheritanceInv'
    <2>1. InheritanceTypeOK' BY <1>6, Zenon DEF EnterTree, LeaveTree, InheritanceTypeOK
    <2>2. TreesSorted' BY <1>6 DEF EnterTree, LeaveTree, TreesSorted, InTree, InheritanceTypeOK
    <2>3. ASSUME NEW u \in Threads, u # cursor' PROVE Inherits(u)'
      BY <1>6, <2>3 DEF EnterTree, LeaveTree, Inherits, Best
    <2> QED BY <2>1, <2>2, <2>3
  <1>7. CASE UNCHANGED inheritanceVars
    BY <1>7 DEF inheritanceVars, InheritanceTypeOK, TreesSorted, InTree, Inherits, Best
  <1> QED BY <1>1, <1>2, <1>3, <1>4, <1>5, <1>6, <1>7 DEF InheritanceNext

\* The inductive invariant holds in every reachable state.
LEMMA InheritanceInvariance == InheritanceSpec => []InheritanceInv
  BY InitInheritanceInv, NextInheritanceInv, PTL DEF InheritanceSpec

\* Every variable keeps its type: the inherited priorities stay in the range the
\* supervisor calls accept.
THEOREM InheritanceTypeCorrect == InheritanceSpec => []InheritanceTypeOK
  <1>1. InheritanceInv => InheritanceTypeOK BY DEF InheritanceInv
  <1> QED BY <1>1, InheritanceInvariance, PTL

\* Whenever the scheduler lock is free, every thread has the best priority among
\* its own base priority and its waiters' priorities.
THEOREM Inheritance == InheritanceSpec => []PriorityInherited
  <1>1. InheritanceInv => PriorityInherited
    BY ThreadsAssumption, PriorityAssumption DEF InheritanceInv, PriorityInherited
  <1> QED BY <1>1, InheritanceInvariance, PTL

\* RestorePriority never changes the priority of a thread inside a tree without
\* filing it again, so the front of a tree is its best waiter.
THEOREM Sorted == InheritanceSpec => []TreesSorted
  <1>1. InheritanceInv => TreesSorted BY DEF InheritanceInv
  <1> QED BY <1>1, InheritanceInvariance, PTL

\* The threads behind t are the least set that has t and everyone who waits for one of it.
LEMMA BehindClosed ==
  ASSUME NEW t \in Threads
  PROVE  /\ Behind(t) \in SUBSET Threads /\ t \in Behind(t) /\ WaitClosed(Behind(t))
         /\ \A S \in SUBSET Threads : t \in S /\ WaitClosed(S) => Behind(t) \subseteq S
  <1>1. ASSUME NEW u \in Threads, lockOwner[u] \in Behind(t) PROVE u \in Behind(t)
    BY <1>1, Zenon DEF Behind, WaitClosed
  <1>2. t \in Behind(t) BY Zenon DEF Behind
  <1> QED BY <1>1, <1>2, Zenon DEF Behind, WaitClosed

\* No thread behind t is more urgent than t.
LEMMA BehindNotBetter ==
  ASSUME InheritanceTypeOK, \A u \in Threads : Inherits(u), NEW t \in Threads, NEW u \in Behind(t)
  PROVE  u \in Threads /\ priority[t] <= priority[u] /\ priority[u] <= base[u]
  <1> DEFINE S == {v \in Threads : priority[t] <= priority[v]}
  <1>1. priority \in [Threads -> Nat] /\ base \in [Threads -> Nat]
    BY PriorityAssumption DEF InheritanceTypeOK, Priorities
  <1>2. ASSUME NEW v \in Threads, lockOwner[v] \in S PROVE v \in S
    <2>1. priority[lockOwner[v]] <= priority[v] /\ priority[t] <= priority[lockOwner[v]]
      BY <1>2, InheritsUnfold
    <2> QED BY <1>1, <1>2, <2>1
  <1>3. t \in S /\ S \in SUBSET Threads BY <1>1
  <1>4. WaitClosed(S) BY <1>2, Zenon DEF WaitClosed
  <1> HIDE DEF S
  <1>5. u \in S BY <1>3, <1>4, BehindClosed, Zenon
  <1> QED BY <1>5, InheritsUnfold DEF S

\* With no deadlock behind t, some thread behind t has the priority of t for its base.
LEMMA BehindReached ==
  ASSUME InheritanceTypeOK, \A u \in Threads : Inherits(u), NEW t \in Threads, Acyclic(t)
  PROVE  \E u \in Behind(t) : base[u] = priority[t]
  <1> SUFFICES ASSUME \A u \in Behind(t) : base[u] # priority[t] PROVE FALSE
    OBVIOUS
  <1> DEFINE Q == {u \in Behind(t) : priority[u] = priority[t]}
             Sizes == {Cardinality(Behind(u)) : u \in Q}
  <1>1. Behind(t) \in SUBSET Threads /\ t \in Q BY BehindClosed
  <1>2. ASSUME NEW u \in Threads PROVE IsFiniteSet(Behind(u)) /\ Cardinality(Behind(u)) \in Nat
    BY PriorityAssumption, BehindClosed, FS_Subset, FS_CardinalityType
  <1>3. Sizes \in SUBSET Nat /\ Sizes # {} BY <1>1, <1>2
  <1>4. PICK m \in Sizes : \A n \in Sizes : m <= n BY <1>3, LeastNatural, Zenon
  <1>5. PICK u \in Q : Cardinality(Behind(u)) = m OBVIOUS
  <1>6. PICK w \in Threads : lockOwner[w] = u /\ priority[w] = priority[u]
    BY <1>1, <1>5, InheritsUnfold
  <1>7. w \in Q BY <1>1, <1>5, <1>6, BehindClosed DEF WaitClosed
  <1>8. u \notin Behind(w) BY <1>5, <1>6 DEF Acyclic
  <1>9. Behind(w) \subseteq Behind(u) /\ u \in Behind(u) /\ u \in Threads
    BY <1>1, <1>5, <1>6, BehindClosed DEF WaitClosed
  <1>10. Cardinality(Behind(w)) < Cardinality(Behind(u))
    BY <1>2, <1>8, <1>9, FS_Subset
  <1>11. Cardinality(Behind(w)) \in Sizes BY <1>7
  <1> QED BY <1>2, <1>4, <1>5, <1>9, <1>10, <1>11

\* Whenever the scheduler lock is free, a thread with no deadlock behind it has exactly the
\* best base priority of the threads that wait behind it, however long the chains of owners.
THEOREM ExactChains == InheritanceSpec => []ExactInheritance
  <1>1. InheritanceInv => ExactInheritance
    <2> SUFFICES ASSUME InheritanceInv, cursor = NoThread, NEW t \in Threads, Acyclic(t)
                 PROVE  Best(priority[t], {base[u] : u \in Behind(t)})
      BY Zenon DEF ExactInheritance
    <2>1. InheritanceTypeOK /\ \A u \in Threads : Inherits(u)
      BY ThreadsAssumption DEF InheritanceInv
    <2>2. PICK u \in Behind(t) : base[u] = priority[t] BY <2>1, BehindReached
    <2>3. ASSUME NEW v \in Behind(t) PROVE priority[t] <= base[v]
      BY <2>1, BehindNotBetter, PriorityAssumption DEF InheritanceTypeOK, Priorities
    <2> QED BY <2>2, <2>3 DEF Best
  <1> QED BY <1>1, InheritanceInvariance, PTL

\* A lock is handed to a waiter of the best priority.
THEOREM BestServed == InheritanceSpec => HandedToBest
  <1> DEFINE A == \A n, w \in Threads :
                    lockOwner[w] # NoThread /\ lockOwner'[w] = n /\ lockOwner[w] # n
                      => priority[n] <= priority[w]
  <1>1. InheritanceInv /\ [InheritanceNext]_inheritanceVars => [A]_inheritanceVars
    <2> SUFFICES ASSUME InheritanceInv, InheritanceNext, NEW n \in Threads, NEW w \in Threads,
                        lockOwner[w] # NoThread, lockOwner'[w] = n, lockOwner[w] # n
                 PROVE  priority[n] <= priority[w]
      BY DEF inheritanceVars
    <2> USE ThreadsAssumption, PriorityAssumption DEF InheritanceInv
    <2>1. PICK o \in Threads, m \in Threads, k \in Keys : RemoveWaiterByKey(o, k, m)
      BY DEF InheritanceNext, RestorePriority, AddWaiter, InTree, RemoveWaiter, SetBasePriority,
             IncreaseBasePriority, EnterTree, LeaveTree, InheritanceTypeOK
    <2>2. m = n /\ w \in Waiters(o, k)
      BY <2>1 DEF RemoveWaiterByKey, InheritanceTypeOK
    <2>3. rank[n] <= rank[w] /\ lockOwner[n] = o /\ lockOwner[w] = o
      BY <2>1, <2>2 DEF RemoveWaiterByKey, IsFront, Waiters
    <2> QED BY <2>3 DEF TreesSorted, InTree
  <1> QED BY <1>1, InheritanceInvariance, PTL DEF InheritanceSpec, HandedToBest
-----------------------------------------------------------------------------
(***************************************************************************)
(* The cores: no thread runs on two of them, none misses that it is to run *)
(* another thread, and a thread that has exited never runs again.          *)
(***************************************************************************)
USE DEF Actors

\* What the context guards give: a core that holds a context has locked its guard, and
\* no other core holds it.
Exclusive ==
  /\ \A c \in Cores : Holds(c) => current[c] \in guarded
  /\ ContextOwned
  /\ \A c \in Cores : pc[c] = "check" => target[c] = current[c]

\* Core c is on its way to the thread that it is to run, or its flag is up.
OnTheWay(c) ==
  /\ pc[c] \in {"guest", "unlocked"} => current[c] = Wanted(c) \/ needs[c]
  /\ pc[c] \in {"lock", "check"} => target[c] = Wanted(c) \/ needs[c]

\* A core in guest code sends no interrupts: the section that it left is complete.
Sent(c) == pc[c] # "unlocked" => ipis[c] = {}

Informed ==
  /\ \A c \in Cores : OnTheWay(c) /\ Sent(c)
  /\ NoLostReschedule

\* Threads that have terminated are not chosen again, nor running.
Gone ==
  /\ \A c \in Cores : highest[c] \notin terminated
  /\ ExitNeverReturns

\* The switch fiber has a thread to switch to.
Targeted == \A c \in Cores : pc[c] \in {"lock", "check"} => target[c] # NoThread

IInv == TypeOK /\ Exclusive /\ Informed /\ Gone /\ Targeted

\* The idle threads of two cores are two contexts.
LEMMA IdleDistinct == \A c, d \in Cores : c # d => Idle(c) # Idle(d)
  BY DEF Idle

\* Every core starts on its own idle thread, with nothing chosen and nothing pending.
LEMMA InitInv == Init => IInv
<1> SUFFICES ASSUME Init PROVE IInv
  OBVIOUS
<1>1. TypeOK
  BY DEF Init, TypeOK, Contexts
<1>2. Exclusive
  BY IdleDistinct DEF Init, Exclusive, ContextOwned, Holds
<1>3. Informed
  BY DEF Init, Informed, OnTheWay, Sent, NoLostReschedule, Wanted
<1>4. Gone
  BY DEF Init, Gone, ExitNeverReturns
<1>5. Targeted
  BY DEF Init, Targeted
<1> QED
  BY <1>1, <1>2, <1>3, <1>4, <1>5 DEF IInv

\* What the release of the lock by actor a leaves as it is, and what it can change: the
\* choice, the flags of the cores it concerns, and the interrupts that a has to send.
LEMMA UnlockStep ==
  ASSUME IInv, NEW a \in Actors, NEW h \in Choices, Free(a), Unlock(a, h)
  PROVE  /\ highest' = h
         /\ UNCHANGED <<interrupted, current, target, guarded>>
         /\ needs' \in [Cores -> BOOLEAN]
         /\ ipis' \in [Actors -> SUBSET Cores]
         /\ pc' \in [Cores -> {"guest", "unlocked", "load", "lock", "check", "refresh"}]
         /\ \A c \in Cores : pc'[c] = IF c = a THEN "unlocked" ELSE pc[c]
         /\ \A c \in Cores : needs[c] => needs'[c]
         /\ \A c \in Cores : h[c] # highest[c] => needs'[c] /\ (c = a \/ c \in ipis'[a])
         /\ \A b \in Actors : ipis[b] \subseteq ipis'[b]
         /\ \A b \in Actors \ {a} : ipis'[b] = ipis[b]
<1>1. PICK changed \in SUBSET Cores :
        /\ {c \in Cores : h[c] # highest[c]} \subseteq changed
        /\ needs' = Flagged(changed)
        /\ ipis' = [ipis EXCEPT ![a] = changed \ {a}]
  BY Zenon DEF Unlock, OtherCores
<1>2. ipis[a] = {}
  BY DEF Free, IInv, Informed, Sent
<1> QED
  BY <1>1, <1>2, Zenon DEF Unlock, Flagged, IInv, TypeOK

\* A section, with or without an exit, keeps every core informed.
LEMMA SectionInformed ==
  ASSUME IInv, NEW a \in Actors, NEW h \in Choices, Free(a), Unlock(a, h)
  PROVE  Informed'
<1>1. \A c \in Cores : Sent(c)'
  BY UnlockStep, Zenon DEF IInv, Informed, Sent
<1>2. ASSUME NEW c \in Cores PROVE OnTheWay(c)'
  <2>1. CASE h[c] # highest[c]
    BY <2>1, UnlockStep DEF OnTheWay
  <2>2. CASE h[c] = highest[c]
    <3>1. OnTheWay(c)
      BY DEF IInv, Informed
    <3>2. pc'[c] = pc[c] \/ (pc[c] = "guest" /\ pc'[c] = "unlocked")
      BY UnlockStep, SwitchAssumption DEF SwitchAssumption, Free
    <3> QED
      BY <2>2, <3>1, <3>2, UnlockStep DEF OnTheWay, Wanted
  <2> QED
    BY <2>1, <2>2
<1>3. NoLostReschedule'
  <2> SUFFICES ASSUME NEW c \in Cores, pc'[c] = "guest"
               PROVE  current'[c] = Wanted(c)' \/ interrupted'[c] \/ \E b \in Actors : c \in ipis'[b]
    BY DEF NoLostReschedule
  <2>1. c # a /\ pc[c] = "guest"
    BY UnlockStep
  <2>2. CASE h[c] # highest[c]
    BY <2>1, <2>2, UnlockStep
  <2>3. CASE h[c] = highest[c]
    <3>1. /\ Wanted(c)' = Wanted(c) /\ UNCHANGED <<current, interrupted>>
          /\ \A b \in Actors : ipis[b] \subseteq ipis'[b]
      BY <2>3, UnlockStep DEF Wanted
    <3>2. current[c] = Wanted(c) \/ interrupted[c] \/ \E b \in Actors : c \in ipis[b]
      BY <2>1 DEF IInv, Informed, NoLostReschedule
    <3> QED BY <3>1, <3>2, Zenon
  <2> QED
    BY <2>2, <2>3
<1> QED
  BY <1>1, <1>2, <1>3 DEF Informed

\* A section moves no context.
LEMMA SectionExclusive ==
  ASSUME IInv, NEW a \in Actors, NEW h \in Choices, Free(a), Unlock(a, h)
  PROVE  Exclusive'
<1>1. \A c \in Cores : Holds(c)' <=> Holds(c)
  BY UnlockStep, SwitchAssumption, Zenon DEF SwitchAssumption, Holds, Free
<1>2. \A c \in Cores : pc'[c] = "check" => pc[c] = "check"
  BY UnlockStep
<1>3. UNCHANGED <<current, target, guarded>>
  BY UnlockStep
<1> QED
  BY <1>1, <1>2, <1>3 DEF IInv, Exclusive, ContextOwned

\* Any operation on threads, by a core or by the host thread.
LEMMA RescheduleInv ==
  ASSUME IInv, NEW a \in Actors, Reschedule(a)
  PROVE  IInv'
<1>1. PICK h \in Choices : Unlock(a, h)
  BY DEF Reschedule
<1>2. Free(a) /\ terminated' = terminated
  BY DEF Reschedule
<1>3. TypeOK'
  BY <1>1, <1>2, UnlockStep DEF IInv, TypeOK, Choices
<1>4. Gone'
  BY <1>1, <1>2, UnlockStep, SwitchAssumption, ThreadsAssumption DEF ThreadsAssumption, SwitchAssumption, IInv, TypeOK, Gone, ExitNeverReturns, Choices
<1>5. Targeted'
  BY <1>1, <1>2, UnlockStep DEF IInv, Targeted
<1> QED
  BY <1>1, <1>2, <1>3, <1>4, <1>5, SectionInformed, SectionExclusive DEF IInv

\* The thread that exits is no core's choice any more.
LEMMA ExitInv ==
  ASSUME IInv, NEW c \in Cores, Exit(c)
  PROVE  IInv'
<1>1. PICK h \in Choices : current[c] \notin {h[d] : d \in Cores} /\ Unlock(c, h)
  BY DEF Exit
<1>2. Free(c) /\ current[c] \in Threads /\ terminated' = terminated \cup {current[c]}
  BY SwitchAssumption DEF SwitchAssumption, Exit, Free
<1>3. TypeOK'
  BY <1>1, <1>2, UnlockStep DEF IInv, TypeOK, Choices
<1>4. Gone'
  <2>1. \A d \in Cores : highest'[d] \notin terminated'
    BY <1>1, <1>2, UnlockStep, SwitchAssumption, ThreadsAssumption DEF ThreadsAssumption, SwitchAssumption, IInv, TypeOK, Choices
  <2>2. \A d \in Cores : pc'[d] = "guest" => d # c /\ pc[d] = "guest"
    BY <1>1, <1>2, UnlockStep, Zenon
  <2>3. \A d \in Cores : d # c /\ pc[d] = "guest" => current[d] # current[c]
    BY <1>2, SwitchAssumption DEF SwitchAssumption, IInv, Exclusive, ContextOwned, Holds, Free
  <2> QED
    BY <1>1, <1>2, <2>1, <2>2, <2>3, UnlockStep, Zenon DEF IInv, Gone, ExitNeverReturns
<1>5. Targeted'
  BY <1>1, <1>2, UnlockStep, Zenon DEF IInv, Targeted
<1> QED
  BY <1>1, <1>2, <1>3, <1>4, <1>5, SectionInformed, SectionExclusive DEF IInv

\* An interrupt that was still to be sent is pending once it is sent.
LEMMA InterruptInv ==
  ASSUME IInv, NEW a \in Actors, Interrupt(a)
  PROVE  IInv'
<1>1. PICK c \in ipis[a] :
        /\ interrupted' = [interrupted EXCEPT ![c] = TRUE]
        /\ ipis' = [ipis EXCEPT ![a] = @ \ {c}]
        /\ UNCHANGED <<highest, needs, current, target, guarded, terminated, pc>>
  BY Zenon DEF Interrupt
<1>2. c \in Cores
  BY <1>1 DEF IInv, TypeOK
<1>3. TypeOK'
  BY <1>1, <1>2 DEF IInv, TypeOK
<1>4. Exclusive'
  BY <1>1 DEF IInv, Exclusive, ContextOwned, Holds
<1>5. Informed'
  <2>1. \A d \in Cores : OnTheWay(d)' /\ Sent(d)'
    BY <1>1, <1>2 DEF IInv, TypeOK, Informed, OnTheWay, Sent, Wanted
  <2>2. NoLostReschedule'
    BY <1>1, <1>2 DEF IInv, TypeOK, Informed, NoLostReschedule, Wanted
  <2> QED
    BY <2>1, <2>2 DEF Informed
<1>6. Gone'
  BY <1>1 DEF IInv, Gone, ExitNeverReturns
<1>7. Targeted'
  BY <1>1 DEF IInv, Targeted
<1> QED
  BY <1>3, <1>4, <1>5, <1>6, <1>7 DEF IInv

\* A step of the switch fiber of core c leaves the other cores alone, and the interrupts
\* that are still to be sent; the flag that it clears is its own.
LEMMA SwitchingLocal ==
  ASSUME IInv, NEW c \in Cores, Switching(c)
  PROVE  /\ UNCHANGED <<highest, ipis, terminated>>
         /\ \A d \in Cores \ {c} : /\ pc'[d] = pc[d]
                                   /\ needs'[d] = needs[d]
                                   /\ interrupted'[d] = interrupted[d]
                                   /\ current'[d] = current[d]
                                   /\ target'[d] = target[d]
         /\ TypeOK'
<1>1. \A d \in Cores : Wanted(d) \in Contexts
  BY DEF Wanted, Contexts, IInv, TypeOK
<1>2. CASE RescheduleCurrentCore(c)
  BY <1>2 DEF RescheduleCurrentCore, Goto, IInv, TypeOK
<1>3. CASE HandleInterrupt(c)
  BY <1>3 DEF HandleInterrupt, Goto, IInv, TypeOK
<1>4. CASE LoadHighest(c)
  BY <1>1, <1>4 DEF LoadHighest, Goto, Unload, IInv, TypeOK
<1>5. CASE SwitchThread(c) /\ target[c] # NoThread
  BY <1>5 DEF SwitchThread, Goto, IInv, TypeOK
<1>6. CASE LockInterfered(c)
  BY <1>6 DEF LockInterfered, Retry, Goto, IInv, TypeOK
<1>7. CASE CompleteSwitch(c)
  BY <1>7 DEF CompleteSwitch, Goto, IInv, TypeOK
<1>8. CASE SwitchInterfered(c)
  BY <1>8 DEF SwitchInterfered, Retry, Goto, IInv, TypeOK
<1>9. CASE RefreshHighest(c)
  BY <1>1, <1>9 DEF RefreshHighest, Goto, IInv, TypeOK
<1>10. SwitchThread(c) => target[c] # NoThread
  BY DEF SwitchThread, IInv, Targeted
<1> QED
  BY <1>2, <1>3, <1>4, <1>5, <1>6, <1>7, <1>8, <1>9, <1>10, Zenon DEF Switching

\* The guards stay with the cores that hold the contexts.
LEMMA SwitchingExclusive ==
  ASSUME IInv, NEW c \in Cores, Switching(c)
  PROVE  Exclusive'
<1> USE DEF IInv, Exclusive, ContextOwned, Holds, TypeOK, Goto
<1>1. CASE RescheduleCurrentCore(c)
  BY <1>1 DEF RescheduleCurrentCore
<1>2. CASE HandleInterrupt(c)
  BY <1>2 DEF HandleInterrupt
<1>3. CASE LoadHighest(c)
  BY <1>3 DEF LoadHighest, Unload
<1>4. CASE SwitchThread(c)
  BY <1>4 DEF SwitchThread, Lockable
<1>5. CASE LockInterfered(c)
  BY <1>5 DEF LockInterfered, Retry
<1>6. CASE CompleteSwitch(c)
  BY <1>6 DEF CompleteSwitch
<1>7. CASE SwitchInterfered(c)
  BY <1>7 DEF SwitchInterfered, Retry
<1>8. CASE RefreshHighest(c)
  BY <1>8 DEF RefreshHighest
<1> QED
  BY <1>1, <1>2, <1>3, <1>4, <1>5, <1>6, <1>7, <1>8, Zenon DEF Switching

\* Where core c itself gets to: when its flag is down, it is on the way to its thread.
LEMMA SwitchingOnTheWay ==
  ASSUME IInv, NEW c \in Cores, Switching(c)
  PROVE  /\ OnTheWay(c)'
         /\ Sent(c)'
         /\ pc'[c] = "guest" => current'[c] = Wanted(c)' /\ highest[c] \notin terminated
<1> USE DEF IInv, TypeOK, Goto
<1>0. OnTheWay(c) /\ Sent(c) /\ highest[c] \notin terminated /\ highest' = highest
  BY SwitchingLocal DEF Informed, Gone
<1>a. Wanted(c)' = Wanted(c)
  BY <1>0 DEF Wanted
<1> USE DEF OnTheWay, Sent
<1>1. CASE RescheduleCurrentCore(c)
  BY <1>0, <1>a, <1>1 DEF RescheduleCurrentCore
<1>2. CASE HandleInterrupt(c)
  BY <1>0, <1>a, <1>2 DEF HandleInterrupt
<1>3. CASE LoadHighest(c)
  <2>1. highest[c] = current[c] => current[c] = Wanted(c)
    BY SwitchAssumption, ThreadsAssumption DEF SwitchAssumption, ThreadsAssumption, Wanted, Contexts
  <2> QED
    BY <1>0, <1>a, <1>3, <2>1 DEF LoadHighest
<1>4. CASE SwitchThread(c)
  BY <1>0, <1>a, <1>4 DEF SwitchThread
<1>5. CASE LockInterfered(c)
  BY <1>0, <1>a, <1>5 DEF LockInterfered, Retry
<1>6. CASE CompleteSwitch(c)
  BY <1>0, <1>a, <1>6 DEF CompleteSwitch, Exclusive
<1>7. CASE SwitchInterfered(c)
  BY <1>0, <1>a, <1>7 DEF SwitchInterfered, Retry
<1>8. CASE RefreshHighest(c)
  BY <1>0, <1>a, <1>8 DEF RefreshHighest
<1> QED
  BY <1>1, <1>2, <1>3, <1>4, <1>5, <1>6, <1>7, <1>8, Zenon DEF Switching

\* A step of a switch fiber.
LEMMA SwitchingInv ==
  ASSUME IInv, NEW c \in Cores, Switching(c)
  PROVE  IInv'
<1>1. TypeOK' /\ Exclusive'
  BY SwitchingLocal, SwitchingExclusive
<1>2. \A d \in Cores : Wanted(d)' = Wanted(d)
  BY SwitchingLocal DEF Wanted
<1>3. Informed'
  <2>1. ASSUME NEW d \in Cores, d # c PROVE OnTheWay(d)' /\ Sent(d)'
    BY <1>2, <2>1, SwitchingLocal DEF IInv, Informed, OnTheWay, Sent
  <2>2. NoLostReschedule'
    BY <1>2, SwitchingLocal, SwitchingOnTheWay, Zenon DEF IInv, Informed, NoLostReschedule
  <2> QED
    BY <2>1, <2>2, SwitchingOnTheWay DEF Informed
<1>4. Gone'
  <2>1. \A d \in Cores : highest'[d] \notin terminated'
    BY SwitchingLocal DEF IInv, Gone
  <2>2. pc'[c] = "guest" => current'[c] \notin terminated'
    BY <1>2, SwitchingLocal, SwitchingOnTheWay, SwitchAssumption, Zenon DEF SwitchAssumption, Wanted, IInv, TypeOK
  <2>3. \A d \in Cores \ {c} : pc'[d] = "guest" => current'[d] \notin terminated'
    BY SwitchingLocal, Zenon DEF IInv, Gone, ExitNeverReturns
  <2> QED
    BY <2>1, <2>2, <2>3 DEF Gone, ExitNeverReturns
<1>5. Targeted'
  <2>1. \A d \in Cores : Wanted(d) # NoThread
    BY SwitchAssumption DEF SwitchAssumption, Wanted
  <2>2. pc'[c] \in {"lock", "check"} => target'[c] # NoThread
    BY <2>1 DEF Switching, RescheduleCurrentCore, HandleInterrupt, LoadHighest, SwitchThread,
                LockInterfered, CompleteSwitch, SwitchInterfered, RefreshHighest, Retry, Goto,
                IInv, TypeOK, Targeted
  <2> QED
    BY <2>2, SwitchingLocal, Zenon DEF IInv, Targeted
<1> QED
  BY <1>1, <1>3, <1>4, <1>5 DEF IInv

\* The inductive invariant holds of every reachable state.
THEOREM Invariance == Spec => []IInv
<1>1. IInv /\ [Next]_vars => IInv'
  <2> SUFFICES ASSUME IInv, [Next]_vars PROVE IInv'
    OBVIOUS
  <2>1. CASE Section
    BY <2>1, RescheduleInv, ExitInv DEF Section
  <2>2. ASSUME NEW a \in Actors, Interrupt(a) PROVE IInv'
    BY <2>2, InterruptInv
  <2>3. ASSUME NEW c \in Cores, Switching(c) PROVE IInv'
    BY <2>3, SwitchingInv
  <2>4. CASE UNCHANGED vars
    BY <2>4 DEF vars, IInv, TypeOK, Contexts, Exclusive, ContextOwned, Holds, Informed, OnTheWay,
                Sent, NoLostReschedule, Wanted, Gone, ExitNeverReturns, Targeted
  <2> QED
    BY <2>1, <2>2, <2>3, <2>4 DEF Next
<1> QED
  BY InitInv, <1>1, PTL DEF Spec

\* The variables of the scheduler and of the switch fiber keep their types.
THEOREM TypeCorrect == Spec => []TypeOK
<1>1. IInv => TypeOK
  BY DEF IInv
<1> QED
  BY <1>1, Invariance, PTL

\* However many cores there are, no two of them hold the context of the same thread.
THEOREM ThreadRunsOnce == Spec => []ContextOwned
<1>1. IInv => ContextOwned
  BY DEF IInv, Exclusive
<1> QED
  BY <1>1, Invariance, PTL

\* No core stays in guest code with the wrong thread and no interrupt on its way.
THEOREM RescheduleArrives == Spec => []NoLostReschedule
<1>1. IInv => NoLostReschedule
  BY DEF IInv, Informed
<1> QED
  BY <1>1, Invariance, PTL

\* KThread::Exit does not return, and no core resumes a thread that has exited.
THEOREM ExitIsFinal == Spec => []ExitNeverReturns
<1>1. IInv => ExitNeverReturns
  BY DEF IInv, Gone
<1> QED
  BY <1>1, Invariance, PTL
-----------------------------------------------------------------------------
(***************************************************************************)
(* KHardwareTimer.  NextIsEarliest and TaskOfThisWait are inductive with   *)
(* the types; Armed also needs WakeupPending: a registration that finds an *)
(* interrupt enabled for an earlier time relies on its event, although the *)
(* task that enabled it may have been cancelled.                           *)
(***************************************************************************)

\* The inductive invariant.
TimerInv == TimerTypeOK /\ NextIsEarliest /\ Armed /\ WakeupPending /\ TaskOfThisWait

USE ThreadsAssumption, TimerAssumption DEF ThreadsAssumption, TimerAssumption
-----------------------------------------------------------------------------
\* The timer starts without tasks and with its interrupt disabled.
LEMMA InitTimerInv == TimerInit => TimerInv
  BY DEF TimerInit, TimerInv, TimerTypeOK, NextIsEarliest, Armed, WakeupPending, TaskOfThisWait,
         Tasks, Times, Never, SchedulerFree

\* If some task follows t in the tree, there is a first one after it.
LEMMA SuccessorExists ==
  ASSUME TimerTypeOK, NEW t \in Threads, NEW u \in Tasks \ {t}, taskTime[u] >= taskTime[t]
  PROVE  Successors(t) # {}
  <1> DEFINE S == {taskTime[v] : v \in {w \in Tasks \ {t} : taskTime[w] >= taskTime[t]}}
  <1>1. S \in SUBSET Nat /\ S # {} BY DEF TimerTypeOK, Tasks
  <1>2. PICK m \in S : \A n \in S : m <= n BY <1>1, LeastNatural, Zenon
  <1>3. PICK v \in Tasks \ {t} : taskTime[v] >= taskTime[t] /\ taskTime[v] = m OBVIOUS
  <1>4. v \in Successors(t) BY <1>2, <1>3 DEF Successors
  <1> QED BY <1>4

\* Removing a task, from the front or from the middle of the tree, leaves the
\* earliest remaining one as the next task.
LEMMA RemoveKeepsEarliest ==
  ASSUME TimerTypeOK, NextIsEarliest, NEW t \in Tasks, RemoveTask(t)
  PROVE  /\ taskTime' \in [Threads -> 0..MaxTime]
         /\ nextTask' \in Threads \cup {NoThread}
         /\ Tasks' = Tasks \ {t}
         /\ \A u \in Tasks \ {t} : taskTime'[u] = taskTime[u]
         /\ NextIsEarliest'
  <1>1. t \in Threads /\ nextTask \in Tasks /\ Tasks \subseteq Threads
    BY DEF NextIsEarliest, Tasks
  <1>2. taskTime' = [taskTime EXCEPT ![t] = 0] BY DEF RemoveTask
  <1>3. taskTime' \in [Threads -> 0..MaxTime]
    <2>1. 0 \in 0..MaxTime OBVIOUS
    <2> QED BY <1>2, <2>1, Zenon DEF TimerTypeOK
  <1>4. Tasks' = Tasks \ {t} BY <1>1, <1>2 DEF Tasks, TimerTypeOK
  <1>5. \A u \in Tasks \ {t} : taskTime'[u] = taskTime[u] BY <1>1, <1>2 DEF TimerTypeOK
  <1>6. nextTask' \in NextAfter(t) BY DEF RemoveTask
  <1>7. CASE nextTask # t
    <2>1. nextTask' = nextTask BY <1>6, <1>7 DEF NextAfter
    <2> QED BY <1>1, <1>3, <1>4, <1>5, <1>7, <2>1 DEF NextIsEarliest
  <1>8. CASE nextTask = t
    <2>1. \A u \in Tasks \ {t} : taskTime[u] >= taskTime[t]
      BY <1>1, <1>8 DEF NextIsEarliest, TimerTypeOK
    <2>2. CASE Tasks \ {t} = {}
      <3>1. nextTask' = NoThread BY <1>6, <1>8, <2>2 DEF NextAfter, Successors
      <3> QED BY <1>3, <1>4, <1>5, <2>2, <3>1 DEF NextIsEarliest
    <2>3. CASE Tasks \ {t} # {}
      <3>1. Successors(t) # {} BY <1>1, <2>1, <2>3, SuccessorExists
      <3>2. nextTask' \in Successors(t) BY <1>6, <1>8, <3>1 DEF NextAfter
      <3>3. /\ nextTask' \in Tasks \ {t}
            /\ \A v \in Tasks \ {t} : taskTime[nextTask'] <= taskTime[v]
        BY <2>1, <3>2 DEF Successors
      <3> QED BY <1>1, <1>3, <1>4, <1>5, <3>3 DEF NextIsEarliest
    <2> QED BY <2>2, <2>3
  <1> QED BY <1>7, <1>8
-----------------------------------------------------------------------------
\* Beginning a wait keeps the invariant, whatever the timeout.
LEMMA BeginWaitTimerInv ==
  ASSUME TimerInv, NEW t \in Threads, NEW timeout \in 0..MaxTime, BeginWait(t, timeout)
  PROVE  TimerInv'
  <1> USE DEF TimerInv
  <1>1. TimerTypeOK'
    <2>1. timeout # 0 => timeout \in Times /\ timeout \in 1..Never BY DEF Times, Never
    <2>2. /\ taskTime' \in [Threads -> 0..MaxTime]
          /\ nextTask' \in Threads \cup {NoThread}
          /\ wakeup' \in 1..Never
          /\ events' \in SUBSET Times
      <3>1. CASE timeout > 0
        BY <2>1, <3>1 DEF BeginWait, Register, EnableInterrupt, TimerTypeOK
      <3>2. CASE ~ timeout > 0 BY <3>2 DEF BeginWait, taskVars, TimerTypeOK
      <3> QED BY <3>1, <3>2
    <2>3. /\ tstate' \in [Threads -> {"Runnable", "Waiting"}]
          /\ due' \in [Threads -> 0..MaxTime]
      BY DEF BeginWait, TimerTypeOK
    <2>4. timer' \in [Threads -> BOOLEAN] BY DEF BeginWait, TimerTypeOK
    <2> QED BY <2>2, <2>3, <2>4 DEF BeginWait, TimerTypeOK
  <1>2. t \notin Tasks /\ Tasks \subseteq Threads BY DEF BeginWait, TaskOfThisWait, Tasks
  <1>3. CASE timeout = 0
    <2>1. UNCHANGED <<taskVars, callback>> BY <1>3 DEF BeginWait
    <2>2. Tasks' = Tasks BY <2>1 DEF Tasks, taskVars
    <2>3. TaskOfThisWait' BY <1>2, <2>1, <2>2 DEF TaskOfThisWait, BeginWait, TimerTypeOK, taskVars
    <2>4. NextIsEarliest' BY <2>1, <2>2 DEF NextIsEarliest, taskVars
    <2>5. Armed' /\ WakeupPending'
      BY <2>1, <2>2 DEF Armed, WakeupPending, taskVars, SchedulerFree
    <2> QED BY <1>1, <2>3, <2>4, <2>5
  <1>4. CASE timeout > 0
    <2>1. Register(t, timeout) /\ callback' = callback /\ SchedulerFree
      BY <1>4 DEF BeginWait
    <2>2. taskTime' = [taskTime EXCEPT ![t] = timeout] BY <2>1 DEF Register
    <2>3. Tasks' = Tasks \cup {t} BY <1>2, <1>4, <2>2 DEF Tasks, TimerTypeOK
    <2>4. /\ taskTime'[t] = timeout
          /\ \A u \in Tasks : taskTime'[u] = taskTime[u]
      BY <1>2, <2>2 DEF TimerTypeOK
    <2>5. TaskOfThisWait'
      BY <1>2, <1>4, <2>3, <2>4, Zenon DEF TaskOfThisWait, BeginWait, TimerTypeOK
    <2>6. CASE IsSooner(timeout)
      <3>1. nextTask' = t BY <2>1, <2>6 DEF Register
      <3>2. \A u \in Tasks : timeout <= taskTime[u]
        BY <1>2, <2>6 DEF IsSooner, NextIsEarliest, TimerTypeOK
      <3>3. NextIsEarliest' BY <2>3, <2>4, <3>1, <3>2, <1>4 DEF NextIsEarliest
      <3>4. CASE MustArm(timeout)
        <4>1. wakeup' = timeout /\ events' = {timeout}
          BY <2>1, <2>6, <3>4 DEF Register, EnableInterrupt
        <4> QED BY <1>1, <2>4, <2>5, <3>1, <3>3, <4>1 DEF Armed, WakeupPending
      <3>5. CASE ~ MustArm(timeout)
        <4>1. wakeup' = wakeup /\ events' = events /\ wakeup < timeout
          BY <2>1, <2>6, <3>5 DEF Register, MustArm, TimerTypeOK, Never
        <4>2. wakeup # Never BY <4>1 DEF Never
        <4> QED BY <1>1, <2>1, <2>4, <2>5, <3>1, <3>3, <4>1, <4>2
                DEF Armed, WakeupPending, TimerTypeOK, Never
      <3> QED BY <3>4, <3>5
    <2>7. CASE ~ IsSooner(timeout)
      <3>1. nextTask' = nextTask /\ wakeup' = wakeup /\ events' = events
        BY <2>1, <2>7 DEF Register
      <3>2. nextTask \in Tasks /\ taskTime[nextTask] <= timeout
        BY <2>7 DEF IsSooner, NextIsEarliest
      <3>3. NextIsEarliest' BY <2>3, <2>4, <3>1, <3>2, <1>2 DEF NextIsEarliest
      <3>4. Armed' /\ WakeupPending'
        BY <2>1, <2>4, <3>1, <3>2 DEF Armed, WakeupPending
      <3> QED BY <1>1, <2>5, <3>3, <3>4
    <2> QED BY <2>6, <2>7
  <1> QED BY <1>3, <1>4

\* Ending a wait keeps the invariant: its own task is removed and no other.
LEMMA EndWaitTimerInv ==
  ASSUME TimerInv, NEW t \in Threads, NEW r \in {"Success", "Cancelled"}, EndWait(t, r)
  PROVE  TimerInv'
  <1> USE DEF TimerInv
  <1>1. /\ wakeup' = wakeup /\ events' = events /\ callback' = callback /\ SchedulerFree
        /\ timer' = timer /\ due' = due /\ now' = now
        /\ tstate' = [tstate EXCEPT ![t] = "Runnable"]
        /\ result' = [result EXCEPT ![t] = r]
        /\ CancelTask(t)
    BY DEF EndWait
  <1>2. CASE t \in Tasks
    <2>1. RemoveTask(t) BY <1>1, <1>2 DEF CancelTask, TaskOfThisWait, Tasks
    <2>2. /\ taskTime' \in [Threads -> 0..MaxTime]
          /\ nextTask' \in Threads \cup {NoThread}
          /\ Tasks' = Tasks \ {t}
          /\ \A u \in Tasks \ {t} : taskTime'[u] = taskTime[u]
          /\ NextIsEarliest'
      BY <1>2, <2>1, RemoveKeepsEarliest
    <2>3. TimerTypeOK' BY <1>1, <2>2, Zenon DEF TimerTypeOK
    <2>4. TaskOfThisWait' BY <1>1, <2>2 DEF TaskOfThisWait, TimerTypeOK, Tasks
    <2>5. WakeupPending' BY <1>1 DEF WakeupPending
    <2>6. Armed'
      <3>1. SUFFICES ASSUME Tasks' # {} PROVE Armed' BY DEF Armed
      <3>2. nextTask' \in Tasks \ {t} BY <2>2, <3>1, Zenon DEF NextIsEarliest
      <3>3. wakeup <= taskTime[nextTask] /\ (wakeup \in events \/ callback = "called")
        BY <1>1, <1>2 DEF Armed
      <3>4. nextTask \in Threads /\ nextTask' \in Threads /\ taskTime[nextTask] <= taskTime[nextTask']
        BY <3>2 DEF NextIsEarliest, Tasks
      <3>5. wakeup <= taskTime[nextTask'] BY <3>3, <3>4 DEF TimerTypeOK, Never
      <3> QED BY <1>1, <2>2, <3>2, <3>3, <3>5 DEF Armed
    <2> QED BY <2>2, <2>3, <2>4, <2>5, <2>6
  <1>3. CASE t \notin Tasks
    <2>1. UNCHANGED <<taskTime, nextTask>> BY <1>1, <1>3, Zenon DEF CancelTask, Tasks
    <2>2. Tasks' = Tasks BY <2>1 DEF Tasks
    <2>3. TimerTypeOK' BY <1>1, <2>1 DEF TimerTypeOK
    <2>4. TaskOfThisWait' BY <1>1, <1>3, <2>1, <2>2 DEF TaskOfThisWait, TimerTypeOK, Tasks
    <2>5. NextIsEarliest' BY <2>1, <2>2 DEF NextIsEarliest
    <2>6. Armed' /\ WakeupPending'
      BY <1>1, <2>1, <2>2 DEF Armed, WakeupPending, SchedulerFree
    <2> QED BY <2>3, <2>4, <2>5, <2>6
  <1> QED BY <1>2, <1>3

\* An iteration of the interrupt loop removes the task of the wait that it ends.
LEMMA DoInterruptTaskTimerInv ==
  ASSUME TimerInv, DoInterruptTask
  PROVE  TimerInv'
  <1> USE DEF TimerInv
  <1> DEFINE t == nextTask
  <1>1. t \in Tasks /\ t \in Threads
    BY DEF DoInterruptTask, NextIsDue, NextIsEarliest, Tasks
  <1>2. /\ callback = "running" /\ callback' = callback
        /\ wakeup' = wakeup /\ events' = events /\ now' = now
        /\ timer' = timer /\ due' = due
        /\ RemoveTask(t)
    BY DEF DoInterruptTask
  <1>3. /\ tstate' = [tstate EXCEPT ![t] = "Runnable"]
        /\ result' = [result EXCEPT ![t] = "TimedOut"]
    BY <1>1 DEF DoInterruptTask, TaskOfThisWait
  <1> HIDE DEF t
  <1>4. /\ taskTime' \in [Threads -> 0..MaxTime]
        /\ nextTask' \in Threads \cup {NoThread}
        /\ Tasks' = Tasks \ {t}
        /\ \A u \in Tasks \ {t} : taskTime'[u] = taskTime[u]
        /\ NextIsEarliest'
    BY <1>1, <1>2, RemoveKeepsEarliest
  <1>5. TimerTypeOK' BY <1>2, <1>3, <1>4, Zenon DEF TimerTypeOK
  <1>6. TaskOfThisWait' BY <1>2, <1>3, <1>4 DEF TaskOfThisWait, TimerTypeOK, Tasks
  <1>7. Armed' /\ WakeupPending' BY <1>2 DEF Armed, WakeupPending, SchedulerFree
  <1> QED BY <1>4, <1>5, <1>6, <1>7

\* Every step keeps the invariant.
LEMMA NextTimerInv == TimerInv /\ [TimerNext]_timerVars => TimerInv'
  <1> SUFFICES ASSUME TimerInv, [TimerNext]_timerVars PROVE TimerInv' OBVIOUS
  <1> USE DEF TimerInv
  <1>1. CASE Tick
    <2>1. /\ UNCHANGED <<taskTime, nextTask, wakeup, events, callback, tstate, timer, result, due>>
          /\ now' \in Times
      BY <1>1 DEF Tick, taskVars, TimerTypeOK, Times
    <2>2. Tasks' = Tasks BY <2>1 DEF Tasks
    <2>3. TimerTypeOK' BY <2>1 DEF TimerTypeOK
    <2> QED BY <2>1, <2>2, <2>3, Zenon
            DEF NextIsEarliest, Armed, WakeupPending, TaskOfThisWait, SchedulerFree
  <1>2. CASE Advance
    <2>1. /\ UNCHANGED <<now, taskTime, nextTask, wakeup, tstate, timer, result, due>>
          /\ events' \in SUBSET Times /\ callback = "none" /\ callback' = "called"
      BY <1>2 DEF Advance, TimerTypeOK
    <2>2. Tasks' = Tasks BY <2>1 DEF Tasks
    <2>3. TimerTypeOK' BY <2>1 DEF TimerTypeOK
    <2>4. NextIsEarliest' /\ TaskOfThisWait' BY <2>1, <2>2 DEF NextIsEarliest, TaskOfThisWait
    <2>5. Armed' /\ WakeupPending'
      BY <2>1, <2>2 DEF Armed, WakeupPending, SchedulerFree
    <2> QED BY <2>3, <2>4, <2>5
  <1>3. CASE DoTask
    <2>1. /\ UNCHANGED <<now, taskTime, nextTask, events, tstate, timer, result, due>>
          /\ callback = "called" /\ wakeup' = Never
      BY <1>3 DEF DoTask, Acknowledge
    <2>2. Tasks' = Tasks BY <2>1 DEF Tasks
    <2>3. callback' = "running" \/ (callback' = "none" /\ wakeup = Never)
      BY <1>3 DEF DoTask
    <2>4. TimerTypeOK' BY <2>1, <2>3 DEF TimerTypeOK, Never
    <2>5. NextIsEarliest' /\ TaskOfThisWait' BY <2>1, <2>2 DEF NextIsEarliest, TaskOfThisWait
    <2>6. wakeup = Never => Tasks = {}
      <3>1. Tasks # {} => nextTask \in Threads /\ wakeup <= taskTime[nextTask]
        BY <2>1 DEF Armed, SchedulerFree, NextIsEarliest, Tasks
      <3> QED BY <3>1 DEF TimerTypeOK, Never
    <2>7. Armed' /\ WakeupPending'
      BY <2>1, <2>2, <2>3, <2>6 DEF Armed, WakeupPending, SchedulerFree
    <2> QED BY <2>4, <2>5, <2>7
  <1>4. CASE DoInterruptTask BY <1>4, DoInterruptTaskTimerInv
  <1>5. CASE DoTaskEnd
    <2>1. /\ UNCHANGED <<now, taskTime, nextTask, tstate, timer, result, due>>
          /\ callback = "running" /\ callback' = "none" /\ Rearm
      BY <1>5 DEF DoTaskEnd
    <2>2. Tasks' = Tasks BY <2>1 DEF Tasks
    <2>3. NextIsEarliest' /\ TaskOfThisWait' BY <2>1, <2>2 DEF NextIsEarliest, TaskOfThisWait
    <2>4. CASE nextTask = NoThread
      <3>1. wakeup' = wakeup /\ events' = events /\ Tasks = {}
        BY <2>1, <2>4 DEF Rearm, NextIsEarliest
      <3>2. TimerTypeOK' BY <2>1, <3>1 DEF TimerTypeOK
      <3> QED BY <2>1, <2>2, <2>3, <3>1, <3>2 DEF Armed, WakeupPending
    <2>5. CASE nextTask # NoThread
      <3>1. wakeup' = taskTime[nextTask] /\ events' = {taskTime[nextTask]}
        BY <2>1, <2>5 DEF Rearm, EnableInterrupt
      <3>2. taskTime[nextTask] \in 1..MaxTime
        BY <2>5 DEF NextIsEarliest, Tasks, TimerTypeOK
      <3>3. TimerTypeOK' BY <2>1, <3>1, <3>2 DEF TimerTypeOK, Times, Never
      <3> QED BY <2>1, <2>3, <3>1, <3>2, <3>3 DEF Armed, WakeupPending
    <2> QED BY <2>4, <2>5
  <1>6. ASSUME NEW t \in Threads, NEW timeout \in 0..MaxTime, BeginWait(t, timeout)
        PROVE  TimerInv'
    BY <1>6, BeginWaitTimerInv
  <1>7. ASSUME NEW t \in Threads, NEW r \in {"Success", "Cancelled"}, EndWait(t, r)
        PROVE  TimerInv'
    BY <1>7, EndWaitTimerInv
  <1>8. CASE UNCHANGED timerVars
    <2>1. Tasks' = Tasks BY <1>8 DEF timerVars, Tasks
    <2> QED BY <1>8, <2>1 DEF timerVars, TimerTypeOK, NextIsEarliest, Armed, WakeupPending,
               TaskOfThisWait, SchedulerFree
  <1> QED BY <1>1, <1>2, <1>3, <1>4, <1>5, <1>6, <1>7, <1>8 DEF TimerNext

\* The invariant holds throughout.
LEMMA TimerInvariance == TimerSpec => []TimerInv
  BY InitTimerInv, NextTimerInv, PTL DEF TimerSpec
-----------------------------------------------------------------------------
\* The clock, the tasks and the interrupt of the timer stay in their domains: the event
\* is scheduled at an absolute time.
THEOREM TimerTypeCorrect == TimerSpec => []TimerTypeOK
  <1>1. TimerInv => TimerTypeOK BY DEF TimerInv
  <1> QED BY TimerInvariance, <1>1, PTL

\* RegisterAbsoluteTaskImpl and RemoveTaskFromTree keep m_next_task on the earliest task.
THEOREM Earliest == TimerSpec => []NextIsEarliest
  <1>1. TimerInv => NextIsEarliest BY DEF TimerInv
  <1> QED BY TimerInvariance, <1>1, PTL

\* No registration, cancellation or callback already on its way leaves a task without
\* an interrupt that comes in time.
THEOREM AlwaysArmed == TimerSpec => []Armed
  <1>1. TimerInv => Armed BY DEF TimerInv
  <1> QED BY TimerInvariance, <1>1, PTL

\* EndWait and CancelWait leave no task behind.
THEOREM NoStaleTask == TimerSpec => []TaskOfThisWait
  <1>1. TimerInv => TaskOfThisWait BY DEF TimerInv
  <1> QED BY TimerInvariance, <1>1, PTL

\* The timer is exact: it is armed for the earliest of its tasks (EnableInterrupt), and
\* these are the timeouts of the present waits.
THEOREM TimerIsExact == TimerSpec => []TimerExact
  <1> QED BY AlwaysArmed, NoStaleTask, PTL DEF TimerExact

\* Only DoInterruptTaskImpl times a wait out, and only when the wait's own time has come.
THEOREM TimeoutsOnTime == TimerSpec => NeverEarly
  <1> DEFINE OnTime == \A t \in Threads :
               tstate[t] = "Waiting" /\ tstate'[t] = "Runnable" /\ result'[t] = "TimedOut"
                 => due[t] > 0 /\ due[t] <= now
  <1>1. TimerInv /\ [TimerNext]_timerVars => [OnTime]_timerVars
    <2> SUFFICES ASSUME TimerInv, TimerNext, NEW t \in Threads, tstate[t] = "Waiting",
                        tstate'[t] = "Runnable", result'[t] = "TimedOut"
                 PROVE  due[t] > 0 /\ due[t] <= now
      OBVIOUS
    <2>1. CASE Tick \/ Advance \/ DoTask \/ DoTaskEnd
      BY <2>1 DEF Tick, Advance, DoTask, DoTaskEnd
    <2>2. CASE DoInterruptTask
      <3>1. t = nextTask /\ t \in Tasks /\ taskTime[t] <= now
        BY <2>2 DEF DoInterruptTask, NextIsDue, TimerInv, NextIsEarliest, TimerTypeOK
      <3> QED BY <3>1 DEF TimerInv, TaskOfThisWait, Tasks
    <2>3. ASSUME NEW u \in Threads, NEW timeout \in 0..MaxTime, BeginWait(u, timeout)
          PROVE  FALSE
      BY <2>3 DEF BeginWait, TimerInv, TimerTypeOK
    <2>4. ASSUME NEW u \in Threads, NEW r \in {"Success", "Cancelled"}, EndWait(u, r)
          PROVE  FALSE
      BY <2>4 DEF EndWait, TimerInv, TimerTypeOK
    <2> QED BY <2>1, <2>2, <2>3, <2>4 DEF TimerNext
  <1> QED BY TimerInvariance, <1>1, PTL DEF TimerSpec, NeverEarly
=============================================================================
