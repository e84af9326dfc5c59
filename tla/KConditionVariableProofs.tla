----------------------- MODULE KConditionVariableProofs -----------------------
(***************************************************************************)
(* User mutexes and condition variables for any number of threads, mutexes *)
(* and condition variables: no waiter is lost and the mutex word is a      *)
(* mutex, with timeouts, terminations and finalized owners.                *)
(***************************************************************************)
EXTENDS KConditionVariable, TLAPS

-----------------------------------------------------------------------------
(* The inductive invariant *)

\* A thread is queued only inside the system call that queued it, in one queue,
\* and only while nobody asked it to terminate.
QueueInv ==
  \A t \in Threads :
    /\ lockOwner[t] # NoThread => pc[t] \in {"waitlock", "waitcv"}
    /\ cvKey[t] # NoCv => pc[t] = "waitcv" /\ lockOwner[t] = NoThread
    /\ tstate[t] = "Waiting" <=> lockOwner[t] # NoThread \/ cvKey[t] # NoCv
    /\ tstate[t] = "Waiting" => life[t] = "live"

\* The word names the thread inside the critical section, and the one that Signal
\* or SignalToAddress woke with the mutex.
HolderInv ==
  \A t \in Threads :
    \/ pc[t] \in {"crit", "unlocking"}
    \/ pc[t] = "waitcv" /\ tstate[t] = "Runnable" /\ result[t] = "Success"
    => tagOwner[arg[t]] = t

\* svcArbitrateLock is called with the handle of a thread.
SeenInv == \A t \in Threads : pc[t] = "arbitrate" => seen[t] \in Threads

\* A Signal in progress works on a condition variable.
SignalInv == signal = NoSignal \/ signal.cv \in CondVars

IInv == /\ TypeOK /\ QueueInv /\ HolderInv /\ SeenInv /\ SignalInv
        /\ WaiterIsTagged /\ WaiterIsAnnounced /\ NoWaiterOnFinalized
-----------------------------------------------------------------------------
\* Initially every thread is outside, every word free.
LEMMA InitIInv == Init => IInv
  <1> SUFFICES ASSUME Init PROVE IInv OBVIOUS
  <1> USE CondVarAssumption DEF Init
  <1>1. TypeOK BY DEF TypeOK, NoSignal, Everyone
  <1>2. QueueInv /\ HolderInv /\ SeenInv BY DEF QueueInv, HolderInv, SeenInv
  <1>3. SignalInv /\ WaiterIsTagged /\ WaiterIsAnnounced /\ NoWaiterOnFinalized
    BY DEF SignalInv, WaiterIsTagged, WaiterIsAnnounced, NoWaiterOnFinalized
  <1> QED BY <1>1, <1>2, <1>3 DEF IInv

\* What RemoveUserWaiterByKey achieves: n gets the mutex t holds together with the
\* other waiters, or, when n is t, nobody waits and the word is free.
HandOver(t, n) ==
  /\ tagOwner[arg[t]] = t
  /\ tagOwner' = [tagOwner EXCEPT ![arg[t]] = IF n = t THEN NoThread ELSE n]
  /\ waitBit' \in [Mutexes -> BOOLEAN]
  /\ lockOwner' \in [Threads -> Threads \cup {NoThread}]
  /\ n # t => lockOwner[n] = t /\ arg[n] = arg[t]
  /\ lockOwner'[n] = NoThread
  /\ \A u \in Threads \ {n} : lockOwner'[u] = NoThread <=> lockOwner[u] = NoThread
  /\ \A u \in Threads : lockOwner'[u] # NoThread =>
       /\ tagOwner'[arg[u]] = lockOwner'[u]
       /\ waitBit'[arg[u]]
       /\ life[lockOwner'[u]] # "final"

\* The part SignalToAddress and Wait share hands the mutex over.
LEMMA PassOnHandsOver ==
  ASSUME IInv, NEW t \in Threads, NEW n \in Threads,
         pc[t] \in {"crit", "unlocking"}, PassOn(t, n)
  PROVE HandOver(t, n)
  <1> USE CondVarAssumption DEF IInv
  <1>1. tagOwner[arg[t]] = t BY DEF HolderInv
  <1>2. lockOwner[t] = NoThread BY DEF QueueInv, TypeOK
  <1>3. \A u \in Threads : lockOwner[u] # NoThread =>
          /\ tagOwner[arg[u]] = lockOwner[u] /\ waitBit[arg[u]]
          /\ life[lockOwner[u]] # "final"
    BY DEF WaiterIsTagged, NoWaiterOnFinalized
  <1>4. \A u \in Threads : lockOwner[u] # NoThread /\ arg[u] = arg[t] => u \in Waiters(t, arg[t])
    BY <1>1, <1>3 DEF Waiters
  <1>5. CASE Waiters(t, arg[t]) = {}
    <2>1. /\ n = t
          /\ tagOwner' = [tagOwner EXCEPT ![arg[t]] = NoThread]
          /\ waitBit' = [waitBit EXCEPT ![arg[t]] = FALSE]
          /\ lockOwner' = lockOwner
      BY <1>5 DEF PassOn
    <2>2. \A u \in Threads : lockOwner[u] # NoThread => arg[u] # arg[t] BY <1>4, <1>5
    <2>3. ASSUME NEW u \in Threads, lockOwner'[u] # NoThread
          PROVE /\ tagOwner'[arg[u]] = lockOwner'[u]
                /\ waitBit'[arg[u]]
                /\ life[lockOwner'[u]] # "final"
      BY <1>3, <2>1, <2>2, <2>3 DEF TypeOK
    <2> QED BY <1>1, <1>2, <2>1, <2>3 DEF HandOver, TypeOK
  <1>6. CASE Waiters(t, arg[t]) # {}
    <2> DEFINE W == Waiters(t, arg[t])
    <2>1. n \in W /\ lockOwner[n] = t /\ arg[n] = arg[t] /\ n # t
      BY <1>2, <1>6 DEF PassOn, Waiters
    <2>2. /\ tagOwner' = [tagOwner EXCEPT ![arg[t]] = n]
          /\ waitBit' = [waitBit EXCEPT ![arg[t]] = W \ {n} # {}]
          /\ lockOwner' = [u \in Threads |-> IF u = n THEN NoThread
                                             ELSE IF u \in W \ {n} THEN n
                                             ELSE lockOwner[u]]
      BY <1>6 DEF PassOn
    <2>3. life[n] = "live" BY <2>1 DEF QueueInv
    <2>4. \A u \in W : lockOwner[u] = t /\ arg[u] = arg[t] BY DEF Waiters
    <2> HIDE DEF W
    <2>5. ASSUME NEW u \in Threads, lockOwner'[u] # NoThread
          PROVE /\ tagOwner'[arg[u]] = lockOwner'[u]
                /\ waitBit'[arg[u]]
                /\ life[lockOwner'[u]] # "final"
      <3>1. CASE u \in W BY <2>1, <2>2, <2>3, <2>4, <2>5, <3>1 DEF TypeOK
      <3>2. CASE u \notin W
        <4>1. lockOwner'[u] = lockOwner[u] /\ arg[u] # arg[t]
          BY <1>4, <2>1, <2>2, <2>5, <3>2 DEF W
        <4> QED BY <1>3, <2>2, <2>5, <4>1 DEF TypeOK
      <3> QED BY <3>1, <3>2
    <2>6. waitBit' \in [Mutexes -> BOOLEAN] BY <2>2 DEF TypeOK
    <2>7. lockOwner' \in [Threads -> Threads \cup {NoThread}] BY <2>2 DEF TypeOK
    <2>8. \A u \in Threads \ {n} : lockOwner'[u] = NoThread <=> lockOwner[u] = NoThread
      BY <2>2, <2>4
    <2> QED BY <1>1, <2>1, <2>2, <2>5, <2>6, <2>7, <2>8 DEF HandOver
  <1> QED BY <1>5, <1>6

\* Every step of the guest, the kernel and the interfering threads keeps it.
LEMMA NextIInv == ASSUME IInv, [Next]_vars PROVE IInv'
  <1> USE CondVarAssumption
      DEF IInv, userVars, guestVars, waitVars, At, Alive, SchedulerFree
  <1>1. ASSUME NEW t \in Threads, NEW m \in Mutexes, GuestLock(t, m) PROVE IInv'
    <2>1. TypeOK'
      BY <1>1 DEF GuestLock, TypeOK
    <2>2. QueueInv'
      BY <1>1 DEF GuestLock, TypeOK, QueueInv
    <2>3. HolderInv'
      BY <1>1 DEF GuestLock, TypeOK, HolderInv
    <2>4. SeenInv' /\ SignalInv' /\ WaiterIsAnnounced'
      BY <1>1 DEF GuestLock, TypeOK, SeenInv, SignalInv, WaiterIsAnnounced
    <2>5. WaiterIsTagged' /\ NoWaiterOnFinalized'
      BY <1>1 DEF GuestLock, TypeOK, WaiterIsTagged, QueueInv, NoWaiterOnFinalized
    <2> QED BY <2>1, <2>2, <2>3, <2>4, <2>5
  <1>2. ASSUME NEW t \in Threads, GuestTryLock(t) PROVE IInv'
    <2>1. TypeOK'
      <3>1. tagOwner' \in [Mutexes -> Threads \cup {NoThread}]
        BY <1>2 DEF GuestTryLock, TypeOK
      <3>2. waitBit' \in [Mutexes -> BOOLEAN] BY <1>2 DEF GuestTryLock, TypeOK
      <3>3. seen' \in [Threads -> Threads \cup {NoThread}] BY <1>2 DEF GuestTryLock, TypeOK
      <3> QED BY <1>2, <3>1, <3>2, <3>3 DEF GuestTryLock, TypeOK
    <2>2. QueueInv'
      BY <1>2 DEF GuestTryLock, TypeOK, QueueInv
    <2>3. HolderInv'
      BY <1>2 DEF GuestTryLock, TypeOK, HolderInv
    <2>4. SeenInv' /\ SignalInv' /\ WaiterIsAnnounced'
      BY <1>2 DEF GuestTryLock, TypeOK, SeenInv, SignalInv, WaiterIsAnnounced
    <2>5. WaiterIsTagged'
      BY <1>2 DEF GuestTryLock, TypeOK, WaiterIsTagged, QueueInv
    <2>6. NoWaiterOnFinalized'
      BY <1>2 DEF GuestTryLock, TypeOK, NoWaiterOnFinalized
    <2> QED BY <2>1, <2>2, <2>3, <2>4, <2>5, <2>6
  <1>3. ASSUME NEW t \in Threads, GuestUnlock(t) PROVE IInv'
    <2>1. TypeOK'
      BY <1>3 DEF GuestUnlock, TypeOK
    <2>2. QueueInv'
      BY <1>3 DEF GuestUnlock, TypeOK, QueueInv
    <2>3. HolderInv'
      BY <1>3 DEF GuestUnlock, TypeOK, HolderInv
    <2>4. SeenInv' /\ SignalInv' /\ WaiterIsAnnounced'
      BY <1>3 DEF GuestUnlock, TypeOK, SeenInv, SignalInv, WaiterIsAnnounced
    <2>5. WaiterIsTagged' /\ NoWaiterOnFinalized'
      BY <1>3 DEF GuestUnlock, TypeOK, WaiterIsTagged, NoWaiterOnFinalized
    <2> QED BY <2>1, <2>2, <2>3, <2>4, <2>5
  <1>4. ASSUME NEW t \in Threads, WaitForAddressReturn(t) PROVE IInv'
    <2>1. TypeOK'
      BY <1>4 DEF WaitForAddressReturn, TypeOK
    <2>2. QueueInv'
      BY <1>4 DEF WaitForAddressReturn, TypeOK, QueueInv
    <2>3. HolderInv'
      BY <1>4 DEF WaitForAddressReturn, TypeOK, HolderInv
    <2>4. SeenInv' /\ SignalInv' /\ WaiterIsAnnounced'
      BY <1>4 DEF WaitForAddressReturn, TypeOK, SeenInv, SignalInv, WaiterIsAnnounced
    <2>5. WaiterIsTagged' /\ NoWaiterOnFinalized'
      BY <1>4 DEF WaitForAddressReturn, TypeOK, WaiterIsTagged, NoWaiterOnFinalized
    <2> QED BY <2>1, <2>2, <2>3, <2>4, <2>5
  <1>5. ASSUME NEW t \in Threads, WaitReturn(t) PROVE IInv'
    <2>1. TypeOK'
      BY <1>5 DEF WaitReturn, TypeOK
    <2>2. QueueInv'
      BY <1>5 DEF WaitReturn, TypeOK, QueueInv
    <2>3. HolderInv'
      BY <1>5 DEF WaitReturn, TypeOK, HolderInv
    <2>4. SeenInv' /\ SignalInv' /\ WaiterIsAnnounced'
      BY <1>5 DEF WaitReturn, TypeOK, SeenInv, SignalInv, WaiterIsAnnounced
    <2>5. WaiterIsTagged' /\ NoWaiterOnFinalized'
      BY <1>5 DEF WaitReturn, TypeOK, WaiterIsTagged, NoWaiterOnFinalized
    <2> QED BY <2>1, <2>2, <2>3, <2>4, <2>5
  <1>6. ASSUME NEW t \in Threads, WaitForAddress(t) PROVE IInv'
    <2>1. TypeOK'
      BY <1>6 DEF WaitForAddress, TagIs, Resolves, TypeOK, SeenInv
    <2>2. QueueInv'
      BY <1>6 DEF WaitForAddress, TagIs, Resolves, TypeOK, QueueInv, SeenInv
    <2>3. HolderInv'
      BY <1>6 DEF WaitForAddress, TagIs, Resolves, TypeOK, HolderInv
    <2>4. SeenInv' /\ SignalInv' /\ WaiterIsAnnounced'
      BY <1>6 DEF WaitForAddress, TagIs, Resolves, TypeOK, SeenInv, SignalInv, WaiterIsAnnounced
    <2>5. WaiterIsTagged'
      BY <1>6 DEF WaitForAddress, TagIs, Resolves, TypeOK, WaiterIsTagged, SeenInv
    <2>6. NoWaiterOnFinalized'
      BY <1>6 DEF WaitForAddress, TagIs, Resolves, TypeOK, NoWaiterOnFinalized, SeenInv
    <2> QED BY <2>1, <2>2, <2>3, <2>4, <2>5, <2>6
  <1>7. ASSUME NEW t \in Threads, NEW n \in Threads, SignalToAddress(t, n) PROVE IInv'
    <2>0. HandOver(t, n) BY <1>7, PassOnHandsOver DEF SignalToAddress
    <2>1. TypeOK' BY <1>7, <2>0 DEF TypeOK, HandOver, SignalToAddress
    <2>2. QueueInv' BY <1>7, <2>0 DEF TypeOK, QueueInv, HandOver, SignalToAddress
    <2>3. HolderInv' BY <1>7, <2>0 DEF TypeOK, HolderInv, QueueInv, HandOver, SignalToAddress
    <2>4. SeenInv' /\ SignalInv' /\ WaiterIsAnnounced'
      BY <1>7 DEF TypeOK, SeenInv, SignalInv, WaiterIsAnnounced, SignalToAddress
    <2>5. WaiterIsTagged' /\ NoWaiterOnFinalized'
      BY <1>7, <2>0 DEF WaiterIsTagged, NoWaiterOnFinalized, HandOver, SignalToAddress
    <2> QED BY <2>1, <2>2, <2>3, <2>4, <2>5
  <1>8. ASSUME NEW t \in Threads, NEW c \in CondVars, NEW n \in Threads,
               NEW timeout \in {"zero", "positive", "infinite"}, Wait(t, c, n, timeout)
        PROVE IInv'
    <2>0. /\ HandOver(t, n)
          /\ pc[t] = "crit" /\ tstate[t] = "Runnable" /\ life[t] = "live"
          /\ cvFlag' = [cvFlag EXCEPT ![c] = 1]
          /\ UNCHANGED <<arg, seen, life, signal, crashed>>
      BY <1>8, PassOnHandsOver DEF Wait
    <2>1. CASE timeout = "zero"
      <3>0. /\ pc' = [pc EXCEPT ![t] = "locking"]
            /\ tstate' = [tstate EXCEPT ![n] = "Runnable"]
            /\ result' = [result EXCEPT ![n] = "Success", ![t] = "TimedOut"]
            /\ timed' = [timed EXCEPT ![n] = FALSE]
            /\ UNCHANGED cvKey
        BY <1>8, <2>1 DEF Wait
      <3>1. TypeOK' BY <2>0, <3>0 DEF TypeOK, HandOver
      <3>2. QueueInv' BY <2>0, <3>0 DEF TypeOK, QueueInv, HandOver
      <3>3. HolderInv' BY <2>0, <3>0 DEF TypeOK, HolderInv, QueueInv, HandOver
      <3>4. SeenInv' /\ SignalInv' /\ WaiterIsAnnounced'
        BY <2>0, <3>0 DEF TypeOK, SeenInv, SignalInv, WaiterIsAnnounced
      <3>5. WaiterIsTagged' /\ NoWaiterOnFinalized'
        BY <2>0 DEF WaiterIsTagged, NoWaiterOnFinalized, HandOver
      <3> QED BY <3>1, <3>2, <3>3, <3>4, <3>5
    <2>2. CASE timeout # "zero"
      <3>0. /\ pc' = [pc EXCEPT ![t] = "waitcv"]
            /\ tstate' = [tstate EXCEPT ![n] = "Runnable", ![t] = "Waiting"]
            /\ result' = [result EXCEPT ![n] = "Success"]
            /\ timed' = [timed EXCEPT ![n] = FALSE, ![t] = timeout = "positive"]
            /\ cvKey' = [cvKey EXCEPT ![t] = c]
        BY <1>8, <2>2 DEF Wait
      <3>1. TypeOK' BY <2>0, <3>0 DEF TypeOK, HandOver
      <3>2. QueueInv' BY <2>0, <3>0 DEF TypeOK, QueueInv, HandOver
      <3>3. HolderInv' BY <2>0, <3>0 DEF TypeOK, HolderInv, QueueInv, HandOver
      <3>4. SeenInv' /\ SignalInv' /\ WaiterIsAnnounced'
        BY <2>0, <3>0 DEF TypeOK, SeenInv, SignalInv, WaiterIsAnnounced
      <3>5. WaiterIsTagged' /\ NoWaiterOnFinalized'
        BY <2>0 DEF WaiterIsTagged, NoWaiterOnFinalized, HandOver
      <3> QED BY <3>1, <3>2, <3>3, <3>4, <3>5
    <2> QED BY <2>1, <2>2
  <1>9. ASSUME NEW t \in Threads, NEW c \in CondVars, NEW count \in {1, Everyone},
               Signal(t, c, count)
        PROVE IInv'
    <2>1. TypeOK'
      BY <1>9 DEF Signal, TypeOK
    <2>2. QueueInv'
      BY <1>9 DEF Signal, TypeOK, QueueInv
    <2>3. HolderInv'
      BY <1>9 DEF Signal, TypeOK, HolderInv
    <2>4. SeenInv' /\ SignalInv' /\ WaiterIsAnnounced'
      BY <1>9 DEF Signal, TypeOK, SeenInv, SignalInv, WaiterIsAnnounced
    <2>5. WaiterIsTagged' /\ NoWaiterOnFinalized'
      BY <1>9 DEF Signal, TypeOK, WaiterIsTagged, NoWaiterOnFinalized
    <2> QED BY <2>1, <2>2, <2>3, <2>4, <2>5
  <1>10. ASSUME NEW w \in Threads, SignalImpl(w) PROVE IInv'
    <2>1. TypeOK'
      <3>1. tagOwner' \in [Mutexes -> Threads \cup {NoThread}] /\ waitBit' \in [Mutexes -> BOOLEAN]
        BY <1>10 DEF SignalImpl, TagOwner, TagBit, TypeOK
      <3>2. signal' \in [by : Threads \cup {NoThread}, cv : CondVars \cup {NoCv},
                         left : {Everyone, 0, 1}]
        BY <1>10 DEF SignalImpl, OneLess, TypeOK, Everyone
      <3>3. /\ lockOwner' \in [Threads -> Threads \cup {NoThread}]
            /\ cvKey' \in [Threads -> CondVars \cup {NoCv}]
        BY <1>10 DEF SignalImpl, TypeOK
      <3>4. /\ tstate' \in [Threads -> {"Runnable", "Waiting"}]
            /\ result' \in [Threads -> {"Success", "TimedOut", "Terminated", "InvalidState",
                                        "InvalidHandle"}]
            /\ timed' \in [Threads -> BOOLEAN]
        BY <1>10 DEF SignalImpl, TypeOK
      <3> QED BY <1>10, <3>1, <3>2, <3>3, <3>4 DEF SignalImpl, TypeOK
    <2>2. QueueInv'
      BY <1>10 DEF SignalImpl, TagOwner, TagBit, OneLess, Resolves, TypeOK, QueueInv
    <2>3. HolderInv'
      BY <1>10 DEF SignalImpl, TagOwner, TagBit, OneLess, Resolves, TypeOK, HolderInv, QueueInv
    <2>4. SignalInv'
      <3>1. signal.cv \in CondVars BY <1>10 DEF SignalImpl, TypeOK
      <3>2. signal'.cv = signal.cv BY <1>10 DEF SignalImpl, TypeOK
      <3> QED BY <3>1, <3>2 DEF SignalInv
    <2>5. SeenInv' /\ WaiterIsAnnounced'
      BY <1>10 DEF SignalImpl, TagOwner, TagBit, OneLess, Resolves, TypeOK, SeenInv, WaiterIsAnnounced
    <2>6. WaiterIsTagged'
      <3>1. \A m \in Mutexes :
              /\ tagOwner[m] # NoThread => tagOwner'[m] = tagOwner[m]
              /\ waitBit[m] => waitBit'[m]
        BY <1>10 DEF SignalImpl, TagOwner, TagBit, TypeOK
      <3>2. tagOwner[arg[w]] # NoThread => waitBit'[arg[w]]
        BY <1>10 DEF SignalImpl, TagBit, TypeOK
      <3>3. \/ lockOwner' = lockOwner
            \/ /\ tagOwner[arg[w]] # NoThread
               /\ lockOwner' = [lockOwner EXCEPT ![w] = tagOwner[arg[w]]]
        BY <1>10 DEF SignalImpl
      <3>4. arg' = arg BY <1>10 DEF SignalImpl
      <3> QED BY <3>1, <3>2, <3>3, <3>4 DEF WaiterIsTagged, TypeOK
    <2>7. NoWaiterOnFinalized'
      BY <1>10 DEF SignalImpl, TagOwner, TagBit, OneLess, Resolves, TypeOK, NoWaiterOnFinalized
    <2> QED BY <2>1, <2>2, <2>3, <2>4, <2>5, <2>6, <2>7
  <1>11. ASSUME SignalEnd PROVE IInv'
    <2>1. TypeOK'
      BY <1>11 DEF SignalEnd, NobodyWaits, NoSignal, TypeOK, SignalInv
    <2>2. QueueInv'
      BY <1>11 DEF SignalEnd, NobodyWaits, NoSignal, TypeOK, QueueInv
    <2>3. HolderInv'
      BY <1>11 DEF SignalEnd, NobodyWaits, NoSignal, TypeOK, HolderInv
    <2>4. SeenInv' /\ SignalInv' /\ WaiterIsAnnounced'
      BY <1>11 DEF SignalEnd, NobodyWaits, NoSignal, TypeOK, SeenInv, SignalInv, WaiterIsAnnounced
    <2>5. WaiterIsTagged' /\ NoWaiterOnFinalized'
      BY <1>11 DEF SignalEnd, NobodyWaits, NoSignal, TypeOK, WaiterIsTagged, NoWaiterOnFinalized
    <2> QED BY <2>1, <2>2, <2>3, <2>4, <2>5
  <1>12. ASSUME NEW t \in Threads, Timeout(t) PROVE IInv'
    <2>1. TypeOK'
      BY <1>12 DEF Timeout, CancelWait, OwnerAfterCancel, WaitResult, TypeOK
    <2>2. QueueInv'
      BY <1>12 DEF Timeout, CancelWait, OwnerAfterCancel, WaitResult, TypeOK, QueueInv
    <2>3. HolderInv'
      BY <1>12 DEF Timeout, CancelWait, OwnerAfterCancel, WaitResult, TypeOK, HolderInv
    <2>4. SeenInv' /\ SignalInv' /\ WaiterIsAnnounced'
      BY <1>12 DEF Timeout, CancelWait, OwnerAfterCancel, WaitResult, TypeOK, SeenInv, SignalInv, WaiterIsAnnounced
    <2>5. WaiterIsTagged' /\ NoWaiterOnFinalized'
      BY <1>12 DEF Timeout, CancelWait, OwnerAfterCancel, WaitResult, TypeOK, WaiterIsTagged, NoWaiterOnFinalized
    <2> QED BY <2>1, <2>2, <2>3, <2>4, <2>5
  <1>13. ASSUME NEW t \in Threads, RequestTerminate(t) PROVE IInv'
    <2>1. TypeOK'
      <3>1. life' \in [Threads -> {"live", "terminate", "dead", "closed", "final"}]
        BY <1>13 DEF RequestTerminate, TypeOK
      <3>2. CASE tstate[t] = "Waiting"
        <4>1. CancelWait(t, "Terminated") BY <1>13, <3>2 DEF RequestTerminate
        <4>2. /\ lockOwner' \in [Threads -> Threads \cup {NoThread}]
              /\ cvKey' \in [Threads -> CondVars \cup {NoCv}]
              /\ tstate' \in [Threads -> {"Runnable", "Waiting"}]
              /\ timed' \in [Threads -> BOOLEAN]
          BY <4>1 DEF CancelWait, OwnerAfterCancel, TypeOK
        <4>3. result' \in [Threads -> {"Success", "TimedOut", "Terminated", "InvalidState",
                                       "InvalidHandle"}]
          BY <4>1 DEF CancelWait, WaitResult, TypeOK
        <4> QED BY <1>13, <3>1, <4>2, <4>3 DEF RequestTerminate, TypeOK
      <3>3. CASE tstate[t] # "Waiting"
        BY <1>13, <3>1, <3>3 DEF RequestTerminate, TypeOK
      <3> QED BY <3>2, <3>3
    <2>2. QueueInv'
      BY <1>13 DEF RequestTerminate, CancelWait, OwnerAfterCancel, WaitResult, TypeOK, QueueInv
    <2>3. HolderInv'
      BY <1>13 DEF RequestTerminate, CancelWait, OwnerAfterCancel, WaitResult, TypeOK, HolderInv
    <2>4. SeenInv' /\ SignalInv' /\ WaiterIsAnnounced'
      BY <1>13 DEF RequestTerminate, CancelWait, OwnerAfterCancel, WaitResult, TypeOK, SeenInv, SignalInv, WaiterIsAnnounced
    <2>5. WaiterIsTagged' /\ NoWaiterOnFinalized'
      BY <1>13 DEF RequestTerminate, CancelWait, OwnerAfterCancel, WaitResult, TypeOK, WaiterIsTagged, NoWaiterOnFinalized
    <2> QED BY <2>1, <2>2, <2>3, <2>4, <2>5
  <1>14. ASSUME NEW t \in Threads, Exit(t) \/ CloseHandle(t) PROVE IInv'
    <2>1. TypeOK'
      BY <1>14 DEF Exit, CloseHandle, TypeOK
    <2>2. QueueInv'
      BY <1>14 DEF Exit, CloseHandle, TypeOK, QueueInv
    <2>3. HolderInv'
      BY <1>14 DEF Exit, CloseHandle, TypeOK, HolderInv
    <2>4. SeenInv' /\ SignalInv' /\ WaiterIsAnnounced'
      BY <1>14 DEF Exit, CloseHandle, TypeOK, SeenInv, SignalInv, WaiterIsAnnounced
    <2>5. WaiterIsTagged' /\ NoWaiterOnFinalized'
      BY <1>14 DEF Exit, CloseHandle, TypeOK, WaiterIsTagged, NoWaiterOnFinalized
    <2> QED BY <2>1, <2>2, <2>3, <2>4, <2>5
  <1>15. ASSUME NEW t \in Threads, Finalize(t) PROVE IInv'
    <2> DEFINE WS == {w \in Threads : lockOwner[w] = t}
    <2>0. UNCHANGED <<userVars, guestVars, signal, cvKey>> BY <1>15 DEF Finalize
    <2>1. CASE \E w \in WS : pc[w] = "waitlock"
      <3>1. crashed' = TRUE /\ UNCHANGED <<waitVars, life>> BY <1>15, <2>1 DEF Finalize
      <3>2. TypeOK' BY <2>0, <3>1 DEF TypeOK
      <3>3. QueueInv' /\ HolderInv' BY <2>0, <3>1 DEF QueueInv, HolderInv
      <3>4. SeenInv' /\ SignalInv' /\ WaiterIsAnnounced'
        BY <2>0, <3>1 DEF SeenInv, SignalInv, WaiterIsAnnounced
      <3>5. WaiterIsTagged' /\ NoWaiterOnFinalized'
        BY <2>0, <3>1 DEF WaiterIsTagged, NoWaiterOnFinalized
      <3> QED BY <3>2, <3>3, <3>4, <3>5
    <2>2. CASE ~ \E w \in WS : pc[w] = "waitlock"
      <3>1. /\ life' = [life EXCEPT ![t] = "final"]
            /\ lockOwner' = [w \in Threads |-> IF w \in WS THEN NoThread ELSE lockOwner[w]]
            /\ tstate' = [w \in Threads |-> IF w \in WS THEN "Runnable" ELSE tstate[w]]
            /\ result' = [w \in Threads |-> IF w \in WS THEN "InvalidState" ELSE result[w]]
            /\ timed' = [w \in Threads |-> w \notin WS /\ timed[w]]
            /\ crashed' = crashed
            /\ life[t] = "closed"
        BY <1>15, <2>2 DEF Finalize
      <3>2. TypeOK' BY <2>0, <3>1 DEF TypeOK
      <3>3. QueueInv' BY <2>0, <3>1 DEF TypeOK, QueueInv
      <3>4. HolderInv' BY <2>0, <3>1 DEF TypeOK, HolderInv, QueueInv
      <3>5. SeenInv' /\ SignalInv' /\ WaiterIsAnnounced'
        BY <2>0, <3>1 DEF TypeOK, SeenInv, SignalInv, WaiterIsAnnounced
      <3>6. WaiterIsTagged' /\ NoWaiterOnFinalized'
        BY <2>0, <3>1 DEF TypeOK, WaiterIsTagged, NoWaiterOnFinalized, QueueInv
      <3> QED BY <3>2, <3>3, <3>4, <3>5, <3>6
    <2> QED BY <2>1, <2>2
  <1>16. ASSUME UNCHANGED vars PROVE IInv'
    <2>1. TypeOK'
      BY <1>16 DEF vars, TypeOK
    <2>2. QueueInv'
      BY <1>16 DEF vars, TypeOK, QueueInv
    <2>3. HolderInv'
      BY <1>16 DEF vars, TypeOK, HolderInv
    <2>4. SeenInv' /\ SignalInv' /\ WaiterIsAnnounced'
      BY <1>16 DEF vars, TypeOK, SeenInv, SignalInv, WaiterIsAnnounced
    <2>5. WaiterIsTagged' /\ NoWaiterOnFinalized'
      BY <1>16 DEF vars, TypeOK, WaiterIsTagged, NoWaiterOnFinalized
    <2> QED BY <2>1, <2>2, <2>3, <2>4, <2>5
  <1> QED
    BY <1>1, <1>2, <1>3, <1>4, <1>5, <1>6, <1>7, <1>8, <1>9, <1>10, <1>11, <1>12, <1>13,
       <1>14, <1>15, <1>16
    DEF Next, Step, Interfere

\* The invariant holds in every reachable state.
LEMMA Invariance == Spec => []IInv
  <1>1. Init => IInv BY InitIInv
  <1>2. IInv /\ [Next]_vars => IInv' BY NextIInv
  <1> QED BY <1>1, <1>2, PTL DEF Spec

\* Every word, queue and result keeps its type.
THEOREM TypeCorrect == Spec => []TypeOK
  <1>1. IInv => TypeOK BY DEF IInv
  <1> QED BY <1>1, Invariance, PTL

\* No waiter is lost: a thread that waits is in one queue, a mutex waiter is named by a
\* word whose wait bit sends the owner into SignalToAddress, a waiter of a condition
\* variable is announced to the guests that signal, and no owner is finalized under it.
\* It holds until a finalized owner has a waiter that a hand-over gave it (crashed).
THEOREM WaitersKept == Spec => []NoWaiterLost
  <1>1. IInv => NoWaiterLost
    BY DEF IInv, NoWaiterLost, QueuedOnce, QueueInv
  <1> QED BY <1>1, Invariance, PTL
-----------------------------------------------------------------------------
(* Refinement: seen through the guests' positions, the word is a mutex. *)

\* A step enters or leaves one critical section, or none.
LEMMA StepSimulation ==
  ASSUME IInv, [Next]_vars
  PROVE [AbstractMutex!Next]_Holders
  <1> USE CondVarAssumption DEF At
  <1>0. TypeOK BY DEF IInv
  <1>1. ASSUME \A t \in Threads : arg'[t] = arg[t] \/ ~ (pc'[t] \in {"crit", "unlocking"}),
               \A t \in Threads : pc[t] \in {"crit", "unlocking"} <=> pc'[t] \in {"crit", "unlocking"}
        PROVE UNCHANGED Holders
    BY <1>1 DEF Holders, Holds
  <1>2. ASSUME NEW t \in Threads, tagOwner[arg[t]] \in {NoThread, t},
               pc[t] \notin {"crit", "unlocking"},
               pc' = [pc EXCEPT ![t] = "crit"], UNCHANGED arg
        PROVE AbstractMutex!Acquire(t, arg[t])
    <2>0. arg[t] \in Mutexes BY <1>0 DEF TypeOK
    <2>1. Holders[arg[t]] = {} BY <1>2, <2>0 DEF IInv, HolderInv, Holders, Holds
    <2>2. ASSUME NEW m \in Mutexes
          PROVE {u \in Threads : Holds(u, m)'} = IF m = arg[t] THEN {t} ELSE Holders[m]
      <3>1. ASSUME NEW u \in Threads
            PROVE Holds(u, m)' <=> (Holds(u, m) \/ (m = arg[t] /\ u = t))
        BY <1>0, <1>2 DEF TypeOK, Holds
      <3>2. m = arg[t] => \A u \in Threads : ~ Holds(u, m) BY <2>0, <2>1 DEF Holders
      <3> QED BY <3>1, <3>2 DEF Holders
    <2>3. Holders' = [Holders EXCEPT ![arg[t]] = {t}] BY <2>0, <2>2 DEF Holders
    <2> QED BY <2>1, <2>3 DEF AbstractMutex!Acquire
  <1>3. ASSUME NEW t \in Threads, pc[t] \in {"crit", "unlocking"},
               NEW at, at \notin {"crit", "unlocking"},
               pc' = [pc EXCEPT ![t] = at], UNCHANGED arg
        PROVE AbstractMutex!Release(t, arg[t])
    <2>0. arg[t] \in Mutexes BY <1>0 DEF TypeOK
    <2>1. Holders[arg[t]] = {t} BY <1>3, <2>0 DEF IInv, HolderInv, Holders, Holds
    <2>2. ASSUME NEW m \in Mutexes
          PROVE {u \in Threads : Holds(u, m)'} = IF m = arg[t] THEN {} ELSE Holders[m]
      <3>1. ASSUME NEW u \in Threads
            PROVE Holds(u, m)' <=> (Holds(u, m) /\ ~ (m = arg[t] /\ u = t))
        BY <1>0, <1>3 DEF TypeOK, Holds
      <3>2. m = arg[t] => \A u \in Threads : Holds(u, m) => u = t BY <2>0, <2>1 DEF Holders
      <3> QED BY <3>1, <3>2 DEF Holders
    <2>3. Holders' = [Holders EXCEPT ![arg[t]] = {}] BY <2>0, <2>2 DEF Holders
    <2> QED BY <2>1, <2>3 DEF AbstractMutex!Release
  <1>4. ASSUME NEW t \in Threads,
               \/ AbstractMutex!Acquire(t, arg[t]) \/ AbstractMutex!Release(t, arg[t])
               \/ UNCHANGED Holders
        PROVE [AbstractMutex!Next]_Holders
    BY <1>0, <1>4 DEF AbstractMutex!Next, TypeOK
  <1>5. ASSUME NEW t \in Threads, GuestTryLock(t) PROVE [AbstractMutex!Next]_Holders
    <2>1. CASE tagOwner[arg[t]] \in {NoThread, t}
      BY <1>2, <1>4, <1>5, <2>1 DEF GuestTryLock
    <2>2. CASE tagOwner[arg[t]] \notin {NoThread, t}
      BY <1>0, <1>1, <1>5, <2>2 DEF GuestTryLock, TypeOK
    <2> QED BY <2>1, <2>2
  <1>6. ASSUME NEW t \in Threads, WaitReturn(t) PROVE [AbstractMutex!Next]_Holders
    <2>1. CASE result[t] = "Success"
      <3>1. tagOwner[arg[t]] = t BY <1>6, <2>1 DEF WaitReturn, IInv, HolderInv
      <3> QED BY <1>2, <1>4, <1>6, <2>1, <3>1 DEF WaitReturn
    <2>2. CASE result[t] # "Success" BY <1>0, <1>1, <1>6, <2>2 DEF WaitReturn, TypeOK
    <2> QED BY <2>1, <2>2
  <1>7. ASSUME NEW t \in Threads, GuestUnlock(t) PROVE [AbstractMutex!Next]_Holders
    <2>1. CASE pc' = [pc EXCEPT ![t] = "idle"] BY <1>3, <1>4, <1>7, <2>1 DEF GuestUnlock
    <2>2. CASE pc' = [pc EXCEPT ![t] = "unlocking"]
      BY <1>0, <1>1, <1>7, <2>2 DEF GuestUnlock, TypeOK
    <2> QED BY <1>7, <2>1, <2>2 DEF GuestUnlock
  <1>8. ASSUME NEW t \in Threads, NEW n \in Threads,
               \/ SignalToAddress(t, n)
               \/ \E c \in CondVars, timeout \in {"zero", "positive", "infinite"} :
                    Wait(t, c, n, timeout)
        PROVE [AbstractMutex!Next]_Holders
    <2>1. PICK at \in {"idle", "locking", "waitcv"} : pc' = [pc EXCEPT ![t] = at]
      BY <1>8 DEF SignalToAddress, Wait
    <2>2. pc[t] \in {"crit", "unlocking"} /\ UNCHANGED arg
      BY <1>8 DEF SignalToAddress, Wait
    <2> QED BY <1>3, <1>4, <2>1, <2>2
  <1>9. ASSUME NEW t \in Threads,
               \/ \E m \in Mutexes : GuestLock(t, m)
               \/ WaitForAddressReturn(t)
               \/ WaitForAddress(t)
        PROVE UNCHANGED Holders
    BY <1>0, <1>1, <1>9 DEF GuestLock, WaitForAddressReturn, WaitForAddress, TypeOK
  <1>10. ASSUME NEW t \in Threads,
                \/ \E c \in CondVars, count \in {1, Everyone} : Signal(t, c, count)
                \/ SignalImpl(t) \/ SignalEnd \/ Interfere(t)
         PROVE UNCHANGED <<pc, arg>>
    BY <1>10 DEF Signal, SignalImpl, SignalEnd, Interfere, Timeout, RequestTerminate, Exit,
                 CloseHandle, Finalize, guestVars
  <1>11. UNCHANGED <<pc, arg>> => UNCHANGED Holders BY DEF Holders, Holds
  <1>12. SignalEnd \/ UNCHANGED vars => UNCHANGED <<pc, arg>>
    BY DEF SignalEnd, vars, guestVars
  <1> QED
    BY <1>5, <1>6, <1>7, <1>8, <1>9, <1>10, <1>11, <1>12 DEF Next, Step

\* The mutex word, with waits, hand-overs by SignalToAddress, Wait and Signal, timeouts
\* and terminated owners, gives its users what a mutex gives them.
THEOREM Refinement == Spec => ImplementsMutex
  <1>1. Init => AbstractMutex!Init BY DEF Init, AbstractMutex!Init, Holders, Holds
  <1>2. IInv /\ [Next]_vars => [AbstractMutex!Next]_Holders BY StepSimulation
  <1> QED BY <1>1, <1>2, Invariance, PTL DEF Spec, ImplementsMutex, AbstractMutex!Spec
=============================================================================
