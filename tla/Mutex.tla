--------------------------------- MODULE Mutex ---------------------------------
(***************************************************************************)
(* What a lock promises its users: a free lock is acquired by one thread,  *)
(* and stays the lock of that thread until it releases it.                *)
(***************************************************************************)
CONSTANTS Threads, Locks

VARIABLE holders  \* the threads inside the critical section of each lock

Init == holders = [l \in Locks |-> {}]

Acquire(t, l) == /\ holders[l] = {}
                 /\ holders' = [holders EXCEPT ![l] = {t}]

Release(t, l) == /\ holders[l] = {t}
                 /\ holders' = [holders EXCEPT ![l] = {}]

Next == \E t \in Threads, l \in Locks : Acquire(t, l) \/ Release(t, l)

Spec == Init /\ [][Next]_holders
=============================================================================
