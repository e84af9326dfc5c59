------------------------ MODULE KSynchronizationObject ------------------------
(***************************************************************************)
(* Waiting for several synchronization objects at once                     *)
(* (KSynchronizationObject::Wait), with readable events as the objects,    *)
(* and svcCancelSynchronization.                                           *)
(*                                                                         *)
(* A waiting thread has one node, on its own stack, in the list of every   *)
(* object it waits for.  The lists are modelled with their pointers: the   *)
(* loop of NotifyAvailable reads the successor of a node after the node    *)
(* was unlinked.  Every action runs under the scheduler lock; the loop is  *)
(* unrolled and keeps the lock.                                            *)
(***************************************************************************)
EXTENDS Integers, Sequences, SequencesExt

CONSTANTS Threads, Objects,
          NoObject,   \* nullptr
          MaxCount    \* bound on num_objects (ArgumentHandleCountMax)

VARIABLES signaled,     \* m_is_signaled of each event
          ptr,          \* record: head, tail of each object, next of each node
          tstate,       \* m_thread_state
          objects,      \* what each waiting thread waits for (m_objects)
          timed,        \* the wait has a timer
          cancellable,  \* m_cancellable
          cancelled,    \* m_wait_cancelled
          index,        \* m_synced_index, or *out_index (from 1; 0 is -1)
          result,       \* result of the last wait
          notify        \* NotifyAvailable: the object and cur_node

vars == <<signaled, ptr, tstate, objects, timed, cancellable, cancelled, index, result, notify>>

Nodes == Threads \X (1..MaxCount)
Null == <<>>
Lists == UNION {[1..n -> Objects] : n \in 0..MaxCount}
Results == {"Success", "TimedOut", "Cancelled", "Terminated"}

TypeOK ==
  /\ signaled \in [Objects -> BOOLEAN]
  /\ ptr \in [head : [Objects -> Nodes \cup {Null}], tail : [Objects -> Nodes \cup {Null}],
              next : [Nodes -> Nodes \cup {Null}]]
  /\ tstate \in [Threads -> {"Runnable", "Waiting", "Sleeping"}]
  /\ objects \in [Threads -> Lists]
  /\ timed \in [Threads -> BOOLEAN]
  /\ cancellable \in [Threads -> BOOLEAN]
  /\ cancelled \in [Threads -> BOOLEAN]
  /\ index \in [Threads -> 0..MaxCount]
  /\ result \in [Threads -> Results]
  /\ notify \in [obj : Objects \cup {NoObject}, cur : Nodes \cup {Null}]

Idle == [obj |-> NoObject, cur |-> Null]

Init ==
  /\ signaled = [o \in Objects |-> FALSE]
  /\ ptr = [head |-> [o \in Objects |-> Null], tail |-> [o \in Objects |-> Null],
            next |-> [n \in Nodes |-> Null]]
  /\ tstate = [t \in Threads |-> "Runnable"]
  /\ objects = [t \in Threads |-> <<>>]
  /\ timed = [t \in Threads |-> FALSE]
  /\ cancellable = [t \in Threads |-> FALSE]
  /\ cancelled = [t \in Threads |-> FALSE]
  /\ index = [t \in Threads |-> 0]
  /\ result = [t \in Threads |-> "Success"]
  /\ notify = Idle
-----------------------------------------------------------------------------
(* The intrusive list of an object *)

SchedulerFree == notify = Idle

\* The nodes reached from n.
RECURSIVE Chain(_, _)
Chain(p, n) == IF n = Null THEN <<>> ELSE <<n>> \o Chain(p, p.next[n])

\* LinkNode: append n to the list of o.
LinkNode(p, o, n) ==
  [head |-> IF p.tail[o] = Null THEN [p.head EXCEPT ![o] = n] ELSE p.head,
   tail |-> [p.tail EXCEPT ![o] = n],
   next |-> IF p.tail[o] = Null THEN p.next ELSE [p.next EXCEPT ![p.tail[o]] = n]]

TailAfter(p, o, n, prev) == IF p.tail[o] = n THEN [p.tail EXCEPT ![o] = prev] ELSE p.tail

\* UnlinkNode: walk to the node before n and splice n out; n keeps its own next.
UnlinkNode(p, o, n) ==
  LET chain == Chain(p, p.head[o])
      i == CHOOSE j \in DOMAIN chain : chain[j] = n
      prev == IF i = 1 THEN Null ELSE chain[i - 1]
  IN [head |-> IF prev = Null THEN [p.head EXCEPT ![o] = p.next[n]] ELSE p.head,
      tail |-> TailAfter(p, o, n, prev),
      next |-> IF prev = Null THEN p.next ELSE [p.next EXCEPT ![prev] = p.next[n]]]

\* The loop over the objects that links the nodes of t; next is null on each.
LinkAll(p, t, objs) ==
  FoldLeftDomain(LAMBDA q, i : LinkNode(q, objs[i], <<t, i>>), p, objs)

\* The loop that unlinks them.
UnlinkAll(p, t, objs) ==
  FoldLeftDomain(LAMBDA q, i : UnlinkNode(q, objs[i], <<t, i>>), p, objs)

\* Nodes live on the stacks of waiting threads: the others hold nothing.
Pop(p, state) ==
  [p EXCEPT !.next = [n \in Nodes |-> IF state[n[1]] = "Waiting" THEN p.next[n] ELSE Null]]
-----------------------------------------------------------------------------
FirstSignaled(objs) == SelectInSeq(objs, LAMBDA o : signaled[o])

IsWaitCancelled(t) == cancelled[t]

\* Wait returns without blocking.
Return(t, r, i) ==
  /\ result' = [result EXCEPT ![t] = r]
  /\ index' = [index EXCEPT ![t] = i]
  /\ UNCHANGED <<signaled, ptr, tstate, objects, timed, cancellable, notify>>

IsTerminationRequested(t) == result[t] = "Terminated"

\* KSynchronizationObject::Wait, called by t.  The timeout is zero, finite or infinite.
\* A thread that has to terminate is turned away.
Wait(t, objs, timeout) ==
  /\ SchedulerFree
  /\ tstate[t] = "Runnable" /\ ~ IsTerminationRequested(t)
  /\ IF FirstSignaled(objs) # 0
       THEN Return(t, "Success", FirstSignaled(objs)) /\ UNCHANGED cancelled
     ELSE IF timeout = "zero"
       THEN Return(t, "TimedOut", index[t]) /\ UNCHANGED cancelled
     ELSE IF IsWaitCancelled(t)
       THEN /\ Return(t, "Cancelled", index[t])
            /\ cancelled' = [cancelled EXCEPT ![t] = FALSE]
     ELSE /\ ptr' = LinkAll(ptr, t, objs)
          /\ objects' = [objects EXCEPT ![t] = objs]
          /\ cancellable' = [cancellable EXCEPT ![t] = TRUE]
          /\ index' = [index EXCEPT ![t] = 0]
          /\ timed' = [timed EXCEPT ![t] = timeout = "finite"]
          /\ tstate' = [tstate EXCEPT ![t] = "Waiting"]
          /\ UNCHANGED <<signaled, cancelled, result, notify>>

\* The wait of t ends: what NotifyAvailable and CancelWait of the wait queue share.
FinishWait(t, r) ==
  /\ tstate' = [tstate EXCEPT ![t] = "Runnable"]
  /\ objects' = [objects EXCEPT ![t] = <<>>]
  /\ timed' = [timed EXCEPT ![t] = FALSE]
  /\ cancellable' = [cancellable EXCEPT ![t] = FALSE]
  /\ result' = [result EXCEPT ![t] = r]

\* CancelWait of the wait queue.
CancelWait(t, r) ==
  /\ FinishWait(t, r)
  /\ ptr' = Pop(UnlinkAll(ptr, t, objects[t]), tstate')
  /\ UNCHANGED <<signaled, index, notify>>

\* OnTimer.
Timeout(t) ==
  /\ SchedulerFree
  /\ tstate[t] = "Waiting" /\ timed[t]
  /\ CancelWait(t, "TimedOut")
  /\ UNCHANGED cancelled

\* RequestTerminate: a wait is cancelled, on whichever queue.
RequestTerminate(t) ==
  /\ SchedulerFree
  /\ ~ IsTerminationRequested(t)
  /\ CancelWait(t, "Terminated")
  /\ UNCHANGED cancelled

\* svcCancelSynchronization.
WaitCancel(t) ==
  /\ SchedulerFree
  /\ IF tstate[t] # "Runnable" /\ cancellable[t]
       THEN cancelled' = [cancelled EXCEPT ![t] = FALSE] /\ CancelWait(t, "Cancelled")
       ELSE /\ cancelled' = [cancelled EXCEPT ![t] = TRUE]
            /\ UNCHANGED <<signaled, ptr, tstate, objects, timed, cancellable, index,
                           result, notify>>

\* The thread waits on another queue (Sleep), and its wait ends.
Sleep(t) ==
  /\ SchedulerFree
  /\ tstate[t] # "Waiting" /\ ~ IsTerminationRequested(t)
  /\ tstate' = [tstate EXCEPT ![t] = IF @ = "Runnable" THEN "Sleeping" ELSE "Runnable"]
  /\ UNCHANGED <<signaled, ptr, objects, timed, cancellable, cancelled, index, result, notify>>

\* KReadableEvent::Signal of an event that is not signaled: set it and enter
\* NotifyAvailable.
Signal(o) ==
  /\ SchedulerFree
  /\ ~ signaled[o]
  /\ signaled' = [signaled EXCEPT ![o] = TRUE]
  /\ notify' = [obj |-> o, cur |-> ptr.head[o]]
  /\ UNCHANGED <<ptr, tstate, objects, timed, cancellable, cancelled, index, result>>

SyncIndex(t) == SelectInSeq(objects[t], LAMBDA o : o = notify.obj)

\* Fault: the loop stops at a thread that it has already woken.
Successor_Stops(t) == IF tstate[t] = "Waiting" THEN ptr'.next[notify.cur] ELSE Null

\* Fault: the loop does not move on.
Successor_Stays(t) == notify.cur

Successor(t) == ptr'.next[notify.cur]

\* One iteration of the loop of NotifyAvailable: a thread that still waits is woken;
\* the loop goes on from the node just handled, which may be unlinked by now.
NotifyAvailable ==
  LET t == notify.cur[1]
  IN /\ notify.cur # Null
     /\ IF tstate[t] = "Waiting"
          THEN /\ ptr' = UnlinkAll(ptr, t, objects[t])
               /\ index' = [index EXCEPT ![t] = SyncIndex(t)]
               /\ FinishWait(t, "Success")
          ELSE UNCHANGED <<ptr, index, tstate, objects, timed, cancellable, result>>
     /\ notify' = [notify EXCEPT !.cur = Successor(t)]
     /\ UNCHANGED <<signaled, cancelled>>

\* The loop is over; the scheduler lock is released.
NotifyDone ==
  /\ notify # Idle /\ notify.cur = Null
  /\ notify' = Idle
  /\ ptr' = Pop(ptr, tstate)
  /\ UNCHANGED <<signaled, tstate, objects, timed, cancellable, cancelled, index, result>>

\* KReadableEvent::Reset and Clear of an event that is signaled.
Reset(o) ==
  /\ SchedulerFree
  /\ signaled[o]
  /\ signaled' = [signaled EXCEPT ![o] = FALSE]
  /\ UNCHANGED <<ptr, tstate, objects, timed, cancellable, cancelled, index, result, notify>>

Next ==
  \/ \E t \in Threads :
       \/ \E objs \in Lists, timeout \in {"zero", "finite", "infinite"} : Wait(t, objs, timeout)
       \/ Timeout(t) \/ RequestTerminate(t) \/ WaitCancel(t) \/ Sleep(t)
  \/ \E o \in Objects : Signal(o) \/ Reset(o)
  \/ NotifyAvailable \/ NotifyDone

Spec == Init /\ [][Next]_vars

\* The thread inside NotifyAvailable keeps running.
FairSpec == Spec /\ WF_vars(NotifyAvailable \/ NotifyDone)
-----------------------------------------------------------------------------
(* Properties *)

\* No thread is left waiting for an object that is signaled, although one signal may
\* find many threads in the list, some of them with several nodes in it.
NoSignalMissed ==
  SchedulerFree =>
    \A t \in Threads : tstate[t] = "Waiting" =>
      \A i \in DOMAIN objects[t] : ~ signaled[objects[t][i]]

\* The loop of NotifyAvailable ends.
NotifyEnds == notify # Idle ~> notify = Idle
=============================================================================
