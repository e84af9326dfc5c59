------------------------------- MODULE GpuThread -------------------------------
(***************************************************************************)
(* The thread of the GPU (VideoCommon::GPUThread) and the synchronous      *)
(* operations that the CPU side asks of it (Tegra::GPU::Impl).             *)
(*                                                                         *)
(* A command goes into the bounded queue with a fence; in synchronous mode *)
(* the caller waits for the fence.  A synchronous operation is put in the  *)
(* list of requests, the GPU thread is sent a tick to look at that list,   *)
(* and the caller waits for the operation, whose closure refers to         *)
(* variables of the caller's stack.  The sections under sync_request_mutex *)
(* are atomic; write_lock is held over several steps and is a variable.    *)
(***************************************************************************)
EXTENDS BoundedQueue, Sequences, FiniteSets

CONSTANTS None,    \* nobody holds write_lock
          MaxFence \* commands pushed

\* There are no more threads than slots (0x1000).  With one more, the callers of
\* synchronous mode could fill the queue, one of them waiting for a slot with write_lock
\* while the GPU thread waits for write_lock.
ASSUME ThreadsAssumption == IsFiniteSet(Producers) /\ Cardinality(Producers) <= Capacity

\* A mutex that nobody holds is told from one that a thread holds.
ASSUME NobodyAssumption == None \notin Producers

VARIABLES isAsync,
          writeLock,     \* owner of write_lock
          lastFence, signaledFence,
          call,          \* what each thread called
          syncRequests,  \* sync_requests: who asked for each, with its fence
          serving,       \* the request that the GPU thread took
          lastSync, currentSync,
          syncFence,     \* the fence each thread was given by RequestSyncOperation
          executed       \* the fences of the commands that were executed

state == <<isAsync, writeLock, lastFence, signaledFence>>
sync == <<syncRequests, serving, lastSync, currentSync, syncFence>>
vars == <<queue, state, call, sync, executed>>

NoRequest == [by |-> None, fence |-> 0]

TypeOK ==
  /\ readIndex \in Nat /\ writeIndex \in Nat
  /\ lastFence \in Nat /\ signaledFence \in Nat
  /\ lastSync \in Nat /\ currentSync \in Nat
  /\ push \in [Producers -> EmplaceSteps \union {"idle", "lock", "check", "sleep", "asleep",
                                                 "woken", "wait", "waiting"}]
  /\ pop \in PopSteps \union {"execute", "tick", "request", "count", "counted", "store", "wake"}
  /\ isAsync \in BOOLEAN
  /\ writeLock \in Producers \union {None}
  /\ call \in [Producers -> {"none", "submit", "sync"}]
  /\ syncFence \in [Producers -> Nat]

Init ==
  /\ QueueInit
  /\ isAsync \in BOOLEAN
  /\ writeLock = None
  /\ lastFence = 0 /\ signaledFence = 0
  /\ call = [t \in Producers |-> "none"]
  /\ syncRequests = <<>> /\ serving = NoRequest
  /\ lastSync = 0 /\ currentSync = 0
  /\ syncFence = [t \in Producers |-> 0]
  /\ executed = {}
-----------------------------------------------------------------------------
(* Callers *)

MayCall(t) ==
  /\ push[t] = "idle"
  /\ lastFence + Cardinality({u \in Producers : push[u] = "lock"}) < MaxFence

\* SubmitList, and FlushRegion in synchronous mode.
SubmitList(t) ==
  /\ MayCall(t)
  /\ call' = [call EXCEPT ![t] = "submit"]
  /\ PushTo(t, "lock")
  /\ UNCHANGED <<indices, data, item, pop, next, state, sync, executed>>

\* OnCPURead, RequestComposite, GetAppletCaptureBuffer, and FlushRegion in asynchronous
\* mode: RequestSyncOperation, then TickGPU and WaitForSyncOperation.
RequestSyncOperation(t) ==
  /\ MayCall(t)
  /\ call' = [call EXCEPT ![t] = "sync"]
  /\ lastSync' = lastSync + 1
  /\ syncFence' = [syncFence EXCEPT ![t] = lastSync']
  /\ syncRequests' = Append(syncRequests, [by |-> t, fence |-> lastSync'])
  /\ PushTo(t, "lock")
  /\ UNCHANGED <<indices, data, item, pop, next, state, serving, currentSync, executed>>

\* Where PushCommand returns to.
Returns(t) == IF call[t] = "sync" THEN "wait" ELSE "idle"

PushCommand(t) ==
  /\ push[t] = "lock" /\ writeLock = None
  /\ writeLock' = t
  /\ lastFence' = lastFence + 1
  /\ item' = [item EXCEPT ![t] = [fence |-> lastFence', tick |-> call[t] = "sync"]]
  /\ PushTo(t, "space")
  /\ UNCHANGED <<indices, data, pop, next, isAsync, signaledFence, call, sync, executed>>

PushEmplace(t) ==
  /\ EmplaceSpace(t) \/ EmplaceWrite(t) \/ EmplacePublish(t)
  /\ UNCHANGED <<state, call, sync, executed>>

\* In asynchronous mode PushCommand is done and releases write_lock.
PushNotify(t) ==
  /\ EmplaceNotify(t, IF isAsync THEN Returns(t) ELSE "check")
  /\ writeLock' = IF isAsync THEN None ELSE writeLock
  /\ UNCHANGED <<isAsync, lastFence, signaledFence, call, sync, executed>>

\* Fault: the fence before the caller's is enough.
Signaled_Before(f) == f <= signaledFence + 1

Signaled(f) == f <= signaledFence

\* The predicate of CondvarWait.  write_lock is held between it and the sleep.
PushCheck(t) ==
  /\ push[t] = "check"
  /\ IF Signaled(item[t].fence)
       THEN PushTo(t, Returns(t)) /\ writeLock' = None
       ELSE PushTo(t, "sleep") /\ UNCHANGED writeLock
  /\ UNCHANGED <<indices, data, item, pop, next, isAsync, lastFence, signaledFence, call, sync,
                 executed>>

PushSleep(t) ==
  /\ push[t] = "sleep"
  /\ PushTo(t, "asleep")
  /\ writeLock' = None
  /\ UNCHANGED <<indices, data, item, pop, next, isAsync, lastFence, signaledFence, call, sync,
                 executed>>

PushRelock(t) ==
  /\ push[t] = "woken" /\ writeLock = None
  /\ writeLock' = t
  /\ PushTo(t, "check")
  /\ UNCHANGED <<indices, data, item, pop, next, isAsync, lastFence, signaledFence, call, sync,
                 executed>>

\* Fault: the operation before the caller's is enough.
SyncDone_Before(f) == currentSync + 1 >= f

SyncDone(f) == currentSync >= f

WaitForSyncOperation(t) ==
  /\ push[t] = "wait"
  /\ PushTo(t, IF SyncDone(syncFence[t]) THEN "idle" ELSE "waiting")
  /\ UNCHANGED <<indices, data, item, pop, next, state, call, sync, executed>>
-----------------------------------------------------------------------------
(* The GPU thread: RunThread *)

GpuPop ==
  /\ PopCheck \/ PopMove \/ PopAdvance \/ PopNotify("execute")
  /\ UNCHANGED <<state, call, sync, executed>>

GpuGoto(p) == pop' = p /\ UNCHANGED <<indices, data, item, next>>

GpuExecute ==
  /\ pop = "execute"
  /\ GpuGoto(IF next.tick THEN "tick" ELSE "store")
  /\ executed' = IF next.tick THEN executed ELSE executed \union {next.fence}
  /\ UNCHANGED <<push, state, call, sync>>

\* TickWork: the front of the list is taken; sync_request_mutex is released while the
\* request runs, and those who wait are notified once it is taken again.
TickWork ==
  /\ pop \in {"tick", "counted"}
  /\ push' = [t \in Producers |-> IF pop = "counted" /\ push[t] = "waiting" THEN "wait"
                                  ELSE push[t]]
  /\ IF syncRequests = <<>>
       THEN /\ GpuGoto("store")
            /\ executed' = executed \union {next.fence}
            /\ UNCHANGED <<syncRequests, serving>>
       ELSE /\ GpuGoto("request")
            /\ serving' = Head(syncRequests)
            /\ syncRequests' = Tail(syncRequests)
            /\ UNCHANGED executed
  /\ UNCHANGED <<state, call, lastSync, currentSync, syncFence>>

RunRequest ==
  /\ pop = "request"
  /\ GpuGoto("count")
  /\ UNCHANGED <<push, state, call, sync, executed>>

CountRequest ==
  /\ pop = "count"
  /\ currentSync' = currentSync + 1
  /\ serving' = NoRequest
  /\ GpuGoto("counted")
  /\ UNCHANGED <<push, state, call, syncRequests, lastSync, syncFence, executed>>

GpuStore ==
  /\ pop = "store"
  /\ signaledFence' = next.fence
  /\ GpuGoto(IF isAsync THEN "pop" ELSE "wake")
  /\ UNCHANGED <<push, isAsync, writeLock, lastFence, call, sync, executed>>

\* Fault: the callers are notified without write_lock.
MayNotify_Unlocked == TRUE

MayNotify == writeLock = None

GpuWake ==
  /\ pop = "wake" /\ MayNotify
  /\ push' = [t \in Producers |-> IF push[t] = "asleep" THEN "woken" ELSE push[t]]
  /\ GpuGoto("pop")
  /\ UNCHANGED <<state, call, sync, executed>>
-----------------------------------------------------------------------------
Caller(t) ==
  \/ PushCommand(t) \/ PushEmplace(t) \/ PushNotify(t)
  \/ PushCheck(t) \/ PushSleep(t) \/ PushRelock(t) \/ WaitForSyncOperation(t)

RunThread ==
  GpuPop \/ GpuExecute \/ TickWork \/ RunRequest \/ CountRequest \/ GpuStore \/ GpuWake

Next ==
  \/ \E t \in Producers : SubmitList(t) \/ RequestSyncOperation(t) \/ Caller(t)
  \/ RunThread

Spec == Init /\ [][Next]_vars

\* Threads run.  The calls are bounded, so that nobody is overtaken at write_lock for ever.
FairSpec == Spec /\ WF_vars(RunThread) /\ \A t \in Producers : WF_vars(Caller(t))
-----------------------------------------------------------------------------
(* Properties *)

Commands == [fence : Nat \ {0}, tick : BOOLEAN]

Queue == INSTANCE Fifo WITH inside <- contents, taken <- next, Items <- Commands

\* The queue of commands loses, repeats and reorders nothing: with the slots written and
\* read outside of any lock it implements a bounded queue.
ImplementsFifo == Queue!Spec

\* In synchronous mode PushCommand returns when the command was executed and not before.
ReturnsExecuted ==
  [][\A t \in Producers : ~ isAsync /\ push[t] = "check" /\ push'[t] \in {"idle", "wait"}
       => item[t].fence \in executed]_vars

\* While a synchronous operation is in the list or runs, the thread whose variables it
\* refers to has not returned from the call that asked for it.
CallerStays ==
  LET Stays(r) == push[r.by] # "idle" /\ call[r.by] = "sync" /\ syncFence[r.by] = r.fence
  IN /\ serving # NoRequest => Stays(serving)
     /\ \A k \in 1..Len(syncRequests) : Stays(syncRequests[k])

\* Every call returns.
CallReturns == \A t \in Producers : []<>(push[t] = "idle")
=============================================================================
