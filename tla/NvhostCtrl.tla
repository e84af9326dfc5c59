------------------------------- MODULE NvhostCtrl -------------------------------
(***************************************************************************)
(* The events of /dev/nvhost-ctrl (nvhost_ctrl), by which a guest waits    *)
(* for a fence: an ioctl registers a host action for the value of the      *)
(* fence, and the action signals the kernel event of the slot.  The        *)
(* counters are those of NvCore::SyncpointManager.                         *)
(*                                                                         *)
(* The ioctls of a process run one after the other on the thread of        *)
(* nvservices, so that events_mutex is never contended; the actions run on *)
(* the threads that increment the syncpoint and do not take it.  There is  *)
(* one syncpoint, of id 1.                                                 *)
(***************************************************************************)
EXTENDS SyncpointManager, FiniteSets, FiniteSetsExt

CONSTANTS EventSlots, \* 0 .. MaxNvEvents - 1
          Cleared,    \* the slots that the guest clears
          MaxValue,   \* increments the guest submits
          Width,      \* bits of a u32
          FailLimit   \* clears of a slot after which a wait is done on the host: 2

VARIABLES status,     \* state of each event
          kevent,     \* its kernel event
          registered,
          assigned,   \* assigned_syncpt
          target,     \* assigned_value
          fails,
          counterMin, \* counter_min
          counterMax, \* counter_max
          svc,        \* where the service thread is
          slot,       \* the slot of its ioctl
          fence,      \* the value of its fence
          acting,     \* the slot whose action each thread runs
          owed,       \* the guest is told to wait and the event was not signaled since
          late        \* a clear found an action of the slot half way, and one is pending

events == <<status, kevent, registered, assigned, target, fails>>
counters == <<counterMin, counterMax>>
ioctl == <<svc, slot, fence>>
ctrlVars == <<syncpoint, events, counters, ioctl, acting, owed, late>>

Service == "service"
Threads == Incrementers \union {Service}
ActionSteps == {"exchange", "signal", "store"}
MaxFails == FailLimit + 1 \* only whether fails is above the limit is looked at

CtrlTypeOK ==
  /\ value \in 0..MaxValue
  /\ guard \in Threads \union {Nobody}
  /\ storage \in Seq([expected : 1..MaxValue, slot : EventSlots])
  /\ inc \in [Incrementers -> {"idle", "lock", "loop", "crashed"} \union ActionSteps]
  /\ newValue \in [Incrementers -> 0..MaxValue]
  /\ status \in [EventSlots -> {"Available", "Waiting", "Cancelling", "Signalling", "Signalled",
                           "Cancelled"}]
  /\ kevent \in [EventSlots -> {"none", "clear", "signaled"}]
  /\ {registered, owed, late} \subseteq [EventSlots -> BOOLEAN]
  /\ assigned \in [EventSlots -> {0, 1}]
  /\ target \in [EventSlots -> 0..MaxValue]
  /\ fails \in [EventSlots -> 0..MaxFails]
  /\ {counterMin, counterMax} \subseteq 0..MaxValue
  /\ svc \in {"idle", "pred", "asleep", "check", "lock", "insert", "deregister", "cancelled",
              "clear", "crashed"} \union ActionSteps
  /\ slot \in EventSlots /\ fence \in 0..MaxValue
  /\ acting \in [Threads -> EventSlots]

CtrlInit ==
  /\ SyncpointInit
  /\ status = [s \in EventSlots |-> "Available"]
  /\ kevent = [s \in EventSlots |-> "none"]
  /\ registered = [s \in EventSlots |-> FALSE]
  /\ assigned = [s \in EventSlots |-> 0]
  /\ target = [s \in EventSlots |-> 0]
  /\ fails = [s \in EventSlots |-> 0]
  /\ counterMin = 0 /\ counterMax = 0
  /\ svc = "idle" /\ slot = 0 /\ fence = 0
  /\ acting = [t \in Threads |-> 0]
  /\ owed = [s \in EventSlots |-> FALSE]
  /\ late = [s \in EventSlots |-> FALSE]

IsBeingUsed(s) == status[s] \in {"Waiting", "Cancelling", "Signalling"}
-----------------------------------------------------------------------------
(* The action of a slot *)

Step(t) == IF t = Service THEN svc ELSE inc[t]

\* Thread t runs the action of slot s.
Acting(t, s) == Step(t) \in ActionSteps /\ acting[t] = s

\* An action of slot s is registered or run.
Pending(s) ==
  \/ \E t \in Threads : Acting(t, s)
  \/ \E k \in 1..Len(storage) : storage[k].slot = s

ActionKeeps == <<value, guard, newValue, registered, assigned, target, fails, counters, slot,
                 fence, acting, late>>

\* The ioctl returns.
Return == svc' = "idle" /\ slot' = 0 /\ fence' = 0

GotoIn(t, p) ==
  IF t = Service THEN svc' = p /\ UNCHANGED inc
                 ELSE inc' = [inc EXCEPT ![t] = p] /\ UNCHANGED svc

SignalsFrom(old) == old = "Waiting"

ActionExchange(t) ==
  /\ Step(t) = "exchange"
  /\ status' = [status EXCEPT ![acting[t]] = "Signalling"]
  /\ GotoIn(t, IF SignalsFrom(status[acting[t]]) THEN "signal" ELSE "store")
  /\ UNCHANGED <<ActionKeeps, storage, kevent, owed>>

\* A slot that was unregistered in the middle of its action has no kernel event: kevent is
\* a null pointer, and the emulator crashes.
ActionSignal(t) ==
  /\ Step(t) = "signal"
  /\ IF kevent[acting[t]] = "none"
       THEN GotoIn(t, "crashed") /\ UNCHANGED <<kevent, owed>>
       ELSE /\ kevent' = [kevent EXCEPT ![acting[t]] = "signaled"]
            /\ owed' = [owed EXCEPT ![acting[t]] = FALSE]
            /\ GotoIn(t, "store")
  /\ UNCHANGED <<ActionKeeps, storage, status>>

\* The end of the action.  Increment erases it; RegisterAction returns.
ActionStore(t) ==
  /\ Step(t) = "store"
  /\ status' = [status EXCEPT ![acting[t]] = "Signalled"]
  /\ IF t = Service
       THEN /\ Return
            /\ guard' = IF guard = Service THEN Nobody ELSE guard
            /\ UNCHANGED <<value, storage, inc, newValue>>
       ELSE IncrementErase(t) /\ UNCHANGED ioctl
  /\ acting' = [acting EXCEPT ![t] = 0]
  /\ UNCHANGED <<kevent, registered, assigned, target, fails, counters, owed, late>>
-----------------------------------------------------------------------------
(* The GPU *)

\* Only the increments that were submitted are executed.
GpuIncrement(i) ==
  /\ value < counterMax
  /\ IncrementValue(i)
  /\ UNCHANGED <<events, counters, ioctl, acting, owed, late>>

GpuLock(i) ==
  /\ IncrementLock(i)
  /\ UNCHANGED <<events, counters, ioctl, acting, owed, late>>

GpuRun(i) ==
  /\ IncrementRun(i, "exchange")
  /\ acting' = [acting EXCEPT ![i] = Head(storage).slot]
  /\ UNCHANGED <<events, counters, ioctl, owed, late>>

\* A service thread that waits looks at the value again.
GpuEnd(i) ==
  /\ IncrementEnd(i)
  /\ svc' = IF svc = "asleep" THEN "pred" ELSE svc
  /\ UNCHANGED <<events, counters, slot, fence, acting, owed, late>>
-----------------------------------------------------------------------------
(* Ioctls *)

\* HasSyncpointExpired of a syncpoint whose maximum is tracked, in u32 arithmetic.
HasSyncpointExpired(min, v) ==
  (counterMax - v) % (2^Width) >= (min - v) % (2^Width)

\* IncrementSyncpointMaxExt
Submit ==
  /\ svc = "idle" /\ counterMax < MaxValue
  /\ counterMax' = counterMax + 1
  /\ UNCHANGED <<syncpoint, events, counterMin, ioctl, acting, owed, late>>

\* FindFreeNvEvent: a registered slot that is not used and was assigned to the syncpoint
\* before, or the first slot that is not registered, or the last that is not used, or 0.
FindFreeNvEvent ==
  LET unused == {s \in EventSlots : registered[s] /\ ~ IsBeingUsed(s)}
      same == {s \in unused : assigned[s] = 1}
      free == {s \in EventSlots : ~ registered[s]}
  IN CASE same # {} -> Min(same)
       [] same = {} /\ free # {} -> Min(free)
       [] same = {} /\ free = {} /\ unused # {} -> Max(unused)
       [] OTHER -> 0

\* A call of IocCtrlEventWait for fence v that is answered at once: the fence is passed,
\* after counter_min was updated if need be.
EventWaitPassed(v, s, allocation) ==
  /\ svc = "idle"
  /\ \/ HasSyncpointExpired(counterMin, v) /\ UNCHANGED counterMin
     \/ /\ ~ HasSyncpointExpired(counterMin, v)
        /\ HasSyncpointExpired(value, v)
        /\ counterMin' = value
  /\ fails' = IF allocation THEN fails ELSE [fails EXCEPT ![s] = 0]
  /\ UNCHANGED <<syncpoint, status, kevent, registered, assigned, target, counterMax, ioctl,
                 acting, owed, late>>

\* It is not: a slot is chosen.  A poll, a slot that is in use or was not registered, end
\* the call; a slot that failed often makes it wait for the fence; otherwise the event is
\* set up and its action registered.
EventWait(v, s, allocation, poll) ==
  LET chosen == IF allocation THEN FindFreeNvEvent ELSE s
      created == allocation /\ ~ registered[chosen]
      refused == ~ created /\ (~ registered[chosen] \/ IsBeingUsed(chosen))
      failing == ~ created /\ fails[chosen] > FailLimit
      set == ~ poll /\ ~ refused /\ ~ failing
  IN /\ svc = "idle"
     /\ ~ HasSyncpointExpired(counterMin, v) /\ ~ HasSyncpointExpired(value, v)
     /\ counterMin' = value
     /\ svc' = CASE failing /\ (poll \/ ~ refused) -> "pred" [] set -> "check" [] OTHER -> "idle"
     /\ slot' = IF svc' = "idle" THEN 0 ELSE chosen
     /\ fence' = IF svc' = "idle" THEN 0 ELSE v
     /\ kevent' = IF created THEN [kevent EXCEPT ![chosen] = "clear"] ELSE kevent
     /\ registered' = [registered EXCEPT ![chosen] = @ \/ created]
     /\ assigned' = [assigned EXCEPT ![chosen] = IF set THEN 1 ELSE IF created THEN 0 ELSE @]
     /\ fails' = [fails EXCEPT ![chosen] = IF created THEN 0 ELSE @]
     /\ target' = [target EXCEPT ![chosen] = IF set THEN v ELSE @]
     /\ status' = [status EXCEPT ![chosen] = IF set THEN "Waiting"
                                             ELSE IF created THEN "Available" ELSE @]
     /\ owed' = [owed EXCEPT ![chosen] = @ \/ set]
     /\ late' = [late EXCEPT ![chosen] = @ /\ (set => Pending(chosen))]
     /\ UNCHANGED <<syncpoint, counterMax, acting>>

\* RegisterAction: the value is looked at without guard, and again with it.
RegisterCheck ==
  /\ svc = "check"
  /\ svc' = IF IsReady(fence) THEN "exchange" ELSE "lock"
  /\ acting' = [acting EXCEPT ![Service] = IF IsReady(fence) THEN slot ELSE @]
  /\ UNCHANGED <<syncpoint, events, counters, slot, fence, owed, late>>

\* Fault: the value is not looked at again.
ReadyLocked_Skipped == FALSE

ReadyLocked == IsReady(fence)

RegisterLock ==
  /\ svc = "lock" /\ guard = Nobody
  /\ guard' = Service
  /\ svc' = IF ReadyLocked THEN "exchange" ELSE "insert"
  /\ acting' = [acting EXCEPT ![Service] = IF ReadyLocked THEN slot ELSE @]
  /\ UNCHANGED <<value, storage, inc, newValue, events, counters, slot, fence, owed, late>>

RegisterInsert ==
  /\ svc = "insert"
  /\ storage' = Inserted([expected |-> fence, slot |-> slot])
  /\ guard' = Nobody
  /\ Return
  /\ UNCHANGED <<value, inc, newValue, events, counters, acting, owed, late>>

\* WaitHost for a slot that failed often: the value is looked at, then under guard the
\* thread sleeps until an increment notifies it.
WaitHost ==
  /\ svc = "pred"
  /\ \/ /\ IsReady(fence)
        /\ fails' = [fails EXCEPT ![slot] = 0]
        /\ Return
     \/ /\ ~ IsReady(fence) /\ guard = Nobody
        /\ svc' = "asleep"
        /\ UNCHANGED <<fails, slot, fence>>
  /\ UNCHANGED <<syncpoint, status, kevent, registered, assigned, target, counters, acting,
                 owed, late>>

\* FreeEvent of every slot of a set up to the first that is busy, in IocCtrlEventUnregister
\* and IocCtrlEventUnregisterBatch.
Unregister(S) ==
  LET busy == {s \in S : registered[s] /\ IsBeingUsed(s)}
      freed == {s \in S : registered[s] /\ \A b \in busy : s < b}
  IN /\ svc = "idle"
     /\ kevent' = [s \in EventSlots |-> IF s \in freed THEN "none" ELSE kevent[s]]
     /\ status' = [s \in EventSlots |-> IF s \in freed THEN "Available" ELSE status[s]]
     /\ registered' = [s \in EventSlots |-> registered[s] /\ s \notin freed]
     /\ owed' = [s \in EventSlots |-> owed[s] /\ s \notin freed]
     /\ late' = [s \in EventSlots |-> late[s] /\ (s \in freed => Pending(s))]
     /\ UNCHANGED <<syncpoint, assigned, target, fails, counters, ioctl, acting>>

\* IocCtrlEventRegister: FreeEvent if need be, and CreateNvEvent.
Register(s) ==
  /\ svc = "idle"
  /\ ~ (registered[s] /\ IsBeingUsed(s))
  /\ kevent' = [kevent EXCEPT ![s] = "clear"]
  /\ status' = [status EXCEPT ![s] = "Available"]
  /\ registered' = [registered EXCEPT ![s] = TRUE]
  /\ assigned' = [assigned EXCEPT ![s] = 0]
  /\ fails' = [fails EXCEPT ![s] = 0]
  /\ owed' = [owed EXCEPT ![s] = FALSE]
  /\ late' = [late EXCEPT ![s] = @ /\ Pending(s)]
  /\ UNCHANGED <<syncpoint, target, counters, ioctl, acting>>

\* IocCtrlClearEventWait, which does not look at registered.
ClearExchange(s) ==
  /\ svc = "idle"
  /\ status' = [status EXCEPT ![s] = "Cancelling"]
  /\ svc' = IF status[s] = "Waiting" THEN "deregister" ELSE "cancelled"
  /\ slot' = s
  /\ late' = [late EXCEPT ![s] = @ \/ status[s] = "Signalling"]
  /\ UNCHANGED <<syncpoint, kevent, registered, assigned, target, fails, counters, fence,
                 acting, owed>>

\* Fault: the action stays registered.
Deregistered_Kept == storage

Deregistered == Erased([expected |-> target[slot], slot |-> slot])

ClearDeregister ==
  /\ svc = "deregister" /\ guard = Nobody
  /\ storage' = Deregistered
  /\ counterMin' = value
  /\ svc' = "cancelled"
  /\ UNCHANGED <<value, guard, inc, newValue, events, counterMax, slot, fence, acting, owed,
                 late>>

ClearStore ==
  /\ svc = "cancelled"
  /\ fails' = [fails EXCEPT ![slot] = IF @ < MaxFails THEN @ + 1 ELSE @]
  /\ status' = [status EXCEPT ![slot] = "Cancelled"]
  /\ svc' = "clear"
  /\ UNCHANGED <<syncpoint, kevent, registered, assigned, target, counters, slot, fence,
                 acting, owed, late>>

\* A slot that is not registered has no kernel event to clear: a null pointer again.
ClearEvent ==
  /\ svc = "clear"
  /\ IF kevent[slot] = "none"
       THEN svc' = "crashed" /\ UNCHANGED <<kevent, owed, late, slot, fence>>
       ELSE /\ kevent' = [kevent EXCEPT ![slot] = "clear"]
            /\ owed' = [owed EXCEPT ![slot] = FALSE]
            /\ late' = [late EXCEPT ![slot] = @ /\ Pending(slot)]
            /\ Return
  /\ UNCHANGED <<syncpoint, status, registered, assigned, target, fails, counters, acting>>

\* The guest resets the kernel event that it has a handle of.
GuestReset(s) ==
  /\ kevent[s] = "signaled"
  /\ kevent' = [kevent EXCEPT ![s] = "clear"]
  /\ UNCHANGED <<syncpoint, status, registered, assigned, target, fails, counters, ioctl,
                 acting, owed, late>>

ServiceStep ==
  \/ RegisterCheck \/ RegisterLock \/ RegisterInsert \/ WaitHost
  \/ ClearDeregister \/ ClearStore \/ ClearEvent
  \/ ActionExchange(Service) \/ ActionSignal(Service) \/ ActionStore(Service)

GpuStep(i) ==
  \/ GpuLock(i) \/ GpuRun(i) \/ GpuEnd(i)
  \/ ActionExchange(i) \/ ActionSignal(i) \/ ActionStore(i)

Crashed == \E t \in Threads : Step(t) = "crashed"

CtrlNext ==
  /\ ~ Crashed
  /\ \/ ServiceStep
     \/ \E i \in Incrementers : GpuIncrement(i) \/ GpuStep(i)
     \/ Submit
     \/ \E S \in SUBSET EventSlots \ {{}} : Unregister(S)
     \/ \E s \in Cleared : ClearExchange(s)
     \/ \E s \in EventSlots :
          \/ Register(s) \/ GuestReset(s)
          \/ \E v \in 0..MaxValue, allocation \in BOOLEAN : EventWaitPassed(v, s, allocation)
          \/ \E v \in 1..MaxValue, allocation, poll \in BOOLEAN :
               EventWait(v, s, allocation, poll)

CtrlSpec == CtrlInit /\ [][CtrlNext]_ctrlVars

\* Threads run, and guard is handed over fairly.
FairCtrlSpec ==
  /\ CtrlSpec
  /\ WF_ctrlVars(~ Crashed /\ ServiceStep)
  /\ \A i \in Incrementers : SF_ctrlVars(~ Crashed /\ GpuStep(i))
-----------------------------------------------------------------------------
(* Properties *)

(***************************************************************************)
(* Both properties leave out the slots that are late, where the code does  *)
(* not keep them.  A slot becomes late when IocCtrlClearEventWait finds    *)
(* its action between the exchange and the last store, which run without   *)
(* events_mutex.  The clear makes the slot free although the action goes   *)
(* on.  If a new wait takes the slot before it ends, the Signal of the old *)
(* action is early for the new fence, and its store of Signalled makes the *)
(* action of the new wait skip its Signal.  If the slot is unregistered    *)
(* before it ends, kevent is a null pointer.  The slot stays late as long  *)
(* as each new use of it meets an action of an earlier one.                *)
(***************************************************************************)

\* The step in which thread t signals the event of its slot.
Signals(t) == Step(t) = "signal" /\ Step(t)' # "signal"

\* An action that signals for a slot that is not late has the kernel event of the slot, and
\* the value has reached the fence that the slot waits for.
SignalNotEarly ==
  [][\A t \in Threads : Signals(t) /\ ~ late[acting[t]] =>
       kevent[acting[t]] # "none" /\ value >= target[acting[t]]]_ctrlVars

\* As long as the emulator has not crashed, a guest that waits for a fence with a slot that
\* is not late, and does not clear the wait, has the event signaled once the value has
\* reached the fence.
FenceSignalled ==
  \A s \in EventSlots : []<>(Crashed \/ ~ (owed[s] /\ ~ late[s] /\ value >= target[s]))
=============================================================================
