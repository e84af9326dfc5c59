---------------------------- MODULE KHardwareTimer ----------------------------
(***************************************************************************)
(* Timed waits: a thread that begins to wait with a timeout registers a    *)
(* timer task (KScopedSchedulerLockAndSleep, KHardwareTimer); the timer    *)
(* schedules one CoreTiming event for its earliest task; the CoreTiming    *)
(* thread pops the event and calls DoTask, which ends the waits that are   *)
(* due.  A wait that ends otherwise cancels its task.                      *)
(*                                                                         *)
(* Everything but the pop of the event happens under the scheduler lock.   *)
(* The loop of DoInterruptTaskImpl is unrolled; while it runs the lock is  *)
(* held.                                                                   *)
(***************************************************************************)
EXTENDS KernelCommon

CONSTANT MaxTime   \* bound on the clock

ASSUME TimerAssumption == MaxTime \in Nat \ {0}

VARIABLES now,       \* GetTick()
          taskTime,  \* KTimerTask::GetTime(); 0 when it is not in the tree
          nextTask,  \* m_next_task
          wakeup,    \* m_wakeup_time
          events,    \* times of the timer's events in CoreTiming's queue
          callback,  \* DoTask: "none", "called" (waits for the lock), "running"
          tstate,    \* m_thread_state
          timer,     \* the wait queue's m_hardware_timer is set
          result,    \* m_wait_result
          due        \* absolute timeout of the thread's current wait; 0: infinite

timerVars == <<now, taskTime, nextTask, wakeup, events, callback, tstate, timer, result, due>>
taskVars == <<taskTime, nextTask, wakeup, events>>

Times == 1..MaxTime
Never == MaxTime + 1   \* std::numeric_limits<s64>::max()

TimerTypeOK ==
  /\ now \in Times
  /\ taskTime \in [Threads -> 0..MaxTime]
  /\ nextTask \in Threads \cup {NoThread}
  /\ wakeup \in 1..Never
  /\ events \in SUBSET Times
  /\ callback \in {"none", "called", "running"}
  /\ tstate \in [Threads -> {"Runnable", "Waiting"}]
  /\ timer \in [Threads -> BOOLEAN]
  /\ result \in [Threads -> {"Success", "TimedOut", "Cancelled"}]
  /\ due \in [Threads -> 0..MaxTime]

TimerInit ==
  /\ now = 1
  /\ taskTime = [t \in Threads |-> 0]
  /\ nextTask = NoThread
  /\ wakeup = Never
  /\ events = {}
  /\ callback = "none"
  /\ tstate = [t \in Threads |-> "Runnable"]
  /\ timer = [t \in Threads |-> FALSE]
  /\ result = [t \in Threads |-> "Success"]
  /\ due = [t \in Threads |-> 0]
-----------------------------------------------------------------------------
SchedulerFree == callback # "running"

Tasks == {t \in Threads : taskTime[t] > 0}

\* EnableInterrupt: unschedule what is pending, schedule one event at the time.
EnableInterrupt(time) == wakeup' = time /\ events' = {time}

\* The new task is the one to handle next.
IsSooner(time) == nextTask = NoThread \/ ~ (taskTime[nextTask] <= time)

\* Fault: the interrupt is only ever enabled once.
MustArm_Idle(time) == wakeup = Never

MustArm(time) == time <= wakeup

\* RegisterAbsoluteTask for t.
Register(t, time) ==
  /\ taskTime' = [taskTime EXCEPT ![t] = time]
  /\ nextTask' = IF IsSooner(time) THEN t ELSE nextTask
  /\ IF IsSooner(time) /\ MustArm(time)
       THEN EnableInterrupt(time)
       ELSE UNCHANGED <<wakeup, events>>

\* What may follow t in the tree, which is sorted by time.
Successors(t) ==
  {u \in Tasks \ {t} : /\ taskTime[u] >= taskTime[t]
                       /\ \A v \in Tasks \ {t} : taskTime[v] >= taskTime[t] =>
                            taskTime[u] <= taskTime[v]}

NextAfter(t) == IF nextTask # t THEN {nextTask}
                ELSE IF Successors(t) = {} THEN {NoThread} ELSE Successors(t)

\* RemoveTaskFromTree.
RemoveTask(t) ==
  /\ taskTime' = [taskTime EXCEPT ![t] = 0]
  /\ nextTask' \in NextAfter(t)

\* Fault: CancelTask is not called.
CancelTask_Skipped(t) == UNCHANGED <<taskTime, nextTask>>

\* CancelTask, if the wait queue has a timer.
CancelTask(t) ==
  IF timer[t] /\ taskTime[t] > 0 THEN RemoveTask(t) ELSE UNCHANGED <<taskTime, nextTask>>

\* Time passes.  DoTask reads the clock once, so it stands still while DoTask runs.
Tick ==
  /\ now < MaxTime /\ callback # "running"
  /\ now' = now + 1
  /\ UNCHANGED <<taskVars, callback, tstate, timer, result, due>>

\* A wait or sleep inside KScopedSchedulerLockAndSleep: the thread waits, and its
\* task is registered if the timeout is positive.  The time may have passed.
BeginWait(t, timeout) ==
  /\ SchedulerFree
  /\ tstate[t] = "Runnable"
  /\ tstate' = [tstate EXCEPT ![t] = "Waiting"]
  /\ timer' = [timer EXCEPT ![t] = timeout > 0]
  /\ due' = [due EXCEPT ![t] = timeout]
  /\ IF timeout > 0 THEN Register(t, timeout) ELSE UNCHANGED taskVars
  /\ UNCHANGED <<now, callback, result>>

\* EndWait by whoever has what the thread waits for, CancelWait by WaitCancel or a
\* termination request: the thread runs and its task is cancelled.
EndWait(t, r) ==
  /\ SchedulerFree
  /\ tstate[t] = "Waiting"
  /\ tstate' = [tstate EXCEPT ![t] = "Runnable"]
  /\ result' = [result EXCEPT ![t] = r]
  /\ CancelTask(t)
  /\ UNCHANGED <<now, wakeup, events, callback, timer, due>>

\* CoreTiming::Advance pops an event that is due and calls back without its lock.
Advance ==
  /\ callback = "none"
  /\ \E e \in events : e <= now /\ events' = events \ {e}
  /\ callback' = "called"
  /\ UNCHANGED <<now, taskTime, nextTask, wakeup, tstate, timer, result, due>>

Acknowledge == wakeup' = Never

\* DoTask takes the scheduler lock: an interrupt that is not enabled is ignored.
DoTask ==
  /\ callback = "called"
  /\ IF wakeup = Never
       THEN callback' = "none" /\ UNCHANGED wakeup
       ELSE callback' = "running" /\ Acknowledge
  /\ UNCHANGED <<now, taskTime, nextTask, events, tstate, timer, result, due>>

\* Fault: a task is handled before its time.
NextIsDue_Early == nextTask # NoThread /\ taskTime[nextTask] <= now + 1

NextIsDue == nextTask # NoThread /\ taskTime[nextTask] <= now

\* One iteration of DoInterruptTaskImpl: remove the next task if it is due, and
\* OnTimer ends the wait.
DoInterruptTask ==
  /\ callback = "running"
  /\ NextIsDue
  /\ RemoveTask(nextTask)
  /\ IF tstate[nextTask] = "Waiting"
       THEN /\ tstate' = [tstate EXCEPT ![nextTask] = "Runnable"]
            /\ result' = [result EXCEPT ![nextTask] = "TimedOut"]
       ELSE UNCHANGED <<tstate, result>>
  /\ UNCHANGED <<now, wakeup, events, callback, timer, due>>

\* Fault: the timer is not armed again.
Rearm_Never == UNCHANGED <<wakeup, events>>

Rearm == IF nextTask # NoThread
           THEN EnableInterrupt(taskTime[nextTask])
           ELSE UNCHANGED <<wakeup, events>>

\* The end of DoTask: arm the timer for the next task.
DoTaskEnd ==
  /\ callback = "running"
  /\ ~ NextIsDue
  /\ Rearm
  /\ callback' = "none"
  /\ UNCHANGED <<now, taskTime, nextTask, tstate, timer, result, due>>

TimerNext ==
  \/ Tick \/ Advance \/ DoTask \/ DoInterruptTask \/ DoTaskEnd
  \/ \E t \in Threads : \/ \E timeout \in 0..MaxTime : BeginWait(t, timeout)
                        \/ \E r \in {"Success", "Cancelled"} : EndWait(t, r)

TimerSpec == TimerInit /\ [][TimerNext]_timerVars

\* The clock runs whatever the threads do, and the CoreTiming thread keeps handling events.
FairTimerSpec ==
  /\ TimerSpec
  /\ SF_timerVars(Tick) /\ WF_timerVars(Advance)
  /\ WF_timerVars(DoTask) /\ WF_timerVars(DoInterruptTask) /\ WF_timerVars(DoTaskEnd)
-----------------------------------------------------------------------------
(* Properties *)

\* m_next_task is the task with the earliest time, through every registration and
\* every removal from the front or the middle of the tree.
NextIsEarliest ==
  IF nextTask = NoThread THEN Tasks = {}
                         ELSE nextTask \in Tasks /\ \A t \in Tasks : taskTime[nextTask] <= taskTime[t]

\* While the scheduler lock is free, a timer with tasks is armed for no later than
\* its earliest task, and the event is in CoreTiming's queue or DoTask is called.
Armed ==
  SchedulerFree /\ Tasks # {} =>
    /\ wakeup <= taskTime[nextTask]
    /\ wakeup \in events \/ callback = "called"

\* An enabled interrupt has its event in the queue or its callback on the way, also
\* when the tasks it was enabled for are gone.
WakeupPending == wakeup # Never => wakeup \in events \/ callback = "called"

\* A task in the tree belongs to the thread's present wait: no timer of an earlier
\* wait is left to cut a later one short.
TaskOfThisWait ==
  \A t \in Tasks : tstate[t] = "Waiting" /\ timer[t] /\ taskTime[t] = due[t]

\* The timer is armed for the tasks of the waits there are, and for no others.
TimerExact == Armed /\ TaskOfThisWait

\* A wait never times out before the time its caller gave.
NeverEarly ==
  [][\A t \in Threads :
       tstate[t] = "Waiting" /\ tstate'[t] = "Runnable" /\ result'[t] = "TimedOut"
         => due[t] > 0 /\ due[t] <= now]_timerVars

\* A wait with a timeout ends.
TimedWaitEnds == \A t \in Threads : taskTime[t] > 0 ~> tstate[t] = "Runnable"
=============================================================================
