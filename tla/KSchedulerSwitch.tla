--------------------------- MODULE KSchedulerSwitch ---------------------------
(***************************************************************************)
(* How the cores come to run the threads that the scheduler has chosen for *)
(* them: the flag needs_scheduling, the inter-processor interrupts, and    *)
(* the switch fiber of each core (ScheduleImpl and ScheduleImplFiber).     *)
(*                                                                         *)
(* None of this is done under the scheduler lock.  A section under the     *)
(* lock is one action, of which only the outcome counts here: a new        *)
(* highest priority thread for some of the cores, no thread for two of     *)
(* them.  How it is chosen is the subject of KScheduler.                   *)
(*                                                                         *)
(* Sections are entered by the thread a core runs, and by one host thread  *)
(* that runs on no core (the timing thread, a service), Host.              *)
(***************************************************************************)
EXTENDS KernelCommon

CONSTANTS NumCores,   \* NUM_CPU_CORES
          Host

Cores == 0..(NumCores - 1)
Actors == Cores \cup {Host}
Idle(c) == <<"idle", c>>          \* m_idle_thread of core c

ASSUME SwitchAssumption ==
    /\ NumCores \in Nat
    /\ Host \notin Cores
    /\ \A c \in Cores : Idle(c) \notin Threads /\ Idle(c) # NoThread

VARIABLES highest,      \* m_state.highest_priority_thread
          needs,        \* m_state.needs_scheduling
          interrupted,  \* PhysicalCore::m_is_interrupted
          ipis,         \* the cores that an actor has yet to interrupt
          current,      \* m_current_thread
          target,       \* highest_priority_thread of the switch fiber
          guarded,      \* the threads whose m_context_guard is locked
          terminated,   \* the threads with the Terminated dpc flag
          pc            \* where each core is

vars == <<highest, needs, interrupted, ipis, current, target, guarded, terminated, pc>>

Contexts == Threads \cup {Idle(c) : c \in Cores}

TypeOK ==
  /\ highest \in [Cores -> Threads \cup {NoThread}]
  /\ needs \in [Cores -> BOOLEAN]
  /\ interrupted \in [Cores -> BOOLEAN]
  /\ ipis \in [Actors -> SUBSET Cores]
  /\ current \in [Cores -> Contexts]
  /\ target \in [Cores -> Contexts \cup {NoThread}]
  /\ guarded \subseteq Contexts
  /\ terminated \subseteq Threads
  /\ pc \in [Cores -> {"guest", "unlocked", "load", "lock", "check", "refresh"}]

\* Every core has been activated and runs its idle thread.
Init ==
  /\ highest = [c \in Cores |-> NoThread]
  /\ needs = [c \in Cores |-> FALSE]
  /\ interrupted = [c \in Cores |-> FALSE]
  /\ ipis = [a \in Actors |-> {}]
  /\ current = [c \in Cores |-> Idle(c)]
  /\ target = [c \in Cores |-> NoThread]
  /\ guarded = {Idle(c) : c \in Cores}
  /\ terminated = {}
  /\ pc = [c \in Cores |-> "guest"]

-----------------------------------------------------------------------------
(* Sections under the scheduler lock *)

\* What the cores may be told to run: no thread on two cores.
Choices == {h \in [Cores -> (Threads \ terminated) \cup {NoThread}] :
              \A c, d \in Cores : c # d /\ h[c] = h[d] => h[c] = NoThread}

\* Fault: a thread that runs on no core interrupts nobody.
OtherCores_Fault(changed, a) == IF a = Host THEN {} ELSE changed \ {a}

\* The cores that actor a has to interrupt.
OtherCores(changed, a) == changed \ {a}

\* needs_scheduling once the highest priority threads of some cores have changed.
Flagged(changed) == [c \in Cores |-> needs[c] \/ c \in changed]

\* UpdateHighestPriorityThreads and the release of the lock by actor a.  A core whose
\* thread was replaced and then given back while idle cores were filled is flagged too.
Unlock(a, h) ==
  /\ \E changed \in SUBSET Cores :
       /\ {c \in Cores : h[c] # highest[c]} \subseteq changed
       /\ \A c \in changed : h[c] # highest[c] \/ h[c] # NoThread
       /\ needs' = Flagged(changed)
       /\ ipis' = [ipis EXCEPT ![a] = OtherCores(changed, a)]
  /\ highest' = h
  /\ pc' = [c \in Cores |-> IF c = a THEN "unlocked" ELSE pc[c]]
  /\ UNCHANGED <<interrupted, current, target, guarded>>

\* Actor a can enter a section: it is not in one, nor behind one.
Free(a) ==
  IF a = Host THEN ipis[Host] = {}
  ELSE pc[a] = "guest" /\ current[a] \in Threads

\* Any operation that changes what threads can run, or how urgent they are.
Reschedule(a) ==
  /\ Free(a)
  /\ \E h \in Choices : Unlock(a, h)
  /\ UNCHANGED terminated

\* KThread::Exit: the current thread leaves the queues for good.
Exit(c) ==
  /\ Free(c)
  /\ \E h \in Choices : current[c] \notin {h[d] : d \in Cores} /\ Unlock(c, h)
  /\ terminated' = terminated \cup {current[c]}

Section == \E a \in Actors : Reschedule(a) \/ (a # Host /\ Exit(a))

-----------------------------------------------------------------------------
(* After the lock: EnableScheduling *)

\* RescheduleCores: the loop interrupts one core after the other.
Interrupt(a) ==
  \E c \in ipis[a] :
    /\ \A d \in ipis[a] : c <= d
    /\ interrupted' = [interrupted EXCEPT ![c] = TRUE]
    /\ ipis' = [ipis EXCEPT ![a] = @ \ {c}]
    /\ UNCHANGED <<highest, needs, current, target, guarded, terminated, pc>>

\* Core c goes on to label.
Goto(c, label) ==
  /\ pc' = [pc EXCEPT ![c] = label]
  /\ UNCHANGED <<highest, ipis, terminated>>

\* ScheduleImpl begins by clearing needs_scheduling.
RescheduleCurrentCore(c) ==
  /\ pc[c] = "unlocked"
  /\ ipis[c] = {}
  /\ needs' = [needs EXCEPT ![c] = FALSE]
  /\ Goto(c, IF needs[c] THEN "load" ELSE "guest")
  /\ UNCHANGED <<interrupted, current, target, guarded>>

\* ClearInterrupt and RequestScheduleOnInterrupt, which goes on to ScheduleImpl.
HandleInterrupt(c) ==
  /\ pc[c] = "guest"
  /\ interrupted[c]
  /\ interrupted' = [interrupted EXCEPT ![c] = FALSE]
  /\ needs' = [needs EXCEPT ![c] = FALSE]
  /\ Goto(c, "load")
  /\ UNCHANGED <<current, target, guarded>>

-----------------------------------------------------------------------------
(* ScheduleImpl and ScheduleImplFiber *)

Wanted(c) == IF highest[c] = NoThread THEN Idle(c) ELSE highest[c]

\* The contexts that stay locked when the current thread is unloaded: its own, only if
\* it has terminated.
Unload(c) == IF current[c] \in terminated THEN guarded ELSE guarded \ {current[c]}

\* Nothing is left to do if the current thread is the one.  An idle core with nothing to
\* run still goes through the switch, from its idle thread to itself.
LoadHighest(c) ==
  /\ pc[c] = "load"
  /\ IF highest[c] = current[c]
     THEN Goto(c, "guest") /\ UNCHANGED <<target, guarded>>
     ELSE /\ Goto(c, "lock")
          /\ target' = [target EXCEPT ![c] = Wanted(c)]
          /\ guarded' = Unload(c)
  /\ UNCHANGED <<needs, interrupted, current>>

\* The retry label: needs_scheduling is cleared, then the highest priority thread read.
Retry(c) ==
  /\ needs' = [needs EXCEPT ![c] = FALSE]
  /\ target' = [target EXCEPT ![c] = NoThread]
  /\ Goto(c, "refresh")

RefreshHighest(c) ==
  /\ pc[c] = "refresh"
  /\ target' = [target EXCEPT ![c] = Wanted(c)]
  /\ Goto(c, "lock")
  /\ UNCHANGED <<needs, interrupted, current, guarded>>

\* Fault: the guard is not tried.
Lockable_Fault(c) == TRUE

\* try_lock on the guard of the thread to switch to.
Lockable(c) == target[c] \notin guarded

SwitchThread(c) ==
  /\ pc[c] = "lock"
  /\ Lockable(c)
  /\ guarded' = guarded \cup {target[c]}
  /\ current' = [current EXCEPT ![c] = target[c]]
  /\ Goto(c, "check")
  /\ UNCHANGED <<needs, interrupted, target>>

\* Fault: the loop on try_lock does not look at needs_scheduling.
LockInterfered_Fault(c) == FALSE

\* try_lock fails and another core is interfering.
LockInterfered(c) ==
  /\ pc[c] = "lock"
  /\ ~ Lockable(c)
  /\ needs[c]
  /\ Retry(c)
  /\ UNCHANGED <<interrupted, current, guarded>>

CompleteSwitch(c) ==
  /\ pc[c] = "check"
  /\ ~ needs[c]
  /\ target' = [target EXCEPT ![c] = NoThread]
  /\ Goto(c, "guest")
  /\ UNCHANGED <<needs, interrupted, current, guarded>>

SwitchInterfered(c) ==
  /\ pc[c] = "check"
  /\ needs[c]
  /\ guarded' = guarded \ {target[c]}
  /\ Retry(c)
  /\ UNCHANGED <<interrupted, current>>

Switching(c) ==
  \/ RescheduleCurrentCore(c) \/ HandleInterrupt(c) \/ LoadHighest(c) \/ SwitchThread(c)
  \/ LockInterfered(c) \/ CompleteSwitch(c) \/ SwitchInterfered(c) \/ RefreshHighest(c)

Next ==
  \/ Section
  \/ \E a \in Actors : Interrupt(a)
  \/ \E c \in Cores : Switching(c)

Spec == Init /\ [][Next]_vars

\* Each core is a host thread, and each actor ends the section it is in.
FairSpec ==
  /\ Spec
  /\ \A c \in Cores : WF_vars(Switching(c))
  /\ \A a \in Actors : WF_vars(Interrupt(a))

-----------------------------------------------------------------------------
(* Properties *)

\* Core c has the context of its current thread.
Holds(c) == pc[c] \notin {"lock", "refresh"}

\* A thread never runs on two cores: while one core has its context, from the try_lock
\* that got it to the Unload, no other core has it as its current thread.
ContextOwned ==
  \A c, d \in Cores : Holds(c) /\ Holds(d) /\ c # d => current[c] # current[d]

\* A core in guest code that is to run something else will hear of it: it has been
\* interrupted, or the actor that made the change has yet to interrupt it.
NoLostReschedule ==
  \A c \in Cores :
    pc[c] = "guest" =>
      \/ current[c] = Wanted(c)
      \/ interrupted[c]
      \/ \E a \in Actors : c \in ipis[a]

\* KThread::Exit does not return (its UNREACHABLE), and no core ever takes up the
\* context of a thread that has terminated.
ExitNeverReturns ==
  \A c \in Cores : pc[c] = "guest" => current[c] \notin terminated

AllSwitched == \A c \in Cores : pc[c] = "guest" /\ current[c] = Wanted(c)

\* Once no more sections are entered, every core gets to run its highest priority
\* thread and stays with it: the try_lock loops end and do not chase each other.
Settles == []<><<Section>>_vars \/ <>[]AllSwitched

=============================================================================
