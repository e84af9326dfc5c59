----------------------------- MODULE MCScheduling -----------------------------
(***************************************************************************)
(* The scheduler for TLC.  KScheduler decides which thread a core is to    *)
(* run, KSchedulerSwitch brings the core to run it whatever was decided.   *)
(* The modules share no state, and a behaviour is one of either.           *)
(***************************************************************************)
EXTENDS KSchedulerSwitch

CONSTANTS SchedThreads, Priorities, InitPriority, Prioritized, Movable, PreemptionPriority

VARIABLES part, \* the part that runs
          q, quiet, schedHighest, schedCurrent, out

Sched ==
  INSTANCE KScheduler
    WITH Threads <- SchedThreads, nullptr <- NoThread,
         highest <- schedHighest, current <- schedCurrent

schedVars == <<q, quiet, schedHighest, schedCurrent, out>>
mcVars == <<vars, schedVars, part>>

MCInit == Init /\ Sched!Init /\ part \in {"switch", "decide"}

MCNext ==
  \/ part = "switch" /\ Next /\ UNCHANGED <<schedVars, part>>
  \/ part = "decide" /\ Sched!Next /\ UNCHANGED <<vars, part>>

\* The fairness of KSchedulerSwitch!FairSpec.
MCSpec ==
  /\ MCInit /\ [][MCNext]_mcVars
  /\ part = "switch" => /\ \A c \in Cores : WF_vars(Switching(c))
                        /\ \A a \in Actors : WF_vars(Interrupt(a))

\* The lists of the priority queue hold every runnable thread where its core, mask and
\* priority say, and no core is left without a thread while one could be moved there.
WorkDistributed == part = "decide" => Sched!QueuesExact /\ Sched!NoIdleCoreWithWork

\* A yield that returns at once, because the process has not been scheduled since the
\* last one, would not have found another thread of the same priority on its core.
YieldSkipHarmless == part = "decide" => Sched!YieldSkipHarmless
=============================================================================
