------------------------------ MODULE KScheduler ------------------------------
(***************************************************************************)
(* How the scheduler chooses the thread that each core is to run: the      *)
(* operations that change the priority queue, the migration of threads to  *)
(* idle cores (UpdateHighestPriorityThreads), the yields, and the timer    *)
(* that rotates a queue (PreemptThreads).                                  *)
(*                                                                         *)
(* A section under the scheduler lock is one action: the change it makes   *)
(* to the queues and the UpdateHighestPriorityThreads of its Unlock.  It   *)
(* is entered by the thread that a core runs, or by one host thread that   *)
(* runs on no core, Host.  A core that is to run another thread does so    *)
(* later, in two steps, Leave and Enter, and its thread may enter other    *)
(* sections until it leaves; KSchedulerSwitch has the details of that.     *)
(*                                                                         *)
(* All threads belong to one process; none of them is pinned.              *)
(***************************************************************************)
EXTENDS KPriorityQueue

CONSTANTS Host,
          Priorities,          \* the priorities that SetPriority is given
          InitPriority,
          Prioritized,         \* the threads to which it is applied
          Movable,             \* the threads to which SetCoreMask is applied
          PreemptionPriority   \* the level that the preemption timer rotates

Ext == INSTANCE SequencesExt

HighestCoreMigrationAllowedPriority == 2

Actors == Cores \cup {Host}
Idle(c) == <<"idle", c>>          \* m_idle_thread of core c
CoreOrder == [i \in 1..NumCores |-> i - 1]

VARIABLES q,         \* the threads and the priority queue
          quiet,     \* the threads whose yield count is the process's count
          highest,   \* m_state.highest_priority_thread
          current,   \* m_current_thread
          out        \* the cores that have unloaded their current thread

vars == <<q, quiet, highest, current, out>>

TypeOK ==
  /\ q \in [runnable : SUBSET Threads, priority : [Threads -> Int],
            affinity : [Threads -> SUBSET Cores], core : [Threads -> Cores \cup {NoCore}],
            scheduled : [Cores -> Seq(Threads)], suggested : [Cores -> Seq(Threads)]]
  /\ quiet \subseteq Threads
  /\ highest \in [Cores -> Threads \cup {nullptr}]
  /\ current \in [Cores -> Threads \cup {Idle(c) : c \in Cores}]
  /\ out \subseteq Cores

\* Every core runs its idle thread, and no thread has been started.
Init ==
  /\ q = [runnable |-> {}, priority |-> [t \in Threads |-> InitPriority],
          affinity |-> [t \in Threads |-> Cores], core |-> [t \in Threads |-> 0],
          scheduled |-> [c \in Cores |-> <<>>], suggested |-> [c \in Cores |-> <<>>]]
  /\ quiet = {}
  /\ highest = [c \in Cores |-> nullptr]
  /\ current = [c \in Cores |-> Idle(c)]
  /\ out = {}

Wanted(c) == IF highest[c] = nullptr THEN Idle(c) ELSE highest[c]

-----------------------------------------------------------------------------
(* UpdateHighestPriorityThreads *)

\* A thread that is not the top of its core may be moved, unless the top is too urgent.
MayMigrate(x, top) ==
  top = nullptr \/ x.priority[top] >= HighestCoreMigrationAllowedPriority

\* The entry of tops for the core on which t is active.
TopOf(x, tops, t) == IF x.core[t] = NoCore THEN nullptr ELSE tops[x.core[t]]

Fronts(x) == [c \in Cores |-> Front(x.scheduled[c])]

\* Of the cores' tops that could run on c, the first whose core has another thread.
Donor(x, c) ==
  Front(SelectSeq(x.suggested[c], LAMBDA t : GetScheduledNext(x, x.core[t], t) # nullptr))

\* Fault: only the first suggestion is looked at.
MigrateTo_Fault(u, c) ==
  LET t == Front(u.q.suggested[c])
  IN  IF t = nullptr \/ TopOf(u.q, u.tops, t) = t
         \/ ~ MayMigrate(u.q, TopOf(u.q, u.tops, t)) THEN u
      ELSE [q |-> ChangeCore(u.q, t, c, FALSE), tops |-> [u.tops EXCEPT ![c] = t]]

\* One round of the loop over the idle cores: find a thread for core c.
MigrateTo(u, c) ==
  LET suggested == Front(SelectSeq(u.q.suggested[c], LAMBDA t : TopOf(u.q, u.tops, t) # t))
      donor == Donor(u.q, c)
  IN  IF suggested # nullptr
      THEN IF ~ MayMigrate(u.q, TopOf(u.q, u.tops, suggested)) THEN u
           ELSE [q |-> ChangeCore(u.q, suggested, c, FALSE),
                 tops |-> [u.tops EXCEPT ![c] = suggested]]
      ELSE IF donor = nullptr THEN u
           ELSE [q |-> ChangeCore(u.q, donor, c, FALSE),
                 tops |-> [u.tops EXCEPT
                             ![u.q.core[donor]] = GetScheduledNext(u.q, u.q.core[donor], donor),
                             ![c] = donor]]

\* The queues and the top of every core once each idle core has been tried in turn.
FillIdleCores(x) ==
  LET tops == Fronts(x)
  IN  Ext!FoldLeft(LAMBDA u, c : IF tops[c] = nullptr THEN MigrateTo(u, c) ELSE u,
                   [q |-> x, tops |-> tops], CoreOrder)

\* A thread that is replaced, on the first pass or while the idle cores are filled,
\* counts as a scheduling of its process.
Replaces(x, tops) ==
  \E c \in Cores : \/ Fronts(x)[c] # highest[c] /\ highest[c] # nullptr
                   \/ tops[c] # Fronts(x)[c] /\ Fronts(x)[c] # nullptr

UpdateHighestPriorityThreads(x, y) ==
  LET u == FillIdleCores(x)
  IN  /\ q' = u.q
      /\ highest' = u.tops
      /\ quiet' = IF Replaces(x, u.tops) THEN {} ELSE y

\* The end of a section of actor a that has brought the queues to x and the matching
\* yield counts to y: Unlock, with the update only if the section asked for it.  The
\* actor's own core leaves its thread at once if it is to run another one.
Unlock(a, x, y, update) ==
  /\ IF update THEN UpdateHighestPriorityThreads(x, y)
     ELSE q' = x /\ quiet' = y /\ UNCHANGED highest
  /\ out' = out \cup {c \in Cores : c = a /\ current[c] # Wanted(c)'}
  /\ UNCHANGED current

\* Fault: only the yield count of the thread itself is out of date.
IncrementScheduledCount_Fault(t) == quiet \ {t}

\* The threads whose yield count matches once a scheduling of t's process is counted.
IncrementScheduledCount(t) == {}

\* A thread runs on core c.
Running(c) == c \notin out /\ current[c] \in Threads

\* Actor a can enter a section.
Free(a) == a # Host => Running(a)

-----------------------------------------------------------------------------
(* The operations on threads.  Each ends with the release of the lock. *)

\* SetState(Runnable): a wait of t ends, t is started or resumed.
MakeRunnable(a, t) ==
  /\ Free(a)
  /\ t \notin q.runnable
  /\ Unlock(a, PushBack([q EXCEPT !.runnable = @ \cup {t}], t), IncrementScheduledCount(t), TRUE)

\* SetState of another kind: t begins a wait, or is suspended.
MakeWait(a, t) ==
  /\ Free(a)
  /\ t \in q.runnable
  /\ Unlock(a, Remove([q EXCEPT !.runnable = @ \ {t}], t), IncrementScheduledCount(t), TRUE)

\* The queues after OnThreadPriorityChanged.
RequeuePriority(t, p, is_running) ==
  IF t \in q.runnable THEN ChangePriority(q, t, p, is_running)
  ELSE [q EXCEPT !.priority[t] = p]

SetPriority(a, t, p) ==
  /\ Free(a)
  /\ p # q.priority[t]
  /\ Unlock(a, RequeuePriority(t, p, a # Host /\ current[a] = t),
            IF t \in q.runnable THEN IncrementScheduledCount(t) ELSE quiet, t \in q.runnable)

\* The active core once the mask is set: the ideal core, or the last one of the mask.
NewCore(t, ideal, mask) ==
  IF q.core[t] = NoCore \/ q.core[t] \in mask THEN q.core[t]
  ELSE IF ideal # NoCore THEN ideal
  ELSE CHOOSE c \in mask : \A d \in mask : d <= c

\* SetCoreMask, its first section.  The ones in which the caller then waits until t is not
\* current on a core that the mask excludes change nothing here.
SetCoreMask(c, t, ideal, mask) ==
  /\ Free(c)
  /\ mask # q.affinity[t]
  /\ LET new_core == NewCore(t, ideal, mask)
     IN  Unlock(c, IF t \in q.runnable THEN ChangeAffinityMask(q, t, mask, new_core)
                   ELSE [q EXCEPT !.affinity[t] = mask, !.core[t] = new_core],
                IF t \in q.runnable THEN IncrementScheduledCount(t) ELSE quiet, t \in q.runnable)

-----------------------------------------------------------------------------
(* Yields of the current thread.  One whose yield count is the process's    *)
(* count of schedulings returns at once.                                    *)

YieldWithoutCoreMigration(c) ==
  LET t == current[c]
      x == MoveToScheduledBack(q, t)
      next == Front(Level(x, x.scheduled[x.core[t]], x.priority[t]))
  IN  /\ Free(c)
      /\ t \in q.runnable \ quiet
      /\ Unlock(c, x, IF next = t THEN {t} ELSE {}, next # t)

\* tick is GetLastScheduledTick, of which only the order matters.
YieldWithCoreMigration(c, tick) ==
  LET t == current[c]
      core == q.core[t]
      x == MoveToScheduledBack(q, t)
      next == Front(Level(x, x.scheduled[core], x.priority[t]))
      Elsewhere(s) == TopOf(x, highest, s) # s
      PreferNext(s) == \/ x.priority[s] > x.priority[t]
                       \/ x.priority[s] = x.priority[t] /\ next # t /\ tick[next] < tick[s]
      Stop(s) == Elsewhere(s) /\ (PreferNext(s) \/ MayMigrate(x, TopOf(x, highest, s)))
      last == Front(SelectSeq(x.suggested[core], Stop))
      migrate == last # nullptr /\ ~ PreferNext(last)
      recheck == Front(SelectSeq(x.suggested[core], Elsewhere)) # last
      update == migrate \/ next # t
  IN  /\ Free(c)
      /\ t \in q.runnable \ quiet
      /\ Unlock(c, IF migrate THEN ChangeCore(x, last, core, TRUE) ELSE x,
                IF update \/ recheck THEN {} ELSE {t}, update)

YieldToAnyThread(c) ==
  LET t == current[c]
      core == q.core[t]
      x == ChangeCore(q, t, NoCore, FALSE)
      suggested == Front(SelectSeq(x.suggested[core], LAMBDA s : TopOf(x, Fronts(x), s) # s))
      migrate == /\ x.scheduled[core] = <<>>
                 /\ suggested # nullptr
                 /\ MayMigrate(x, TopOf(x, Fronts(x), suggested))
      alone == x.scheduled[core] = <<>> /\ suggested = t
  IN  /\ Free(c)
      /\ t \in q.runnable \ quiet
      /\ Unlock(c, IF migrate THEN ChangeCore(x, suggested, core, FALSE) ELSE x,
                IF alone THEN {t} ELSE {}, ~ alone)

-----------------------------------------------------------------------------
(* The preemption timer *)

\* RotateScheduledQueue on core c.  r.count: a scheduling of the process was counted.
RotateScheduledQueue(r, c, tick) ==
  LET p == PreemptionPriority
      top == Front(Level(r.q, r.q.scheduled[c], p))
      x == IF top = nullptr THEN r.q ELSE MoveToScheduledBack(r.q, top)
      next == Front(Level(x, x.scheduled[c], p))
      \* A thread of the same priority, suggested for c, that may go before next.
      PreferNext(s) == top # next /\ tick[next] < tick[s]
      Stop(s) == LET t == TopOf(x, Fronts(x), s)
                 IN  t # s /\ (PreferNext(s) \/ MayMigrate(x, t))
      same == Front(SelectSeq(Level(x, x.suggested[c], p), Stop))
      moved == same # nullptr /\ ~ PreferNext(same)
      y == IF moved THEN ChangeCore(x, same, c, TRUE) ELSE x
      \* A more urgent thread suggested for c.
      best == Front(y.scheduled[c])
      Better(s) == LET t == TopOf(y, Fronts(y), s)
                   IN  y.priority[s] < y.priority[best] /\ t # s /\ MayMigrate(y, t)
      more == IF best = nullptr \/ y.priority[best] < p THEN nullptr
              ELSE Front(SelectSeq(y.suggested[c], Better))
  IN  [q |-> IF more = nullptr THEN y ELSE ChangeCore(y, more, c, TRUE),
       count |-> r.count \/ top # next \/ moved \/ more # nullptr]

PreemptThreads(tick) ==
  LET r == Ext!FoldLeft(LAMBDA s, c : RotateScheduledQueue(s, c, tick),
                        [q |-> q, count |-> FALSE], CoreOrder)
  IN  /\ Free(Host)
      /\ Unlock(Host, r.q, IF r.count THEN {} ELSE quiet, TRUE)

-----------------------------------------------------------------------------
(* The switch *)

\* An interrupted core saves the context of its current thread.
Leave(c) ==
  /\ c \notin out
  /\ current[c] # Wanted(c)
  /\ out' = out \cup {c}
  /\ UNCHANGED <<q, quiet, highest, current>>

\* The context of the thread is free: SwitchThread.
Enter(c) ==
  /\ c \in out
  /\ \A d \in Cores \ out : current[d] # Wanted(c)
  /\ current' = [current EXCEPT ![c] = Wanted(c)]
  /\ out' = out \ {c}
  /\ UNCHANGED <<q, quiet, highest>>

Ticks == [Threads -> 0..1]
Masks == (SUBSET Cores) \ {{}}

Next ==
  \/ \E a \in Actors, t \in Threads : MakeRunnable(a, t)
  \/ \E c \in Cores, t \in Threads : MakeWait(c, t)
  \/ \E c \in Cores, t \in Prioritized, p \in Priorities : SetPriority(c, t, p)
  \/ \E c \in Cores, t \in Movable, mask \in Masks :
        \E ideal \in mask \cup {NoCore} : SetCoreMask(c, t, ideal, mask)
  \/ \E c \in Cores : YieldWithoutCoreMigration(c) \/ YieldToAnyThread(c)
  \/ \E c \in Cores, tick \in Ticks : YieldWithCoreMigration(c, tick)
  \/ \E tick \in Ticks : PreemptThreads(tick)
  \/ \E c \in Cores : Leave(c) \/ Enter(c)

Spec == Init /\ [][Next]_vars

-----------------------------------------------------------------------------
(* Properties *)

\* A runnable thread is scheduled on its active core and suggested for the other cores of
\* its mask, in the order of the priorities, and nowhere else; its mask allows its active
\* core; and every core has been told to run the front of its queue.  Migrations, changes
\* of mask and priority, and yields all move threads between these lists piecemeal.
QueuesExact ==
  \A c \in Cores :
    LET s == q.scheduled[c]
        g == q.suggested[c]
        Sorted(l) == \A i, j \in 1..Len(l) :
                       i < j => l[i] # l[j] /\ q.priority[l[i]] <= q.priority[l[j]]
    IN  /\ Ext!ToSet(s) = {t \in q.runnable : q.core[t] = c}
        /\ Ext!ToSet(g) = {t \in q.runnable : q.core[t] # c /\ c \in q.affinity[t]}
        /\ \A t \in Ext!ToSet(s) : c \in q.affinity[t]
        /\ Sorted(s) /\ Sorted(g)
        /\ highest[c] = Front(s)

\* A thread on another core that is not its top, where the top is too urgent to be left.
Held(t) ==
  /\ q.core[t] # NoCore
  /\ highest[q.core[t]] # t
  /\ ~ MayMigrate(q, highest[q.core[t]])

\* "Idle cores are bad": a core is left without a thread only if each thread that could
\* run on it is the only one of its core, or if one of them is held back.
NoIdleCoreWithWork ==
  \A c \in Cores :
    LET candidates == {t \in q.runnable : c \in q.affinity[t]}
    IN  highest[c] = nullptr =>
          \/ \A t \in candidates : q.core[t] # NoCore /\ q.scheduled[q.core[t]] = <<t>>
          \/ \E t \in candidates : Held(t)

\* A yield that returns at once, because the process has not been scheduled since the
\* last one, would not have found another thread of the same priority on its core.
YieldSkipHarmless ==
  \A t \in quiet : t \in q.runnable =>
     q.core[t] # NoCore /\ Level(q, q.scheduled[q.core[t]], q.priority[t]) = <<t>>

=============================================================================
