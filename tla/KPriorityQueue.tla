---------------------------- MODULE KPriorityQueue ----------------------------
(***************************************************************************)
(* The scheduler's priority queue (KPriorityQueue), as operators on a      *)
(* record q with the fields of the threads that it reads and its queues:   *)
(*                                                                         *)
(*   q.runnable   the set of threads whose raw state is Runnable           *)
(*   q.priority   KThread::m_priority (a smaller number is more urgent)    *)
(*   q.affinity   KThread::m_physical_affinity_mask, as a set of cores     *)
(*   q.core       KThread::m_core_id, the active core, or NoCore           *)
(*   q.scheduled  m_scheduled_queue: per core, the threads that run there  *)
(*   q.suggested  m_suggested_queue: per core, those that could move there *)
(*                                                                         *)
(* A queue has one list per priority; here the lists of a core follow each *)
(* other in one sequence, the most urgent first.                           *)
(***************************************************************************)
EXTENDS Integers, Sequences

CONSTANTS Threads,
          NumCores,  \* NUM_CPU_CORES
          nullptr

Cores == 0..(NumCores - 1)
NoCore == -1

Front(s) == IF s = <<>> THEN nullptr ELSE s[1]

\* The lists of one priority.
Level(q, s, p) == SelectSeq(s, LAMBDA t : q.priority[t] = p)

Without(s, t) == SelectSeq(s, LAMBDA u : u # t)

AtBack(q, s, t) ==
  LET rest == Without(s, t)
  IN  SelectSeq(rest, LAMBDA u : q.priority[u] <= q.priority[t]) \o <<t>>
        \o SelectSeq(rest, LAMBDA u : q.priority[u] > q.priority[t])

AtFront(q, s, t) ==
  LET rest == Without(s, t)
  IN  SelectSeq(rest, LAMBDA u : q.priority[u] < q.priority[t]) \o <<t>>
        \o SelectSeq(rest, LAMBDA u : q.priority[u] >= q.priority[t])

Remove(q, t) ==
  [q EXCEPT
     !.scheduled = [c \in Cores |-> IF c = q.core[t] THEN Without(@[c], t) ELSE @[c]],
     !.suggested = [c \in Cores |-> IF c \in q.affinity[t] \ {q.core[t]}
                                    THEN Without(@[c], t) ELSE @[c]]]

PushBack(q, t) ==
  [q EXCEPT
     !.scheduled = [c \in Cores |-> IF c = q.core[t] THEN AtBack(q, @[c], t) ELSE @[c]],
     !.suggested = [c \in Cores |-> IF c \in q.affinity[t] \ {q.core[t]}
                                    THEN AtBack(q, @[c], t) ELSE @[c]]]

\* The suggested queues still get the thread at the back.
PushFront(q, t) ==
  [q EXCEPT
     !.scheduled = [c \in Cores |-> IF c = q.core[t] THEN AtFront(q, @[c], t) ELSE @[c]],
     !.suggested = [c \in Cores |-> IF c \in q.affinity[t] \ {q.core[t]}
                                    THEN AtBack(q, @[c], t) ELSE @[c]]]

MoveToScheduledBack(q, t) ==
  [q EXCEPT !.scheduled[q.core[t]] = AtBack(q, @, t)]

GetScheduledNext(q, c, t) ==
  LET s == q.scheduled[c]
      later == {i \in 1..Len(s) : i > 1 /\ s[i - 1] = t}
  IN  IF later = {} THEN nullptr ELSE s[CHOOSE i \in later : TRUE]

\* SetPriority and ChangePriority, for a thread that is runnable.
ChangePriority(q, t, p, is_running) ==
  LET removed == [Remove(q, t) EXCEPT !.priority[t] = p]
  IN  IF is_running THEN PushFront(removed, t) ELSE PushBack(removed, t)

\* A new mask and active core, for a thread that is runnable.
ChangeAffinityMask(q, t, mask, new_core) ==
  PushBack([Remove(q, t) EXCEPT !.affinity[t] = mask, !.core[t] = new_core], t)

\* Fault: the thread is no longer suggested for the core that it left.
ChangeCore_Fault(q, t, new_core, to_front) ==
  LET prev_core == q.core[t]
      moved == [q EXCEPT !.core[t] = new_core]
  IN  IF prev_core = new_core THEN q
      ELSE [moved EXCEPT
              !.scheduled = [c \in Cores |->
                 IF c = prev_core THEN Without(@[c], t)
                 ELSE IF c # new_core THEN @[c]
                 ELSE IF to_front THEN AtFront(q, @[c], t) ELSE AtBack(q, @[c], t)],
              !.suggested = [c \in Cores |-> IF c = new_core THEN Without(@[c], t) ELSE @[c]]]

\* SetActiveCore(new_core) and ChangeCore(prev_core, t, to_front).
ChangeCore(q, t, new_core, to_front) ==
  LET prev_core == q.core[t]
      moved == [q EXCEPT !.core[t] = new_core]
  IN  IF prev_core = new_core THEN q
      ELSE [moved EXCEPT
              !.scheduled = [c \in Cores |->
                 IF c = prev_core THEN Without(@[c], t)
                 ELSE IF c # new_core THEN @[c]
                 ELSE IF to_front THEN AtFront(q, @[c], t) ELSE AtBack(q, @[c], t)],
              !.suggested = [c \in Cores |->
                 IF c = new_core THEN Without(@[c], t)
                 ELSE IF c = prev_core THEN AtBack(q, @[c], t) ELSE @[c]]]

=============================================================================
