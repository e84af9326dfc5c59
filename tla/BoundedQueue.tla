------------------------------ MODULE BoundedQueue ------------------------------
(***************************************************************************)
(* The ring of Common::SPSCQueue as Common::MPSCQueue uses it: producers   *)
(* one at a time (they hold write_mutex), one consumer.                    *)
(*                                                                         *)
(* The slot is written before the index that publishes it, and the indices *)
(* move outside the mutexes of the two condition variables: only the check *)
(* of an index with the sleep that follows, and the notification, are one  *)
(* step each.  The indices are natural numbers: 2^64 is never reached.     *)
(***************************************************************************)
EXTENDS Integers

CONSTANTS Capacity,
          Producers,
          NoItem    \* what a slot holds before it is written

ASSUME CapacityAssumption == Capacity \in Nat \ {0}

VARIABLES readIndex, writeIndex,
          data,   \* m_data
          push,   \* where each producer is
          item,   \* what it emplaces
          pop,    \* where the consumer is
          next    \* what it popped last

indices == <<readIndex, writeIndex>>
queue == <<indices, data, push, item, pop, next>>

EmplaceSteps == {"space", "full", "write", "publish", "notify"}
PopSteps == {"pop", "empty", "move", "advance", "notify"}

QueueInit ==
  /\ readIndex = 0 /\ writeIndex = 0
  /\ data = [p \in 0..Capacity - 1 |-> NoItem]
  /\ push = [t \in Producers |-> "idle"]
  /\ item = [t \in Producers |-> NoItem]
  /\ pop = "pop"
  /\ next = NoItem

PushTo(t, p) == push' = [push EXCEPT ![t] = p]

\* Fault: one more item than there are slots.
HasSpace_OneMore == writeIndex - readIndex <= Capacity

HasSpace == writeIndex - readIndex < Capacity
-----------------------------------------------------------------------------
(* Emplace with PushMode::Wait *)

EmplaceSpace(t) ==
  /\ push[t] = "space"
  /\ PushTo(t, IF HasSpace THEN "write" ELSE "full")
  /\ UNCHANGED <<indices, data, item, pop, next>>

EmplaceWrite(t) ==
  /\ push[t] = "write"
  /\ data' = [data EXCEPT ![writeIndex % Capacity] = item[t]]
  /\ PushTo(t, "publish")
  /\ UNCHANGED <<indices, item, pop, next>>

EmplacePublish(t) ==
  /\ push[t] = "publish"
  /\ writeIndex' = writeIndex + 1
  /\ PushTo(t, "notify")
  /\ UNCHANGED <<readIndex, data, item, pop, next>>

\* The consumer is woken and Emplace returns, to step p of its caller.
EmplaceNotify(t, p) ==
  /\ push[t] = "notify"
  /\ pop' = IF pop = "empty" THEN "pop" ELSE pop
  /\ PushTo(t, p)
  /\ UNCHANGED <<indices, data, item, next>>
-----------------------------------------------------------------------------
(* Pop with PopMode::WaitWithStopToken *)

PopCheck ==
  /\ pop = "pop"
  /\ pop' = IF readIndex # writeIndex THEN "move" ELSE "empty"
  /\ UNCHANGED <<indices, data, push, item, next>>

PopMove ==
  /\ pop = "move"
  /\ next' = data[readIndex % Capacity]
  /\ pop' = "advance"
  /\ UNCHANGED <<indices, data, push, item>>

PopAdvance ==
  /\ pop = "advance"
  /\ readIndex' = readIndex + 1
  /\ pop' = "notify"
  /\ UNCHANGED <<writeIndex, data, push, item, next>>

\* The producer that waits for a slot is woken, and Pop returns to step p of its caller.
PopNotify(p) ==
  /\ pop = "notify"
  /\ push' = [t \in Producers |-> IF push[t] = "full" THEN "space" ELSE push[t]]
  /\ pop' = p
  /\ UNCHANGED <<indices, data, item, next>>
-----------------------------------------------------------------------------
(* What the queue implements: the item is taken when it is moved out. *)

Taken == IF pop = "advance" THEN readIndex + 1 ELSE readIndex

contents == [k \in 1..writeIndex - Taken |-> data[(Taken + k - 1) % Capacity]]
=============================================================================
