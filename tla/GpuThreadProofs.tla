---------------------------- MODULE GpuThreadProofs ----------------------------
(***************************************************************************)
(* What GpuThread promises, for any number of slots and callers.           *)
(*                                                                         *)
(* The ring is read and written outside of any lock.  What keeps a writer  *)
(* and the reader apart is arithmetic: their indices differ by less than   *)
(* Capacity, so that their slots differ.  QInv says so of every step in    *)
(* between, and that fences follow the indices: the command at index k has *)
(* fence k + 1, whoever pushed it, which is why a fence that is reached    *)
(* means that all commands up to it were executed.                         *)
(***************************************************************************)
EXTENDS GpuThread, SequenceTheorems, TLAPS

\* The slot of an index.
Slot(n) == n % Capacity

\* Division with remainder.
LEMMA ModFacts ==
  ASSUME NEW n \in Nat
  PROVE  /\ n % Capacity \in 0..Capacity - 1
         /\ n \div Capacity \in Nat
         /\ n = Capacity * (n \div Capacity) + (n % Capacity)
BY CapacityAssumption

\* A positive multiple of Capacity is not below it.
LEMMA NoMultipleBelow ==
  ASSUME NEW q \in Int, Capacity * q > 0
  PROVE  Capacity * q >= Capacity
<1>1. CASE q <= 0
  BY <1>1, CapacityAssumption
<1>2. CASE q >= 1
  BY <1>2, CapacityAssumption
<1> QED BY <1>1, <1>2

\* The slot of an index exists.
LEMMA SlotInRing ==
  ASSUME NEW n \in Nat
  PROVE  Slot(n) \in 0..Capacity - 1
BY ModFacts DEF Slot

\* Indices less than Capacity apart have different slots.
LEMMA DistinctSlots ==
  ASSUME NEW m \in Nat, NEW n \in Nat, m < n, n - m < Capacity
  PROVE  Slot(m) # Slot(n)
<1> SUFFICES ASSUME m % Capacity = n % Capacity PROVE FALSE
  BY DEF Slot
<1> DEFINE q == (n \div Capacity) - (m \div Capacity)
<1>1. q \in Int
  BY ModFacts
<1>2. n - m = Capacity * q
  BY ModFacts, CapacityAssumption
<1>3. Capacity * q > 0
  BY <1>2
<1> HIDE DEF q
<1> QED BY <1>1, <1>2, <1>3, NoMultipleBelow, CapacityAssumption
-----------------------------------------------------------------------------
\* The steps of a caller whose item is on its way into the ring, and those in which it
\* holds write_lock.
Emplacing == {"space", "full", "write", "publish"}
Holding == Emplacing \union {"notify", "check", "sleep"}

\* The steps of the GPU thread in which the command taken last is not yet signaled.
Busy == {"notify", "execute", "tick", "request", "count", "counted", "store"}

TypeInv ==
  /\ TypeOK
  /\ data \in [0..Capacity - 1 -> Commands \union {NoItem}]
  /\ item \in [Producers -> Commands \union {NoItem}]

\* write_lock keeps the callers apart.
LockInv == \A t \in Producers : push[t] \in Holding => writeLock = t

\* There is room where a caller writes, and something where the GPU thread reads.
RingInv ==
  /\ readIndex <= writeIndex /\ writeIndex - readIndex <= Capacity
  /\ pop \in {"move", "advance"} => readIndex < writeIndex
  /\ \A t \in Producers : push[t] \in {"write", "publish"} => writeIndex - readIndex < Capacity
  /\ \A t \in Producers : push[t] = "publish" => data[Slot(writeIndex)] = item[t]

\* What is between the indices, and what was popped, are commands.
CommandInv ==
  /\ \A t \in Producers : push[t] \in Holding \union {"asleep", "woken"} => item[t] \in Commands
  /\ \A k \in readIndex..writeIndex - 1 : data[Slot(k)] \in Commands
  /\ pop \in Busy \union {"advance"} => next \in Commands

\* Commands are numbered in the order in which they enter the ring.
NumberInv ==
  /\ \A t \in Producers : push[t] \in Emplacing
       => item[t].fence = writeIndex + 1 /\ lastFence = writeIndex + 1
  /\ (\A t \in Producers : push[t] \notin Emplacing) => lastFence = writeIndex
  /\ \A k \in readIndex..writeIndex - 1 : data[Slot(k)].fence = k + 1
  /\ pop = "advance" => next.fence = readIndex + 1
  /\ pop \in Busy => next.fence = readIndex

\* The commands up to the fence that was signaled last were executed, and it is the one
\* before the command in hand.
ExecutedInv ==
  /\ \A f \in 1..signaledFence : f \in executed
  /\ signaledFence = IF pop \in Busy THEN readIndex - 1 ELSE readIndex
  /\ pop = "store" => next.fence \in executed

\* The inductive invariant of the queue.
QInv == TypeInv /\ LockInv /\ RingInv /\ CommandInv /\ NumberInv /\ ExecutedInv

\* Fences are positive.
LEMMA CommandFacts ==
  ASSUME NEW c \in Commands
  PROVE  c.fence \in Nat /\ c.fence >= 1
BY DEF Commands

\* What PushCommand makes is a command.
LEMMA NewCommand ==
  ASSUME NEW n \in Nat, NEW b \in BOOLEAN
  PROVE  /\ [fence |-> n + 1, tick |-> b] \in Commands
         /\ [fence |-> n + 1, tick |-> b].fence = n + 1
BY DEF Commands

\* Initially the ring is empty.
LEMMA InitQInv == Init => QInv
<1> SUFFICES ASSUME Init PROVE QInv
  OBVIOUS
<1> USE CapacityAssumption, NobodyAssumption DEF Init, QueueInit
<1>1. TypeInv
  BY DEF TypeInv, TypeOK, EmplaceSteps, PopSteps
<1>2. LockInv /\ RingInv /\ CommandInv /\ NumberInv /\ ExecutedInv
  BY DEF LockInv, RingInv, CommandInv, NumberInv, ExecutedInv, Holding, Emplacing, Busy
<1> QED BY <1>1, <1>2 DEF QInv
-----------------------------------------------------------------------------
\* Every step keeps the invariant of the queue.
LEMMA NextQInv == QInv /\ [Next]_vars => QInv'
<1> SUFFICES ASSUME QInv, [Next]_vars PROVE QInv'
  OBVIOUS
<1> USE CapacityAssumption, NobodyAssumption
    DEF QInv, TypeInv, TypeOK, LockInv, RingInv, CommandInv, NumberInv, ExecutedInv,
        EmplaceSteps, PopSteps, Emplacing, Holding, Busy, PushTo, indices, state, sync
<1>1. ASSUME NEW t \in Producers, SubmitList(t) PROVE QInv'
  BY <1>1 DEF SubmitList, MayCall
<1>2. ASSUME NEW t \in Producers, RequestSyncOperation(t) PROVE QInv'
  <2> USE <1>2 DEF RequestSyncOperation, MayCall, sync
  <2>1. TypeInv'
    OBVIOUS
  <2>2. LockInv' /\ RingInv'
    OBVIOUS
  <2>3. CommandInv' /\ NumberInv' /\ ExecutedInv'
    OBVIOUS
  <2> QED BY <2>1, <2>2, <2>3
<1>3. ASSUME NEW t \in Producers, PushCommand(t) PROVE QInv'
  <2> USE <1>3 DEF PushCommand
  <2>1. /\ item'[t] \in Commands /\ item'[t].fence = lastFence + 1
        /\ lastFence = writeIndex
    BY NewCommand
  <2>2. TypeInv'
    BY <2>1
  <2>3. LockInv'
    BY <2>1
  <2>4. RingInv'
    BY <2>1
  <2>5. CommandInv'
    BY <2>1
  <2>6. NumberInv'
    BY <2>1
  <2>7. ExecutedInv'
    BY <2>1
  <2> QED BY <2>2, <2>3, <2>4, <2>5, <2>6, <2>7
<1>4. ASSUME NEW t \in Producers, PushEmplace(t) /\ EmplaceSpace(t) PROVE QInv'
  BY <1>4 DEF PushEmplace, EmplaceSpace, HasSpace
<1>5. ASSUME NEW t \in Producers, PushEmplace(t) /\ EmplaceWrite(t) PROVE QInv'
  <2> USE <1>5 DEF PushEmplace, EmplaceWrite
  <2>1. data' = [data EXCEPT ![Slot(writeIndex)] = item[t]]
    BY DEF Slot
  <2>2. data'[Slot(writeIndex)] = item[t]
    BY <2>1, SlotInRing
  <2>3. ASSUME NEW k \in readIndex..writeIndex - 1 PROVE data'[Slot(k)] = data[Slot(k)]
    <3>1. k \in Nat /\ k < writeIndex /\ writeIndex - k < Capacity
      OBVIOUS
    <3>2. Slot(k) # Slot(writeIndex) /\ Slot(k) \in 0..Capacity - 1
      BY <3>1, DistinctSlots, SlotInRing
    <3> QED BY <2>1, <3>2
  <2>4. TypeInv'
    BY <2>1, SlotInRing
  <2>5. LockInv'
    OBVIOUS
  <2>6. RingInv'
    <3>1. \A u \in Producers : push'[u] = "publish" => u = t
      OBVIOUS
    <3> QED BY <2>2, <3>1
  <2>7. CommandInv'
    BY <2>3
  <2>8. NumberInv'
    BY <2>3
  <2>9. ExecutedInv'
    OBVIOUS
  <2> QED BY <2>4, <2>5, <2>6, <2>7, <2>8, <2>9
<1>6. ASSUME NEW t \in Producers, PushEmplace(t) /\ EmplacePublish(t) PROVE QInv'
  <2> USE <1>6 DEF PushEmplace, EmplacePublish
  <2>1. \A u \in Producers : push'[u] \notin Emplacing
    OBVIOUS
  <2>2. /\ data[Slot(writeIndex)] = item[t]
        /\ item[t].fence = writeIndex + 1 /\ lastFence = writeIndex + 1
        /\ item[t] \in Commands
    OBVIOUS
  <2>3. ASSUME NEW k \in readIndex..writeIndex
        PROVE  data[Slot(k)] \in Commands /\ data[Slot(k)].fence = k + 1
    <3>1. CASE k = writeIndex
      BY <2>2, <3>1
    <3>2. CASE k \in readIndex..writeIndex - 1
      BY <3>2
    <3> QED BY <3>1, <3>2
  <2>4. TypeInv'
    BY <2>1, <2>2, <2>3
  <2>5. LockInv'
    BY <2>1, <2>2, <2>3
  <2>6. RingInv'
    BY <2>1, <2>2, <2>3
  <2>7. CommandInv'
    BY <2>1, <2>2, <2>3
  <2>8. NumberInv'
    BY <2>1, <2>2, <2>3
  <2>9. ExecutedInv'
    BY <2>1, <2>2, <2>3
  <2> QED BY <2>4, <2>5, <2>6, <2>7, <2>8, <2>9
<1>7. ASSUME NEW t \in Producers, PushNotify(t) PROVE QInv'
  BY <1>7 DEF PushNotify, EmplaceNotify, Returns
<1>8. ASSUME NEW t \in Producers, PushCheck(t) PROVE QInv'
  <2> USE <1>8 DEF PushCheck, Returns
  <2>1. TypeInv'
    OBVIOUS
  <2>2. LockInv' /\ RingInv'
    OBVIOUS
  <2>3. CommandInv' /\ NumberInv' /\ ExecutedInv'
    OBVIOUS
  <2> QED BY <2>1, <2>2, <2>3
<1>9. ASSUME NEW t \in Producers, PushSleep(t) PROVE QInv'
  BY <1>9 DEF PushSleep
<1>10. ASSUME NEW t \in Producers, PushRelock(t) PROVE QInv'
  BY <1>10 DEF PushRelock
<1>11. ASSUME NEW t \in Producers, WaitForSyncOperation(t) PROVE QInv'
  BY <1>11 DEF WaitForSyncOperation
<1>12. CASE GpuPop /\ PopCheck
  <2> USE <1>12 DEF GpuPop, PopCheck
  <2>1. TypeInv'
    OBVIOUS
  <2>2. LockInv' /\ RingInv'
    OBVIOUS
  <2>3. CommandInv' /\ NumberInv' /\ ExecutedInv'
    OBVIOUS
  <2> QED BY <2>1, <2>2, <2>3
<1>13. CASE GpuPop /\ PopMove
  <2> USE <1>13 DEF GpuPop, PopMove
  <2>1. next' = data[Slot(readIndex)]
    BY DEF Slot
  <2>2. next' \in Commands /\ next'.fence = readIndex + 1
    BY <2>1
  <2>3. TypeInv'
    BY <2>2
  <2>4. LockInv'
    BY <2>2
  <2>5. RingInv'
    BY <2>2
  <2>6. CommandInv'
    BY <2>2
  <2>7. NumberInv'
    BY <2>2
  <2>8. ExecutedInv'
    BY <2>2
  <2> QED BY <2>3, <2>4, <2>5, <2>6, <2>7, <2>8
<1>14. CASE GpuPop /\ PopAdvance
  <2> USE <1>14 DEF GpuPop, PopAdvance
  <2>1. TypeInv'
    OBVIOUS
  <2>2. LockInv' /\ RingInv'
    OBVIOUS
  <2>3. CommandInv' /\ NumberInv' /\ ExecutedInv'
    OBVIOUS
  <2> QED BY <2>1, <2>2, <2>3
<1>15. CASE GpuPop /\ PopNotify("execute")
  BY <1>15 DEF GpuPop, PopNotify
<1>16. CASE GpuExecute
  BY <1>16 DEF GpuExecute, GpuGoto
<1>17. CASE TickWork
  <2> USE <1>17 DEF TickWork, GpuGoto
  <2>1. TypeInv'
    OBVIOUS
  <2>2. LockInv' /\ RingInv'
    OBVIOUS
  <2>3. CommandInv' /\ NumberInv' /\ ExecutedInv'
    OBVIOUS
  <2> QED BY <2>1, <2>2, <2>3
<1>18. CASE RunRequest
  BY <1>18 DEF RunRequest, GpuGoto
<1>19. CASE CountRequest
  <2> USE <1>19 DEF CountRequest, GpuGoto
  <2>1. TypeInv'
    OBVIOUS
  <2>2. LockInv' /\ RingInv'
    OBVIOUS
  <2>3. CommandInv' /\ NumberInv' /\ ExecutedInv'
    OBVIOUS
  <2> QED BY <2>1, <2>2, <2>3
<1>20. CASE GpuStore
  <2> USE <1>20 DEF GpuStore, GpuGoto
  <2>1. signaledFence' = readIndex /\ next.fence \in executed
    OBVIOUS
  <2>2. TypeInv'
    BY <2>1, CommandFacts
  <2>3. LockInv'
    BY <2>1, CommandFacts
  <2>4. RingInv'
    BY <2>1, CommandFacts
  <2>5. CommandInv'
    BY <2>1, CommandFacts
  <2>6. NumberInv'
    BY <2>1, CommandFacts
  <2>7. ExecutedInv'
    BY <2>1, CommandFacts
  <2> QED BY <2>2, <2>3, <2>4, <2>5, <2>6, <2>7
<1>21. CASE GpuWake
  BY <1>21 DEF GpuWake, GpuGoto, MayNotify
<1>22. CASE UNCHANGED vars
  BY <1>22 DEF vars, queue
<1> QED
  BY <1>1, <1>2, <1>3, <1>4, <1>5, <1>6, <1>7, <1>8, <1>9, <1>10, <1>11, <1>12,
     <1>13, <1>14, <1>15, <1>16, <1>17, <1>18, <1>19, <1>20, <1>21, <1>22
  DEF Next, Caller, RunThread, PushEmplace, GpuPop

\* The invariant of the queue holds throughout.
LEMMA QInvariant == Spec => []QInv
<1>1. Init => QInv
  BY InitQInv
<1>2. QInv /\ [Next]_vars => QInv'
  BY NextQInv
<1> QED BY <1>1, <1>2, PTL DEF Spec
-----------------------------------------------------------------------------
\* Only its own PushCheck takes a caller past the predicate of its wait.
LEMMA CheckLeft ==
  ASSUME QInv, [Next]_vars, NEW t \in Producers, push[t] = "check", push'[t] # "check"
  PROVE  PushCheck(t)
<1> USE DEF QInv, TypeInv, TypeOK, PushTo
<1>1. ASSUME NEW u \in Producers, SubmitList(u) \/ RequestSyncOperation(u) PROVE FALSE
  BY <1>1 DEF SubmitList, RequestSyncOperation, MayCall
<1>2. ASSUME NEW u \in Producers, Caller(u), ~ PushCheck(u) PROVE FALSE
  BY <1>2 DEF Caller, PushCommand, PushEmplace, EmplaceSpace, EmplaceWrite, EmplacePublish,
              PushNotify, EmplaceNotify, PushSleep, PushRelock, WaitForSyncOperation
<1>3. ASSUME NEW u \in Producers, PushCheck(u) PROVE u = t
  BY <1>3 DEF PushCheck
<1>4. CASE RunThread
  BY <1>4 DEF RunThread, GpuPop, PopCheck, PopMove, PopAdvance, PopNotify, GpuExecute, TickWork,
              RunRequest, CountRequest, GpuStore, GpuWake
<1>5. CASE UNCHANGED vars
  BY <1>5 DEF vars, queue
<1> QED BY <1>1, <1>2, <1>3, <1>4, <1>5 DEF Next

\* PushCommand in synchronous mode returns after its command was executed, for any number
\* of callers whose fences and wakeups interleave.
THEOREM ReturnAfterExecution == Spec => ReturnsExecuted
<1> DEFINE A == \A t \in Producers : ~ isAsync /\ push[t] = "check" /\ push'[t] \in {"idle", "wait"}
                  => item[t].fence \in executed
<1>1. QInv /\ [Next]_vars => A
  <2> SUFFICES ASSUME QInv, [Next]_vars, NEW t \in Producers,
                      push[t] = "check", push'[t] \in {"idle", "wait"}
               PROVE  item[t].fence \in executed
    OBVIOUS
  <2>1. PushCheck(t)
    BY CheckLeft
  <2>2. item[t] \in Commands /\ item[t].fence <= signaledFence
    BY <2>1 DEF PushCheck, PushTo, Signaled, QInv, TypeInv, TypeOK, CommandInv, Holding
  <2> QED BY <2>2, CommandFacts DEF QInv, TypeInv, TypeOK, ExecutedInv
<1>2. Spec => [][A]_vars
  BY <1>1, QInvariant, PTL DEF Spec
<1> QED BY <1>2 DEF ReturnsExecuted
-----------------------------------------------------------------------------
\* The contents of the queue are the slots between the indices.
LEMMA Window ==
  ASSUME QInv
  PROVE  /\ Taken \in Nat /\ readIndex <= Taken /\ Taken <= writeIndex
         /\ contents = [k \in 1..writeIndex - Taken |-> data[Slot(Taken + k - 1)]]
         /\ contents \in Seq(Commands)
         /\ Len(contents) = writeIndex - Taken
<1> USE DEF QInv, TypeInv, TypeOK, RingInv
<1>1. Taken \in Nat /\ readIndex <= Taken /\ Taken <= writeIndex
  BY DEF Taken
<1>2. contents = [k \in 1..writeIndex - Taken |-> data[Slot(Taken + k - 1)]]
  BY DEF contents, Slot
<1>3. ASSUME NEW k \in 1..writeIndex - Taken PROVE data[Slot(Taken + k - 1)] \in Commands
  BY <1>1 DEF CommandInv
<1>4. writeIndex - Taken \in Nat
  BY <1>1
<1> QED BY <1>1, <1>2, <1>3, <1>4

\* The contents depend on nothing else.
LEMMA SameContents ==
  ASSUME QInv, Taken' = Taken, writeIndex' = writeIndex,
         \A k \in readIndex..writeIndex - 1 : data'[Slot(k)] = data[Slot(k)]
  PROVE  contents' = contents
<1>1. contents' = [k \in 1..writeIndex' - Taken' |-> data'[Slot(Taken' + k - 1)]]
  BY DEF contents, Slot
<1>2. ASSUME NEW k \in 1..writeIndex - Taken
      PROVE  data'[Slot(Taken + k - 1)] = data[Slot(Taken + k - 1)]
  BY Window DEF QInv, TypeInv, TypeOK
<1> QED BY <1>1, <1>2, Window

\* Publishing a slot puts its item behind the others.
LEMMA PublishPuts ==
  ASSUME QInv, NEW t \in Producers, EmplacePublish(t)
  PROVE  Queue!Put
<1> USE DEF QInv, TypeInv, TypeOK
<1>1. /\ writeIndex' = writeIndex + 1 /\ Taken' = Taken
      /\ data' = data /\ next' = next
  BY DEF EmplacePublish, Taken
<1>2. /\ writeIndex - readIndex < Capacity /\ item[t] \in Commands
      /\ data[Slot(writeIndex)] = item[t]
  BY DEF EmplacePublish, RingInv, CommandInv, Holding, Emplacing
<1>3. contents' = [k \in 1..(writeIndex + 1) - Taken |-> data[Slot(Taken + k - 1)]]
  <2>1. contents' = [k \in 1..writeIndex' - Taken' |-> data'[Slot(Taken' + k - 1)]]
    BY DEF contents, Slot
  <2> QED BY <1>1, <2>1
<1>4. contents' = Append(contents, item[t])
  <2>1. (writeIndex + 1) - Taken \in Nat /\ Taken + ((writeIndex + 1) - Taken) - 1 = writeIndex
    BY Window
  <2> QED BY <1>2, <1>3, <2>1, Window, SMTT(30)
<1>5. Len(contents) < Capacity
  BY <1>2, Window, CapacityAssumption
<1>6. Len(contents') = Len(contents) + 1 /\ contents'[Len(contents')] = item[t]
  BY <1>2, <1>4, Window
<1> QED BY <1>1, <1>2, <1>4, <1>5, <1>6 DEF Queue!Put

\* Moving an item out takes the first.
LEMMA MoveTakes ==
  ASSUME QInv, PopMove
  PROVE  Queue!Take
<1> USE DEF QInv, TypeInv, TypeOK
<1>1. /\ Taken = readIndex /\ Taken' = readIndex + 1 /\ UNCHANGED <<writeIndex, data>>
      /\ next' = data[Slot(readIndex)]
  BY DEF PopMove, Taken, indices, Slot
<1>2. readIndex < writeIndex
  BY DEF PopMove, RingInv
<1>3. contents # <<>> /\ Head(contents) = data[Slot(readIndex)]
  BY <1>1, <1>2, Window
<1>4. contents' = [k \in 1..writeIndex - (readIndex + 1) |-> data[Slot(readIndex + 1 + k - 1)]]
  BY <1>1 DEF contents, Slot
<1>5. /\ Tail(contents) \in Seq(Commands) /\ Len(Tail(contents)) = writeIndex - readIndex - 1
      /\ \A k \in 1..writeIndex - readIndex - 1 : Tail(contents)[k] = contents[k + 1]
  <2>1. /\ Len(Tail(contents)) = Len(contents) - 1 /\ Tail(contents) \in Seq(Commands)
        /\ \A k \in 1..Len(Tail(contents)) : Tail(contents)[k] = contents[k + 1]
    BY <1>3, Window, HeadTailProperties
  <2> QED BY <1>1, <1>2, <2>1, Window
<1>6. ASSUME NEW k \in 1..writeIndex - readIndex - 1
      PROVE  /\ contents[k + 1] = data[Slot(readIndex + 1 + k - 1)]
             /\ contents[k + 1] \in Commands
  <2>1. readIndex + (k + 1) - 1 = readIndex + 1 + k - 1 /\ k + 1 \in 1..writeIndex - readIndex
    BY <1>2
  <2>2. contents[k + 1] = data[Slot(readIndex + (k + 1) - 1)]
    BY <1>1, <2>1, Window
  <2>3. contents[k + 1] \in Commands
    BY <1>1, <2>1, Window, ElementOfSeq
  <2> QED BY <2>1, <2>2, <2>3
<1>7. /\ contents' \in Seq(Commands) /\ Len(contents') = writeIndex - readIndex - 1
      /\ \A k \in 1..writeIndex - readIndex - 1 : contents'[k] = contents[k + 1]
  <2>1. /\ writeIndex - (readIndex + 1) = writeIndex - readIndex - 1
        /\ writeIndex - readIndex - 1 \in Nat
    BY <1>2
  <2>2. contents' = [k \in 1..writeIndex - readIndex - 1 |-> contents[k + 1]]
    BY <1>4, <1>6, <2>1
  <2> QED BY <1>6, <2>1, <2>2
<1>8. contents' = Tail(contents)
  BY <1>5, <1>7, SeqEqual
<1> QED BY <1>1, <1>3, <1>8 DEF Queue!Take

\* Other steps are not seen from outside.
LEMMA QuietStep ==
  ASSUME QInv, Taken' = Taken, UNCHANGED <<writeIndex, data, next>>
  PROVE  UNCHANGED <<contents, next>>
BY SameContents

\* Neither is the write of a slot that is not published.
LEMMA WriteHidden ==
  ASSUME QInv, NEW t \in Producers, EmplaceWrite(t)
  PROVE  UNCHANGED <<contents, next>>
<1> USE DEF QInv, TypeInv, TypeOK, RingInv
<1>1. data' = [data EXCEPT ![Slot(writeIndex)] = item[t]]
  BY DEF EmplaceWrite, Slot
<1>2. ASSUME NEW k \in readIndex..writeIndex - 1 PROVE data'[Slot(k)] = data[Slot(k)]
  <2>1. k \in Nat /\ k < writeIndex /\ writeIndex - k < Capacity
    BY CapacityAssumption DEF EmplaceWrite
  <2>2. Slot(k) # Slot(writeIndex) /\ Slot(k) \in 0..Capacity - 1
    BY <2>1, DistinctSlots, SlotInRing
  <2> QED BY <1>1, <2>2
<1>3. Taken' = Taken /\ writeIndex' = writeIndex /\ next' = next
  BY DEF EmplaceWrite, Taken, indices
<1> QED BY <1>2, <1>3, SameContents

\* Every step is a step of the abstract queue or leaves it alone.
LEMMA StepImplements ==
  ASSUME QInv, [Next]_vars
  PROVE  [Queue!Next]_<<contents, next>>
<1> USE DEF Taken, indices, Queue!Next
<1>1. ASSUME NEW t \in Producers, SubmitList(t) \/ RequestSyncOperation(t)
      PROVE  Taken' = Taken /\ UNCHANGED <<writeIndex, data, next>>
  BY <1>1 DEF SubmitList, RequestSyncOperation
<1>2. ASSUME NEW t \in Producers, Caller(t), ~ PushEmplace(t)
      PROVE  Taken' = Taken /\ UNCHANGED <<writeIndex, data, next>>
  BY <1>2 DEF Caller, PushCommand, PushNotify, EmplaceNotify, PushCheck, PushSleep, PushRelock,
              WaitForSyncOperation
<1>3. ASSUME NEW t \in Producers, PushEmplace(t) PROVE [Queue!Next]_<<contents, next>>
  <2>1. CASE EmplaceSpace(t)
    BY <2>1, QuietStep DEF EmplaceSpace
  <2>2. CASE EmplaceWrite(t)
    BY <2>2, WriteHidden
  <2>3. CASE EmplacePublish(t)
    BY <2>3, PublishPuts
  <2> QED BY <1>3, <2>1, <2>2, <2>3 DEF PushEmplace
<1>4. CASE RunThread /\ PopMove
  BY <1>4, MoveTakes
<1>5. CASE RunThread /\ ~ PopMove
  <2>1. Taken' = Taken /\ UNCHANGED <<writeIndex, data, next>>
    BY <1>5 DEF RunThread, GpuPop, PopCheck, PopAdvance, PopNotify, GpuExecute, TickWork,
                RunRequest, CountRequest, GpuStore, GpuWake, GpuGoto, QInv, TypeInv, TypeOK
  <2> QED BY <2>1, QuietStep
<1>6. CASE UNCHANGED vars
  BY <1>6, QuietStep DEF vars, queue
<1> QED BY <1>1, <1>2, <1>3, <1>4, <1>5, <1>6, QuietStep DEF Next

\* The ring implements a bounded first-in first-out queue: MPSCQueue loses, repeats and
\* reorders nothing.
THEOREM Refinement == Spec => ImplementsFifo
<1>1. Init => Queue!Init
  BY DEF Init, QueueInit, Queue!Init, contents, Taken
<1>2. QInv /\ [Next]_vars => [Queue!Next]_<<contents, next>>
  BY StepImplements
<1> QED BY <1>1, <1>2, QInvariant, PTL DEF Spec, ImplementsFifo, Queue!Spec
-----------------------------------------------------------------------------
\* A request that the GPU thread has taken is not counted yet.
InHand == IF pop \in {"request", "count"} THEN 1 ELSE 0

\* Entries of the list of requests.
Asks == [by : Producers, fence : Nat]

\* The thread that asked for r is in the call.
Stays(r) == push[r.by] # "idle" /\ call[r.by] = "sync" /\ syncFence[r.by] = r.fence

\* Requests are numbered in the order of the list, after the one that the GPU thread took.
ListInv ==
  /\ syncRequests \in Seq(Asks)
  /\ \A k \in 1..Len(syncRequests) :
       syncRequests[k].fence = currentSync + InHand + k /\ Stays(syncRequests[k])

\* What it took is counted next.
ServingInv ==
  IF InHand = 0 THEN serving = NoRequest
  ELSE serving \in Asks /\ serving.fence = currentSync + 1 /\ Stays(serving)

\* The last number given out is that of the last request.
CountInv == lastSync = currentSync + InHand + Len(syncRequests)

SyncInv == ListInv /\ ServingInv /\ CountInv

\* A step that leaves the requests alone and lets no caller go too early keeps SyncInv.
LEMMA KeepStays ==
  ASSUME QInv, SyncInv, UNCHANGED <<sync, call>>, InHand' = InHand,
         \A t \in Producers :
           push[t] # "idle" /\ call[t] = "sync" /\ syncFence[t] > currentSync => push'[t] # "idle"
  PROVE  SyncInv'
<1> USE DEF QInv, TypeInv, TypeOK, sync
<1>1. ASSUME NEW r \in Asks, Stays(r), r.fence > currentSync PROVE Stays(r)'
  BY <1>1 DEF Stays, Asks
<1>2. InHand \in {0, 1}
  BY DEF InHand
<1>3. ASSUME NEW k \in 1..Len(syncRequests)
      PROVE  syncRequests[k] \in Asks /\ syncRequests[k].fence > currentSync
  BY <1>2 DEF SyncInv, ListInv
<1>4. ASSUME NEW k \in 1..Len(syncRequests) PROVE Stays(syncRequests[k])'
  BY <1>1, <1>3 DEF SyncInv, ListInv, Stays
<1>5. ListInv'
  BY <1>4 DEF SyncInv, ListInv
<1>6. ASSUME InHand # 0 PROVE Stays(serving)'
  BY <1>1, <1>6 DEF SyncInv, ServingInv, Stays
<1>7. ServingInv'
  BY <1>6 DEF SyncInv, ServingInv, NoRequest
<1>8. CountInv'
  BY DEF SyncInv, CountInv
<1> QED BY <1>5, <1>7, <1>8 DEF SyncInv

\* Initially there are no requests.
LEMMA InitSyncInv == Init => SyncInv
BY DEF Init, QueueInit, SyncInv, ListInv, ServingInv, CountInv, InHand, Asks

\* A request that is appended is the last of the list, and the others stay where they are.
LEMMA AppendAsk ==
  ASSUME NEW requests \in Seq(Asks), NEW new \in Asks
  PROVE  /\ Append(requests, new) \in Seq(Asks)
         /\ Len(Append(requests, new)) = Len(requests) + 1
         /\ \A k \in 1..Len(requests) : Append(requests, new)[k] = requests[k]
         /\ Append(requests, new)[Len(requests) + 1] = new
BY AppendProperties

\* Every step keeps SyncInv.
LEMMA NextSyncInv ==
  ASSUME QInv, SyncInv, [Next]_vars
  PROVE  SyncInv'
<1>0. /\ syncRequests \in Seq(Asks) /\ Len(syncRequests) \in Nat
      /\ lastSync = currentSync + InHand + Len(syncRequests)
  BY DEF SyncInv, ListInv, CountInv
<1> USE DEF QInv, TypeInv, TypeOK, PushTo, indices, state
<1>1. ASSUME NEW t \in Producers, SubmitList(t) PROVE SyncInv'
  <2>1. push[t] = "idle" /\ UNCHANGED <<pop, sync>> /\ call' = [call EXCEPT ![t] = "submit"]
        /\ push' = [push EXCEPT ![t] = "lock"]
    BY <1>1 DEF SubmitList, MayCall
  <2>2. ASSUME NEW r \in Asks, Stays(r) PROVE Stays(r)'
    BY <2>1, <2>2 DEF Stays, Asks, sync
  <2>3. ASSUME NEW k \in 1..Len(syncRequests) PROVE Stays(syncRequests[k])'
    <3>1. syncRequests[k] \in Asks /\ Stays(syncRequests[k])
      BY DEF SyncInv, ListInv
    <3> QED BY <2>1, <2>2, <3>1 DEF Stays, sync
  <2>4. InHand' = InHand /\ (InHand # 0 => Stays(serving)')
    BY <2>1, <2>2 DEF SyncInv, ServingInv, Stays, sync, InHand
  <2>5. ListInv'
    BY <2>1, <2>3, <2>4 DEF SyncInv, ListInv, sync
  <2>6. ServingInv'
    BY <2>1, <2>4 DEF SyncInv, ServingInv, sync, NoRequest
  <2>7. CountInv'
    BY <2>1, <2>4 DEF SyncInv, CountInv, sync
  <2> QED BY <2>5, <2>6, <2>7 DEF SyncInv
<1>2. ASSUME NEW t \in Producers, RequestSyncOperation(t) PROVE SyncInv'
  <2>0. PICK new \in Asks : new = [by |-> t, fence |-> lastSync + 1]
    <3>1. [by |-> t, fence |-> lastSync + 1] \in Asks
      BY DEF Asks
    <3> QED BY <3>1
  <2>1. /\ push[t] = "idle" /\ UNCHANGED <<pop, serving, currentSync>>
        /\ call' = [call EXCEPT ![t] = "sync"] /\ push' = [push EXCEPT ![t] = "lock"]
        /\ syncFence' = [syncFence EXCEPT ![t] = lastSync + 1] /\ lastSync' = lastSync + 1
        /\ syncRequests' = Append(syncRequests, new)
    BY <1>2, <2>0 DEF RequestSyncOperation, MayCall
  <2>2. Stays(new)' /\ new.fence = lastSync + 1
    BY <2>0, <2>1 DEF Stays
  <2>3. ASSUME NEW r \in Asks, Stays(r) PROVE Stays(r)'
    BY <2>1, <2>3 DEF Stays, Asks
  <2>4. /\ syncRequests' \in Seq(Asks) /\ Len(syncRequests') = Len(syncRequests) + 1
        /\ \A k \in 1..Len(syncRequests) : syncRequests'[k] = syncRequests[k]
        /\ syncRequests'[Len(syncRequests) + 1] = new
    BY <1>0, <2>1, AppendAsk
  <2>5. InHand' = InHand /\ InHand \in {0, 1}
    BY <2>1 DEF InHand
  <2>6. ASSUME NEW k \in 1..Len(syncRequests')
        PROVE  syncRequests'[k].fence = currentSync + InHand + k /\ Stays(syncRequests[k])'
    <3>1. CASE k \in 1..Len(syncRequests)
      <4>1. syncRequests[k] \in Asks /\ Stays(syncRequests[k])
        BY <3>1 DEF SyncInv, ListInv
      <4>2. syncRequests'[k] = syncRequests[k]
        BY <2>4, <3>1
      <4>3. Stays(syncRequests[k])'
        BY <2>3, <4>1, <4>2 DEF Stays
      <4> QED BY <3>1, <4>2, <4>3 DEF SyncInv, ListInv
    <3>2. CASE k = Len(syncRequests) + 1
      <4>1. Stays(syncRequests[k])'
        BY <2>2, <2>4, <3>2 DEF Stays
      <4>2. lastSync + 1 = currentSync + InHand + k
        BY <1>0, <2>5, <3>2
      <4> QED BY <2>2, <2>4, <3>2, <4>1, <4>2
    <3> QED BY <2>4, <3>1, <3>2 DEF SyncInv, ListInv
  <2>7. InHand # 0 => Stays(serving)'
    BY <2>1, <2>3 DEF SyncInv, ServingInv, Stays
  <2>8. ListInv'
    BY <2>1, <2>4, <2>5, <2>6 DEF ListInv
  <2>9. ServingInv'
    BY <2>1, <2>5, <2>7 DEF SyncInv, ServingInv, NoRequest
  <2>10. CountInv'
    BY <2>1, <2>4, <2>5 DEF SyncInv, CountInv
  <2> QED BY <2>8, <2>9, <2>10 DEF SyncInv
<1>3. ASSUME NEW t \in Producers, Caller(t) PROVE SyncInv'
  <2>1. UNCHANGED <<sync, call>> /\ InHand' = InHand
    BY <1>3 DEF Caller, PushCommand, PushEmplace, EmplaceSpace, EmplaceWrite, EmplacePublish,
                PushNotify, EmplaceNotify, PushCheck, PushSleep, PushRelock, WaitForSyncOperation,
                InHand
  <2>2. ASSUME NEW u \in Producers, push[u] # "idle", call[u] = "sync", syncFence[u] > currentSync
        PROVE  push'[u] # "idle"
    <3>1. CASE PushCommand(t) \/ PushEmplace(t) \/ PushSleep(t) \/ PushRelock(t)
      BY <2>2, <3>1 DEF PushCommand, PushEmplace, EmplaceSpace, EmplaceWrite, EmplacePublish,
                        PushSleep, PushRelock
    <3>2. CASE PushNotify(t) \/ PushCheck(t)
      BY <2>2, <3>2 DEF PushNotify, EmplaceNotify, PushCheck, Returns
    <3>3. CASE WaitForSyncOperation(t)
      BY <2>2, <3>3 DEF WaitForSyncOperation, SyncDone
    <3> QED BY <1>3, <3>1, <3>2, <3>3 DEF Caller
  <2> QED BY <2>1, <2>2, KeepStays
<1>4. CASE GpuPop \/ GpuExecute \/ RunRequest \/ GpuStore \/ GpuWake \/ UNCHANGED vars
  <2>1. UNCHANGED <<sync, call>> /\ InHand' = InHand
    BY <1>4 DEF GpuPop, PopCheck, PopMove, PopAdvance, PopNotify, GpuExecute, RunRequest,
                GpuStore, GpuWake, GpuGoto, InHand, vars, queue
  <2>2. ASSUME NEW u \in Producers, push[u] # "idle" PROVE push'[u] # "idle"
    BY <1>4, <2>2 DEF GpuPop, PopCheck, PopMove, PopAdvance, PopNotify, GpuExecute, RunRequest,
                GpuStore, GpuWake, vars, queue
  <2> QED BY <2>1, <2>2, KeepStays
<1>5. CASE CountRequest
  <2>1. /\ InHand = 1 /\ InHand' = 0 /\ serving' = NoRequest /\ currentSync' = currentSync + 1
        /\ UNCHANGED <<push, call, syncRequests, lastSync, syncFence>>
    BY <1>5 DEF CountRequest, GpuGoto, InHand
  <2>2. ASSUME NEW k \in 1..Len(syncRequests) PROVE Stays(syncRequests[k])'
    BY <2>1 DEF SyncInv, ListInv, Stays
  <2>3. currentSync \in Nat
    OBVIOUS
  <2> HIDE DEF QInv
  <2>4. ListInv'
    <3>1. \A k \in 1..Len(syncRequests) : syncRequests[k].fence = currentSync + InHand + k
      BY DEF SyncInv, ListInv
    <3>2. ASSUME NEW k \in 1..Len(syncRequests)
          PROVE  syncRequests'[k].fence = currentSync' + InHand' + k
      BY <1>0, <2>1, <2>3, <3>1
    <3> QED BY <1>0, <2>1, <2>2, <3>2 DEF ListInv
  <2>5. ServingInv'
    BY <2>1 DEF ServingInv, NoRequest
  <2>6. CountInv'
    BY <1>0, <2>1, <2>3 DEF CountInv
  <2> QED BY <2>4, <2>5, <2>6 DEF SyncInv
<1>6. CASE TickWork /\ syncRequests = <<>>
  <2>1. UNCHANGED <<sync, call>> /\ InHand' = InHand
    BY <1>6 DEF TickWork, GpuGoto, InHand, sync
  <2>2. ASSUME NEW u \in Producers, push[u] # "idle" PROVE push'[u] # "idle"
    BY <1>6, <2>2 DEF TickWork
  <2> QED BY <2>1, <2>2, KeepStays
<1>7. CASE TickWork /\ syncRequests # <<>>
  <2>1. /\ InHand = 0 /\ InHand' = 1 /\ serving' = Head(syncRequests)
        /\ syncRequests' = Tail(syncRequests)
        /\ UNCHANGED <<call, lastSync, currentSync, syncFence>>
    BY <1>7 DEF TickWork, GpuGoto, InHand
  <2>2. ASSUME NEW r \in Asks, Stays(r) PROVE Stays(r)'
    <3>1. \A u \in Producers : push[u] # "idle" => push'[u] # "idle"
      BY <1>7 DEF TickWork
    <3> QED BY <2>1, <2>2, <3>1 DEF Stays, Asks
  <2>3. /\ Len(syncRequests') = Len(syncRequests) - 1 /\ syncRequests' \in Seq(Asks)
        /\ \A k \in 1..Len(syncRequests') : syncRequests'[k] = syncRequests[k + 1]
    BY <1>7, <2>1, HeadTailProperties DEF SyncInv, ListInv
  <2>4. ASSUME NEW k \in 1..Len(syncRequests)
        PROVE  /\ syncRequests[k] \in Asks /\ syncRequests[k].fence = currentSync + k
               /\ Stays(syncRequests[k])
    <3>1. syncRequests \in Seq(Asks) /\ syncRequests[k] \in Asks
      BY DEF SyncInv, ListInv
    <3>2. syncRequests[k].fence = currentSync + InHand + k /\ Stays(syncRequests[k])
      BY DEF SyncInv, ListInv
    <3> QED BY <2>1, <3>1, <3>2
  <2>5. serving' \in Asks /\ serving'.fence = currentSync + 1 /\ Stays(serving)'
    <3>1. serving' = syncRequests[1] /\ 1 \in 1..Len(syncRequests)
      BY <1>7, <2>1 DEF SyncInv, ListInv
    <3> QED BY <2>2, <2>4, <3>1 DEF Stays
  <2>6. ASSUME NEW k \in 1..Len(syncRequests')
        PROVE  syncRequests'[k].fence = currentSync + 1 + k /\ Stays(syncRequests[k])'
    <3>1. syncRequests'[k] = syncRequests[k + 1] /\ k + 1 \in 1..Len(syncRequests)
      BY <2>3 DEF SyncInv, ListInv
    <3>2. syncRequests[k + 1].fence = currentSync + 1 + k
      BY <2>4, <3>1
    <3>3. Stays(syncRequests[k])'
      BY <2>2, <2>4, <3>1 DEF Stays
    <3> QED BY <3>1, <3>2, <3>3
  <2>7. ListInv'
    BY <2>1, <2>3, <2>6 DEF ListInv
  <2>8. ServingInv'
    BY <2>1, <2>5 DEF ServingInv
  <2>9. CountInv'
    BY <2>1, <2>3 DEF SyncInv, ListInv, CountInv
  <2> QED BY <2>7, <2>8, <2>9 DEF SyncInv
<1> QED BY <1>1, <1>2, <1>3, <1>4, <1>5, <1>6, <1>7 DEF Next, RunThread

\* No synchronous operation is run or waits in the list after the call that asked for it,
\* to whose variables it refers, has returned.
THEOREM CallerInCall == Spec => []CallerStays
<1>1. Init => SyncInv
  BY InitSyncInv
<1>2. QInv /\ SyncInv /\ [Next]_vars => SyncInv'
  BY NextSyncInv
<1>3. SyncInv => CallerStays
  BY DEF SyncInv, ListInv, ServingInv, CallerStays, Stays, InHand
<1> QED BY <1>1, <1>2, <1>3, QInvariant, PTL DEF Spec
=============================================================================
