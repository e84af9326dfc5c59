------------------------------ MODULE BufferQueue ------------------------------
(***************************************************************************)
(* A layer's queue of graphic buffers (BufferQueueCore) between the guest, *)
(* whose transactions BufferQueueProducer serves, and the display, which   *)
(* takes buffers through BufferQueueConsumer, BufferItemConsumer and the   *)
(* HardwareComposer.                                                       *)
(*                                                                         *)
(* Transactions run one at a time on the thread of dispdrv; composition,   *)
(* and the opening, closing and destruction of the layer, exclude one      *)
(* another by the lock of vi's Container, and run beside the transactions. *)
(* The sections under core->mutex are atomic.  A transaction leaves it to  *)
(* wait for a slot, to allocate a buffer and to call the consumer back.    *)
(*                                                                         *)
(* The layer is connected with controlled_by_app false, use_async_buffer   *)
(* is false and max_acquired_buffer_count is 0, so that                    *)
(* dequeue_buffer_cannot_block is false and no buffer must stay            *)
(* undequeued.  needs_cleanup_on_release is left out: the frame number     *)
(* that FreeBufferLocked sets makes ReleaseBuffer return before it is      *)
(* read.  Fences, sizes and formats are data.                              *)
(*                                                                         *)
(* There may be any number of frames and of buffers.  Frame numbers are    *)
(* only compared with one another: those in use are renumbered, in their   *)
(* order, when a frame is queued.  A buffer is made for one slot and       *)
(* compared with others of that slot only: it is a number of its slot, and *)
(* those in use are renumbered when one is made.                           *)
(***************************************************************************)
EXTENDS Integers, Sequences, FiniteSets, SequencesExt

CONSTANTS Slots,      \* 0 .. NUM_BUFFER_SLOTS - 1
          DefaultMax, \* default_max_buffer_count
          MaxChanges, \* calls that set up buffers, their count, or disconnect
          Counts,     \* arguments of SetBufferCount
          Longest,    \* the longest swap interval
          None        \* no graphic buffer

VARIABLES slots, queue, overrideMax,
          dequeuePossible,
          hasBeenQueued, \* buffer_has_been_queued
          abandoned, connected,
          prod,          \* where the dispdrv thread is
          prodSlot,      \* the slot it allocates a buffer for
          cache,         \* the buffers of ConsumerBase::slots
          layer,         \* the layer: "closed", "open" (in the stack), "destroyed"
          fb,            \* the layer's entry of m_framebuffers
          frameNumber,   \* m_frame_number
          composing,
          changes        \* such calls so far

core == <<slots, queue, overrideMax, dequeuePossible, hasBeenQueued, abandoned>>
display == <<layer, fb, frameNumber, composing>>
vars == <<core, connected, prod, prodSlot, cache, display, changes>>

MaxQueue == 2 * Cardinality(Slots)        \* items that wait at most
MaxFrame == Cardinality(Slots) + MaxQueue + 1 \* frames in use
Never == MaxFrame + 1                     \* UINT32_MAX, above every frame
Buffers == 1..(MaxQueue + 3)              \* buffers of a slot in use

FreshSlot == [state |-> "Free", buffer |-> None, requested |-> FALSE, frame |-> 0,
              acquired |-> FALSE, preallocated |-> FALSE]
NoFramebuffer == [present |-> FALSE, held |-> FALSE, slot |-> 0, frame |-> 0, buffer |-> None,
                  queued |-> None, release |-> 1]

TypeOK ==
  /\ slots \in [Slots -> [state : {"Free", "Dequeued", "Queued", "Acquired"},
                          buffer : Buffers \union {None}, requested : BOOLEAN,
                          frame : 0..Never, acquired : BOOLEAN, preallocated : BOOLEAN]]
  /\ queue \in Seq([slot : Slots, frame : 1..MaxFrame, buffer : Buffers, acquired : BOOLEAN,
                    droppable : BOOLEAN])
  /\ overrideMax \in 0..Cardinality(Slots)
  /\ {dequeuePossible, hasBeenQueued, abandoned, connected, composing} \subseteq BOOLEAN
  /\ prod \in {"idle", "waiting", "allocating", "released"} /\ prodSlot \in Slots
  /\ cache \in [Slots -> Buffers \union {None}]
  /\ layer \in {"closed", "open", "destroyed"}
  /\ fb.buffer \in Buffers \union {None} /\ fb.release \in 1..Longest
  /\ frameNumber \in 0..Longest /\ changes \in 0..MaxChanges

Init ==
  /\ slots = [s \in Slots |-> FreshSlot]
  /\ queue = <<>>
  /\ overrideMax = 0
  /\ dequeuePossible = FALSE /\ hasBeenQueued = FALSE
  /\ abandoned = FALSE /\ connected = FALSE
  /\ prod = "idle" /\ prodSlot = 0
  /\ cache = [s \in Slots |-> None]
  /\ layer = "closed" /\ fb = NoFramebuffer
  /\ frameNumber = 0 /\ composing = FALSE
  /\ changes = 0
-----------------------------------------------------------------------------
(* BufferQueueCore *)

\* SignalDequeueCondition.  A thread that comes to wait with the flag up looks at the slots
\* again, finds what it found, and waits with the flag down: the flag is modelled for a
\* thread that waits.
Signal == dequeuePossible' = (prod = "waiting")

\* GetMaxBufferCountLocked
MaxBufferCount ==
  LET used == {s \in Slots : slots[s].state \in {"Queued", "Dequeued"} /\ s >= DefaultMax}
  IN CASE overrideMax # 0 -> overrideMax
       [] overrideMax = 0 /\ used # {} -> Max(used) + 1
       [] OTHER -> DefaultMax

\* FreeBufferLocked
Freed(slot) ==
  [slot EXCEPT !.state = "Free", !.buffer = None, !.frame = Never, !.acquired = FALSE]

\* Fault: an item is taken to be tracked as long as its slot has some buffer.
StillTracking_Any(item) == slots[item.slot].buffer # None

StillTracking(item) ==
  slots[item.slot].buffer # None /\ item.buffer = slots[item.slot].buffer

\* The buffers of slot s that something but the slot refers to, and the number of one
\* among them.
BuffersInUse(s) ==
  ({cache[s]}
   \union {queue[k].buffer : k \in {i \in 1..Len(queue) : queue[i].slot = s}}
   \union (IF fb.slot = s THEN {fb.buffer, fb.queued} ELSE {})) \ {None}

BufferRank(s, buffer) ==
  IF buffer = None THEN None ELSE Cardinality({b \in BuffersInUse(s) : b <= buffer})

\* A buffer is made for slot s: its number, and the others renumbered.
NewBuffer(s) == Cardinality(BuffersInUse(s)) + 1

BufferMade(s) ==
  /\ queue' = [k \in 1..Len(queue) |->
                 IF queue[k].slot = s THEN [queue[k] EXCEPT !.buffer = BufferRank(s, @)]
                                      ELSE queue[k]]
  /\ cache' = [cache EXCEPT ![s] = BufferRank(s, @)]
  /\ fb' = IF fb.slot = s THEN [fb EXCEPT !.buffer = BufferRank(s, @),
                                          !.queued = BufferRank(s, @)]
                          ELSE fb
-----------------------------------------------------------------------------
(* BufferQueueProducer *)

\* A transaction may start: the binder is registered and the thread is not in one.
Transaction == prod = "idle" /\ layer # "destroyed"

Change == Transaction /\ changes < MaxChanges /\ changes' = changes + 1

SetPreallocatedBuffer(s, given) ==
  LET fresh == [FreshSlot EXCEPT !.buffer = NewBuffer(s), !.preallocated = given]
  IN /\ Change
     /\ BufferMade(s)
     /\ slots' = [slots EXCEPT ![s] = fresh]
     /\ overrideMax' = IF given THEN Cardinality({t \in Slots : slots'[t].preallocated})
                                ELSE overrideMax
     /\ Signal
     /\ UNCHANGED <<hasBeenQueued, abandoned, connected, prod, prodSlot, layer, frameNumber,
                    composing>>

SetBufferCount(n) ==
  /\ Change
  /\ \A s \in Slots : slots[s].state # "Dequeued"
  /\ IF n # 0 /\ \A s \in Slots : ~ slots[s].preallocated
       THEN slots' = [s \in Slots |-> Freed(slots[s])] /\ hasBeenQueued' = FALSE
       ELSE UNCHANGED <<slots, hasBeenQueued>>
  /\ overrideMax' = n
  /\ Signal
  /\ prod' = IF n = 0 THEN "idle" ELSE "released"
  /\ UNCHANGED <<queue, abandoned, connected, prodSlot, cache, display>>

\* Connect to an API that is known or not.
Connect(known) ==
  /\ Transaction /\ ~ connected
  /\ connected' = known
  /\ hasBeenQueued' = FALSE
  /\ UNCHANGED <<slots, queue, overrideMax, dequeuePossible, abandoned, prod,
                 prodSlot, cache, display, changes>>

Disconnect ==
  /\ Change /\ connected
  /\ queue' = <<>>
  /\ slots' = [s \in Slots |-> Freed(slots[s])]
  /\ hasBeenQueued' = FALSE
  /\ connected' = FALSE
  /\ Signal
  /\ prod' = "released"
  /\ UNCHANGED <<overrideMax, abandoned, prodSlot, cache, display>>

\* Fault: the items that wait in the queue without their buffer are not looked at.
Released_Queued == {s \in Slots : ~ slots[s].acquired}

\* GetReleasedBuffers: the slots whose buffer the consumer need not remember.
Released ==
  {s \in Slots : ~ slots[s].acquired
                 /\ \A k \in 1..Len(queue) : ~ (queue[k].slot = s /\ queue[k].acquired)}

\* The call of OnBuffersReleased that ends SetBufferCount and Disconnect.
OnBuffersReleased ==
  /\ prod = "released"
  /\ cache' = IF abandoned THEN cache
              ELSE [s \in Slots |-> IF s \in Released THEN None ELSE cache[s]]
  /\ prod' = "idle"
  /\ UNCHANGED <<core, connected, prodSlot, display, changes>>

RequestBuffer(s) ==
  /\ Transaction /\ slots[s].state = "Dequeued"
  /\ slots' = [slots EXCEPT ![s].requested = TRUE]
  /\ UNCHANGED <<queue, overrideMax, dequeuePossible, hasBeenQueued, abandoned,
                 connected, prod, prodSlot, cache, display, changes>>

\* What WaitForFreeSlotThenRelock does to the slots beyond the buffer count.
Trimmed ==
  [s \in Slots |->
     IF s >= MaxBufferCount /\ slots[s].buffer # None /\ slots[s].state = "Free"
        /\ ~ slots[s].preallocated
     THEN Freed(slots[s]) ELSE slots[s]]

Within == {s \in Slots : s < MaxBufferCount}
Dequeued == {s \in Within : slots[s].state = "Dequeued"}
Free == {s \in Within : slots[s].state = "Free"}

\* The call fails: more than one buffer without a buffer count, or more than there are.
Refused ==
  \/ overrideMax = 0 /\ Dequeued # {}
  \/ hasBeenQueued /\ MaxBufferCount < Cardinality(Dequeued) + 1

MustWait == Free = {} \/ Len(queue) > MaxBufferCount

\* The oldest of the free slots, the first of them among equals.
Oldest ==
  CHOOSE s \in Free : \A t \in Free : \/ slots[s].frame < slots[t].frame
                                      \/ slots[s].frame = slots[t].frame /\ s <= t

\* DequeueBuffer, from its call or from a wait that was signaled: one round of the loop
\* of WaitForFreeSlotThenRelock, and the rest of the section once a slot is found.
\* mismatch: the buffer of the slot is of another size or format.
DequeueBuffer(mismatch) ==
  /\ Transaction \/ (prod = "waiting" /\ dequeuePossible)
  /\ LET s == Oldest
         grant == ~ abandoned /\ ~ Refused /\ ~ MustWait
         new == slots[s].buffer = None \/ mismatch
     IN /\ prod' = CASE grant /\ new -> "allocating"
                     [] ~ grant /\ ~ abandoned /\ ~ Refused -> "waiting"
                     [] OTHER -> "idle"
        /\ slots' =
             IF abandoned THEN slots
             ELSE IF ~ grant THEN Trimmed
             ELSE [Trimmed EXCEPT ![s].state = "Dequeued",
                                  ![s].acquired = @ /\ ~ new,
                                  ![s].buffer = IF new THEN None ELSE @,
                                  ![s].requested = @ /\ ~ new]
        /\ prodSlot' = IF grant /\ new THEN s ELSE 0
        /\ dequeuePossible' = FALSE
  /\ UNCHANGED <<queue, overrideMax, hasBeenQueued, abandoned, connected, cache,
                 display, changes>>


Stores == ~ abandoned

\* The section of DequeueBuffer that puts the new buffer in its slot.
DequeueAllocated ==
  /\ prod = "allocating"
  /\ IF Stores
       THEN /\ BufferMade(prodSlot)
            /\ slots' = [slots EXCEPT ![prodSlot].buffer = NewBuffer(prodSlot),
                                      ![prodSlot].frame = Never]
       ELSE UNCHANGED <<slots, queue, cache, fb>>
  /\ prod' = "idle" /\ prodSlot' = 0
  /\ UNCHANGED <<overrideMax, dequeuePossible, hasBeenQueued, abandoned, connected, layer,
                 frameNumber, composing, changes>>

DetachBuffer(s) ==
  /\ Transaction /\ slots[s].state = "Dequeued" /\ slots[s].requested
  /\ slots' = [slots EXCEPT ![s] = Freed(slots[s])]
  /\ Signal
  /\ UNCHANGED <<queue, overrideMax, hasBeenQueued, abandoned, connected, prod,
                 prodSlot, cache, display, changes>>

\* The frame numbers in use, but for that of slot s, and the number of one among them.
InUse(s) ==
  ({slots[t].frame : t \in Slots \ {s}} \ {0, Never})
  \union {queue[k].frame : k \in 1..Len(queue)}
  \union (IF fb.held THEN {fb.frame} ELSE {})

Renumbered(s, frame) ==
  IF frame \in {0, Never} THEN frame ELSE Cardinality({f \in InUse(s) : f <= frame})

\* An item replaces the front of the queue if that may be dropped.  The listener that is
\* called at the end only logs.
QueueBuffer(s, async) ==
  LET frame == Cardinality(InUse(s)) + 1
      item == [slot |-> s, frame |-> frame, buffer |-> slots[s].buffer,
               acquired |-> slots[s].acquired, droppable |-> async]
      others == [t \in Slots |-> [slots[t] EXCEPT !.frame = Renumbered(s, @)]]
      queued == [others EXCEPT ![s].state = "Queued", ![s].frame = frame]
      items == [k \in 1..Len(queue) |-> [queue[k] EXCEPT !.frame = Renumbered(s, @)]]
      replaces == queue # <<>> /\ Head(queue).droppable
      f == Head(queue)
  IN /\ Transaction
     /\ s < MaxBufferCount /\ slots[s].state = "Dequeued" /\ slots[s].requested
     /\ slots' = IF replaces /\ StillTracking(f)
                   THEN [queued EXCEPT ![f.slot].state = "Free", ![f.slot].frame = 0]
                   ELSE queued
     /\ queue' = IF replaces THEN <<item>> \o Tail(items) ELSE Append(items, item)
     /\ fb' = [fb EXCEPT !.frame = Renumbered(s, @)]
     /\ hasBeenQueued' = TRUE
     /\ Signal
     /\ UNCHANGED <<overrideMax, abandoned, connected, prod, prodSlot, cache, layer,
                    frameNumber, composing, changes>>

CancelBuffer(s) ==
  /\ Transaction /\ slots[s].state = "Dequeued"
  /\ slots' = [slots EXCEPT ![s].state = "Free", ![s].frame = 0]
  /\ Signal
  /\ UNCHANGED <<queue, overrideMax, hasBeenQueued, abandoned, connected, prod,
                 prodSlot, cache, display, changes>>
-----------------------------------------------------------------------------
(* BufferQueueConsumer, BufferItemConsumer and HardwareComposer *)

\* AcquireBuffer, called without a time of presentation.
Acquires == queue # <<>> /\ \A s \in Slots : slots[s].state # "Acquired"

\* ComposeLocked up to the composition: the framebuffer of an earlier one is kept while it
\* is acquired, else a new one is acquired if there is any.
ComposeAcquire(interval) ==
  LET item == Head(queue)
      s == item.slot
      buffer == IF item.acquired THEN cache[s] ELSE item.buffer
  IN /\ layer = "open" /\ ~ composing
     /\ composing' = TRUE
     /\ IF ~ fb.held /\ Acquires
          THEN /\ slots' = IF StillTracking(item)
                            THEN [slots EXCEPT ![s].state = "Acquired", ![s].acquired = TRUE]
                            ELSE slots
               /\ queue' = Tail(queue)
               /\ Signal
               /\ cache' = [cache EXCEPT ![s] = buffer]
               /\ fb' = [present |-> TRUE, held |-> TRUE, slot |-> s, frame |-> item.frame,
                         buffer |-> buffer, queued |-> item.buffer,
                         release |-> IF frameNumber = Longest THEN 1 ELSE interval]
          ELSE UNCHANGED <<slots, queue, dequeuePossible, cache, fb>>
     /\ UNCHANGED <<overrideMax, hasBeenQueued, abandoned, connected, prod,
                    prodSlot, layer, frameNumber, changes>>

\* Fault: a release does not signal.
ReleaseSignal_None == UNCHANGED dequeuePossible

ReleaseSignal == Signal

\* BufferItemConsumer::ReleaseBuffer of the framebuffer.  A buffer that the consumer does
\* not remember is not released, one whose frame is not that of the slot is forgotten.
\* The frame that ConsumerBase keeps for the slot is that of the framebuffer.
ReleaseBuffer ==
  LET s == fb.slot
      known == cache[s] # None /\ cache[s] = fb.buffer
      stale == fb.frame # slots[s].frame
      frees == /\ known /\ ~ stale /\ slots[s].state = "Acquired"
               /\ \A k \in 1..Len(queue) : queue[k].slot # s
  IN /\ slots' = IF frees THEN [slots EXCEPT ![s].state = "Free"] ELSE slots
     /\ IF frees THEN ReleaseSignal ELSE UNCHANGED dequeuePossible
     /\ cache' = IF known /\ stale THEN [cache EXCEPT ![s] = None] ELSE cache

\* The end of ComposeLocked.  The layers together decide by how many frames to advance.
\* What is left of a framebuffer that was released is only shown again.
ComposeRelease(advance) ==
  /\ composing
  /\ advance <= (IF fb.present THEN fb.release ELSE Longest)
  /\ composing' = FALSE
  /\ frameNumber' = IF frameNumber + advance > Longest THEN Longest ELSE frameNumber + advance
  /\ IF fb.present /\ fb.release <= frameNumber' /\ fb.held
       THEN ReleaseBuffer /\ fb' = [NoFramebuffer EXCEPT !.present = TRUE]
       ELSE UNCHANGED <<slots, dequeuePossible, cache, fb>>
  /\ UNCHANGED <<queue, overrideMax, hasBeenQueued, abandoned, connected, prod,
                 prodSlot, layer, changes>>

OpenLayer ==
  /\ layer = "closed" /\ ~ composing
  /\ layer' = "open"
  /\ UNCHANGED <<core, connected, prod, prodSlot, cache, fb, frameNumber, composing, changes>>

\* CloseLayer: RemoveLayerLocked.
CloseLayer ==
  /\ layer = "open" /\ ~ composing
  /\ layer' = "closed"
  /\ IF fb.held THEN ReleaseBuffer ELSE UNCHANGED <<slots, dequeuePossible, cache>>
  /\ fb' = NoFramebuffer
  /\ UNCHANGED <<queue, overrideMax, hasBeenQueued, abandoned, connected, prod,
                 prodSlot, frameNumber, composing, changes>>

\* DestroyLayer of a closed layer: the consumer is abandoned, the binders unregistered.
DestroyLayer ==
  /\ layer = "closed" /\ ~ composing
  /\ layer' = "destroyed"
  /\ cache' = [s \in Slots |-> None]
  /\ abandoned' = TRUE
  /\ queue' = <<>>
  /\ slots' = [s \in Slots |-> Freed(slots[s])]
  /\ hasBeenQueued' = FALSE
  /\ Signal
  /\ UNCHANGED <<overrideMax, connected, prod, prodSlot, fb, frameNumber,
                 composing, changes>>
-----------------------------------------------------------------------------
Compose ==
  \/ \E interval \in 1..Longest : ComposeAcquire(interval)
  \/ \E advance \in 1..Longest : ComposeRelease(advance)

Dispdrv ==
  \/ prod # "idle" /\ \E mismatch \in BOOLEAN : DequeueBuffer(mismatch)
  \/ DequeueAllocated
  \/ OnBuffersReleased

\* Bound: SetPreallocatedBuffer is the first of the calls that are counted.
MayPreallocate == changes = 0

\* A frame has taken the place of the front of the queue before an older frame of its slot.
Jumped ==
  \E k \in 2..Len(queue) : queue[k].slot = queue[1].slot /\ queue[k].frame < queue[1].frame

Next ==
  /\ ~ Jumped
  /\ \/ Compose \/ Dispdrv
     \/ \E s \in Slots :
          \/ MayPreallocate /\ \E given \in BOOLEAN : SetPreallocatedBuffer(s, given)
          \/ RequestBuffer(s) \/ DetachBuffer(s) \/ CancelBuffer(s)
          \/ \E async \in BOOLEAN : QueueBuffer(s, async)
     \/ \E n \in Counts : SetBufferCount(n)
     \/ \E mismatch \in BOOLEAN : DequeueBuffer(mismatch)
     \/ \E known \in BOOLEAN : Connect(known)
     \/ Disconnect
     \/ OpenLayer \/ CloseLayer \/ DestroyLayer

Spec == Init /\ [][Next]_vars

\* The display is composed again and again, and transactions that can go on do.
FairSpec == Spec /\ WF_vars(~ Jumped /\ Compose) /\ WF_vars(~ Jumped /\ Dispdrv)
-----------------------------------------------------------------------------
(***************************************************************************)
(* Properties, of the behaviours in which no frame jumps the queue.  A     *)
(* guest that mixes both modes of QueueBuffer, and sets the buffer count   *)
(* while frames wait, can bring about Jumped: the frame at the front has   *)
(* its slot in common with an older one behind it.  The code does not      *)
(* handle that.  The release of the first fails since its slot is found in *)
(* the queue, the slot stays acquired, and neither the display nor the     *)
(* guest gets a buffer from then on; or the first replaces the consumer's  *)
(* copy of the buffer that the second comes without.  The model stops      *)
(* there.                                                                  *)
(***************************************************************************)


\* The display shows the buffer that was queued, although an item whose buffer was acquired
\* before comes without its buffer: the consumer has not forgotten that.
ShownIsQueued == fb.held => fb.buffer # None /\ fb.buffer = fb.queued

\* A guest that waits for a slot, although it has not dequeued them all, gets one, or the
\* call fails, as long as the layer is not closed and no frame jumps the queue.
DequeueReturns ==
  []<>(Jumped \/ ~ (prod = "waiting" /\ layer # "closed" /\ (abandoned \/ Dequeued # Within)))
=============================================================================
