---------------------------- MODULE KAddressArbiter ----------------------------
(***************************************************************************)
(* KAddressArbiter (svcWaitForAddress, svcSignalToAddress): threads wait   *)
(* for a word of user memory to change and others change it and wake them. *)
(*                                                                         *)
(* The arbiter works under the scheduler lock; guest code on other cores   *)
(* does not take it and may store to the word at any time.  So a wait is   *)
(* two steps, the check of the word and the insertion into the tree, and   *)
(* the loop that wakes threads is unrolled.  A guest that stores to a word *)
(* signals it afterwards.                                                  *)
(***************************************************************************)
EXTENDS KernelCommon

CONSTANTS Addresses, NoAddress,
          Priority,    \* priority of each thread; smaller is better
          WordWidth,   \* bits of a word
          Counts       \* counts that guests pass when they signal

ASSUME ArbiterAssumption ==
  /\ IsFiniteSet(Threads)
  /\ NoAddress \notin Addresses
  /\ WordWidth \in Nat \ {0}
  /\ Counts \subseteq Int

VARIABLES mem,       \* the words
          tstate,    \* m_thread_state
          tree,      \* m_tree
          addr,      \* m_condvar_key of a thread that waits for an arbiter
          cond,      \* what the thread waits for: the type and the value
          timed,     \* the wait has a timer
          result,    \* m_wait_result
          lock,      \* the thread inside the arbiter
          dirty,     \* the addresses a guest has stored to and not yet signaled
          limited,   \* the addresses changed since everybody there was last woken,
                     \* by a decrement or with a signal to a number of threads
          sig        \* the signal in progress

arbiterVars == <<mem, tstate, tree, addr, cond, timed, result, lock, dirty, limited, sig>>

Words == Signed(WordWidth)

\* Arithmetic on s32.
ToWord(x) == Wrap(WordWidth, x)

NoCond == [type |-> "none", value |-> 0]
NoSignal == [addr |-> NoAddress, count |-> 0, num |-> 0, type |-> "none", delta |-> 0]

ArbiterTypeOK ==
  /\ mem \in [Addresses -> Words]
  /\ tstate \in [Threads -> {"Runnable", "Waiting"}]
  /\ tree \subseteq Threads
  /\ addr \in [Threads -> Addresses \cup {NoAddress}]
  /\ cond \in [Threads -> [type : {"none", "equal", "less"}, value : Words]]
  /\ timed \in [Threads -> BOOLEAN]
  /\ result \in [Threads -> {"Success", "TimedOut", "Terminated"}]
  /\ lock \in Threads \cup {NoThread}
  /\ dirty \in [Threads -> Addresses \cup {NoAddress}]
  /\ limited \subseteq Addresses
  /\ sig \in [addr : Addresses \cup {NoAddress}, count : Counts \cup {0},
              num : 0..Cardinality(Threads), type : {"none", "signal", "increment", "modify"},
              delta : -2..1]

ArbiterInit ==
  /\ mem = [a \in Addresses |-> 0]
  /\ tstate = [t \in Threads |-> "Runnable"]
  /\ tree = {}
  /\ addr = [t \in Threads |-> NoAddress]
  /\ cond = [t \in Threads |-> NoCond]
  /\ timed = [t \in Threads |-> FALSE]
  /\ result = [t \in Threads |-> "Success"]
  /\ lock = NoThread
  /\ dirty = [t \in Threads |-> NoAddress]
  /\ limited = {}
  /\ sig = NoSignal
-----------------------------------------------------------------------------
\* t runs guest code; a thread that was terminated while it waited does not return to it.
InGuest(t) == tstate[t] = "Runnable" /\ lock # t /\ result[t] # "Terminated"

CanEnter(t) == InGuest(t) /\ lock = NoThread /\ dirty[t] = NoAddress

\* Guest code stores to a word; it will signal it.
GuestStore(t, a, v) ==
  /\ InGuest(t) /\ dirty[t] = NoAddress
  /\ v # mem[a]
  /\ mem' = [mem EXCEPT ![a] = v]
  /\ dirty' = [dirty EXCEPT ![t] = a]
  /\ UNCHANGED <<tstate, tree, addr, cond, timed, result, lock, limited, sig>>

\* The wait returns without blocking: the word does not have the value (InvalidState), or
\* the timeout is zero (TimedOut).
Return == UNCHANGED <<addr, cond, timed, result, lock>>

\* Fault: the scheduler lock is not held between the check and the insertion.
LockForWait_Not(t) == lock

LockForWait(t) == t

\* The check passed: hold the lock until the thread is in the tree.
Proceed(t, a, type, value, timeout) ==
  /\ lock' = LockForWait(t)
  /\ addr' = [addr EXCEPT ![t] = a]
  /\ cond' = [cond EXCEPT ![t] = [type |-> type, value |-> value]]
  /\ timed' = [timed EXCEPT ![t] = timeout = "finite"]
  /\ UNCHANGED result

\* WaitIfEqual up to the check of the word.
WaitIfEqual(t, a, value, timeout) ==
  /\ CanEnter(t) /\ addr[t] = NoAddress
  /\ IF mem[a] # value \/ timeout = "zero" THEN Return
     ELSE Proceed(t, a, "equal", value, timeout)
  /\ UNCHANGED <<mem, tstate, tree, dirty, limited, sig>>

\* WaitIfLessThan up to the check; DecrementIfLessThan is an atomic update, which
\* takes place even if the timeout is zero.
WaitIfLessThan(t, a, value, decrement, timeout) ==
  /\ CanEnter(t) /\ addr[t] = NoAddress
  /\ IF decrement /\ mem[a] < value
       THEN mem' = [mem EXCEPT ![a] = ToWord(@ - 1)] /\ limited' = limited \cup {a}
       ELSE UNCHANGED <<mem, limited>>
  /\ IF mem[a] >= value \/ timeout = "zero" THEN Return
     ELSE Proceed(t, a, "less", value, timeout)
  /\ UNCHANGED <<tstate, tree, dirty, sig>>

\* The rest of a wait: insert the thread, begin to wait, unlock.
BeginWait(t) ==
  /\ addr[t] # NoAddress /\ tstate[t] = "Runnable"
  /\ lock \in {t, NoThread}
  /\ tree' = tree \cup {t}
  /\ tstate' = [tstate EXCEPT ![t] = "Waiting"]
  /\ lock' = NoThread
  /\ UNCHANGED <<mem, addr, cond, timed, result, dirty, limited, sig>>

\* The wait of t is over.
Clear(t, r) ==
  /\ tstate' = [tstate EXCEPT ![t] = "Runnable"]
  /\ addr' = [addr EXCEPT ![t] = NoAddress]
  /\ cond' = [cond EXCEPT ![t] = NoCond]
  /\ timed' = [timed EXCEPT ![t] = FALSE]
  /\ result' = [result EXCEPT ![t] = r]

TreeAfterCancel(t) == tree \ {t}

\* CancelWait of the wait queue: a timeout, or a termination request.
CancelWait(t, r) ==
  /\ lock = NoThread
  /\ tstate[t] = "Waiting"
  /\ r = "TimedOut" => timed[t]
  /\ tree' = TreeAfterCancel(t)
  /\ Clear(t, r)
  /\ UNCHANGED <<mem, lock, dirty, limited, sig>>
-----------------------------------------------------------------------------
WaitersAt(a) == {t \in tree : addr[t] = a}

\* SignalAndModifyByWaitingCountIfEqual: how the word changes.  The loop counts the
\* waiters after the first, and stops once it has counted more than count.
Counted(a, count) ==
  LET others == Cardinality(WaitersAt(a)) - 1
  IN IF others <= count THEN others ELSE count + 1

\* Fault: the first waiter is not counted apart.
FitsCount_Off(a, count) == Counted(a, count) <= count

FitsCount(a, count) == Counted(a, count) < count

Delta(a, count) ==
  IF WaitersAt(a) = {} THEN 1
  ELSE IF count <= 0 THEN -2
  ELSE IF FitsCount(a, count) THEN -1 ELSE 0

\* Enter the loop that wakes waiters.
StartSignal(t, a, type, count, delta) ==
  /\ lock' = t
  /\ sig' = [addr |-> a, count |-> count, num |-> 0, type |-> type, delta |-> delta]
  /\ dirty' = [dirty EXCEPT ![t] = NoAddress]
  /\ limited' = IF count <= 0 THEN limited \ {a}
                ELSE IF dirty[t] = a \/ delta # 0 THEN limited \cup {a}
                ELSE limited
  /\ UNCHANGED <<tstate, tree, addr, cond, timed, result>>

\* Signal, as such or after a store by the guest.
Signal(t, a, count) ==
  /\ InGuest(t) /\ lock = NoThread /\ addr[t] = NoAddress
  /\ dirty[t] \in {a, NoAddress}
  /\ StartSignal(t, a, "signal", count, 0)
  /\ UNCHANGED mem

\* The word does not have the value the caller expects: InvalidState.
Mismatch == UNCHANGED arbiterVars

\* SignalAndIncrementIfEqual.
SignalAndIncrementIfEqual(t, a, value, count) ==
  /\ CanEnter(t) /\ addr[t] = NoAddress
  /\ IF mem[a] # value THEN Mismatch
     ELSE /\ mem' = [mem EXCEPT ![a] = ToWord(value + 1)]
          /\ StartSignal(t, a, "increment", count, 1)

\* SignalAndModifyByWaitingCountIfEqual.
SignalAndModifyByWaitingCountIfEqual(t, a, value, count) ==
  /\ CanEnter(t) /\ addr[t] = NoAddress
  /\ IF mem[a] # value THEN Mismatch
     ELSE /\ mem' = [mem EXCEPT ![a] = ToWord(value + Delta(a, count))]
          /\ StartSignal(t, a, "modify", count, Delta(a, count))

\* The condition of the loop.
MoreToWake == /\ WaitersAt(sig.addr) # {}
              /\ sig.count <= 0 \/ sig.num < sig.count

\* The first threads at an address in the order of the tree.
Front(a) == {t \in WaitersAt(a) : \A u \in WaitersAt(a) : Priority[t] <= Priority[u]}

\* One iteration: end the wait of the first waiter and erase it.
WakeOne ==
  /\ sig # NoSignal /\ MoreToWake
  /\ \E t \in Front(sig.addr) : tree' = tree \ {t} /\ Clear(t, "Success")
  /\ sig' = [sig EXCEPT !.num = @ + 1]
  /\ UNCHANGED <<mem, lock, dirty, limited>>

\* The loop is over; unlock.
SignalDone ==
  /\ sig # NoSignal /\ ~ MoreToWake
  /\ sig' = NoSignal
  /\ lock' = NoThread
  /\ UNCHANGED <<mem, tstate, tree, addr, cond, timed, result, dirty, limited>>

ArbiterNext ==
  \/ \E t \in Threads, a \in Addresses, v \in Words :
       \/ GuestStore(t, a, v)
       \/ \E timeout \in {"zero", "finite", "infinite"} :
            \/ WaitIfEqual(t, a, v, timeout)
            \/ \E d \in BOOLEAN : WaitIfLessThan(t, a, v, d, timeout)
       \/ \E count \in Counts : \/ SignalAndIncrementIfEqual(t, a, v, count)
                                \/ SignalAndModifyByWaitingCountIfEqual(t, a, v, count)
  \/ \E t \in Threads, a \in Addresses, count \in Counts : Signal(t, a, count)
  \/ \E t \in Threads : BeginWait(t) \/ \E r \in {"TimedOut", "Terminated"} : CancelWait(t, r)
  \/ WakeOne \/ SignalDone

ArbiterSpec == ArbiterInit /\ [][ArbiterNext]_arbiterVars
-----------------------------------------------------------------------------
(* Properties *)

Stale(t) == CASE cond[t].type = "equal" -> mem[addr[t]] # cond[t].value
              [] cond[t].type = "less"  -> mem[addr[t]] >= cond[t].value
              [] OTHER -> FALSE

\* No lost wakeup.  A thread waits for a condition that no longer holds only while
\* somebody is about to signal the word, or after changes that did not wake everybody.
NoLostWakeup ==
  \A t \in Threads : tstate[t] = "Waiting" /\ Stale(t) =>
    \/ \E u \in Threads : dirty[u] = addr[t]
    \/ sig.addr = addr[t]
    \/ addr[t] \in limited

\* After a signal by waiting count the change of the word tells what happened: nobody
\* was there (+1), all were woken and the caller had asked for a number (-1) or for
\* everybody (-2), or some are left (0).
WordTellsWaiters ==
  sig.type = "modify" /\ ~ MoreToWake =>
    /\ sig.delta = 1  <=> sig.num = 0
    /\ sig.delta = -2 <=> sig.num > 0 /\ sig.count <= 0
    /\ sig.delta = -1 <=> sig.num > 0 /\ sig.count > 0 /\ WaitersAt(sig.addr) = {}
    /\ sig.delta = 0  <=> WaitersAt(sig.addr) # {}
=============================================================================
