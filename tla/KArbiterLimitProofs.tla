------------------------- MODULE KArbiterLimitProofs -------------------------
(***************************************************************************)
(* KAddressArbiter and KResourceLimit, for any number of threads and       *)
(* addresses, any limits, and integers of any width.                       *)
(***************************************************************************)
EXTENDS KAddressArbiter, KResourceLimit, FiniteSetTheorems, TLAPS

\* A power of two is a positive number.
LEMMA PowerOfTwo == ASSUME NEW n \in Nat PROVE 2^n \in Nat \ {0}
  <1>1. IsFiniteSet(1..n) /\ Cardinality(1..n) = n BY FS_Interval
  <1>2. IsFiniteSet(SUBSET (1..n)) /\ Cardinality(SUBSET (1..n)) = 2^n BY Zenon, <1>1, FS_SUBSET
  <1>3. Cardinality(SUBSET (1..n)) \in Nat BY <1>2, FS_CardinalityType
  <1>4. Cardinality(SUBSET (1..n)) # 0
    <2>1. SUBSET (1..n) # {} BY Zenon
    <2> QED BY <1>2, <2>1, FS_EmptySet
  <1> QED BY <1>2, <1>3, <1>4

\* A word of the arbiter: arithmetic stays in range, and is exact in range.
LEMMA WordArithmetic ==
  /\ 0 \in Words /\ Words \subseteq Int
  /\ \A x \in Int : ToWord(x) \in Words
  /\ \A x \in Words : ToWord(x) = x
  <1>1. PICK h \in Nat \ {0} : h = Half(WordWidth)
    BY PowerOfTwo, ArbiterAssumption DEF Half
  <1>2. Words = -h .. (h - 1) BY <1>1 DEF Words, Signed
  <1>3. ASSUME NEW x \in Int PROVE ToWord(x) = ((x + h) % (2 * h)) - h
    BY <1>1 DEF ToWord, Wrap
  <1>4. ASSUME NEW x \in Int PROVE ((x + h) % (2 * h)) - h \in -h .. (h - 1) OBVIOUS
  <1>5. ASSUME NEW x \in -h .. (h - 1) PROVE ((x + h) % (2 * h)) - h = x OBVIOUS
  <1>6. 0 \in -h .. (h - 1) /\ -h .. (h - 1) \subseteq Int OBVIOUS
  <1>7. ASSUME NEW x \in Int PROVE ToWord(x) \in Words
    BY Zenon, <1>2, <1>3, <1>4
  <1>8. ASSUME NEW x \in Words PROVE ToWord(x) = x
    BY Zenon, <1>2, <1>3, <1>5, <1>6
  <1> QED BY <1>2, <1>6, <1>7, <1>8
-----------------------------------------------------------------------------
(* The inductive invariant *)

\* The tree holds the threads that wait.  One that passed its check and is not in the
\* tree yet holds the scheduler lock.
TreeInv ==
  /\ tree = {t \in Threads : tstate[t] = "Waiting"}
  /\ \A t \in Threads : tstate[t] = "Waiting" => addr[t] # NoAddress
  /\ \A t \in Threads : addr[t] # NoAddress /\ tstate[t] = "Runnable" => lock = t

\* The thread that signals holds the lock and does not wait.
SignalerInv ==
  IF sig.addr = NoAddress THEN sig = NoSignal
  ELSE lock \in Threads /\ addr[lock] = NoAddress

\* A thread whose condition no longer holds, asleep or about to be, will be looked after.
\* While only a number of threads is signaled this does not rest on the signal.
StaleInv ==
  \A t \in Threads : addr[t] # NoAddress /\ Stale(t) =>
    \/ \E u \in Threads : dirty[u] = addr[t]
    \/ sig.addr = addr[t] /\ sig.count <= 0
    \/ addr[t] \in limited

\* The threads woken so far and those still in the tree were there at the signal: their
\* number decided how the word was changed.
DeltaInv ==
  LET left == Cardinality(WaitersAt(sig.addr))
      all == sig.num + left
  IN /\ all <= Cardinality(Threads)
     /\ sig.num > 0 /\ sig.count > 0 => sig.num <= sig.count
     /\ sig.type = "modify" =>
          sig.delta = IF all = 0 THEN 1
                      ELSE IF sig.count <= 0 THEN -2
                      ELSE IF all <= sig.count THEN -1 ELSE 0

ArbiterInv == ArbiterTypeOK /\ TreeInv /\ SignalerInv /\ StaleInv /\ DeltaInv

\* Sets of threads are finite.
LEMMA ThreadsFinite ==
  ASSUME NEW S, S \subseteq Threads
  PROVE IsFiniteSet(S) /\ Cardinality(S) \in Nat /\ Cardinality(S) <= Cardinality(Threads)
  BY ArbiterAssumption, FS_Subset, FS_CardinalityType

\* At first nobody waits and nobody signals.
LEMMA InitArbiterInv == ArbiterInit => ArbiterInv
  <1> SUFFICES ASSUME ArbiterInit PROVE ArbiterInv OBVIOUS
  <1> USE ThreadsAssumption, ArbiterAssumption
  <1>0. Cardinality(Threads) \in Nat BY ThreadsFinite
  <1>1. ArbiterTypeOK
    <2>1. 0 \in Words BY WordArithmetic
    <2>2. /\ mem \in [Addresses -> Words]
          /\ cond \in [Threads -> [type : {"none", "equal", "less"}, value : Words]]
      BY <2>1 DEF ArbiterInit, NoCond
    <2>3. sig \in [addr : Addresses \cup {NoAddress}, count : Counts \cup {0},
                   num : 0..Cardinality(Threads),
                   type : {"none", "signal", "increment", "modify"}, delta : -2..1]
      BY <1>0 DEF ArbiterInit, NoSignal
    <2>4. /\ tree \subseteq Threads /\ limited \subseteq Addresses
          /\ lock \in Threads \cup {NoThread}
          /\ addr \in [Threads -> Addresses \cup {NoAddress}]
          /\ dirty \in [Threads -> Addresses \cup {NoAddress}]
      BY DEF ArbiterInit
    <2>5. /\ tstate \in [Threads -> {"Runnable", "Waiting"}]
          /\ timed \in [Threads -> BOOLEAN]
          /\ result \in [Threads -> {"Success", "TimedOut", "Terminated"}]
      BY DEF ArbiterInit
    <2> QED BY <2>2, <2>3, <2>4, <2>5 DEF ArbiterTypeOK
  <1>2. TreeInv /\ SignalerInv /\ StaleInv
    BY DEF ArbiterInit, TreeInv, SignalerInv, StaleInv, NoSignal
  <1>3. DeltaInv
    <2>1. WaitersAt(sig.addr) = {} BY DEF ArbiterInit, WaitersAt
    <2>2. Cardinality(WaitersAt(sig.addr)) = 0 BY <2>1, FS_EmptySet
    <2> QED BY <1>0, <2>2 DEF ArbiterInit, NoSignal, DeltaInv
  <1> QED BY <1>1, <1>2, <1>3 DEF ArbiterInv

\* After a step that leaves nobody signaling there is nothing to count.
LEMMA QuietDelta ==
  ASSUME TreeInv', sig' = NoSignal PROVE DeltaInv'
  <1>1. WaitersAt(NoAddress)' = {} BY DEF WaitersAt, TreeInv
  <1>2. Cardinality(WaitersAt(NoAddress)') = 0 BY <1>1, FS_EmptySet
  <1>3. Cardinality(Threads) \in Nat BY ThreadsFinite
  <1>4. sig'.addr = NoAddress /\ sig'.num = 0 /\ sig'.type = "none" BY DEF NoSignal
  <1> QED BY <1>2, <1>3, <1>4 DEF DeltaInv
-----------------------------------------------------------------------------
(* The steps of waiting threads.  The lock keeps them apart from a signal. *)

\* A wait that passed its check, or returned at once.
LEMMA WaitKeeps ==
  ASSUME ArbiterInv, NEW t \in Threads, NEW a \in Addresses, NEW v \in Words,
         NEW timeout \in {"zero", "finite", "infinite"},
         \/ WaitIfEqual(t, a, v, timeout)
         \/ \E d \in BOOLEAN : WaitIfLessThan(t, a, v, d, timeout)
  PROVE ArbiterInv'
  <1> USE ThreadsAssumption, ArbiterAssumption DEF ArbiterInv
  <1>1. /\ tstate[t] = "Runnable" /\ lock = NoThread /\ addr[t] = NoAddress
        /\ UNCHANGED <<tstate, tree, dirty, sig, result>>
    BY DEF WaitIfEqual, WaitIfLessThan, CanEnter, InGuest,
           Return, Proceed
  <1>2. sig = NoSignal BY <1>1 DEF SignalerInv
  <1>3. \/ UNCHANGED <<mem, limited>>
        \/ /\ mem' = [mem EXCEPT ![a] = ToWord(mem[a] - 1)]
           /\ limited' = limited \cup {a}
    BY DEF WaitIfEqual, WaitIfLessThan
  <1>4. \/ UNCHANGED <<addr, cond, timed, lock>>
        \/ \E type \in {"equal", "less"} :
             /\ lock' = t
             /\ addr' = [addr EXCEPT ![t] = a]
             /\ cond' = [cond EXCEPT ![t] = [type |-> type, value |-> v]]
             /\ timed' = [timed EXCEPT ![t] = timeout = "finite"]
             /\ \/ type = "equal" /\ mem[a] = v /\ UNCHANGED mem
                \/ type = "less" /\ ~ (mem[a] >= v)
    BY DEF WaitIfEqual, WaitIfLessThan, Return, Proceed,
           LockForWait
  <1>5. ArbiterTypeOK'
    <2>1. mem' \in [Addresses -> Words]
      <3>1. mem[a] \in Words BY DEF ArbiterTypeOK
      <3>2. Words \subseteq Int BY WordArithmetic
      <3>4. mem[a] \in Int BY Zenon, <3>1, <3>2
      <3>5. mem[a] - 1 \in Int BY <3>4
      <3>3. ToWord(mem[a] - 1) \in Words BY <3>4, <3>5, WordArithmetic
      <3> QED BY <1>3, <3>3 DEF ArbiterTypeOK
    <2>2. limited' \subseteq Addresses BY <1>3 DEF ArbiterTypeOK
    <2>3. /\ addr' \in [Threads -> Addresses \cup {NoAddress}]
          /\ lock' \in Threads \cup {NoThread}
      BY <1>4 DEF ArbiterTypeOK
    <2>4. cond' \in [Threads -> [type : {"none", "equal", "less"}, value : Words]]
      BY <1>4 DEF ArbiterTypeOK
    <2>5. timed' \in [Threads -> BOOLEAN] BY Zenon, <1>4 DEF ArbiterTypeOK
    <2> QED BY <1>1, <2>1, <2>2, <2>3, <2>4, <2>5 DEF ArbiterTypeOK
  <1>6. TreeInv' BY <1>1, <1>4 DEF TreeInv, ArbiterTypeOK
  <1>7. SignalerInv' BY <1>1, <1>2 DEF SignalerInv, NoSignal
  <1>8. StaleInv'
    <2> SUFFICES ASSUME NEW u \in Threads, addr'[u] # NoAddress, Stale(u)'
                 PROVE \/ \E w \in Threads : dirty'[w] = addr'[u]
                       \/ addr'[u] \in limited'
      BY <1>1 DEF StaleInv
    <2>1. CASE a \in limited' /\ addr'[u] = a BY <2>1
    <2>2. CASE UNCHANGED <<mem, limited>> /\ u = t /\ addr'[t] # NoAddress
      BY <1>1, <1>4, <2>2 DEF Stale, ArbiterTypeOK
    <2>3. CASE u # t /\ (addr'[u] = a => UNCHANGED <<mem, limited>>)
      <3>1. addr'[u] = addr[u] /\ cond'[u] = cond[u] BY <1>4, <2>3 DEF ArbiterTypeOK
      <3>2. addr[u] \in Addresses BY <3>1 DEF ArbiterTypeOK
      <3>3. mem'[addr[u]] = mem[addr[u]] BY <1>3, <2>3, <3>1, <3>2 DEF ArbiterTypeOK
      <3>4. Stale(u) BY <3>1, <3>3 DEF Stale
      <3> QED BY <1>1, <1>2, <1>3, <3>1, <3>2, <3>4 DEF StaleInv, NoSignal
    <2> QED BY <1>1, <1>3, <1>4, <2>1, <2>2, <2>3 DEF ArbiterTypeOK
  <1>9. DeltaInv' BY <1>1, <1>2, <1>6, QuietDelta
  <1> QED BY <1>5, <1>6, <1>7, <1>8, <1>9

\* A store by a guest: the storing thread is going to signal.
LEMMA GuestStoreKeeps ==
  ASSUME ArbiterInv, NEW t \in Threads, NEW a \in Addresses, NEW v \in Words,
         GuestStore(t, a, v)
  PROVE ArbiterInv'
  <1> USE ThreadsAssumption, ArbiterAssumption DEF ArbiterInv
  <1>1. /\ dirty[t] = NoAddress
        /\ mem' = [mem EXCEPT ![a] = v]
        /\ dirty' = [dirty EXCEPT ![t] = a]
        /\ UNCHANGED <<tstate, tree, addr, cond, timed, result, lock, limited, sig>>
    BY DEF GuestStore
  <1>2. ArbiterTypeOK' BY <1>1 DEF ArbiterTypeOK
  <1>3. TreeInv' /\ SignalerInv' BY <1>1 DEF TreeInv, SignalerInv
  <1>4. StaleInv'
    <2> SUFFICES ASSUME NEW u \in Threads, addr[u] # NoAddress, Stale(u)'
                 PROVE \/ \E w \in Threads : dirty'[w] = addr[u]
                       \/ sig.addr = addr[u] /\ sig.count <= 0
                       \/ addr[u] \in limited
      BY <1>1 DEF StaleInv
    <2>1. CASE addr[u] = a BY <1>1, <2>1 DEF ArbiterTypeOK
    <2>2. CASE addr[u] # a
      <3>1. mem'[addr[u]] = mem[addr[u]] BY <1>1, <2>2 DEF ArbiterTypeOK
      <3>2. Stale(u) BY <1>1, <3>1 DEF Stale
      <3>3. \A w \in Threads : dirty[w] = addr[u] => dirty'[w] = addr[u]
        BY <1>1 DEF ArbiterTypeOK
      <3> QED BY <3>2, <3>3 DEF StaleInv
    <2> QED BY <2>1, <2>2
  <1>5. DeltaInv' BY <1>1 DEF DeltaInv, WaitersAt
  <1> QED BY <1>2, <1>3, <1>4, <1>5

\* A thread enters the tree, or leaves it by a timeout or a termination request: nobody
\* signals meanwhile.
LEMMA TreeStepKeeps ==
  ASSUME ArbiterInv, NEW t \in Threads,
         BeginWait(t) \/ \E r \in {"TimedOut", "Terminated"} : CancelWait(t, r)
  PROVE ArbiterInv'
  <1> USE ThreadsAssumption, ArbiterAssumption DEF ArbiterInv
  <1>0. UNCHANGED <<mem, dirty, limited, sig>>
    BY DEF BeginWait, CancelWait
  <1>1. CASE BeginWait(t)
    <2>1. /\ addr[t] # NoAddress /\ tstate[t] = "Runnable" /\ lock = t
          /\ tree' = tree \cup {t}
          /\ tstate' = [tstate EXCEPT ![t] = "Waiting"]
          /\ lock' = NoThread
          /\ UNCHANGED <<addr, cond, timed, result>>
      BY <1>1 DEF BeginWait, TreeInv
    <2>2. sig = NoSignal BY <2>1 DEF SignalerInv
    <2>3. ArbiterTypeOK' BY <1>0, <2>1 DEF ArbiterTypeOK
    <2>4. TreeInv' BY <2>1 DEF TreeInv, ArbiterTypeOK
    <2>5. SignalerInv' BY <1>0, <2>2 DEF SignalerInv, NoSignal
    <2>6. StaleInv' BY <1>0, <2>1 DEF StaleInv, Stale
    <2>7. DeltaInv' BY <1>0, <2>2, <2>4, QuietDelta
    <2> QED BY <2>3, <2>4, <2>5, <2>6, <2>7
  <1>2. ASSUME NEW r \in {"TimedOut", "Terminated"}, CancelWait(t, r)
        PROVE ArbiterInv'
    <2>1. /\ lock = NoThread /\ lock' = lock
          /\ tree' = tree \ {t}
          /\ tstate' = [tstate EXCEPT ![t] = "Runnable"]
          /\ addr' = [addr EXCEPT ![t] = NoAddress]
          /\ cond' = [cond EXCEPT ![t] = NoCond]
          /\ timed' = [timed EXCEPT ![t] = FALSE]
          /\ result' = [result EXCEPT ![t] = r]
      BY <1>2 DEF CancelWait, Clear, TreeAfterCancel
    <2>2. sig = NoSignal BY <2>1 DEF SignalerInv
    <2>3. ArbiterTypeOK'
      <3>1. cond' \in [Threads -> [type : {"none", "equal", "less"}, value : Words]]
        BY <2>1, WordArithmetic DEF ArbiterTypeOK, NoCond
      <3> QED BY <1>0, <2>1, <3>1 DEF ArbiterTypeOK
    <2>4. TreeInv' BY <2>1 DEF TreeInv, ArbiterTypeOK
    <2>5. SignalerInv' BY <1>0, <2>2 DEF SignalerInv, NoSignal
    <2>6. StaleInv' BY <1>0, <2>1 DEF StaleInv, Stale, ArbiterTypeOK
    <2>7. DeltaInv' BY <1>0, <2>2, <2>4, QuietDelta
    <2> QED BY <2>3, <2>4, <2>5, <2>6, <2>7
  <1> QED BY <1>1, <1>2
-----------------------------------------------------------------------------
(* The steps of a signal *)

\* SignalAndModifyByWaitingCountIfEqual counts the waiters it finds.
LEMMA DeltaValue ==
  ASSUME ArbiterInv, NEW a, NEW count \in Counts
  PROVE LET all == Cardinality(WaitersAt(a))
        IN Delta(a, count) = IF all = 0 THEN 1
                                     ELSE IF count <= 0 THEN -2
                                     ELSE IF all <= count THEN -1 ELSE 0
  <1>0. count \in Int BY ThreadsAssumption, ArbiterAssumption
  <1>1. IsFiniteSet(WaitersAt(a)) /\ Cardinality(WaitersAt(a)) \in Nat
    BY ThreadsFinite DEF ArbiterInv, ArbiterTypeOK, WaitersAt
  <1>2. Cardinality(WaitersAt(a)) = 0 <=> WaitersAt(a) = {}
    BY <1>1, FS_EmptySet
  <1>3. PICK all \in Nat : all = Cardinality(WaitersAt(a)) BY <1>1
  <1>4. Counted(a, count) = IF all - 1 <= count THEN all - 1 ELSE count + 1
    BY <1>3 DEF Counted
  <1>5. FitsCount(a, count) <=> all <= count
    BY <1>0, <1>4 DEF FitsCount
  <1> QED BY <1>2, <1>3, <1>5 DEF Delta

\* The start of a signal: the word at a may have changed, the others did not.
LEMMA StartSignalKeeps ==
  ASSUME ArbiterInv, NEW t \in Threads, NEW a \in Addresses, NEW count \in Counts,
         NEW type \in {"signal", "increment", "modify"}, NEW delta \in -2..1,
         lock = NoThread, addr[t] = NoAddress, dirty[t] \in {a, NoAddress},
         StartSignal(t, a, type, count, delta),
         mem' \in [Addresses -> Words],
         \A b \in Addresses \ {a} : mem'[b] = mem[b],
         delta = 0 => mem'[a] = mem[a],
         type = "modify" => delta = Delta(a, count)
  PROVE ArbiterInv'
  <1> USE ThreadsAssumption, ArbiterAssumption DEF ArbiterInv
  <1>1. /\ lock' = t
        /\ sig' = [addr |-> a, count |-> count, num |-> 0, type |-> type, delta |-> delta]
        /\ dirty' = [dirty EXCEPT ![t] = NoAddress]
        /\ limited' = IF count <= 0 THEN limited \ {a}
                      ELSE IF dirty[t] = a \/ delta # 0 THEN limited \cup {a}
                      ELSE limited
        /\ UNCHANGED <<tstate, tree, addr, cond, timed, result>>
    BY DEF StartSignal
  <1>2. sig = NoSignal BY DEF SignalerInv
  <1>3. ArbiterTypeOK'
    <2>1. sig' \in [addr : Addresses \cup {NoAddress}, count : Counts \cup {0},
                    num : 0..Cardinality(Threads),
                    type : {"none", "signal", "increment", "modify"}, delta : -2..1]
      BY <1>1, ThreadsFinite
    <2>2. limited' \subseteq Addresses BY <1>1 DEF ArbiterTypeOK
    <2>3. dirty' \in [Threads -> Addresses \cup {NoAddress}] BY <1>1 DEF ArbiterTypeOK
    <2> QED BY <1>1, <2>1, <2>2, <2>3 DEF ArbiterTypeOK
  <1>4. TreeInv' BY <1>1 DEF TreeInv
  <1>5. SignalerInv' BY <1>1 DEF SignalerInv
  <1>6. StaleInv'
    <2> SUFFICES ASSUME NEW u \in Threads, addr[u] # NoAddress, Stale(u)'
                 PROVE \/ \E w \in Threads : dirty'[w] = addr[u]
                       \/ a = addr[u] /\ count <= 0
                       \/ addr[u] \in limited'
      BY Zenon, <1>1 DEF StaleInv
    <2>1. addr[u] \in Addresses BY DEF ArbiterTypeOK
    <2>2. CASE addr[u] = a /\ (count <= 0 \/ dirty[t] = a \/ delta # 0) BY Zenon, <1>1, <2>2
    <2>3. CASE addr[u] # a \/ ~ (count <= 0 \/ dirty[t] = a \/ delta # 0)
      <3>1. mem'[addr[u]] = mem[addr[u]] BY <2>1, <2>3
      <3>2. Stale(u) BY <1>1, <3>1 DEF Stale
      <3>3. (\E w \in Threads : dirty[w] = addr[u]) \/ addr[u] \in limited
        BY <1>2, <3>2 DEF StaleInv, NoSignal
      <3>4. \A w \in Threads : dirty[w] = addr[u] => dirty'[w] = addr[u]
        BY <1>1, <2>1, <2>3 DEF ArbiterTypeOK
      <3>5. addr[u] \in limited => addr[u] \in limited' BY <1>1, <2>3
      <3> QED BY Zenon, <3>3, <3>4, <3>5
    <2> QED BY <2>2, <2>3
  <1>7. DeltaInv'
    <2>1. WaitersAt(a)' = WaitersAt(a) BY <1>1 DEF WaitersAt
    <2>2. PICK all \in Nat : all = Cardinality(WaitersAt(a))
      BY Zenon, ThreadsFinite DEF WaitersAt, ArbiterTypeOK
    <2>3. all <= Cardinality(Threads)
      BY <2>2, ThreadsFinite DEF WaitersAt, ArbiterTypeOK
    <2>4. type = "modify" => delta = IF all = 0 THEN 1
                                     ELSE IF count <= 0 THEN -2
                                     ELSE IF all <= count THEN -1 ELSE 0
      BY <2>2, DeltaValue
    <2>5. /\ sig'.addr = a /\ sig'.num = 0 /\ sig'.count = count /\ sig'.type = type
          /\ sig'.delta = delta
      BY <1>1
    <2>6. Cardinality(WaitersAt(sig.addr)') = all BY <2>1, <2>2, <2>5
    <2> QED BY <2>3, <2>4, <2>5, <2>6 DEF DeltaInv
  <1> QED BY <1>3, <1>4, <1>5, <1>6, <1>7

\* The three system calls that signal start with such a step, or change nothing.
LEMMA SignalCallKeeps ==
  ASSUME ArbiterInv, NEW t \in Threads, NEW a \in Addresses, NEW count \in Counts,
         NEW v \in Words,
         \/ Signal(t, a, count)
         \/ SignalAndIncrementIfEqual(t, a, v, count)
         \/ SignalAndModifyByWaitingCountIfEqual(t, a, v, count)
  PROVE ArbiterInv' \/ UNCHANGED arbiterVars
  <1> USE DEF CanEnter
  <1>0. mem \in [Addresses -> Words] BY DEF ArbiterInv, ArbiterTypeOK
  <1>1. CASE Signal(t, a, count)
    <2>1. /\ lock = NoThread /\ addr[t] = NoAddress /\ dirty[t] \in {a, NoAddress}
          /\ StartSignal(t, a, "signal", count, 0) /\ mem' = mem
      BY <1>1 DEF Signal
    <2>2. 0 \in -2..1 /\ "signal" \in {"signal", "increment", "modify"} /\ "signal" # "modify"
      OBVIOUS
    <2> QED BY <1>0, <2>1, <2>2, StartSignalKeeps
  <1>2. ASSUME NEW type \in {"increment", "modify"}, NEW delta \in -2..1,
               lock = NoThread, addr[t] = NoAddress, dirty[t] = NoAddress,
               mem[a] = v, mem' = [mem EXCEPT ![a] = ToWord(v + delta)],
               StartSignal(t, a, type, count, delta),
               type = "modify" => delta = Delta(a, count)
        PROVE ArbiterInv'
    <2>1. v \in Int BY WordArithmetic
    <2>2. ToWord(v + delta) \in Words BY <2>1, WordArithmetic
    <2>3. delta = 0 => ToWord(v + delta) = v
      <3>1. delta = 0 => v + delta = v BY <2>1
      <3> QED BY <3>1, WordArithmetic
    <2> QED BY <1>0, <1>2, <2>2, <2>3, StartSignalKeeps
  <1>3. CASE SignalAndIncrementIfEqual(t, a, v, count)
    <2>1. CASE mem[a] # v
      BY <1>3, <2>1
      DEF SignalAndIncrementIfEqual, Mismatch, arbiterVars
    <2>2. CASE mem[a] = v
      <3>1. /\ lock = NoThread /\ dirty[t] = NoAddress /\ addr[t] = NoAddress
            /\ mem' = [mem EXCEPT ![a] = ToWord(v + 1)]
            /\ StartSignal(t, a, "increment", count, 1)
        BY Zenon, <1>3, <2>2 DEF SignalAndIncrementIfEqual
      <3>2. 1 \in -2..1 /\ "increment" # "modify" OBVIOUS
      <3> QED BY Zenon, <1>2, <2>2, <3>1, <3>2
    <2> QED BY <2>1, <2>2
  <1>4. CASE SignalAndModifyByWaitingCountIfEqual(t, a, v, count)
    <2>1. CASE mem[a] # v
      BY Zenon, <1>4, <2>1
      DEF SignalAndModifyByWaitingCountIfEqual, Mismatch, arbiterVars
    <2>2. CASE mem[a] = v
      <3>1. Delta(a, count) \in -2..1 BY DEF Delta
      <3> QED BY <1>2, <1>4, <2>2, <3>1 DEF SignalAndModifyByWaitingCountIfEqual
    <2> QED BY <2>1, <2>2
  <1> QED BY <1>1, <1>3, <1>4

\* One waiter is woken: one more that was, one less that is left.
LEMMA WakeOneKeeps == ArbiterInv /\ WakeOne => ArbiterInv'
  <1> SUFFICES ASSUME ArbiterInv, WakeOne PROVE ArbiterInv' OBVIOUS
  <1> USE ThreadsAssumption, ArbiterAssumption DEF ArbiterInv
  <1>1. PICK t \in Front(sig.addr) : tree' = tree \ {t} /\ Clear(t, "Success")
    BY DEF WakeOne
  <1>2. /\ tstate' = [tstate EXCEPT ![t] = "Runnable"]
        /\ addr' = [addr EXCEPT ![t] = NoAddress]
        /\ cond' = [cond EXCEPT ![t] = NoCond]
        /\ timed' = [timed EXCEPT ![t] = FALSE]
        /\ result' = [result EXCEPT ![t] = "Success"]
        /\ tree' = tree \ {t}
    BY <1>1 DEF Clear
  <1>3. /\ sig # NoSignal /\ MoreToWake
        /\ sig' = [sig EXCEPT !.num = @ + 1]
        /\ UNCHANGED <<mem, lock, dirty, limited>>
    BY DEF WakeOne
  <1>4. t \in WaitersAt(sig.addr) /\ t \in Threads /\ addr[t] = sig.addr
    BY <1>1 DEF Front, WaitersAt, ArbiterTypeOK
  <1>5. sig.addr # NoAddress BY <1>3 DEF SignalerInv
  <1>6. /\ sig.num \in Nat /\ sig.count \in Int
        /\ sig'.addr = sig.addr /\ sig'.count = sig.count /\ sig'.type = sig.type
        /\ sig'.delta = sig.delta /\ sig'.num = sig.num + 1
    BY <1>3, ThreadsFinite DEF ArbiterTypeOK
  <1>7. WaitersAt(sig.addr)' = WaitersAt(sig.addr) \ {t}
    BY <1>2, <1>4, <1>6 DEF WaitersAt, ArbiterTypeOK
  <1>8. PICK left \in Nat : left = Cardinality(WaitersAt(sig.addr))
    BY Zenon, ThreadsFinite DEF WaitersAt, ArbiterTypeOK
  <1>9. Cardinality(WaitersAt(sig.addr)') = left - 1
    <2>1. IsFiniteSet(WaitersAt(sig.addr))
      BY ThreadsFinite DEF WaitersAt, ArbiterTypeOK
    <2>2. Cardinality(WaitersAt(sig.addr) \ {t}) = Cardinality(WaitersAt(sig.addr)) - 1
      BY ONLY Zenon, <1>4, <2>1, FS_RemoveElement
    <2> QED BY ONLY <1>7, <1>8, <2>2
  <1>10. left - 1 \in Nat
    <2>1. IsFiniteSet(WaitersAt(sig.addr))
      BY ThreadsFinite DEF WaitersAt, ArbiterTypeOK
    <2>2. left # 0 BY <1>4, <1>8, <2>1, FS_EmptySet
    <2> QED BY <2>2
  <1>11. sig.num + left <= Cardinality(Threads) BY <1>8 DEF DeltaInv
  <1>12. ArbiterTypeOK'
    <2>1. cond' \in [Threads -> [type : {"none", "equal", "less"}, value : Words]]
      BY Zenon, <1>2, WordArithmetic DEF ArbiterTypeOK, NoCond
    <2>2. Cardinality(Threads) \in Nat BY ThreadsFinite
    <2>3. sig.num + 1 \in 0..Cardinality(Threads) BY <1>6, <1>8, <1>10, <1>11, <2>2
    <2>4. sig' \in [addr : Addresses \cup {NoAddress}, count : Counts \cup {0},
                    num : 0..Cardinality(Threads),
                    type : {"none", "signal", "increment", "modify"}, delta : -2..1]
      BY <1>3, <2>3 DEF ArbiterTypeOK
    <2>5. /\ tstate' \in [Threads -> {"Runnable", "Waiting"}]
          /\ addr' \in [Threads -> Addresses \cup {NoAddress}]
          /\ timed' \in [Threads -> BOOLEAN]
          /\ result' \in [Threads -> {"Success", "TimedOut", "Terminated"}]
          /\ tree' \subseteq Threads
      BY Zenon, <1>2 DEF ArbiterTypeOK
    <2> QED BY <1>3, <2>1, <2>4, <2>5 DEF ArbiterTypeOK
  <1>13. TreeInv' BY <1>2, <1>3, <1>4 DEF TreeInv, ArbiterTypeOK
  <1>14. SignalerInv' BY <1>2, <1>3, <1>5, <1>6 DEF SignalerInv, ArbiterTypeOK
  <1>15. StaleInv'
    <2> SUFFICES ASSUME NEW u \in Threads, addr'[u] # NoAddress, Stale(u)'
                 PROVE \/ \E w \in Threads : dirty[w] = addr'[u]
                       \/ sig.addr = addr'[u] /\ sig.count <= 0
                       \/ addr'[u] \in limited
      BY <1>3, <1>6 DEF StaleInv
    <2>1. u # t /\ addr'[u] = addr[u] /\ cond'[u] = cond[u]
      BY <1>2, <1>4 DEF ArbiterTypeOK
    <2>2. Stale(u) BY <1>3, <2>1 DEF Stale
    <2> QED BY <2>1, <2>2 DEF StaleInv
  <1>16. DeltaInv'
    <2>1. sig.count <= 0 \/ sig.num < sig.count BY <1>3 DEF MoreToWake
    <2>2. sig.count > 0 => sig.num + 1 <= sig.count BY <1>6, <2>1
    <2>3. (sig.num + 1) + (left - 1) = sig.num + left BY ONLY <1>6, <1>8, <1>10
    <2> QED BY <1>6, <1>8, <1>9, <1>11, <2>2, <2>3 DEF DeltaInv
  <1> QED BY <1>12, <1>13, <1>14, <1>15, <1>16

\* The end of a signal.  One for everybody leaves nobody at the word.
LEMMA SignalDoneKeeps == ArbiterInv /\ SignalDone => ArbiterInv'
  <1> SUFFICES ASSUME ArbiterInv, SignalDone PROVE ArbiterInv' OBVIOUS
  <1> USE ThreadsAssumption, ArbiterAssumption DEF ArbiterInv
  <1>1. /\ sig # NoSignal /\ ~ MoreToWake
        /\ sig' = NoSignal /\ lock' = NoThread
        /\ UNCHANGED <<mem, tstate, tree, addr, cond, timed, result, dirty, limited>>
    BY DEF SignalDone
  <1>2. lock \in Threads /\ addr[lock] = NoAddress BY <1>1 DEF SignalerInv
  <1>3. \A u \in Threads : addr[u] # NoAddress => tstate[u] = "Waiting" /\ u \in tree
    BY <1>2 DEF TreeInv, ArbiterTypeOK
  <1>4. ArbiterTypeOK'
    <2>1. Cardinality(Threads) \in Nat BY ThreadsFinite
    <2>2. sig' \in [addr : Addresses \cup {NoAddress}, count : Counts \cup {0},
                    num : 0..Cardinality(Threads),
                    type : {"none", "signal", "increment", "modify"}, delta : -2..1]
      BY <1>1, <2>1 DEF NoSignal
    <2> QED BY <1>1, <2>2 DEF ArbiterTypeOK
  <1>5. TreeInv' BY <1>1, <1>3 DEF TreeInv
  <1>6. SignalerInv' BY <1>1 DEF SignalerInv, NoSignal
  <1>7. StaleInv'
    <2> SUFFICES ASSUME NEW u \in Threads, addr[u] # NoAddress, Stale(u)
                 PROVE (\E w \in Threads : dirty[w] = addr[u]) \/ addr[u] \in limited
      BY <1>1 DEF StaleInv, Stale
    <2>1. ~ (sig.addr = addr[u] /\ sig.count <= 0)
      BY <1>1, <1>3 DEF MoreToWake, WaitersAt
    <2> QED BY <2>1 DEF StaleInv
  <1>8. DeltaInv' BY <1>1, <1>5, QuietDelta
  <1> QED BY <1>4, <1>5, <1>6, <1>7, <1>8

\* A step of the arbiter keeps the invariant.
LEMMA NextArbiterInv == ArbiterInv /\ ArbiterNext => ArbiterInv' \/ UNCHANGED arbiterVars
  <1> SUFFICES ASSUME ArbiterInv, ArbiterNext PROVE ArbiterInv' \/ UNCHANGED arbiterVars
    OBVIOUS
  <1>1. ASSUME NEW t \in Threads, NEW a \in Addresses, NEW v \in Words,
               GuestStore(t, a, v)
        PROVE ArbiterInv'
    BY <1>1, GuestStoreKeeps
  <1>2. ASSUME NEW t \in Threads, NEW a \in Addresses, NEW v \in Words,
               NEW timeout \in {"zero", "finite", "infinite"},
               \/ WaitIfEqual(t, a, v, timeout)
               \/ \E d \in BOOLEAN : WaitIfLessThan(t, a, v, d, timeout)
        PROVE ArbiterInv'
    BY <1>2, WaitKeeps
  <1>3. ASSUME NEW t \in Threads, NEW a \in Addresses, NEW v \in Words,
               NEW count \in Counts,
               \/ SignalAndIncrementIfEqual(t, a, v, count)
               \/ SignalAndModifyByWaitingCountIfEqual(t, a, v, count)
        PROVE ArbiterInv' \/ UNCHANGED arbiterVars
    BY <1>3, SignalCallKeeps
  <1>4. ASSUME NEW t \in Threads, NEW a \in Addresses, NEW count \in Counts,
               Signal(t, a, count)
        PROVE ArbiterInv' \/ UNCHANGED arbiterVars
    BY <1>4, SignalCallKeeps, WordArithmetic
  <1>5. ASSUME NEW t \in Threads,
               \/ BeginWait(t)
               \/ \E r \in {"TimedOut", "Terminated"} : CancelWait(t, r)
        PROVE ArbiterInv'
    BY <1>5, TreeStepKeeps
  <1>6. WakeOne \/ SignalDone => ArbiterInv'
    BY WakeOneKeeps, SignalDoneKeeps
  <1> QED BY <1>1, <1>2, <1>3, <1>4, <1>5, <1>6 DEF ArbiterNext

\* The invariant depends on the variables of the arbiter only.
LEMMA SameArbiter == ArbiterInv /\ UNCHANGED arbiterVars => ArbiterInv'
  BY DEF ArbiterInv, ArbiterTypeOK, TreeInv, SignalerInv, StaleInv, DeltaInv, arbiterVars,
         WaitersAt, Stale, NoSignal

\* What the invariant says at the end of a signal by waiting count.
LEMMA DeltaTells == ArbiterInv => WordTellsWaiters
  <1> SUFFICES ASSUME ArbiterInv, sig.type = "modify", ~ MoreToWake
               PROVE WordTellsWaiters
    BY DEF WordTellsWaiters
  <1> USE ThreadsAssumption, ArbiterAssumption DEF ArbiterInv
  <1>1. sig.num \in Nat /\ sig.count \in Int
    <2>1. Cardinality(Threads) \in Nat BY ThreadsFinite
    <2>2. sig.num \in 0..Cardinality(Threads) /\ sig.count \in Counts \cup {0}
      BY DEF ArbiterTypeOK
    <2>3. sig.num \in Nat BY ONLY <2>1, <2>2
    <2>4. Counts \cup {0} \subseteq Int BY ThreadsAssumption, ArbiterAssumption
    <2> QED BY Zenon, <2>2, <2>3, <2>4
  <1>2. IsFiniteSet(WaitersAt(sig.addr))
    BY ThreadsFinite DEF WaitersAt, ArbiterTypeOK
  <1>3. PICK left \in Nat : left = Cardinality(WaitersAt(sig.addr))
    BY <1>2, FS_CardinalityType
  <1>4. left = 0 <=> WaitersAt(sig.addr) = {} BY <1>2, <1>3, FS_EmptySet
  <1>5. left = 0 \/ (sig.count > 0 /\ sig.num >= sig.count)
    BY <1>1, <1>4 DEF MoreToWake
  <1>6. /\ sig.num > 0 /\ sig.count > 0 => sig.num <= sig.count
        /\ sig.delta = IF sig.num + left = 0 THEN 1
                       ELSE IF sig.count <= 0 THEN -2
                       ELSE IF sig.num + left <= sig.count THEN -1 ELSE 0
    BY <1>3 DEF DeltaInv
  <1>7. /\ sig.delta = 1  <=> sig.num = 0
        /\ sig.delta = -2 <=> sig.num > 0 /\ sig.count <= 0
        /\ sig.delta = -1 <=> sig.num > 0 /\ sig.count > 0 /\ left = 0
        /\ sig.delta = 0  <=> left # 0
    BY ONLY <1>1, <1>5, <1>6, left \in Nat
  <1> QED BY <1>4, <1>7 DEF WordTellsWaiters

-----------------------------------------------------------------------------
(* The theorems *)

\* The invariant of the arbiter.
LEMMA ArbiterInvariance == ArbiterSpec => []ArbiterInv
  <1>1. ArbiterInit => ArbiterInv BY InitArbiterInv
  <1>2. ArbiterInv /\ [ArbiterNext]_arbiterVars => ArbiterInv' BY NextArbiterInv, SameArbiter
  <1> QED BY <1>1, <1>2, PTL DEF ArbiterSpec

\* No wakeup is lost at an arbiter, by any interleaving of stores, waits, timeouts and
\* signals of any number of threads.
THEOREM WakeupsKept == ArbiterSpec => []NoLostWakeup
  <1>1. ArbiterInv => NoLostWakeup BY Zenon DEF ArbiterInv, TreeInv, StaleInv, NoLostWakeup
  <1> QED BY <1>1, ArbiterInvariance, PTL

\* After SignalAndModifyByWaitingCountIfEqual the word tells how many threads were there
\* and how many are left, for every count and number of waiters.
THEOREM WordTells == ArbiterSpec => []WordTellsWaiters
  BY DeltaTells, ArbiterInvariance, PTL
-----------------------------------------------------------------------------
(* The inductive invariant *)

\* The threads inside the wait of Reserve.
Reserving == {t \in Threads : pc[t] \in {"sleep", "wait", "relock", "loop"}}

\* m_waiter_count counts those threads.
CountInv == waiters = Cardinality(Reserving)

\* The wait list is the threads asleep, and a thread is inside an operation exactly
\* when m_lock is its own.
LockInv ==
  /\ waitList = {t \in Threads : pc[t] = "wait"}
  /\ \A t \in Threads : /\ pc[t] \in {"loop", "add", "sleep"} <=> mlock = t
                        /\ pc[t] \notin {"first", "releasing", "setting"}

\* What Reserve decided still holds when it acts.
DecisionInv ==
  \A t \in Threads :
    /\ pc[t] = "setlimit" => want[t] \in Limits
    /\ pc[t] # "setlimit" => want[t] \in 0..MaxS64
    /\ pc[t] = "add" => value + want[t] <= limit
    /\ pc[t] = "sleep" => value + want[t] > limit

\* A thread holds nothing while it reserves, releases no more than it holds, and what is
\* left of its hint is what is left of its value or nothing.
HoldingInv ==
  \A t \in Threads :
    /\ pc[t] \notin {"idle", "release", "setlimit"} => own[t] = 0
    /\ pc[t] = "release" => want[t] \in {0, own[t]}
    /\ ownHint[t] \in {0, own[t]}

LimitInv == /\ LimitTypeOK /\ CountInv /\ LockInv /\ DecisionInv /\ HoldingInv
            /\ WithinLimit /\ AccountExact /\ SleepersDoNotFit

\* An s64 of the resource limit: a sum is exact, or wraps around below zero.
LEMMA S64Arithmetic ==
  /\ MaxS64 \in Nat
  /\ S64 = -MaxS64 - 1 .. MaxS64
  /\ \A x \in 0..MaxS64, y \in 0..MaxS64 :
       /\ WrappingAdd(x, y) \in S64
       /\ x + y <= MaxS64 => WrappingAdd(x, y) = x + y
       /\ WrappingAdd(x, y) = x + y \/ WrappingAdd(x, y) < 0
  <1>1. PICK h \in Nat \ {0} : h = Half(LimitWidth)
    BY PowerOfTwo, LimitAssumption DEF Half
  <1>2. S64 = -h .. (h - 1) /\ MaxS64 = h - 1
    BY <1>1 DEF S64, MaxS64, Signed
  <1>3. ASSUME NEW x \in Int, NEW y \in Int
        PROVE WrappingAdd(x, y) = ((x + y + h) % (2 * h)) - h
    BY <1>1 DEF WrappingAdd, Wrap
  <1>4. ASSUME NEW x \in -h .. (h - 1) PROVE ((x + h) % (2 * h)) - h = x OBVIOUS
  <1>5. ASSUME NEW x \in h .. (3 * h - 1) PROVE ((x + h) % (2 * h)) - h = x - 2 * h OBVIOUS
  <1>6. ASSUME NEW x \in 0 .. (h - 1), NEW y \in 0 .. (h - 1)
        PROVE /\ WrappingAdd(x, y) \in S64
              /\ x + y <= h - 1 => WrappingAdd(x, y) = x + y
              /\ WrappingAdd(x, y) = x + y \/ WrappingAdd(x, y) < 0
    <2>1. PICK s \in 0 .. (2 * h - 2) : s = x + y OBVIOUS
    <2>2. WrappingAdd(x, y) = ((s + h) % (2 * h)) - h BY <1>3, <2>1
    <2>3. CASE s < h
      <3>1. s \in -h .. (h - 1) BY <2>3
      <3>2. WrappingAdd(x, y) = s BY <1>4, <2>2, <3>1
      <3> QED BY <1>2, <2>1, <3>1, <3>2
    <2>4. CASE s >= h
      <3>1. s \in h .. (3 * h - 1) BY <2>4
      <3>2. WrappingAdd(x, y) = s - 2 * h BY <1>5, <2>2, <3>1
      <3> QED BY <1>2, <2>1, <2>4, <3>2
    <2> QED BY <2>3, <2>4
  <1>7. h - 1 \in Nat /\ -(h - 1) - 1 = -h OBVIOUS
  <1> QED BY <1>2, <1>6, <1>7

\* What one thread holds is part of what all hold.
LEMMA UnitsSplit ==
  ASSUME NEW f \in [Threads -> 0..MaxS64], NEW t \in Threads
  PROVE /\ IsFiniteSet(Units(f)) /\ Cardinality(Units(f)) \in Nat
        /\ Cardinality(Units(f)) = Cardinality(Units([f EXCEPT ![t] = 0])) + f[t]
  <1> DEFINE g == [f EXCEPT ![t] = 0]
             A == Units(g)
             B == {t} \X (1..f[t])
  <1>0. MaxS64 \in Nat /\ f[t] \in Nat /\ f[t] <= MaxS64 BY S64Arithmetic
  <1>1. \A k \in [Threads -> 0..MaxS64] :
          IsFiniteSet(Units(k)) /\ Cardinality(Units(k)) \in Nat
    <2>1. IsFiniteSet(1..MaxS64) BY <1>0, FS_Interval
    <2>2. IsFiniteSet(Threads \X (1..MaxS64))
      BY Zenon, <2>1, ThreadsAssumption, LimitAssumption, FS_Product
    <2>3. \A k : Units(k) \subseteq Threads \X (1..MaxS64) BY DEF Units
    <2> QED BY <2>2, <2>3, FS_Subset, FS_CardinalityType
  <1>2. IsFiniteSet(B) /\ Cardinality(B) = f[t]
    <2>1. IsFiniteSet(1..f[t]) /\ Cardinality(1..f[t]) = f[t] BY <1>0, FS_Interval
    <2>2. IsFiniteSet({t}) /\ Cardinality({t}) = 1 BY Zenon, FS_Singleton
    <2>3. IsFiniteSet(B) /\ Cardinality(B) = 1 * f[t] BY <2>1, <2>2, FS_Product
    <2> QED BY <1>0, <2>3
  <1>3. Units(f) = A \cup B
    <2>1. ASSUME NEW u \in Threads, NEW n \in 1..MaxS64
          PROVE n <= f[u] <=> n <= g[u] \/ (u = t /\ n \in 1..f[t])
      BY <1>0
    <2>2. B \subseteq Threads \X (1..MaxS64) BY <1>0
    <2> QED BY <2>1, <2>2 DEF Units
  <1>4. A \cap B = {} BY <1>0 DEF Units
  <1>5. g \in [Threads -> 0..MaxS64] BY <1>0
  <1>6. IsFiniteSet(A) /\ Cardinality(A) \in Nat BY Zenon, <1>1, <1>5
  <1>7. Cardinality(A \cup B) = Cardinality(A) + Cardinality(B)
    <2>1. Cardinality(A \cup B) = Cardinality(A) + Cardinality(B) - Cardinality(A \cap B)
      BY ONLY Zenon, <1>2, <1>6, FS_Union
    <2>2. Cardinality(A \cap B) = 0 BY Zenon, <1>4, FS_EmptySet
    <2> HIDE DEF A, B
    <2> QED BY <1>0, <1>2, <1>6, <2>1, <2>2
  <1> QED BY Zenon, <1>1, <1>2, <1>3, <1>7

\* The total moves with what one thread holds, and contains it.
LEMMA UnitsChange ==
  ASSUME NEW f \in [Threads -> 0..MaxS64], NEW t \in Threads, NEW w \in 0..MaxS64
  PROVE /\ Cardinality(Units(f)) \in Nat /\ f[t] <= Cardinality(Units(f))
        /\ Cardinality(Units([f EXCEPT ![t] = w])) =
             (Cardinality(Units(f)) - f[t]) + w
  <1> DEFINE g == [f EXCEPT ![t] = w]
             z == [f EXCEPT ![t] = 0]
  <1>1. g \in [Threads -> 0..MaxS64] /\ g[t] = w /\ [g EXCEPT ![t] = 0] = z BY Zenon
  <1>2. z \in [Threads -> 0..MaxS64] BY S64Arithmetic
  <1>3. Cardinality(Units(f)) = Cardinality(Units(z)) + f[t] BY Zenon, UnitsSplit
  <1>4. Cardinality(Units(g)) = Cardinality(Units(z)) + w BY Zenon, <1>1, UnitsSplit
  <1>5. Cardinality(Units(z)) \in Nat BY Zenon, <1>2, UnitsSplit
  <1>6. f[t] \in Nat /\ w \in Nat BY S64Arithmetic
  <1> HIDE DEF g, z
  <1>7. /\ Cardinality(Units(f)) \in Nat /\ f[t] <= Cardinality(Units(f))
        /\ Cardinality(Units(g)) = (Cardinality(Units(f)) - f[t]) + w
    BY ONLY <1>3, <1>4, <1>5, <1>6
  <1> QED BY <1>7 DEF g

\* Who holds less hint than value, thread by thread, does so in all.
LEMMA UnitsMonotone ==
  ASSUME NEW f \in [Threads -> 0..MaxS64], NEW g \in [Threads -> 0..MaxS64],
         \A t \in Threads : g[t] \in {0, f[t]}
  PROVE /\ Cardinality(Units(f)) \in Nat /\ Cardinality(Units(g)) \in Nat
        /\ Cardinality(Units(g)) <= Cardinality(Units(f))
  <1>0. MaxS64 \in Nat BY S64Arithmetic
  <1>1. Units(g) \subseteq Units(f) BY <1>0 DEF Units
  <1>2. IsFiniteSet(Units(f))
    <2>1. IsFiniteSet(1..MaxS64) BY <1>0, FS_Interval
    <2>2. IsFiniteSet(Threads \X (1..MaxS64))
      BY Zenon, <2>1, ThreadsAssumption, LimitAssumption, FS_Product
    <2> QED BY <2>2, FS_Subset DEF Units
  <1> QED BY <1>1, <1>2, FS_Subset, FS_CardinalityType

\* What the invariant says of the numbers.
LEMMA LimitNumbers ==
  ASSUME LimitInv
  PROVE /\ value \in 0..MaxS64 /\ hint \in 0..MaxS64 /\ hint <= value
        /\ limit \in Int /\ peak \in Int /\ value <= limit /\ value <= peak
        /\ limit \in S64 /\ limit <= MaxS64 /\ MaxS64 \in Nat
        /\ value = Cardinality(Units(own)) /\ hint = Cardinality(Units(ownHint))
  <1>1. {limit, value, hint, peak} \subseteq -MaxS64 - 1 .. MaxS64 /\ limit \in S64
    BY S64Arithmetic DEF LimitInv, LimitTypeOK
  <1> QED BY <1>1, S64Arithmetic
          DEF LimitInv, WithinLimit, AccountExact

\* At first nothing is held.
LEMMA InitLimitInv == LimitInit => LimitInv /\ ~ intruded
  <1> SUFFICES ASSUME LimitInit PROVE LimitInv BY DEF LimitInit
  <1> USE ThreadsAssumption, LimitAssumption
  <1>1. MaxS64 \in Nat /\ 0 \in S64 /\ InitialLimit \in S64
    <2>1. InitialLimit \in S64 BY DEF S64
    <2> QED BY <2>1, S64Arithmetic
  <1>2. CountInv
    <2>1. Reserving = {} BY DEF LimitInit, Reserving
    <2> QED BY <2>1, FS_EmptySet DEF LimitInit, CountInv
  <1>3. LimitTypeOK
    <2>1. 0 \in 0..Cardinality(Threads) BY ThreadsFinite
    <2>2. 0 \in 0..MaxS64 BY <1>1
    <2>3. {limit, value, hint, peak} \subseteq S64 BY <1>1 DEF LimitInit
    <2>4. want \in [Threads -> S64] /\ own \in [Threads -> 0..MaxS64]
          /\ ownHint \in [Threads -> 0..MaxS64]
      BY <1>1, <2>2 DEF LimitInit
    <2> QED BY <2>1, <2>3, <2>4 DEF LimitInit, LimitTypeOK, Places
  <1>4. LockInv BY DEF LimitInit, LockInv
  <1>5. DecisionInv BY <1>1 DEF LimitInit, DecisionInv
  <1>6. HoldingInv BY DEF LimitInit, HoldingInv
  <1>7. WithinLimit BY DEF LimitInit, WithinLimit
  <1>8. AccountExact
    <2>1. Units(own) = {} /\ Units(ownHint) = {}
      BY <1>1 DEF LimitInit, Units
    <2>2. Cardinality(Units(own)) = 0 /\ Cardinality(Units(ownHint)) = 0
      BY <2>1, FS_EmptySet
    <2> QED BY <2>2 DEF LimitInit, AccountExact
  <1>9. SleepersDoNotFit BY DEF LimitInit, SleepersDoNotFit
  <1> QED BY <1>2, <1>3, <1>4, <1>5, <1>6, <1>7, <1>8, <1>9 DEF LimitInv

\* m_waiter_count is in range.
LEMMA WaitersTyped == ASSUME CountInv' PROVE waiters' \in 0..Cardinality(Threads)
  BY ThreadsFinite DEF CountInv, Reserving

\* A thread inside an operation is the only one there.
LEMMA InsideAlone ==
  ASSUME LimitInv, NEW t \in Threads, NEW at \in {"first", "loop", "releasing", "setting"},
         Inside(t, at)
  PROVE /\ at = "first" => pc[t] = "reserve"
        /\ at = "loop" => pc[t] \in {"relock", "loop"}
        /\ at = "releasing" => pc[t] = "release"
        /\ at = "setting" => pc[t] = "setlimit"
        /\ Keeping(t) = t
        /\ t \notin waitList
        /\ \A u \in Threads \ {t} : mlock # u /\ pc[u] \notin {"loop", "add", "sleep"}
  <1> USE DEF LimitInv
  <1>1. pc[t] \in Places /\ pc[t] \notin {"first", "releasing", "setting"}
    BY DEF LimitTypeOK, LockInv
  <1>2. /\ at = "first" => pc[t] = "reserve"
        /\ at = "loop" => pc[t] \in {"relock", "loop"}
        /\ at = "releasing" => pc[t] = "release"
        /\ at = "setting" => pc[t] = "setlimit"
    BY <1>1 DEF Inside, Where, AfterLock, Places
  <1>3. (Blocked(t) /\ mlock = NoThread) \/ (~ Blocked(t) /\ mlock = t)
    BY <1>2 DEF Inside, Blocked, LockInv
  <1>4. \A u \in Threads \ {t} : mlock # u BY <1>3, ThreadsAssumption
  <1> QED BY <1>2, <1>3, <1>4 DEF Keeping, LockInv

\* m_waiter_count without thread t is what the others make.
LEMMA OthersCounted ==
  ASSUME LimitInv, NEW t \in Threads, Inside(t, "first") \/ Inside(t, "loop")
  PROVE /\ OtherWaiters(t) = Cardinality(Reserving \ {t})
        /\ IsFiniteSet(Reserving \ {t})
  <1> USE DEF LimitInv
  <1>1. pc[t] \in {"reserve", "relock", "loop"} BY InsideAlone
  <1>2. Where(t) = "first" <=> pc[t] = "reserve" BY <1>1 DEF Where, AfterLock
  <1>3. IsFiniteSet(Reserving) /\ IsFiniteSet(Reserving \ {t})
    BY ThreadsFinite DEF Reserving
  <1>4. CASE pc[t] = "reserve"
    <2>1. Reserving \ {t} = Reserving BY <1>4 DEF Reserving
    <2> QED BY <1>2, <1>3, <1>4, <2>1 DEF OtherWaiters, CountInv
  <1>5. CASE pc[t] # "reserve"
    <2>1. t \in Reserving BY <1>1, <1>5 DEF Reserving
    <2>2. Cardinality(Reserving \ {t}) = Cardinality(Reserving) - 1
      BY <1>3, <2>1, FS_RemoveElement
    <2> QED BY <1>2, <1>3, <1>5, <2>2 DEF OtherWaiters, CountInv
  <1> QED BY <1>4, <1>5

\* A step that leaves the account and the sleepers alone.
LEMMA AccountKept ==
  ASSUME LimitInv, UNCHANGED <<limit, value, hint, peak, own, ownHint>>,
         \A u \in waitList' : u \in waitList /\ raised'[u] = raised[u] /\ want'[u] = want[u]
  PROVE WithinLimit' /\ AccountExact' /\ SleepersDoNotFit'
  <1>1. WithinLimit' /\ AccountExact' BY DEF LimitInv, WithinLimit, AccountExact
  <1>2. SleepersDoNotFit' BY DEF LimitInv, SleepersDoNotFit
  <1> QED BY <1>1, <1>2

\* A sum that is found not to wrap around is exact.
LEMMA SumExact ==
  ASSUME LimitInv, NEW w \in 0..MaxS64, ~ WouldOverflow(w)
  PROVE WrappingAdd(value, w) = value + w
  <1>1. value \in 0..MaxS64 /\ MaxS64 \in Nat BY LimitNumbers
  <1>2. /\ WrappingAdd(value, w) \in S64
        /\ WrappingAdd(value, w) = value + w \/ WrappingAdd(value, w) < 0
    BY <1>1, S64Arithmetic
  <1>3. WrappingAdd(value, w) \in Int BY <1>2, S64Arithmetic
  <1>4. ~ (WrappingAdd(value, w) <= value) BY DEF WouldOverflow
  <1> HIDE DEF WrappingAdd
  <1> QED BY ONLY <1>1, <1>2, <1>3, <1>4

\* The steps of Reserve.  A reservation does not wrap around and fits below the limit; one
\* that has to wait does not fit.
LEMMA ReserveFailsKeeps ==
  ASSUME LimitInv, NEW t \in Threads, ReserveFails(t) PROVE LimitInv'
  <1> USE DEF LimitInv
  <1>1. /\ Inside(t, "first") \/ Inside(t, "loop")
        /\ pc' = [pc EXCEPT ![t] = "idle"] /\ mlock' = NoThread /\ waitList' = waitList
        /\ waiters' = OtherWaiters(t)
        /\ want' = [want EXCEPT ![t] = 0] /\ expired' = [expired EXCEPT ![t] = FALSE]
        /\ raised' = [raised EXCEPT ![t] = FALSE]
        /\ UNCHANGED <<limit, value, hint, peak, own, ownHint, term, intruded>>
    BY DEF ReserveFails, LocalsGone, Unlock, account, holdings
  <1>2. /\ t \notin waitList
        /\ \A u \in Threads \ {t} : mlock # u /\ pc[u] \notin {"loop", "add", "sleep"}
    BY <1>1, InsideAlone
  <1>3. pc \in [Threads -> Places] /\ pc' \in [Threads -> Places]
    BY <1>1 DEF LimitTypeOK, Places
  <1>4. CountInv'
    <2>1. Reserving' = Reserving \ {t} BY <1>1, <1>3 DEF Reserving
    <2> QED BY <1>1, <2>1, OthersCounted DEF CountInv
  <1>5. 0 \in S64 /\ 0 \in 0..MaxS64 BY S64Arithmetic
  <1>6. LimitTypeOK'
    <2>1. waiters' \in 0..Cardinality(Threads) BY <1>4, WaitersTyped
    <2> QED BY <1>1, <1>3, <1>5, <2>1 DEF LimitTypeOK
  <1>7. LockInv' BY Zenon, <1>1, <1>2, <1>3, ThreadsAssumption DEF LockInv
  <1>8. DecisionInv' BY <1>1, <1>3, <1>5 DEF DecisionInv, LimitTypeOK
  <1>9. HoldingInv' BY <1>1, <1>3 DEF HoldingInv, LimitTypeOK
  <1>10. \A u \in waitList' : u \in waitList /\ raised'[u] = raised[u] /\ want'[u] = want[u]
    BY Zenon, <1>1, <1>2 DEF LimitTypeOK
  <1> QED BY <1>1, <1>4, <1>6, <1>7, <1>8, <1>9, <1>10, AccountKept

LEMMA ReserveDecidesKeeps ==
  ASSUME LimitInv, NEW t \in Threads, ReserveDecides(t) PROVE LimitInv'
  <1> USE DEF LimitInv
  <1>1. /\ Inside(t, "first") \/ Inside(t, "loop")
        /\ ~ WouldOverflow(want[t]) /\ mlock' = Keeping(t)
        /\ \/ /\ Fits(want[t]) /\ pc' = [pc EXCEPT ![t] = "add"] /\ waiters' = OtherWaiters(t)
           \/ /\ ~ Fits(want[t]) /\ pc' = [pc EXCEPT ![t] = "sleep"]
              /\ waiters' = OtherWaiters(t) + 1
        /\ UNCHANGED <<limit, value, hint, peak, own, ownHint, waitList, want, expired, term,
                       raised, intruded>>
    BY DEF ReserveDecides, account, holdings
  <1>2. /\ t \notin waitList /\ mlock' = t /\ pc[t] \in {"reserve", "relock", "loop"}
        /\ \A u \in Threads \ {t} : mlock # u /\ pc[u] \notin {"loop", "add", "sleep"}
    BY <1>1, InsideAlone
  <1>3. PICK p \in {"add", "sleep"} :
          /\ pc' = [pc EXCEPT ![t] = p]
          /\ p = "add" => Fits(want[t]) /\ waiters' = OtherWaiters(t)
          /\ p = "sleep" => ~ Fits(want[t]) /\ waiters' = OtherWaiters(t) + 1
    BY <1>1
  <1>4. pc \in [Threads -> Places] /\ pc' \in [Threads -> Places]
    BY <1>3 DEF LimitTypeOK, Places
  <1>5. CountInv'
    <2>1. /\ IsFiniteSet(Reserving \ {t})
          /\ OtherWaiters(t) = Cardinality(Reserving \ {t})
      BY <1>1, OthersCounted
    <2>2. CASE p = "add"
      <3>1. Reserving' = Reserving \ {t} BY <1>3, <1>4, <2>2 DEF Reserving
      <3> QED BY <1>3, <2>1, <2>2, <3>1 DEF CountInv
    <2>3. CASE p = "sleep"
      <3>1. Reserving' = (Reserving \ {t}) \cup {t} BY <1>3, <1>4, <2>3 DEF Reserving
      <3>2. Cardinality((Reserving \ {t}) \cup {t}) = Cardinality(Reserving \ {t}) + 1
        BY ONLY <2>1, FS_AddElement
      <3> QED BY <1>3, <2>1, <2>3, <3>1, <3>2 DEF CountInv
    <2> QED BY <2>2, <2>3
  <1>6. LimitTypeOK'
    <2>1. waiters' \in 0..Cardinality(Threads) BY <1>5, WaitersTyped
    <2> QED BY <1>1, <1>2, <1>4, <2>1 DEF LimitTypeOK
  <1>7. LockInv' BY <1>1, <1>2, <1>3, <1>4 DEF LockInv
  <1>8. DecisionInv'
    <2>1. PICK w \in 0..MaxS64 : w = want[t] BY <1>2 DEF DecisionInv
    <2>2. WrappingAdd(value, w) = value + w BY <1>1, <2>1, SumExact
    <2>3. /\ p = "add" => value + want[t] <= limit
          /\ p = "sleep" => ~ (value + want[t] <= limit)
      BY <1>3, <2>1, <2>2 DEF Fits
    <2>4. value \in Int /\ want[t] \in Int /\ limit \in Int
      <3>1. value \in 0..MaxS64 /\ limit \in Int /\ MaxS64 \in Nat BY LimitNumbers
      <3> QED BY <2>1, <3>1
    <2>5. p = "sleep" => value + want[t] > limit BY <2>3, <2>4
    <2> QED BY <1>1, <1>3, <1>4, <2>1, <2>3, <2>5 DEF DecisionInv
  <1>9. HoldingInv' BY <1>1, <1>2, <1>3, <1>4 DEF HoldingInv
  <1> QED BY <1>1, <1>5, <1>6, <1>7, <1>8, <1>9, AccountKept

LEMMA ReserveSucceedsKeeps ==
  ASSUME LimitInv, NEW t \in Threads, ReserveSucceeds(t) PROVE LimitInv'
  <1> USE DEF LimitInv
  <1>1. /\ pc[t] = "add"
        /\ value' = WrappingAdd(value, want[t]) /\ hint' = WrappingAdd(hint, want[t])
        /\ peak' = IF value' > peak THEN value' ELSE peak
        /\ own' = [own EXCEPT ![t] = want[t]]
        /\ ownHint' = [ownHint EXCEPT ![t] = want[t]]
        /\ pc' = [pc EXCEPT ![t] = "idle"] /\ mlock' = NoThread /\ waitList' = waitList
        /\ want' = [want EXCEPT ![t] = 0] /\ expired' = [expired EXCEPT ![t] = FALSE]
        /\ raised' = [raised EXCEPT ![t] = FALSE]
        /\ UNCHANGED <<limit, term, waiters, intruded>>
    BY DEF ReserveSucceeds, LocalsGone, Unlock
  <1>2. /\ t \notin waitList
        /\ \A u \in Threads \ {t} : mlock # u /\ pc[u] \notin {"loop", "add", "sleep"}
    BY <1>1 DEF LockInv
  <1>3. pc \in [Threads -> Places] /\ pc' \in [Threads -> Places]
    BY <1>1 DEF LimitTypeOK, Places
  <1>4. CountInv'
    <2>1. Reserving' = Reserving BY <1>1, <1>3 DEF Reserving
    <2> QED BY <1>1, <2>1 DEF CountInv
  <1>5. PICK w \in 0..MaxS64 : w = want[t] /\ value + w <= limit
    BY <1>1 DEF DecisionInv
  <1>6. /\ value \in Nat /\ hint \in Nat /\ w \in Nat /\ MaxS64 \in Nat
        /\ limit \in Int /\ peak \in Int /\ hint <= value /\ limit <= MaxS64
        /\ value \in 0..MaxS64 /\ hint \in 0..MaxS64
    BY LimitNumbers
  <1>7. value + w <= MaxS64 /\ hint + w <= MaxS64 BY <1>5, <1>6
  <1>8. value' = value + w /\ hint' = hint + w BY <1>1, <1>5, <1>6, <1>7, S64Arithmetic
  <1>9. LimitTypeOK'
    <2>1. waiters' \in 0..Cardinality(Threads) BY <1>4, WaitersTyped
    <2>2. 0 \in 0..MaxS64 /\ 0 \in S64 BY S64Arithmetic
    <2>3. value' \in S64 /\ hint' \in S64
      <3>1. value' \in 0..MaxS64 /\ hint' \in 0..MaxS64 BY <1>6, <1>7, <1>8
      <3> QED BY <1>6, <3>1, S64Arithmetic
    <2>4. peak' \in S64 /\ limit' \in S64 BY <1>1, <2>3 DEF LimitTypeOK
    <2>5. /\ own' \in [Threads -> 0..MaxS64] /\ ownHint' \in [Threads -> 0..MaxS64]
          /\ want' \in [Threads -> S64]
      BY <1>1, <1>5, <2>2 DEF LimitTypeOK
    <2>6. {expired, term, raised}' \subseteq [Threads -> BOOLEAN] BY <1>1 DEF LimitTypeOK
    <2>7. mlock' \in Threads \cup {NoThread} /\ waitList' \subseteq Threads /\ intruded' \in BOOLEAN
      BY <1>1 DEF LimitTypeOK
    <2> QED BY <1>3, <2>1, <2>3, <2>4, <2>5, <2>6, <2>7 DEF LimitTypeOK
  <1>10. LockInv' BY Zenon, <1>1, <1>2, <1>3, ThreadsAssumption DEF LockInv
  <1>11. DecisionInv'
    <2>1. 0 \in 0..MaxS64 BY S64Arithmetic
    <2>2. ASSUME NEW u \in Threads, u # t
          PROVE pc'[u] = pc[u] /\ pc[u] \notin {"add", "sleep"} /\ want'[u] = want[u]
      BY <1>1, <1>2, <1>3, <2>2 DEF LimitTypeOK
    <2>3. pc'[t] = "idle" /\ want'[t] = 0 BY <1>1, <1>3 DEF LimitTypeOK
    <2> QED BY <2>1, <2>2, <2>3 DEF DecisionInv
  <1>12. HoldingInv'
    <2>1. ASSUME NEW u \in Threads, u # t
          PROVE /\ pc'[u] = pc[u] /\ want'[u] = want[u]
                /\ own'[u] = own[u] /\ ownHint'[u] = ownHint[u]
      BY <1>1, <1>3, <2>1 DEF LimitTypeOK
    <2>2. pc'[t] = "idle" /\ ownHint'[t] = own'[t] BY <1>1, <1>3 DEF LimitTypeOK
    <2> QED BY <2>1, <2>2 DEF HoldingInv
  <1>13. WithinLimit'
    <2>1. value' <= peak' BY <1>1, <1>6, <1>8
    <2> QED BY <1>1, <1>5, <1>6, <1>8, <2>1 DEF WithinLimit
  <1>14. AccountExact'
    <2>1. own[t] = 0 /\ ownHint[t] = 0 BY <1>1 DEF HoldingInv
    <2>2. value = Cardinality(Units(own)) /\ hint = Cardinality(Units(ownHint))
      BY LimitNumbers
    <2>3. own \in [Threads -> 0..MaxS64] /\ ownHint \in [Threads -> 0..MaxS64]
      BY DEF LimitTypeOK
    <2>4. Cardinality(Units(own')) = (value - 0) + w
      BY Zenon, <1>1, <1>5, <2>1, <2>2, <2>3, UnitsChange
    <2>5. Cardinality(Units(ownHint')) = (hint - 0) + w
      BY Zenon, <1>1, <1>5, <2>1, <2>2, <2>3, UnitsChange
    <2> QED BY <1>6, <1>8, <2>4, <2>5 DEF AccountExact
  <1>15. SleepersDoNotFit'
    <2> SUFFICES ASSUME NEW u \in waitList, ~ raised'[u] PROVE value' + want'[u] > limit
      BY <1>1 DEF SleepersDoNotFit
    <2>1. u \in Threads /\ u # t BY Zenon, <1>2 DEF LimitTypeOK
    <2>2. ~ raised[u] /\ want'[u] = want[u] BY Zenon, <1>1, <2>1 DEF LimitTypeOK
    <2>3. want[u] \in 0..MaxS64 BY <2>1 DEF LockInv, DecisionInv
    <2>4. value + want[u] > limit BY <2>2 DEF SleepersDoNotFit
    <2> QED BY ONLY <1>6, <1>8, <2>2, <2>3, <2>4
  <1> QED BY <1>4, <1>9, <1>10, <1>11, <1>12, <1>13, <1>14, <1>15

LEMMA ReserveWaitsKeeps ==
  ASSUME LimitInv, NEW t \in Threads, ReserveWaits(t) PROVE LimitInv'
  <1> USE DEF LimitInv
  <1>1. /\ pc[t] = "sleep"
        /\ \/ /\ pc' = [pc EXCEPT ![t] = "loop"] /\ UNCHANGED <<mlock, waitList, raised>>
           \/ /\ pc' = [pc EXCEPT ![t] = "wait"] /\ mlock' = NoThread
              /\ waitList' = waitList \cup {t}
              /\ raised' = [raised EXCEPT ![t] = FALSE]
        /\ UNCHANGED <<limit, value, hint, peak, own, ownHint, waiters, want, expired, term,
                       intruded>>
    BY Zenon DEF ReserveWaits, Unlock, account, holdings
  <1>2. /\ t \notin waitList /\ mlock = t
        /\ \A u \in Threads \ {t} : mlock # u /\ pc[u] \notin {"loop", "add", "sleep"}
    BY <1>1 DEF LockInv
  <1>3. PICK p \in {"loop", "wait"} : pc' = [pc EXCEPT ![t] = p]
    BY <1>1
  <1>4. pc \in [Threads -> Places] /\ pc' \in [Threads -> Places]
    BY <1>3 DEF LimitTypeOK, Places
  <1>5. CountInv'
    <2>1. Reserving' = Reserving BY <1>1, <1>3, <1>4 DEF Reserving
    <2> QED BY <1>1, <2>1 DEF CountInv
  <1>6. LockInv'
    <2>1. CASE pc' = [pc EXCEPT ![t] = "loop"] /\ UNCHANGED <<mlock, waitList>>
      BY <1>1, <1>2, <1>4, <2>1 DEF LockInv
    <2>2. CASE pc' = [pc EXCEPT ![t] = "wait"] /\ mlock' = NoThread /\ waitList' = waitList \cup {t}
      <3>1. waitList' = {u \in Threads : pc'[u] = "wait"} BY <1>4, <2>2 DEF LockInv
      <3>2. \A u \in Threads : /\ pc'[u] \in {"loop", "add", "sleep"} <=> mlock' = u
                               /\ pc'[u] \notin {"first", "releasing", "setting"}
        BY <1>2, <1>4, <2>2, ThreadsAssumption DEF LockInv
      <3> QED BY <3>1, <3>2 DEF LockInv
    <2> QED BY <1>1, <2>1, <2>2
  <1>7. LimitTypeOK'
    <2>1. waiters' \in 0..Cardinality(Threads) BY <1>5, WaitersTyped
    <2>2. mlock' \in Threads \cup {NoThread} /\ waitList' \subseteq Threads
      BY <1>1 DEF LimitTypeOK
    <2>3. raised' \in [Threads -> BOOLEAN]
      <3>1. raised \in [Threads -> BOOLEAN] BY Zenon DEF LimitTypeOK
      <3>2. raised' = raised \/ raised' = [raised EXCEPT ![t] = FALSE] BY Zenon, <1>1
      <3> QED BY ONLY Zenon, <3>1, <3>2
    <2>4. {expired, term, raised}' \subseteq [Threads -> BOOLEAN]
      <3>1. expired' = expired /\ term' = term BY <1>1
      <3>2. {expired, term} \subseteq [Threads -> BOOLEAN] BY Zenon DEF LimitTypeOK
      <3> QED BY ONLY Zenon, <2>3, <3>1, <3>2
    <2> QED BY Zenon, <1>1, <1>4, <2>1, <2>2, <2>4 DEF LimitTypeOK
  <1>8. DecisionInv' BY <1>1, <1>3, <1>4 DEF DecisionInv
  <1>9. HoldingInv' BY <1>1, <1>3, <1>4 DEF HoldingInv
  <1>10. WithinLimit' /\ AccountExact' BY <1>1 DEF WithinLimit, AccountExact
  <1>11. SleepersDoNotFit'
    <2>1. value + want[t] > limit BY <1>1 DEF DecisionInv
    <2>2. \A u \in waitList : u # t /\ u \in Threads
      BY Zenon, <1>2 DEF LimitTypeOK
    <2>3. \A u \in waitList : raised'[u] = raised[u] BY Zenon, <1>1, <2>2 DEF LimitTypeOK
    <2> QED BY Zenon, <1>1, <2>1, <2>3 DEF SleepersDoNotFit
  <1> QED BY <1>5, <1>6, <1>7, <1>8, <1>9, <1>10, <1>11

\* A call leaves the account alone; its arguments are those of the caller.
LEMMA CallsKeep ==
  ASSUME LimitInv, NEW t \in Threads,
         \/ \E v \in 0..MaxS64 : ReserveCall(t, v) \/ ReleaseCall(t, v)
         \/ \E v \in Limits : SetLimitCall(t, v)
  PROVE LimitInv'
  <1> USE DEF LimitInv
  <1>1. PICK p \in {"reserve", "release", "setlimit"}, v \in S64 :
          /\ pc[t] = "idle" /\ pc' = [pc EXCEPT ![t] = p] /\ want' = [want EXCEPT ![t] = v]
          /\ p = "reserve" => own[t] = 0 /\ v \in 0..MaxS64
          /\ p = "release" => v \in {own[t], 0} /\ v \in 0..MaxS64
          /\ p = "setlimit" => v \in Limits
    <2>1. 0..MaxS64 \subseteq S64 /\ Limits \subseteq S64
      BY S64Arithmetic, LimitAssumption DEF S64
    <2> QED BY <2>1 DEF ReserveCall, ReleaseCall, SetLimitCall
  <1>2. UNCHANGED <<limit, value, hint, peak, own, ownHint, waiters, mlock, waitList, expired,
                    term, raised, intruded>>
    BY Zenon DEF ReserveCall, ReleaseCall, SetLimitCall, account, holdings
  <1>3. pc \in [Threads -> Places] /\ pc' \in [Threads -> Places]
    BY <1>1 DEF LimitTypeOK, Places
  <1>4. LimitTypeOK' BY <1>1, <1>2, <1>3 DEF LimitTypeOK
  <1>5. CountInv'
    <2>1. Reserving' = Reserving BY <1>1, <1>3 DEF Reserving
    <2> QED BY <1>2, <2>1 DEF CountInv
  <1>6. LockInv' BY <1>1, <1>2, <1>3 DEF LockInv
  <1>7. DecisionInv' BY <1>1, <1>2, <1>3 DEF DecisionInv, LimitTypeOK
  <1>8. HoldingInv' BY <1>1, <1>2, <1>3 DEF HoldingInv, LimitTypeOK
  <1>9. \A u \in waitList' : u \in waitList /\ raised'[u] = raised[u] /\ want'[u] = want[u]
    BY <1>1, <1>2 DEF LockInv, LimitTypeOK
  <1> QED BY <1>2, <1>4, <1>5, <1>6, <1>7, <1>8, <1>9, AccountKept

\* The clock and the ends of a wait leave the account alone, unless a thread that is
\* blocked in m_lock is terminated.
LEMMA WaitEndsKeep ==
  ASSUME LimitInv, NEW t \in Threads, Expire(t) \/ OnTimer(t) \/ RequestTerminate(t)
  PROVE LimitInv' \/ intruded'
  <1> USE DEF LimitInv
  <1>1. UNCHANGED <<limit, value, hint, peak, own, ownHint, waiters, mlock, want, raised>>
    BY Zenon DEF Expire, OnTimer, RequestTerminate, account, holdings
  <1>2. CASE Expire(t)
    <2>1. expired' = [expired EXCEPT ![t] = TRUE] /\ UNCHANGED <<waitList, pc, term, intruded>>
      BY <1>2 DEF Expire
    <2>2. LimitTypeOK' BY <1>1, <2>1 DEF LimitTypeOK
    <2>3. CountInv' /\ LockInv' BY Zenon, <1>1, <2>1 DEF CountInv, LockInv, Reserving
    <2>4. DecisionInv' /\ HoldingInv' BY Zenon, <1>1, <2>1 DEF DecisionInv, HoldingInv
    <2> QED BY <1>1, <2>1, <2>2, <2>3, <2>4, AccountKept
  <1>3. CASE OnTimer(t) \/ RequestTerminate(t)
    <2> SUFFICES ASSUME ~ intruded' PROVE LimitInv' OBVIOUS
    <2>1. PICK S \in SUBSET waitList :
            waitList' = waitList \ S /\ pc' = Woken(S) /\ intruded' = intruded
      <3>1. OnTimer(t) => /\ {t} \subseteq waitList /\ waitList' = waitList \ {t}
                          /\ pc' = Woken({t}) /\ intruded' = intruded
        BY DEF OnTimer
      <3>2. RequestTerminate(t) =>
              /\ waitList' = waitList \ (waitList \cap {t})
              /\ pc' = Woken(waitList \cap {t}) /\ intruded' = intruded
        BY DEF RequestTerminate
      <3> QED BY <1>3, <3>1, <3>2
    <2>2. {expired, term}' \subseteq [Threads -> BOOLEAN]
      <3>1. expired' = expired /\ (term' = term \/ term' = [term EXCEPT ![t] = TRUE])
        BY Zenon, <1>3 DEF OnTimer, RequestTerminate
      <3>2. expired \in [Threads -> BOOLEAN] /\ term \in [Threads -> BOOLEAN]
        BY Zenon DEF LimitTypeOK
      <3>3. term' \in [Threads -> BOOLEAN] BY ONLY Zenon, <3>1, <3>2
      <3> QED BY Zenon, <3>1, <3>2, <3>3
    <2>3. /\ pc \in [Threads -> Places]
          /\ \A u \in S : u \in Threads /\ pc[u] = "wait"
      BY DEF LimitTypeOK, LockInv
    <2>4. /\ pc' \in [Threads -> Places]
          /\ \A u \in Threads : pc'[u] = IF u \in S THEN "relock" ELSE pc[u]
      BY <2>1, <2>3 DEF Woken, Places
    <2>5. CountInv'
      <3>1. Reserving' = Reserving BY <2>3, <2>4 DEF Reserving
      <3> QED BY <1>1, <3>1 DEF CountInv
    <2>6. LockInv' BY <1>1, <2>1, <2>3, <2>4 DEF LockInv
    <2>7. LimitTypeOK' BY Zenon, <1>1, <2>1, <2>2, <2>4 DEF LimitTypeOK
    <2>8. DecisionInv' BY <1>1, <2>3, <2>4 DEF DecisionInv
    <2>9. HoldingInv' BY <1>1, <2>3, <2>4 DEF HoldingInv
    <2>10. \A u \in waitList' : u \in waitList /\ raised'[u] = raised[u] /\ want'[u] = want[u]
      BY Zenon, <1>1, <2>1
    <2> QED BY <1>1, <2>5, <2>6, <2>7, <2>8, <2>9, <2>10, AccountKept
  <1> QED BY <1>2, <1>3

\* Release gives back what the thread holds, and wakes everybody who waits for it.
LEMMA ReleaseKeeps ==
  ASSUME LimitInv, NEW t \in Threads, Release(t) PROVE LimitInv'
  <1> USE DEF LimitInv
  <1> DEFINE v == want[t]
             h == ownHint[t]
  <1>1. /\ Inside(t, "releasing")
        /\ value' = Wrap(LimitWidth, value - v) /\ hint' = Wrap(LimitWidth, hint - h)
        /\ own' = [own EXCEPT ![t] = own[t] - v]
        /\ ownHint' = [ownHint EXCEPT ![t] = 0]
        /\ waitList' = waitList \ Signaled
        /\ pc' = [Woken(Signaled) EXCEPT ![t] = "idle"] /\ mlock' = NoThread
        /\ want' = [want EXCEPT ![t] = 0] /\ expired' = [expired EXCEPT ![t] = FALSE]
        /\ raised' = [raised EXCEPT ![t] = FALSE]
        /\ UNCHANGED <<limit, peak, waiters, term, intruded>>
    BY DEF Release, HintLeft, LocalsGone, Unlock
  <1>2. /\ pc[t] = "release" /\ t \notin waitList
        /\ \A u \in Threads \ {t} : mlock # u /\ pc[u] \notin {"loop", "add", "sleep"}
    BY <1>1, InsideAlone
  <1>3. Signaled = waitList
    <2>1. waitList \subseteq Reserving /\ waiters = Cardinality(Reserving)
      BY DEF LockInv, CountInv, Reserving
    <2>2. IsFiniteSet(Reserving) BY ThreadsFinite DEF Reserving
    <2>3. waiters = 0 => Reserving = {} BY Zenon, <2>1, <2>2, FS_EmptySet
    <2> QED BY <2>1, <2>3 DEF Signaled
  <1>4. waitList' = {} BY <1>1, <1>3
  <1>5. pc \in [Threads -> Places] /\ waitList = {u \in Threads : pc[u] = "wait"}
    BY DEF LimitTypeOK, LockInv
  <1>6. /\ pc' \in [Threads -> Places] /\ pc'[t] = "idle"
        /\ \A u \in Threads \ {t} : pc'[u] = IF pc[u] = "wait" THEN "relock" ELSE pc[u]
    BY <1>1, <1>3, <1>5 DEF Woken, Places
  <1>7. CountInv'
    <2>1. Reserving' = Reserving BY <1>2, <1>6 DEF Reserving
    <2> QED BY <1>1, <2>1 DEF CountInv
  <1>8. LockInv'
    <2>1. waitList' = {u \in Threads : pc'[u] = "wait"} BY <1>4, <1>6
    <2>2. \A u \in Threads : /\ pc'[u] \in {"loop", "add", "sleep"} <=> mlock' = u
                             /\ pc'[u] \notin {"first", "releasing", "setting"}
      BY <1>1, <1>2, <1>6, ThreadsAssumption DEF LockInv
    <2> QED BY <2>1, <2>2 DEF LockInv
  <1>9. /\ own \in [Threads -> 0..MaxS64] /\ ownHint \in [Threads -> 0..MaxS64]
        /\ own[t] \in 0..MaxS64 /\ h \in {0, own[t]} /\ v \in {0, own[t]}
        /\ 0 \in 0..MaxS64 /\ 0 \in S64
    <2>1. own \in [Threads -> 0..MaxS64] /\ ownHint \in [Threads -> 0..MaxS64]
      BY Zenon DEF LimitTypeOK
    <2>2. h \in {0, own[t]} /\ v \in {0, own[t]} BY Zenon, <1>2 DEF HoldingInv
    <2>3. 0 \in 0..MaxS64 /\ 0 \in S64 BY S64Arithmetic
    <2> QED BY Zenon, <2>1, <2>2, <2>3
  <1>10. PICK a \in 0..MaxS64 : a = own[t] - v
    <2>1. own[t] \in Int BY <1>9, S64Arithmetic
    <2>2. own[t] - own[t] = 0 /\ own[t] - 0 = own[t] BY ONLY <2>1
    <2> QED BY <1>9, <2>1, <2>2
  <1>11. own' \in [Threads -> 0..MaxS64] /\ ownHint' \in [Threads -> 0..MaxS64]
    BY <1>1, <1>9, <1>10
  <1>12. HoldingInv'
    <2>1. ASSUME NEW u \in Threads, u # t
          PROVE /\ own'[u] = own[u] /\ ownHint'[u] = ownHint[u] /\ want'[u] = want[u]
                /\ pc'[u] = "release" => pc[u] = "release"
                /\ pc'[u] \notin {"idle", "release", "setlimit"} =>
                     pc[u] \notin {"idle", "release", "setlimit"}
      BY <1>1, <1>6, <1>9, <2>1 DEF LimitTypeOK
    <2>2. pc'[t] = "idle" /\ ownHint'[t] = 0 BY <1>1, <1>6, <1>9
    <2> QED BY <2>1, <2>2 DEF HoldingInv
  <1>13. /\ value \in Nat /\ hint \in Nat /\ limit \in Int /\ peak \in Int
         /\ value <= limit /\ value <= peak /\ v \in Nat /\ h \in Nat
         /\ value <= MaxS64 /\ hint <= MaxS64 /\ MaxS64 \in Nat /\ own[t] \in Nat
    <2>1. v \in 0..MaxS64 /\ h \in 0..MaxS64 BY <1>9
    <2> QED BY <1>9, <2>1, LimitNumbers
  <1> HIDE DEF v, h
  <1>14. /\ Cardinality(Units(own')) = value - v /\ Cardinality(Units(ownHint')) = hint - h
         /\ value - v \in Nat /\ hint - h \in Nat
    <2>1. value = Cardinality(Units(own)) /\ hint = Cardinality(Units(ownHint))
      BY LimitNumbers
    <2>2. own' = [own EXCEPT ![t] = a] /\ ownHint' = [ownHint EXCEPT ![t] = 0]
      BY Zenon, <1>1, <1>10
    <2>3. Cardinality(Units(own')) = (value - own[t]) + a
      BY Zenon, <1>9, <2>1, <2>2, UnitsChange
    <2>4. Cardinality(Units(ownHint')) = (hint - h) + 0
      BY Zenon, <1>9, <2>1, <2>2, UnitsChange DEF h
    <2>5. a = own[t] - v /\ a \in Nat BY <1>10, <1>13
    <2>6. (value - own[t]) + a = value - v BY ONLY <1>13, <2>5
    <2>7. (hint - h) + 0 = hint - h BY ONLY <1>13
    <2>8. Cardinality(Units(own')) \in Nat /\ Cardinality(Units(ownHint')) \in Nat
      BY Zenon, <1>9, <1>11, UnitsChange
    <2> QED BY <2>3, <2>4, <2>6, <2>7, <2>8
  <1>15. value' = value - v /\ hint' = hint - h
    <2>1. value - v \in 0..MaxS64 /\ hint - h \in 0..MaxS64 BY ONLY <1>13, <1>14
    <2>2. \A x \in 0..MaxS64 : Wrap(LimitWidth, x) = x
      <3>1. ASSUME NEW x \in 0..MaxS64 PROVE Wrap(LimitWidth, x) = x
        <4>1. WrappingAdd(x, 0) = x + 0 BY <1>9, <1>13, S64Arithmetic
        <4>2. x + 0 = x BY <1>13
        <4> QED BY <4>1, <4>2 DEF WrappingAdd
      <3> QED BY <3>1
    <2> QED BY <1>1, <2>1, <2>2
  <1>16. hint' <= value'
    <2>1. \A u \in Threads : ownHint'[u] \in {0, own'[u]} BY <1>12 DEF HoldingInv
    <2>2. Cardinality(Units(ownHint')) <= Cardinality(Units(own')) BY <1>11, <2>1, UnitsMonotone
    <2> QED BY <1>14, <1>15, <2>2
  <1>17. LimitTypeOK'
    <2>1. waiters' \in 0..Cardinality(Threads) BY <1>7, WaitersTyped
    <2>2. value' \in S64 /\ hint' \in S64
      <3>1. value' \in 0..MaxS64 /\ hint' \in 0..MaxS64 BY ONLY <1>13, <1>14, <1>15
      <3> QED BY <1>13, <3>1, S64Arithmetic
    <2>3. limit' \in S64 /\ peak' \in S64 BY <1>1 DEF LimitTypeOK
    <2>4. want' \in [Threads -> S64] BY <1>1, <1>9 DEF LimitTypeOK
    <2>5. {expired, term, raised}' \subseteq [Threads -> BOOLEAN] BY <1>1 DEF LimitTypeOK
    <2>6. mlock' \in Threads \cup {NoThread} /\ waitList' \subseteq Threads /\ intruded' \in BOOLEAN
      BY <1>1, <1>4 DEF LimitTypeOK
    <2> QED BY <1>6, <1>11, <2>1, <2>2, <2>3, <2>4, <2>5, <2>6 DEF LimitTypeOK
  <1>18. DecisionInv'
    <2>1. ASSUME NEW u \in Threads, u # t
          PROVE /\ want'[u] = want[u] /\ pc'[u] \notin {"add", "sleep"}
                /\ pc'[u] = "setlimit" <=> pc[u] = "setlimit"
      BY <1>1, <1>2, <1>6, <2>1 DEF LimitTypeOK
    <2>2. pc'[t] = "idle" /\ want'[t] \in 0..MaxS64 BY <1>1, <1>6, <1>9 DEF LimitTypeOK
    <2> QED BY <2>1, <2>2 DEF DecisionInv
  <1>19. WithinLimit'
    <2>1. value' <= limit /\ value' <= peak /\ 0 <= hint' BY ONLY <1>13, <1>14, <1>15
    <2> QED BY <1>1, <1>16, <2>1 DEF WithinLimit
  <1>20. AccountExact' BY <1>14, <1>15 DEF AccountExact
  <1>21. SleepersDoNotFit' BY <1>4 DEF SleepersDoNotFit
  <1> QED BY <1>7, <1>8, <1>12, <1>17, <1>18, <1>19, <1>20, <1>21

\* A limit below the value is refused; a higher one wakes nobody, which raised records.
LEMMA SetLimitKeeps ==
  ASSUME LimitInv, NEW t \in Threads, SetLimitValue(t) PROVE LimitInv'
  <1> USE DEF LimitInv
  <1> DEFINE v == want[t]
  <1>1. /\ Inside(t, "setting")
        /\ pc' = [pc EXCEPT ![t] = "idle"] /\ mlock' = NoThread
        /\ want' = [want EXCEPT ![t] = 0]
        /\ UNCHANGED <<value, hint, own, ownHint, waiters, waitList, expired, term, intruded>>
    BY DEF SetLimitValue, Unlock, holdings
  <1>2. \/ /\ value <= v /\ limit' = v /\ peak' = value
           /\ raised' = [u \in Threads |-> raised[u] \/ (u \in waitList /\ v > limit)]
        \/ UNCHANGED <<limit, peak, raised>>
    BY DEF SetLimitValue, MayLimit
  <1>3. /\ pc[t] = "setlimit" /\ t \notin waitList
        /\ \A u \in Threads \ {t} : mlock # u /\ pc[u] \notin {"loop", "add", "sleep"}
    BY <1>1, InsideAlone
  <1>4. v \in S64 /\ v \in Int /\ 0 \in S64 /\ 0 \in 0..MaxS64
    <2>1. v \in S64 BY DEF LimitTypeOK
    <2> QED BY <2>1, S64Arithmetic
  <1>5. pc \in [Threads -> Places] /\ pc' \in [Threads -> Places]
    BY <1>1 DEF LimitTypeOK, Places
  <1>6. /\ value \in Nat /\ hint \in Nat /\ hint <= value /\ limit \in Int /\ peak \in Int
        /\ value <= limit /\ value <= peak
    BY LimitNumbers
  <1>7. CountInv'
    <2>1. Reserving' = Reserving BY <1>1, <1>3, <1>5 DEF Reserving
    <2> QED BY <1>1, <2>1 DEF CountInv
  <1>8. LockInv' BY Zenon, <1>1, <1>3, <1>5, ThreadsAssumption DEF LockInv
  <1> HIDE DEF v
  <1>9. LimitTypeOK'
    <2>1. raised' \in [Threads -> BOOLEAN] BY Zenon, <1>2 DEF LimitTypeOK
    <2>2. {limit, value, hint, peak}' \subseteq S64 BY <1>1, <1>2, <1>4 DEF LimitTypeOK
    <2>3. want' \in [Threads -> S64] BY <1>1, <1>4 DEF LimitTypeOK
    <2>4. mlock' \in Threads \cup {NoThread} BY <1>1
    <2> QED BY Zenon, <1>1, <1>5, <2>1, <2>2, <2>3, <2>4 DEF LimitTypeOK
  <1>10. DecisionInv'
    <2>1. ASSUME NEW u \in Threads, u # t
          PROVE want'[u] = want[u] /\ pc'[u] = pc[u] /\ pc[u] \notin {"add", "sleep"}
      BY <1>1, <1>3, <1>5, <2>1 DEF LimitTypeOK
    <2>2. pc'[t] = "idle" /\ want'[t] \in 0..MaxS64 BY <1>1, <1>4, <1>5 DEF LimitTypeOK
    <2> QED BY <2>1, <2>2 DEF DecisionInv
  <1>11. HoldingInv'
    <2>1. ASSUME NEW u \in Threads, u # t PROVE want'[u] = want[u] /\ pc'[u] = pc[u]
      BY <1>1, <1>5, <2>1 DEF LimitTypeOK
    <2>2. pc'[t] = "idle" BY <1>1, <1>5
    <2> QED BY <1>1, <2>1, <2>2 DEF HoldingInv
  <1>12. WithinLimit' BY <1>1, <1>2, <1>4, <1>6 DEF WithinLimit
  <1>13. AccountExact' BY Zenon, <1>1 DEF AccountExact
  <1>14. SleepersDoNotFit'
    <2> SUFFICES ASSUME NEW u \in waitList, ~ raised'[u] PROVE value + want'[u] > limit'
      BY <1>1 DEF SleepersDoNotFit
    <2>1. u \in Threads /\ u # t BY <1>3 DEF LimitTypeOK
    <2>2. want'[u] = want[u] /\ want[u] \in 0..MaxS64
      BY <1>1, <2>1 DEF LimitTypeOK, LockInv, DecisionInv
    <2>3. CASE UNCHANGED <<limit, peak, raised>> BY <2>2, <2>3 DEF SleepersDoNotFit
    <2>4. CASE /\ limit' = v
               /\ raised' = [q \in Threads |-> raised[q] \/ (q \in waitList /\ v > limit)]
      <3>1. ~ raised[u] /\ ~ (v > limit) BY Zenon, <2>1, <2>4
      <3>2. value + want[u] > limit BY <3>1 DEF SleepersDoNotFit
      <3>3. PICK w \in Int : w = want[u] BY <2>2
      <3>4. value + w > v BY ONLY <1>4, <1>6, <3>1, <3>2, <3>3
      <3> QED BY ONLY <2>2, <2>4, <3>3, <3>4
    <2> QED BY <1>2, <2>3, <2>4
  <1> QED BY <1>7, <1>8, <1>9, <1>10, <1>11, <1>12, <1>13, <1>14

\* A step of the resource limit keeps the invariant, or a thread enters without m_lock.
LEMMA NextLimitInv == LimitInv /\ [LimitNext]_limitVars => LimitInv' \/ intruded'
  <1> SUFFICES ASSUME LimitInv, [LimitNext]_limitVars PROVE LimitInv' \/ intruded' OBVIOUS
  <1>1. CASE UNCHANGED limitVars
    <2>1. LimitTypeOK' BY <1>1 DEF LimitInv, limitVars, account, holdings, LimitTypeOK
    <2>2. CountInv' /\ LockInv'
      BY Zenon, <1>1 DEF LimitInv, limitVars, account, holdings, CountInv, LockInv, Reserving
    <2>3. DecisionInv' /\ HoldingInv'
      BY Zenon, <1>1 DEF LimitInv, limitVars, account, holdings, DecisionInv, HoldingInv
    <2>4. WithinLimit' /\ AccountExact' /\ SleepersDoNotFit'
      BY <1>1 DEF LimitInv, limitVars, account, holdings, WithinLimit, AccountExact,
                  SleepersDoNotFit
    <2> QED BY <2>1, <2>2, <2>3, <2>4 DEF LimitInv
  <1>2. CASE LimitNext
    <2>1. ASSUME NEW t \in Threads,
                 \/ \E v \in 0..MaxS64 : ReserveCall(t, v) \/ ReleaseCall(t, v)
                 \/ \E v \in Limits : SetLimitCall(t, v)
          PROVE LimitInv'
      BY <2>1, CallsKeep
    <2>2. ASSUME NEW t \in Threads, Expire(t) \/ OnTimer(t) \/ RequestTerminate(t)
          PROVE LimitInv' \/ intruded'
      BY <2>2, WaitEndsKeep
    <2>3. ASSUME NEW t \in Threads,
                 \/ ReserveFails(t) \/ ReserveDecides(t) \/ ReserveSucceeds(t)
                 \/ ReserveWaits(t) \/ Release(t) \/ SetLimitValue(t)
          PROVE LimitInv'
      BY <2>3, ReserveFailsKeeps, ReserveDecidesKeeps, ReserveSucceedsKeeps,
         ReserveWaitsKeeps, ReleaseKeeps, SetLimitKeeps
    <2> QED BY <1>2, <2>1, <2>2, <2>3 DEF LimitNext
  <1> QED BY <1>1, <1>2

\* A thread that has entered without m_lock has done so for good.
LEMMA IntrusionStays == intruded /\ [LimitNext]_limitVars => intruded'
  BY DEF LimitNext, limitVars, ReserveCall, ReserveFails, ReserveDecides, ReserveSucceeds,
         ReserveWaits, Expire, OnTimer, RequestTerminate, ReleaseCall, Release, SetLimitCall,
         SetLimitValue
-----------------------------------------------------------------------------
(* The theorems *)

\* The invariant of the resource limit.
LEMMA LimitInvariance == LimitSpec => [](LimitInv \/ intruded)
  <1>1. LimitInit => LimitInv \/ intruded BY InitLimitInv
  <1>2. (LimitInv \/ intruded) /\ [LimitNext]_limitVars => (LimitInv \/ intruded)'
    BY NextLimitInv, IntrusionStays
  <1> QED BY <1>1, <1>2, PTL DEF LimitSpec

\* No release of a resource is missed: as long as no thread was terminated while it was
\* blocked in m_lock, a thread asleep in Reserve does not fit, unless the limit was raised
\* since.
THEOREM ReleasesSeen == LimitSpec => []NoRoomMissed
  <1>1. LimitInv \/ intruded => NoRoomMissed BY DEF LimitInv, NoRoomMissed
  <1> QED BY <1>1, LimitInvariance, PTL

\* The account of a resource is exact, whatever is reserved, released, timed out or
\* terminated and however sums wrap around, as long as no thread was terminated while it
\* was blocked in m_lock.
THEOREM Accounts == LimitSpec => []AccountsExact
  <1>1. LimitInv \/ intruded => AccountsExact BY DEF LimitInv, AccountsExact
  <1> QED BY <1>1, LimitInvariance, PTL
=============================================================================
