-------------------------- MODULE KHandleTableProofs --------------------------
(***************************************************************************)
(* Proofs about the handle table, for tables and linear ids of any size.   *)
(***************************************************************************)
EXTENDS KHandleTable, FiniteSetTheorems, TLAPS

USE TableAssumption DEF TableAssumption

\* An entry has an object only while a handle is open on it.
Occupied ==
    \A i \in Index : m_objects[i] # None => \E e \in open : e[1].index = i

\* A reserved handle has not been given up since it was made.
ReservedFresh == \A h \in reserved : h \notin stale

IInv == /\ TypeOK
        /\ FreeListExact
        /\ HandlesResolve
        /\ StaleHandleDead
        /\ Occupied
        /\ ReservedFresh

-----------------------------------------------------------------------------
(* The head of the free list of a table with room is a free entry.         *)
LEMMA HeadIsFree ==
    ASSUME TypeOK, FreeListExact, HasRoom
    PROVE  /\ m_free_head_index \in FreeIndices
           /\ m_entry_infos[m_free_head_index] \in Index \union {-1}
           /\ m_table_size = TableSize
           /\ m_count < TableSize
<1>1. m_table_size = TableSize /\ m_count \in 0..TableSize /\ m_count < TableSize
    BY DEF TypeOK, HasRoom
<1>2. PICK f \in [1..(TableSize - m_count) -> Index] : IsFreeList(f)
    BY <1>1 DEF FreeListExact
<1>. DEFINE n == TableSize - m_count
<1>3. n \in 1..TableSize
    BY <1>1
<1>4. m_free_head_index = f[n] /\ f[n] \in Index /\ f[n] \in FreeIndices
    BY <1>2, <1>3 DEF IsFreeList
<1>5. m_entry_infos[f[n]] = IF n = 1 THEN -1 ELSE f[n - 1]
    BY <1>2, <1>3 DEF IsFreeList
<1>6. n # 1 => f[n - 1] \in Index
    BY <1>2, <1>3
<1>. QED
    BY <1>1, <1>4, <1>5, <1>6

(* AllocateEntry takes the head off the free list, whatever the entry is    *)
(* used for afterwards.                                                     *)
LEMMA AllocateKeepsList ==
    ASSUME TypeOK, FreeListExact, HasRoom, AllocateEntry,
           m_table_size' = m_table_size,
           \A i \in Index : i # m_free_head_index =>
                m_entry_infos'[i] = m_entry_infos[i],
           FreeIndices' = FreeIndices \ {m_free_head_index}
    PROVE  FreeListExact'
<1>1. m_table_size = TableSize /\ m_count \in 0..TableSize /\ m_count < TableSize
    BY DEF TypeOK, HasRoom
<1>2. PICK f \in [1..(TableSize - m_count) -> Index] : IsFreeList(f)
    BY <1>1 DEF FreeListExact
<1>n. PICK n \in Int : n = TableSize - m_count
    BY <1>1
<1>f. f \in [1..n -> Index]
    BY <1>2, <1>n
<1>. DEFINE g == [k \in 1..(n - 1) |-> f[k]]
<1>3. n \in 1..TableSize /\ TableSize - m_count' = n - 1
    BY <1>1, <1>n DEF AllocateEntry
<1>4. m_free_head_index = f[n] /\ f[n] \in Index
    BY <1>2, <1>n, <1>f, <1>3 DEF IsFreeList
<1>5. m_free_head_index' = IF n = 1 THEN -1 ELSE f[n - 1]
    BY <1>2, <1>n, <1>f, <1>3, <1>4 DEF IsFreeList, AllocateEntry, NextHead
<1>6. g \in [1..(n - 1) -> Index]
    BY <1>2, <1>n, <1>f, <1>3
<1>7. \A j, k \in 1..(n - 1) : g[j] = g[k] => j = k
    BY <1>2, <1>n, <1>f, <1>3 DEF IsFreeList
<1>8. \A k \in 1..(n - 1) : f[k] # f[n] /\ f[k] \in Index
    BY <1>2, <1>n, <1>f, <1>3 DEF IsFreeList
<1>9. ASSUME NEW i \in Index
      PROVE  i \in FreeIndices' <=> \E k \in 1..(n - 1) : g[k] = i
  <2>1. i \in FreeIndices <=> \E k \in 1..n : f[k] = i
    BY <1>2, <1>n, <1>f DEF IsFreeList
  <2>2. \A k \in 1..n : k \in 1..(n - 1) \/ k = n
    BY <1>3
  <2>3. \A k \in 1..(n - 1) : k \in 1..n
    BY <1>3
  <2>. QED
    BY <1>4, <1>8, <2>1, <2>2, <2>3
<1>10. m_free_head_index' = IF n - 1 = 0 THEN -1 ELSE g[n - 1]
    BY <1>3, <1>5
<1>11. ASSUME NEW k \in 1..(n - 1)
       PROVE  m_entry_infos'[g[k]] = IF k = 1 THEN -1 ELSE g[k - 1]
  <2>1. m_entry_infos'[f[k]] = m_entry_infos[f[k]]
    BY <1>4, <1>8
  <2>2. m_entry_infos[f[k]] = IF k = 1 THEN -1 ELSE f[k - 1]
    BY <1>2, <1>n, <1>f, <1>3 DEF IsFreeList
  <2>3. k # 1 => k - 1 \in 1..(n - 1)
    BY <1>3
  <2>. QED
    BY <2>1, <2>2, <2>3
<1>12. IsFreeList(g)'
  <2>. HIDE DEF g
  <2>. QED
    BY <1>3, <1>6, <1>7, <1>9, <1>10, <1>11 DEF IsFreeList
<1>. QED
    BY <1>3, <1>6, <1>12 DEF FreeListExact

(* An injection does not lead into a smaller set.                           *)
LEMMA NoInjection ==
    ASSUME NEW S, NEW T, NEW f \in [S -> T], IsFiniteSet(S), IsFiniteSet(T),
           Cardinality(T) < Cardinality(S),
           \A x, y \in S : f[x] = f[y] => x = y
    PROVE  FALSE
<1>1. \E x, y \in S : x # y /\ f[x] = f[y]
    BY ONLY FS_PigeonHole, f \in [S -> T], IsFiniteSet(S), IsFiniteSet(T),
            Cardinality(T) < Cardinality(S), Zenon
<1>. QED
    BY <1>1

(* FreeEntry puts an entry that was in use at the head of the list; there   *)
(* was one, so m_count was not zero.                                        *)
LEMMA FreeKeepsList ==
    ASSUME TypeOK, FreeListExact, m_table_size > 0, m_table_size' = m_table_size,
           NEW index \in Index, index \notin FreeIndices, FreeEntry(index),
           FreeIndices' = FreeIndices \union {index}
    PROVE  m_count > 0 /\ FreeListExact'
<1>1. m_table_size = TableSize /\ m_count \in 0..TableSize
    BY DEF TypeOK
<1>2. PICK f \in [1..(TableSize - m_count) -> Index] : IsFreeList(f)
    BY <1>1 DEF FreeListExact
<1>n. PICK n \in Int : n = TableSize - m_count
    BY <1>1
<1>f. f \in [1..n -> Index]
    BY <1>2, <1>n
<1>. DEFINE g == [k \in 1..(n + 1) |-> IF k = n + 1 THEN index ELSE f[k]]
<1>3. n \in 0..TableSize
    BY <1>1, <1>n
<1>4. \A k \in 1..n : f[k] # index /\ f[k] \in Index
    BY <1>2, <1>n, <1>f DEF IsFreeList
<1>5. m_count > 0
  <2>1. SUFFICES ASSUME m_count = 0 PROVE FALSE
    BY <1>1
  <2>2. n = TableSize
    BY <2>1, <1>1, <1>n
  <2>. DEFINE S == 1..TableSize
              T == Index \ {index}
  <2>3. f \in [S -> T]
    BY <1>2, <1>n, <1>f, <1>4, <2>2
  <2>a. 0 \in Int /\ 1 \in Int /\ TableSize \in Int /\ TableSize - 1 \in Int
    OBVIOUS
  <2>b. IsFiniteSet(S) /\ Cardinality(S) = IF 1 > TableSize THEN 0 ELSE TableSize - 1 + 1
    BY <2>a, FS_Interval, Zenon
  <2>c. /\ IsFiniteSet(Index)
        /\ Cardinality(Index) = IF 0 > TableSize - 1 THEN 0 ELSE TableSize - 1 - 0 + 1
    BY <2>a, FS_Interval, Zenon DEF Index
  <2>4. /\ IsFiniteSet(S) /\ Cardinality(S) = TableSize
        /\ IsFiniteSet(Index) /\ Cardinality(Index) = TableSize
    BY <2>b, <2>c
  <2>5. IsFiniteSet(T) /\ Cardinality(T) = TableSize - 1
    BY <2>4, FS_RemoveElement
  <2>6. Cardinality(T) < Cardinality(S)
    BY <2>4, <2>5
  <2>7. \A x, y \in S : f[x] = f[y] => x = y
    BY <1>2, <1>n, <1>f, <2>2 DEF IsFreeList
  <2>. HIDE DEF S, T
  <2>. QED
    BY <2>3, <2>4, <2>5, <2>6, <2>7, NoInjection
<1>6. TableSize - m_count' = n + 1
    BY <1>1, <1>n DEF FreeEntry
<1>7. g \in [1..(n + 1) -> Index]
  <2>1. \A k \in 1..(n + 1) : k # n + 1 => k \in 1..n
    BY <1>3
  <2>. QED
    BY <1>4, <2>1
<1>8. \A k \in 1..n : k \in 1..(n + 1) /\ k # n + 1 /\ g[k] = f[k]
    BY <1>3
<1>9. g[n + 1] = index /\ n + 1 \in 1..(n + 1)
    BY <1>3
<1>10. \A k \in 1..(n + 1) : k \in 1..n \/ k = n + 1
    BY <1>3
<1>11. \A j, k \in 1..(n + 1) : g[j] = g[k] => j = k
  <2>1. \A j, k \in 1..n : f[j] = f[k] => j = k
    BY <1>2, <1>n, <1>f DEF IsFreeList
  <2>. HIDE DEF g
  <2>. QED
    BY <1>4, <1>8, <1>9, <1>10, <2>1
<1>12. ASSUME NEW i \in Index
       PROVE  i \in FreeIndices' <=> \E k \in 1..(n + 1) : g[k] = i
  <2>1. i \in FreeIndices <=> \E k \in 1..n : f[k] = i
    BY <1>2, <1>n, <1>f DEF IsFreeList
  <2>. HIDE DEF g
  <2>. QED
    BY <1>8, <1>9, <1>10, <2>1
<1>13. m_free_head_index' = IF n + 1 = 0 THEN -1 ELSE g[n + 1]
    BY <1>3, <1>9 DEF FreeEntry
<1>14. ASSUME NEW k \in 1..(n + 1)
       PROVE  m_entry_infos'[g[k]] = IF k = 1 THEN -1 ELSE g[k - 1]
  <2>1. m_entry_infos' = [m_entry_infos EXCEPT ![index] = m_free_head_index]
    BY DEF FreeEntry
  <2>2. m_entry_infos \in [Index -> Index \union {-1} \union Id]
    BY DEF TypeOK
  <2>3. CASE k = n + 1
    <3>1. m_entry_infos'[g[k]] = m_free_head_index
      BY <2>1, <2>2, <2>3, <1>9
    <3>2. m_free_head_index = IF n = 0 THEN -1 ELSE f[n]
      BY <1>2, <1>n, <1>f DEF IsFreeList
    <3>3. n # 0 => n \in 1..n
      BY <1>3
    <3>4. n # 0 => g[n] = f[n]
      BY <1>8, <3>3
    <3>. QED
      BY <1>3, <2>3, <3>1, <3>2, <3>4
  <2>4. CASE k \in 1..n
    <3>1. m_entry_infos'[f[k]] = m_entry_infos[f[k]]
      BY <1>4, <2>1, <2>2, <2>4
    <3>2. m_entry_infos[f[k]] = IF k = 1 THEN -1 ELSE f[k - 1]
      BY <1>2, <1>n, <1>f, <2>4 DEF IsFreeList
    <3>3. k # 1 => k - 1 \in 1..n
      BY <1>3, <2>4
    <3>. QED
      BY <1>8, <2>4, <3>1, <3>2, <3>3
  <2>. QED
    BY <1>10, <2>3, <2>4
<1>15. IsFreeList(g)'
  <2>. HIDE DEF g
  <2>. QED
    BY <1>6, <1>7, <1>11, <1>12, <1>13, <1>14 DEF IsFreeList
<1>. QED
    BY <1>5, <1>6, <1>7, <1>15 DEF FreeListExact

-----------------------------------------------------------------------------
(* Initialize links the entries from the last to the first.                *)
LEMMA InitIInv == Init => IInv
<1>. SUFFICES ASSUME Init PROVE IInv
    OBVIOUS
<1>1. TypeOK
  <2>1. m_entry_infos \in [Index -> Index \union {-1} \union Id]
    BY DEF Init, Index
  <2>2. m_free_head_index \in Index
    BY DEF Init, Index
  <2>3. users \in [Objects -> 0..MaxRefs] /\ refs \in [Objects -> Int]
    BY DEF Init
  <2>. QED
    BY <2>1, <2>2, <2>3 DEF Init, TypeOK, Id, MinLinearId
<1>2. FreeListExact
  <2>. DEFINE f == [k \in 1..TableSize |-> k - 1]
  <2>1. m_count = 0 /\ m_free_head_index = TableSize - 1
        /\ m_entry_infos = [i \in Index |-> i - 1] /\ TableSize - m_count = TableSize
    BY DEF Init
  <2>2. f \in [1..TableSize -> Index]
    BY DEF Index
  <2>3. FreeIndices = Index
    BY DEF Init, FreeIndices, Handles
  <2>4. \A i \in Index : i + 1 \in 1..TableSize /\ f[i + 1] = i
    BY DEF Index
  <2>5. IsFreeList(f)
    BY <2>1, <2>2, <2>3, <2>4 DEF IsFreeList, Index
  <2>. QED
    BY <2>1, <2>2, <2>5 DEF FreeListExact
<1>3. HandlesResolve /\ StaleHandleDead /\ ReservedFresh
    BY DEF Init, HandlesResolve, StaleHandleDead, ReservedFresh
<1>4. Occupied
    BY DEF Init, Occupied
<1>. QED
    BY <1>1, <1>2, <1>3, <1>4 DEF IInv

(* The id after an id is one, and the new handle is a handle.               *)
LEMMA NewHandleIsNew ==
    ASSUME IInv, HasRoom, AllocateLinearId
    PROVE  /\ m_next_linear_id' \in Id
           /\ NewHandle \in Handle
           /\ NewHandle.index = m_free_head_index
           /\ NewHandle.linear_id = m_next_linear_id
           /\ \A h \in Handles : h.index # m_free_head_index
           /\ NewHandle \notin stale'
           /\ stale' \subseteq stale
<1>1. m_free_head_index \in FreeIndices
    BY HeadIsFree DEF IInv
<1>2. m_next_linear_id \in Id
    BY DEF IInv, TypeOK
<1>. QED
    BY <1>1, <1>2 DEF AllocateLinearId, NextId, NewHandle, Handle, FreeIndices, Id,
        MinLinearId

(* Add preserves the invariant.                                             *)
LEMMA AddIInv == ASSUME IInv, NEW o \in Objects, Add(o) PROVE IInv'
<1>. USE DEF IInv
<1>. DEFINE i == m_free_head_index
<1>1. HasRoom /\ AllocateLinearId /\ AllocateEntry
    BY DEF Add
<1>2. /\ i \in FreeIndices /\ i \in Index
      /\ m_free_head_index' \in Index \union {-1}
      /\ m_table_size = TableSize /\ m_count < TableSize
    BY <1>1, HeadIsFree DEF AllocateEntry, NextHead, FreeIndices
<1>3. /\ m_next_linear_id' \in Id /\ NewHandle \in Handle
      /\ NewHandle.index = i /\ NewHandle.linear_id = m_next_linear_id
      /\ \A h \in Handles : h.index # i
      /\ NewHandle \notin stale' /\ stale' \subseteq stale
    BY <1>1, NewHandleIsNew
<1>4. /\ m_entry_infos' = [m_entry_infos EXCEPT ![i] = m_next_linear_id]
      /\ m_objects' = [m_objects EXCEPT ![i] = o]
      /\ open' = open \union {<<NewHandle, o>>}
      /\ UNCHANGED <<m_table_size, reserved>>
    BY <1>3 DEF Add
<1>5. TypeOK'
  <2>1. m_next_linear_id \in Id /\ m_count' \in 0..TableSize
    BY <1>1, <1>2 DEF TypeOK, AllocateEntry
  <2>2. refs' \in [Objects -> Int]
    BY DEF Add, TypeOK
  <2>. QED
    BY <1>2, <1>3, <1>4, <2>1, <2>2 DEF TypeOK, Add
<1>6. <<NewHandle, o>> \in open' /\ <<NewHandle, o>>[1] = NewHandle
    BY <1>4
<1>7. FreeListExact'
  <2>a. \A h : h \in Handles' <=> h \in Handles \/ h = NewHandle
    BY <1>4, <1>6 DEF Handles
  <2>1. FreeIndices' = FreeIndices \ {i}
    BY <1>3, <2>a DEF FreeIndices
  <2>2. \A j \in Index : j # i => m_entry_infos'[j] = m_entry_infos[j]
    BY <1>4 DEF TypeOK
  <2>. QED
    BY <1>1, <1>4, <2>1, <2>2, AllocateKeepsList
<1>8. \A e \in open : e[1] \in Handles /\ e[1].index \in Index /\ e[1].index # i
    BY <1>3 DEF Handles, TypeOK, Handle
<1>9. \A h \in reserved : h \in Handles /\ h.index # i
    BY <1>3 DEF Handles
<1>10. HandlesResolve'
  <2>1. o # None
    OBVIOUS
  <2>2. /\ m_objects'[i] = o /\ m_entry_infos'[i] = m_next_linear_id
        /\ \A j \in Index : j # i => /\ m_objects'[j] = m_objects[j]
                                   /\ m_entry_infos'[j] = m_entry_infos[j]
    BY <1>2, <1>4 DEF TypeOK
  <2>3. i < m_table_size
    BY <1>2 DEF Index
  <2>4. \A e \in open' : /\ m_objects'[e[1].index] = e[2]
                         /\ m_table_size' > 0 => IsValidHandle(e[1])'
    BY <1>3, <1>4, <1>8, <2>1, <2>2, <2>3 DEF HandlesResolve, IsValidHandle
  <2>5. \A d, e \in open' : d[1].index = e[1].index => d = e
    BY <1>3, <1>4, <1>8 DEF HandlesResolve
  <2>6. \A e \in open', h \in reserved' : e[1].index # h.index
    BY <1>3, <1>4, <1>9 DEF HandlesResolve
  <2>. QED
    BY <1>4, <2>4, <2>5, <2>6 DEF HandlesResolve
<1>11. StaleHandleDead'
  <2>1. SUFFICES ASSUME NEW h \in stale', IsValidHandle(h)' PROVE FALSE
    BY DEF StaleHandleDead
  <2>2. h \in Handle /\ h \in stale /\ h.index \in Index
    BY <1>3 DEF TypeOK, Handle
  <2>3. CASE h.index = i
    <3>1. h.linear_id = m_next_linear_id
      BY <1>2, <1>4, <2>1, <2>3 DEF IsValidHandle, TypeOK
    <3>. QED
      BY <2>1, <3>1, <1>1 DEF AllocateLinearId
  <2>4. CASE h.index # i
    <3>1. IsValidHandle(h)
      BY <1>2, <1>4, <2>1, <2>2, <2>4 DEF IsValidHandle, TypeOK
    <3>. QED
      BY <2>2, <3>1 DEF StaleHandleDead
  <2>. QED
    BY <2>3, <2>4
<1>12. Occupied'
  <2>1. SUFFICES ASSUME NEW j \in Index, m_objects'[j] # None
                 PROVE  \E e \in open' : e[1].index = j
    BY DEF Occupied
  <2>2. j # i => m_objects[j] # None
    BY <1>4, <2>1 DEF TypeOK
  <2>3. j # i => \E e \in open : e[1].index = j
    BY <2>2 DEF Occupied
  <2>. QED
    BY <1>3, <1>4, <1>6, <2>3
<1>13. ReservedFresh'
    BY <1>3, <1>4 DEF ReservedFresh
<1>. QED
    BY <1>5, <1>7, <1>10, <1>11, <1>12, <1>13

(* Reserve preserves the invariant; the entry gets its info when the handle *)
(* is registered.                                                           *)
LEMMA ReserveIInv == ASSUME IInv, Reserve PROVE IInv'
<1>. USE DEF IInv
<1>. DEFINE i == m_free_head_index
<1>1. HasRoom /\ AllocateLinearId /\ AllocateEntry
    BY DEF Reserve
<1>2. /\ i \in FreeIndices /\ i \in Index
      /\ m_free_head_index' \in Index \union {-1}
      /\ m_table_size = TableSize /\ m_count < TableSize
    BY <1>1, HeadIsFree DEF AllocateEntry, NextHead, FreeIndices
<1>3. /\ m_next_linear_id' \in Id /\ NewHandle \in Handle
      /\ NewHandle.index = i
      /\ \A h \in Handles : h.index # i
      /\ NewHandle \notin stale' /\ stale' \subseteq stale
    BY <1>1, NewHandleIsNew
<1>4. /\ reserved' = reserved \union {NewHandle}
      /\ UNCHANGED <<m_table_size, m_entry_infos, m_objects, open>>
    BY DEF Reserve
<1>5. TypeOK'
  <2>1. m_count' \in 0..TableSize
    BY <1>1, <1>2 DEF TypeOK, AllocateEntry
  <2>. QED
    BY <1>2, <1>3, <1>4, <2>1 DEF TypeOK, Reserve, objects
<1>6. FreeListExact'
  <2>1. \A h : h \in Handles' <=> h \in Handles \/ h = NewHandle
    BY <1>4 DEF Handles
  <2>2. FreeIndices' = FreeIndices \ {i}
    BY <1>3, <2>1 DEF FreeIndices
  <2>. QED
    BY <1>1, <1>4, <2>2, AllocateKeepsList
<1>7. HandlesResolve'
  <2>1. \A e \in open : e[1].index # i
    BY <1>3 DEF Handles
  <2>2. \A h \in reserved : h.index # i
    BY <1>3 DEF Handles
  <2>. QED
    BY <1>3, <1>4, <2>1, <2>2 DEF HandlesResolve, IsValidHandle
<1>8. StaleHandleDead' /\ Occupied' /\ ReservedFresh'
    BY <1>3, <1>4 DEF StaleHandleDead, IsValidHandle, Occupied, ReservedFresh
<1>. QED
    BY <1>5, <1>6, <1>7, <1>8

(* Nothing but the infos of used entries may change without the list.       *)
LEMMA UntouchedList ==
    ASSUME TypeOK, FreeListExact, m_table_size' = m_table_size,
           UNCHANGED freeList, FreeIndices' = FreeIndices,
           \A i \in FreeIndices : m_entry_infos'[i] = m_entry_infos[i]
    PROVE  FreeListExact'
<1>1. SUFFICES ASSUME m_table_size > 0 PROVE FreeListExact'
    BY DEF FreeListExact
<1>2. PICK f \in [1..(TableSize - m_count) -> Index] : IsFreeList(f)
    BY <1>1 DEF FreeListExact
<1>3. m_count' = m_count /\ m_free_head_index' = m_free_head_index
    BY DEF freeList
<1>4. \A k \in 1..(TableSize - m_count) : f[k] \in FreeIndices
    BY <1>2 DEF IsFreeList
<1>5. IsFreeList(f)'
    BY <1>2, <1>3, <1>4 DEF IsFreeList
<1>. QED
    BY <1>3, <1>5 DEF FreeListExact, IsFreeList

(* Register preserves the invariant: the entry was in no list, and its info *)
(* may be overwritten.                                                      *)
LEMMA RegisterIInv ==
    ASSUME IInv, NEW h \in Handle, NEW o \in Objects, Register(h, o) PROVE IInv'
<1>. USE DEF IInv
<1>1. /\ h \in reserved /\ reserved' = reserved \ {h} /\ h.index \in Index
      /\ UNCHANGED <<m_table_size, freeList, m_next_linear_id, stale, users,
                     toClose, cursor>>
    BY DEF Register, Handle
<1>2. CASE ~(h.index < m_table_size)
  <2>1. UNCHANGED <<m_entry_infos, m_objects, refs, open>> /\ m_table_size = 0
    BY <1>1, <1>2 DEF Register, TypeOK, Index
  <2>2. FreeListExact'
    BY <1>1, <2>1 DEF FreeListExact
  <2>3. TypeOK'
    BY <1>1, <2>1 DEF TypeOK, freeList
  <2>. QED
    BY <1>1, <2>1, <2>2, <2>3 DEF HandlesResolve, StaleHandleDead, IsValidHandle,
        Occupied, ReservedFresh
<1>3. CASE h.index < m_table_size
  <2>1. /\ m_entry_infos' = [m_entry_infos EXCEPT ![h.index] = h.linear_id]
        /\ m_objects' = [m_objects EXCEPT ![h.index] = o]
        /\ refs' = [refs EXCEPT ![o] = @ + 1]
        /\ open' = open \union {<<h, o>>}
    BY <1>3 DEF Register
  <2>2. h.linear_id \in Id
    BY DEF Handle
  <2>3. TypeOK'
    <3>1. refs' \in [Objects -> Int]
      BY <2>1 DEF TypeOK
    <3>2. m_entry_infos' \in [Index -> Index \union {-1} \union Id]
      BY <1>1, <2>1, <2>2 DEF TypeOK
    <3>3. m_objects' \in [Index -> Objects \union {None}]
      BY <1>1, <2>1 DEF TypeOK
    <3>. QED
      BY <1>1, <2>1, <3>1, <3>2, <3>3 DEF TypeOK, freeList
  <2>4. <<h, o>> \in open' /\ <<h, o>>[1] = h /\ <<h, o>>[2] = o
    BY <2>1
  <2>5. FreeListExact'
    <3>1. \A g : g \in Handles' <=> g \in Handles
      BY <1>1, <2>1, <2>4 DEF Handles
    <3>2. FreeIndices' = FreeIndices
      BY <3>1 DEF FreeIndices
    <3>3. h.index \notin FreeIndices
      BY <1>1 DEF FreeIndices, Handles
    <3>4. \A i \in FreeIndices : m_entry_infos'[i] = m_entry_infos[i]
      BY <2>1, <3>3 DEF TypeOK, FreeIndices
    <3>. QED
      BY <1>1, <3>2, <3>4, UntouchedList
  <2>6. /\ m_objects'[h.index] = o /\ m_entry_infos'[h.index] = h.linear_id
        /\ \A j \in Index : j # h.index => /\ m_objects'[j] = m_objects[j]
                                         /\ m_entry_infos'[j] = m_entry_infos[j]
    BY <1>1, <2>1 DEF TypeOK
  <2>7. \A e \in open : e[1].index \in Index /\ e[1].index # h.index
    BY <1>1 DEF HandlesResolve, TypeOK, Handle
  <2>8. HandlesResolve'
    <3>1. \A e \in open' : /\ m_objects'[e[1].index] = e[2]
                           /\ m_table_size' > 0 => IsValidHandle(e[1])'
      BY <1>1, <1>3, <2>1, <2>4, <2>6, <2>7 DEF HandlesResolve, IsValidHandle
    <3>2. \A d, e \in open' : d[1].index = e[1].index => d = e
      BY <2>1, <2>4, <2>7 DEF HandlesResolve
    <3>3. \A e \in open', g \in reserved' : e[1].index # g.index
      BY <1>1, <2>1, <2>4 DEF HandlesResolve
    <3>4. \A f, g \in reserved' : f.index = g.index => f = g
      BY <1>1 DEF HandlesResolve
    <3>. QED
      BY <3>1, <3>2, <3>3, <3>4 DEF HandlesResolve
  <2>9. StaleHandleDead'
    <3>1. SUFFICES ASSUME NEW g \in stale, IsValidHandle(g)' PROVE FALSE
      BY <1>1 DEF StaleHandleDead
    <3>2. g \in Handle /\ g.index \in Index
      BY DEF TypeOK, Handle
    <3>3. CASE g.index = h.index
      <4>1. g.linear_id = h.linear_id
        BY <2>6, <3>1, <3>3 DEF IsValidHandle
      <4>2. g = h
        BY <3>2, <3>3, <4>1 DEF Handle
      <4>. QED
        BY <1>1, <3>1, <4>2 DEF ReservedFresh
    <3>4. CASE g.index # h.index
      BY <1>1, <2>6, <3>1, <3>2, <3>4 DEF StaleHandleDead, IsValidHandle
    <3>. QED
      BY <3>3, <3>4
  <2>10. Occupied'
    <3>1. SUFFICES ASSUME NEW j \in Index, m_objects'[j] # None
                   PROVE  \E e \in open' : e[1].index = j
      BY DEF Occupied
    <3>2. j # h.index => \E e \in open : e[1].index = j
      BY <2>6, <3>1 DEF Occupied
    <3>. QED
      BY <2>1, <2>4, <3>2
  <2>11. ReservedFresh'
    BY <1>1 DEF ReservedFresh
  <2>. QED
    BY <2>3, <2>5, <2>8, <2>9, <2>10, <2>11
<1>. QED
    BY <1>2, <1>3

(* What freeing the entry of a handle does to the rest of the table, when   *)
(* the handle was the only one on the entry.                                *)
LEMMA FreedEntry ==
    ASSUME IInv, NEW h \in Handle, m_table_size > 0, m_table_size' = m_table_size,
           h \in Handles, \A g \in Handles : g.index = h.index => g = h,
           \A g : g \in Handles' <=> g \in Handles /\ g # h,
           FreeEntry(h.index)
    PROVE  /\ FreeListExact'
           /\ m_count' \in 0..TableSize
           /\ m_free_head_index' \in Index
           /\ m_entry_infos' \in [Index -> Index \union {-1} \union Id]
           /\ m_objects' \in [Index -> Objects \union {None}]
           /\ m_objects'[h.index] = None
           /\ \A j \in Index : j # h.index =>
                m_objects'[j] = m_objects[j] /\ m_entry_infos'[j] = m_entry_infos[j]
<1>. USE DEF IInv
<1>1. h.index \in Index
    BY DEF Handle
<1>2. FreeIndices' = FreeIndices \union {h.index}
    BY <1>1 DEF FreeIndices
<1>3. h.index \notin FreeIndices
    BY DEF FreeIndices
<1>4. m_count > 0 /\ FreeListExact'
    BY <1>1, <1>2, <1>3, FreeKeepsList
<1>5. m_count' \in 0..TableSize
    BY <1>4 DEF TypeOK, FreeEntry
<1>. QED
    BY <1>1, <1>4, <1>5 DEF TypeOK, FreeEntry, ObjectFreed

(* Unreserve preserves the invariant.                                       *)
LEMMA UnreserveIInv ==
    ASSUME IInv, NEW h \in Handle, Unreserve(h) PROVE IInv'
<1>. USE DEF IInv
<1>1. /\ h \in reserved /\ reserved' = reserved \ {h} /\ h.index \in Index
      /\ stale' = stale \union {h}
      /\ UNCHANGED <<m_table_size, m_next_linear_id, open, objects, cursor>>
    BY DEF Unreserve, Handle
<1>2. ReservedFresh'
    BY <1>1 DEF ReservedFresh
<1>3. m_objects[h.index] = None
    BY <1>1 DEF Occupied, HandlesResolve
<1>4. CASE ~(h.index < m_table_size)
  <2>1. UNCHANGED <<freeList, m_entry_infos, m_objects>> /\ m_table_size = 0
    BY <1>1, <1>4 DEF Unreserve, TypeOK, Index
  <2>2. FreeListExact'
    BY <1>1, <2>1 DEF FreeListExact
  <2>3. TypeOK'
    BY <1>1, <2>1 DEF TypeOK, freeList, objects
  <2>. QED
    BY <1>1, <1>2, <1>3, <2>1, <2>2, <2>3 DEF HandlesResolve, StaleHandleDead,
        IsValidHandle, Occupied
<1>5. CASE h.index < m_table_size
  <2>1. FreeEntry(h.index) /\ m_table_size > 0
    BY <1>1, <1>5 DEF Unreserve, TypeOK, Index
  <2>2. h \in Handles /\ \A g \in Handles : g.index = h.index => g = h
    <3>1. \A e \in open : e[1].index # h.index
      BY <1>1 DEF HandlesResolve
    <3>2. \A g \in reserved : g.index = h.index => g = h
      BY <1>1 DEF HandlesResolve
    <3>. QED
      BY <1>1, <3>1, <3>2 DEF Handles
  <2>3. \A g : g \in Handles' <=> g \in Handles /\ g # h
    BY <1>1 DEF Handles, HandlesResolve
  <2>4. /\ FreeListExact'
        /\ m_count' \in 0..TableSize
        /\ m_free_head_index' \in Index
        /\ m_entry_infos' \in [Index -> Index \union {-1} \union Id]
        /\ m_objects' \in [Index -> Objects \union {None}]
        /\ m_objects'[h.index] = None
        /\ \A j \in Index : j # h.index =>
             m_objects'[j] = m_objects[j] /\ m_entry_infos'[j] = m_entry_infos[j]
    BY <1>1, <2>1, <2>2, <2>3, FreedEntry
  <2>5. TypeOK'
    BY <1>1, <2>4 DEF TypeOK, objects
  <2>6. \A e \in open : e[1].index \in Index /\ e[1].index # h.index
    BY <1>1 DEF HandlesResolve, TypeOK, Handle
  <2>7. HandlesResolve'
    BY <1>1, <2>4, <2>6 DEF HandlesResolve, IsValidHandle
  <2>8. StaleHandleDead'
    <3>1. \A g \in stale : g.index \in Index
      BY DEF TypeOK, Handle
    <3>. QED
      BY <1>1, <2>4, <3>1 DEF StaleHandleDead, IsValidHandle
  <2>9. Occupied'
    BY <1>1, <2>4 DEF Occupied
  <2>. QED
    BY <1>2, <2>4, <2>5, <2>7, <2>8, <2>9
<1>. QED
    BY <1>4, <1>5

(* Remove preserves the invariant: a valid handle is open, and alone on its *)
(* entry.                                                                   *)
LEMMA RemoveIInv ==
    ASSUME IInv, NEW h \in Handle, Remove(h) PROVE IInv'
<1>. USE DEF IInv
<1>1. /\ IsValidHandle(h) /\ FreeEntry(h.index) /\ h.index \in Index
      /\ open' = {e \in open : e[1] # h}
      /\ stale' = stale \union {h}
      /\ UNCHANGED <<m_table_size, m_next_linear_id, reserved, users, refs, cursor>>
    BY DEF Remove, Handle
<1>2. PICK d \in open : d[1].index = h.index
    BY <1>1 DEF IsValidHandle, Occupied
<1>3. m_table_size > 0
    BY <1>1 DEF IsValidHandle, Index, TypeOK
<1>4. d[1] = h
  <2>1. d[1] \in Handle /\ d[1].linear_id = h.linear_id
    BY <1>1, <1>2, <1>3 DEF HandlesResolve, IsValidHandle, TypeOK
  <2>. QED
    BY <1>2, <2>1 DEF Handle
<1>5. h \in Handles /\ \A g \in Handles : g.index = h.index => g = h
    BY <1>4 DEF Handles, HandlesResolve
<1>6. h \notin reserved
    BY <1>4 DEF HandlesResolve
<1>7. \A g : g \in Handles' <=> g \in Handles /\ g # h
    BY <1>1, <1>6 DEF Handles
<1>8. /\ FreeListExact'
      /\ m_count' \in 0..TableSize
      /\ m_free_head_index' \in Index
      /\ m_entry_infos' \in [Index -> Index \union {-1} \union Id]
      /\ m_objects' \in [Index -> Objects \union {None}]
      /\ m_objects'[h.index] = None
      /\ \A j \in Index : j # h.index =>
           m_objects'[j] = m_objects[j] /\ m_entry_infos'[j] = m_entry_infos[j]
    BY <1>1, <1>3, <1>5, <1>7, FreedEntry
<1>9. toClose' \in [Objects -> Nat]
  <2>1. m_objects[h.index] \in Objects
    BY <1>1 DEF IsValidHandle, TypeOK
  <2>. QED
    BY <2>1 DEF Remove, TypeOK
<1>10. TypeOK'
  <2>1. open' \subseteq Handle \X Objects /\ stale' \subseteq Handle
    BY <1>1 DEF TypeOK
  <2>. QED
    BY <1>1, <1>8, <1>9, <2>1 DEF TypeOK
<1>11. \A e \in open' : e \in open /\ e[1].index \in Index /\ e[1].index # h.index
    BY <1>1, <1>2, <1>4 DEF HandlesResolve, TypeOK, Handle
<1>12. HandlesResolve'
  <2>1. ASSUME NEW e \in open'
        PROVE  m_objects'[e[1].index] = e[2] /\ (m_table_size' > 0 => IsValidHandle(e[1])')
    <3>1. e \in open /\ e[1].index \in Index /\ e[1].index # h.index
      BY <1>11
    <3>2. /\ m_objects'[e[1].index] = m_objects[e[1].index]
          /\ m_entry_infos'[e[1].index] = m_entry_infos[e[1].index]
          /\ m_table_size' = m_table_size
      BY ONLY <1>1, <1>8, <3>1
    <3>3. m_objects[e[1].index] = e[2] /\ (m_table_size > 0 => IsValidHandle(e[1]))
      BY ONLY <3>1, HandlesResolve DEF HandlesResolve
    <3>. QED
      BY ONLY <3>2, <3>3 DEF IsValidHandle
  <2>2. /\ \A c, e \in open' : c[1].index = e[1].index => c = e
        /\ \A e \in open', g \in reserved' : e[1].index # g.index
        /\ \A f, g \in reserved' : f.index = g.index => f = g
    BY <1>1, <1>11 DEF HandlesResolve
  <2>. QED
    BY <2>1, <2>2 DEF HandlesResolve
<1>13. StaleHandleDead'
  <2>1. \A g \in stale : g.index \in Index
    BY DEF TypeOK, Handle
  <2>. QED
    BY <1>1, <1>8, <2>1 DEF StaleHandleDead, IsValidHandle
<1>14. Occupied'
  <2>1. \A e \in open : e[1].index # h.index => e \in open'
    BY <1>1
  <2>. QED
    BY <1>8, <2>1 DEF Occupied
<1>15. ReservedFresh'
    BY <1>1, <1>6 DEF ReservedFresh
<1>. QED
    BY <1>8, <1>10, <1>12, <1>13, <1>14, <1>15

(* A step that leaves entries, list and handles alone, but may empty the    *)
(* table, preserves the invariant.                                          *)
LEMMA SameTableIInv ==
    ASSUME IInv, TypeOK',
           m_table_size' \in {0, m_table_size},
           UNCHANGED <<freeList, m_next_linear_id, m_entry_infos, m_objects, open,
                       reserved, stale>>
    PROVE  IInv'
<1>. USE DEF IInv
<1>1. FreeListExact'
  <2>1. CASE m_table_size' = 0
    BY <2>1 DEF FreeListExact
  <2>2. CASE m_table_size' = m_table_size
    <3>1. FreeIndices' = FreeIndices
      BY DEF FreeIndices, Handles
    <3>. QED
      BY <2>2, <3>1, UntouchedList
  <2>. QED
    BY <2>1, <2>2
<1>2. \A g \in stale : g.index \in Nat
    BY DEF TypeOK, Handle, Index
<1>3. HandlesResolve'
    BY DEF HandlesResolve, IsValidHandle
<1>4. StaleHandleDead'
    BY <1>2 DEF StaleHandleDead, IsValidHandle, TypeOK
<1>5. Occupied' /\ ReservedFresh'
    BY DEF Occupied, ReservedFresh
<1>. QED
    BY <1>1, <1>3, <1>4, <1>5

(* Every step preserves the invariant.                                      *)
LEMMA NextIInv == ASSUME IInv, [Next]_vars PROVE IInv'
<1>1. CASE \E o \in Objects : Add(o)
    BY <1>1, AddIInv
<1>2. CASE Reserve
    BY <1>2, ReserveIInv
<1>3. CASE \E h \in Handle, o \in Objects : Register(h, o)
    BY <1>3, RegisterIInv
<1>4. CASE \E h \in Handle : Unreserve(h)
    BY <1>4, UnreserveIInv
<1>5. CASE \E h \in Handle : Remove(h)
    BY <1>5, RemoveIInv
<1>6. ASSUME NEW h \in Handle, GetObject(h) PROVE IInv'
  <2>1. m_objects[h.index] \in Objects
    BY <1>6 DEF GetObject, IsValidHandle, IInv, TypeOK, Handle
  <2>2. users' \in [Objects -> 0..MaxRefs] /\ refs' \in [Objects -> Int]
    BY <1>6, <2>1 DEF GetObject, IInv, TypeOK
  <2>3. TypeOK'
    BY <1>6, <2>2 DEF GetObject, IInv, TypeOK, freeList
  <2>. QED
    BY <1>6, <2>3, SameTableIInv DEF GetObject
<1>7. ASSUME NEW o \in Objects, RemoveClose(o) PROVE IInv'
  <2>1. toClose' \in [Objects -> Nat] /\ refs' \in [Objects -> Int]
    BY <1>7 DEF RemoveClose, IInv, TypeOK
  <2>2. TypeOK'
    BY <1>7, <2>1 DEF RemoveClose, IInv, TypeOK, freeList
  <2>. QED
    BY <1>7, <2>2, SameTableIInv DEF RemoveClose
<1>8. ASSUME NEW o \in Objects, UserClose(o) PROVE IInv'
  <2>1. users' \in [Objects -> 0..MaxRefs] /\ refs' \in [Objects -> Int]
    BY <1>8 DEF UserClose, IInv, TypeOK
  <2>2. TypeOK'
    BY <1>8, <2>1 DEF UserClose, IInv, TypeOK, freeList
  <2>. QED
    BY <1>8, <2>2, SameTableIInv DEF UserClose
<1>9. CASE Finalize
  <2>1. TypeOK'
    BY <1>9 DEF Finalize, IInv, TypeOK, freeList, objects
  <2>. QED
    BY <1>9, <2>1, SameTableIInv DEF Finalize
<1>10. CASE FinalizeClose
  <2>1. refs' \in [Objects -> Int]
    BY <1>10 DEF FinalizeClose, IInv, TypeOK
  <2>2. TypeOK'
    BY <1>10, <2>1 DEF FinalizeClose, IInv, TypeOK, freeList
  <2>. QED
    BY <1>10, <2>2, SameTableIInv DEF FinalizeClose
<1>11. CASE UNCHANGED vars
  <2>1. TypeOK'
    BY <1>11 DEF vars, IInv, TypeOK, freeList, objects
  <2>. QED
    BY <1>11, <2>1, SameTableIInv DEF vars
<1>. QED
    BY <1>1, <1>2, <1>3, <1>4, <1>5, <1>6, <1>7, <1>8, <1>9, <1>10, <1>11 DEF Next

-----------------------------------------------------------------------------
(* IInv is an invariant of the table.                                       *)
THEOREM Invariance == Spec => []IInv
    BY InitIInv, NextIInv, PTL DEF Spec

(* The fields of the table stay in their ranges: the index, the linear id   *)
(* and the count never leave the widths the table has for them.             *)
THEOREM TypeCorrect == Spec => []TypeOK
<1>1. IInv => TypeOK
    BY DEF IInv
<1>. QED
    BY <1>1, Invariance, PTL

(* The free list holds the entries that no handle stands for, each once.    *)
THEOREM FreeListCorrect == Spec => []FreeListExact
<1>1. IInv => FreeListExact
    BY DEF IInv
<1>. QED
    BY <1>1, Invariance, PTL

(* A handle stands for its object, alone on its entry, until it is removed. *)
THEOREM HandlesStand == Spec => []HandlesResolve
<1>1. IInv => HandlesResolve
    BY DEF IInv
<1>. QED
    BY <1>1, Invariance, PTL

(* IsValidHandle refuses a handle that was given up, until its linear id is *)
(* given out again.                                                         *)
THEOREM StaleDead == Spec => []StaleHandleDead
<1>1. IInv => StaleHandleDead
    BY DEF IInv
<1>. QED
    BY <1>1, Invariance, PTL

-----------------------------------------------------------------------------
(* Reference counts.                                                        *)

\* Finalize closes entries only once it has emptied the table.
CursorInv == m_table_size > 0 => cursor = TableSize

\* The entries whose reference to o is not closed yet.
EntriesOf(o) == {i \in Index : m_objects[i] = o /\ (m_table_size > 0 \/ i >= cursor)}

(* An object has finitely many entries, one more when it is put into an     *)
(* entry and one fewer when it leaves it.                                   *)
LEMMA EntriesCount ==
    ASSUME NEW o
    PROVE  /\ Cardinality(EntriesOf(o)) \in Nat
           /\ \A i : i \notin EntriesOf(o) =>
                Cardinality(EntriesOf(o) \union {i}) = Cardinality(EntriesOf(o)) + 1
           /\ \A i : i \in EntriesOf(o) =>
                Cardinality(EntriesOf(o) \ {i}) = Cardinality(EntriesOf(o)) - 1
<1>1. IsFiniteSet(Index)
    BY FS_Interval DEF Index
<1>2. IsFiniteSet(EntriesOf(o))
    BY <1>1, FS_Subset DEF EntriesOf
<1>. QED
    BY <1>2, FS_CardinalityType, FS_AddElement, FS_RemoveElement

(* The counts stay exact when the entries of each object stay the same and  *)
(* refs moves with users and toClose.                                       *)
LEMMA SameEntriesRefs ==
    ASSUME TypeOK, RefsExact,
           \A o \in Objects : EntriesOf(o)' = EntriesOf(o),
           \A o \in Objects :
              refs'[o] - (users'[o] + toClose'[o]) = refs[o] - (users[o] + toClose[o]),
           users' \in [Objects -> Int], toClose' \in [Objects -> Int],
           refs' \in [Objects -> Int]
    PROVE  RefsExact'
<1>. SUFFICES ASSUME NEW o \in Objects
              PROVE  refs'[o] = users'[o] + toClose'[o] + Cardinality(EntriesOf(o)')
    BY DEF RefsExact, EntriesOf
<1>1. refs[o] = users[o] + toClose[o] + Cardinality(EntriesOf(o))
    BY DEF RefsExact, EntriesOf
<1>2. /\ users[o] \in Int /\ toClose[o] \in Int /\ refs[o] \in Int
      /\ users'[o] \in Int /\ toClose'[o] \in Int /\ refs'[o] \in Int
      /\ Cardinality(EntriesOf(o)) \in Nat
    BY EntriesCount DEF TypeOK
<1>. QED
    BY <1>1, <1>2

(* The counts stay exact when an object enters the entry i, which was empty.*)
LEMMA FilledEntryRefs ==
    ASSUME TypeOK, RefsExact, NEW i \in Index, NEW o \in Objects,
           m_table_size > 0, UNCHANGED <<m_table_size, users, toClose>>,
           m_objects[i] = None,
           m_objects' = [m_objects EXCEPT ![i] = o],
           refs' = [refs EXCEPT ![o] = @ + 1]
    PROVE  RefsExact'
<1>. SUFFICES ASSUME NEW p \in Objects
              PROVE  refs'[p] = users[p] + toClose[p] + Cardinality(EntriesOf(p)')
    BY DEF RefsExact, EntriesOf
<1>1. refs[p] = users[p] + toClose[p] + Cardinality(EntriesOf(p))
    BY DEF RefsExact, EntriesOf
<1>2. /\ users[p] \in Int /\ toClose[p] \in Int /\ refs[p] \in Int
      /\ Cardinality(EntriesOf(p)) \in Nat
    BY EntriesCount DEF TypeOK
<1>3. CASE p = o
  <2>1. EntriesOf(p)' = EntriesOf(p) \union {i} /\ i \notin EntriesOf(p)
    BY <1>3 DEF EntriesOf, TypeOK
  <2>2. Cardinality(EntriesOf(p)') = Cardinality(EntriesOf(p)) + 1
    BY <2>1, EntriesCount
  <2>3. refs'[p] = refs[p] + 1
    BY <1>3 DEF TypeOK
  <2>. QED
    BY ONLY <1>1, <1>2, <2>2, <2>3
<1>4. CASE p # o
  <2>1. EntriesOf(p)' = EntriesOf(p)
    BY <1>4 DEF EntriesOf, TypeOK
  <2>2. refs'[p] = refs[p]
    BY <1>4 DEF TypeOK
  <2>. QED
    BY <1>1, <2>1, <2>2
<1>. QED
    BY <1>3, <1>4

(* The counts stay exact when an object leaves an entry: the reference goes *)
(* to the removal under way, or is closed.                                  *)
LEMMA EmptiedEntryRefs ==
    ASSUME TypeOK, RefsExact, NEW i \in Index, NEW o \in Objects, i \in EntriesOf(o),
           \A p \in Objects : EntriesOf(p)' = EntriesOf(p) \ {i},
           \/ toClose' = [toClose EXCEPT ![o] = @ + 1] /\ UNCHANGED refs
           \/ refs' = [refs EXCEPT ![o] = @ - 1] /\ UNCHANGED toClose,
           UNCHANGED users
    PROVE  RefsExact'
<1>. SUFFICES ASSUME NEW p \in Objects
              PROVE  refs'[p] = users[p] + toClose'[p] + Cardinality(EntriesOf(p)')
    BY DEF RefsExact, EntriesOf
<1>1. refs[p] = users[p] + toClose[p] + Cardinality(EntriesOf(p))
    BY DEF RefsExact, EntriesOf
<1>2. /\ users[p] \in Int /\ toClose[p] \in Int /\ refs[p] \in Int
      /\ Cardinality(EntriesOf(p)) \in Nat
    BY EntriesCount DEF TypeOK
<1>3. CASE p = o
  <2>1. Cardinality(EntriesOf(p)') = Cardinality(EntriesOf(p)) - 1
    BY <1>3, EntriesCount
  <2>2. \/ toClose'[p] = toClose[p] + 1 /\ refs'[p] = refs[p]
        \/ refs'[p] = refs[p] - 1 /\ toClose'[p] = toClose[p]
    BY <1>3 DEF TypeOK
  <2>. QED
    BY ONLY <1>1, <1>2, <2>1, <2>2
<1>4. CASE p # o
  <2>1. i \notin EntriesOf(p)
    BY <1>4 DEF EntriesOf
  <2>2. EntriesOf(p)' = EntriesOf(p)
    BY <2>1
  <2>3. refs'[p] = refs[p] /\ toClose'[p] = toClose[p]
    BY <1>4 DEF TypeOK
  <2>. QED
    BY <1>1, <2>2, <2>3
<1>. QED
    BY <1>3, <1>4

(* Every operation keeps the counts exact.                                  *)
LEMMA NextRefs ==
    ASSUME IInv, CursorInv, RefsExact, [Next]_vars PROVE CursorInv' /\ RefsExact'
<1>. USE DEF IInv
<1>0. ASSUME UNCHANGED <<m_table_size, cursor>> PROVE CursorInv'
    BY <1>0 DEF CursorInv
<1>1. ASSUME NEW o \in Objects, Add(o) PROVE CursorInv' /\ RefsExact'
  <2>1. /\ m_free_head_index \in FreeIndices /\ m_table_size = TableSize
    BY <1>1, HeadIsFree DEF Add
  <2>2. m_free_head_index \in Index /\ m_objects[m_free_head_index] = None
    BY <2>1 DEF FreeIndices, Handles, Occupied
  <2>3. /\ m_objects' = [m_objects EXCEPT ![m_free_head_index] = o]
        /\ refs' = [refs EXCEPT ![o] = @ + 1]
        /\ UNCHANGED <<m_table_size, users, toClose, cursor>>
    BY <1>1 DEF Add, NewHandle
  <2>4. m_table_size > 0
    BY <2>1
  <2>. QED
    BY <1>0, <2>2, <2>3, <2>4, FilledEntryRefs
<1>2. ASSUME NEW h \in Handle, NEW o \in Objects, Register(h, o)
      PROVE  CursorInv' /\ RefsExact'
  <2>1. h \in reserved /\ h.index \in Index
    BY <1>2 DEF Register, Handle
  <2>2. m_objects[h.index] = None
    BY <2>1 DEF Occupied, HandlesResolve
  <2>3. CASE h.index < m_table_size
    <3>1. m_table_size > 0
      BY <2>1, <2>3 DEF Index, TypeOK
    <3>. QED
      BY <1>0, <1>2, <2>1, <2>2, <2>3, <3>1, FilledEntryRefs DEF Register
  <2>4. CASE ~(h.index < m_table_size)
    BY <1>0, <1>2, <2>4, SameEntriesRefs DEF Register, TypeOK, EntriesOf
  <2>. QED
    BY <2>3, <2>4
<1>3. ASSUME NEW h \in Handle, Unreserve(h) PROVE CursorInv' /\ RefsExact'
  <2>1. h \in reserved /\ h.index \in Index
    BY <1>3 DEF Unreserve, Handle
  <2>2. m_objects[h.index] = None
    BY <2>1 DEF Occupied, HandlesResolve
  <2>3. \A i \in Index : m_objects'[i] = m_objects[i]
    BY <1>3, <2>1, <2>2 DEF Unreserve, FreeEntry, ObjectFreed, TypeOK
  <2>. QED
    BY <1>0, <1>3, <2>3, SameEntriesRefs DEF Unreserve, TypeOK, EntriesOf, objects
<1>4. ASSUME NEW h \in Handle, Remove(h) PROVE CursorInv' /\ RefsExact'
  <2>1. h.index \in Index /\ m_objects[h.index] \in Objects /\ m_table_size > 0
    BY <1>4 DEF Remove, IsValidHandle, Handle, TypeOK, Index
  <2>2. h.index \in EntriesOf(m_objects[h.index])
    BY <2>1 DEF EntriesOf
  <2>3. ASSUME NEW p \in Objects PROVE EntriesOf(p)' = EntriesOf(p) \ {h.index}
    BY <1>4, <2>1 DEF Remove, FreeEntry, ObjectFreed, EntriesOf, TypeOK
  <2>. QED
    BY <1>0, <1>4, <2>1, <2>2, <2>3, EmptiedEntryRefs DEF Remove
<1>5. ASSUME FinalizeClose PROVE CursorInv' /\ RefsExact'
  <2>1. m_table_size = 0 /\ cursor \in Index
    BY <1>5 DEF FinalizeClose, CursorInv, TypeOK, Index
  <2>2. ASSUME NEW p \in Objects PROVE EntriesOf(p)' = EntriesOf(p) \ {cursor}
    BY <1>5, <2>1 DEF FinalizeClose, EntriesOf, TypeOK, Index
  <2>3. CASE m_objects[cursor] # None
    <3>1. m_objects[cursor] \in Objects /\ cursor \in EntriesOf(m_objects[cursor])
      BY <2>1, <2>3 DEF EntriesOf, TypeOK, Index
    <3>. QED
      BY <1>5, <2>1, <2>2, <2>3, <3>1, EmptiedEntryRefs DEF FinalizeClose, CursorInv
  <2>4. CASE m_objects[cursor] = None
    <3>1. \A p \in Objects : cursor \notin EntriesOf(p)
      BY <2>4 DEF EntriesOf
    <3>2. \A p \in Objects : EntriesOf(p)' = EntriesOf(p)
      BY <2>2, <3>1
    <3>. QED
      BY <1>5, <2>1, <2>4, <3>2, SameEntriesRefs DEF FinalizeClose, CursorInv, TypeOK
  <2>. QED
    BY <2>3, <2>4
<1>6. ASSUME Finalize PROVE CursorInv' /\ RefsExact'
  <2>1. \A p \in Objects : EntriesOf(p)' = EntriesOf(p)
    BY <1>6 DEF Finalize, EntriesOf, Index
  <2>. QED
    BY <1>6, <2>1, SameEntriesRefs DEF Finalize, CursorInv, TypeOK, objects
<1>7. ASSUME NEW o \in Objects, RemoveClose(o) PROVE CursorInv' /\ RefsExact'
    BY <1>0, <1>7, SameEntriesRefs DEF RemoveClose, EntriesOf, TypeOK
<1>8. ASSUME NEW o \in Objects, UserClose(o) PROVE CursorInv' /\ RefsExact'
    BY <1>0, <1>8, SameEntriesRefs DEF UserClose, EntriesOf, TypeOK
<1>9. ASSUME NEW h \in Handle, GetObject(h) PROVE CursorInv' /\ RefsExact'
  <2>1. m_objects[h.index] \in Objects
    BY <1>9 DEF GetObject, IsValidHandle, Handle, TypeOK
  <2>. QED
    BY <1>0, <1>9, <2>1, SameEntriesRefs DEF GetObject, EntriesOf, TypeOK
<1>10. ASSUME Reserve \/ UNCHANGED vars PROVE CursorInv' /\ RefsExact'
    BY <1>0, <1>10 DEF Reserve, RefsExact, vars, objects
<1>. QED
    BY <1>1, <1>2, <1>3, <1>4, <1>5, <1>6, <1>7, <1>8, <1>9, <1>10 DEF Next

(* The reference count of an object is exact in every reachable state: no   *)
(* interleaving of lookups, removals and a finalization closes a reference  *)
(* twice or forgets one.                                                    *)
THEOREM RefsCorrect == Spec => []RefsExact
<1>1. Init => CursorInv /\ RefsExact
  <2>. SUFFICES ASSUME Init PROVE RefsExact
    BY DEF Init, CursorInv
  <2>1. \A o \in Objects : {i \in Index : m_objects[i] = o /\ (m_table_size > 0 \/ i >= cursor)} = {}
    BY DEF Init
  <2>2. \A o \in Objects : users[o] \in Int /\ refs[o] = users[o] /\ toClose[o] = 0
    BY DEF Init
  <2>. QED
    BY <2>1, <2>2, FS_EmptySet DEF RefsExact
<1>2. IInv /\ CursorInv /\ RefsExact /\ [Next]_vars => (CursorInv /\ RefsExact)'
    BY NextRefs
<1>. QED
    BY <1>1, <1>2, Invariance, PTL DEF Spec

(* The table is exact after any sequence of Add, Reserve, Register, Remove, *)
(* lookups and Finalize, whatever its size and however ids wrap around.     *)
THEOREM TableIsExact == Spec => []TableExact
<1>. QED
    BY FreeListCorrect, HandlesStand, StaleDead, RefsCorrect, PTL DEF TableExact
=============================================================================
