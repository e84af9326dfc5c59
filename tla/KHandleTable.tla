----------------------------- MODULE KHandleTable -----------------------------
(***************************************************************************)
(* A process's handle table (KHandleTable): entries with an object, a free *)
(* list threaded through the entry infos, and handles that pair an index   *)
(* with a linear id.                                                       *)
(*                                                                         *)
(* Each section under m_lock is atomic.  An entry info is a union: it is   *)
(* the linear id of a used entry and the next index of a free one.  Ids    *)
(* have 15 bits, so the -1 that ends the free list is no id.               *)
(***************************************************************************)
EXTENDS Integers, FiniteSets

CONSTANTS TableSize,    \* entries of the table
          MaxLinearId,
          Objects,
          MaxRefs,      \* bound on the references users hold to an object,
                        \* and on the removals of it under way
          None          \* nullptr

MinLinearId == 1

ASSUME TableAssumption ==
    /\ TableSize \in Nat \ {0}
    /\ MaxLinearId \in Nat \ {0}
    /\ MaxRefs \in Nat
    /\ None \notin Objects

VARIABLES m_table_size, m_free_head_index, m_next_linear_id, m_count,
          m_entry_infos, m_objects,
          open,      \* the handles that stand for objects, with the object
          reserved,  \* the handles from Reserve that are not registered yet
          stale,     \* handles given up since their linear id was last given out
          users,     \* references that callers hold to each object
          toClose,   \* references of entries freed by Remove, closed next
          refs,      \* the reference count of each object
          cursor     \* the entry Finalize closes next

freeList == <<m_free_head_index, m_count>>
objects == <<users, toClose, refs>>
vars == <<m_table_size, freeList, m_next_linear_id, m_entry_infos, m_objects,
          open, reserved, stale, objects, cursor>>

Index == 0..(TableSize - 1)
Id == MinLinearId..MaxLinearId
Handle == [index : Index, linear_id : Id]

TypeOK ==
    /\ m_table_size \in {0, TableSize}
    /\ m_free_head_index \in Index \union {-1}
    /\ m_next_linear_id \in Id
    /\ m_count \in 0..TableSize
    /\ m_entry_infos \in [Index -> Index \union {-1} \union Id]
    /\ m_objects \in [Index -> Objects \union {None}]
    /\ open \subseteq Handle \X Objects
    /\ reserved \subseteq Handle
    /\ stale \subseteq Handle
    /\ users \in [Objects -> 0..MaxRefs]
    /\ toClose \in [Objects -> Nat]
    /\ refs \in [Objects -> Int]
    /\ cursor \in 0..TableSize

\* Initialize: entry i is followed by entry i - 1 in the free list.
Init ==
    /\ m_table_size = TableSize
    /\ m_free_head_index = TableSize - 1
    /\ m_next_linear_id = MinLinearId
    /\ m_count = 0
    /\ m_entry_infos = [i \in Index |-> i - 1]
    /\ m_objects = [i \in Index |-> None]
    /\ open = {}
    /\ reserved = {}
    /\ stale = {}
    /\ users \in [Objects -> 0..MaxRefs]
    /\ toClose = [o \in Objects |-> 0]
    /\ refs = users
    /\ cursor = TableSize

-----------------------------------------------------------------------------
NextId == IF m_next_linear_id + 1 > MaxLinearId THEN MinLinearId
          ELSE m_next_linear_id + 1

AllocateLinearId ==
    /\ m_next_linear_id' = NextId
    /\ stale' = {h \in stale : h.linear_id # m_next_linear_id}

\* Fault: the entry stays in the free list.
NextHead_Same == m_free_head_index

NextHead == m_entry_infos[m_free_head_index]

AllocateEntry ==
    /\ m_free_head_index' = NextHead
    /\ m_count' = m_count + 1

\* The handle the next allocation makes.
NewHandle == [index |-> m_free_head_index, linear_id |-> m_next_linear_id]

\* Fault: the object of a freed entry stays in the table.
ObjectFreed_Kept(index) == m_objects

ObjectFreed(index) == [m_objects EXCEPT ![index] = None]

FreeEntry(index) ==
    /\ m_objects' = ObjectFreed(index)
    /\ m_entry_infos' = [m_entry_infos EXCEPT ![index] = m_free_head_index]
    /\ m_free_head_index' = index
    /\ m_count' = m_count - 1

IsValidHandle(h) ==
    /\ h.index < m_table_size
    /\ m_objects[h.index] # None
    /\ m_entry_infos[h.index] = h.linear_id

HasRoom == m_count < m_table_size

-----------------------------------------------------------------------------
\* The caller holds a reference to the object it adds.
Add(o) ==
    /\ users[o] > 0
    /\ HasRoom
    /\ AllocateLinearId
    /\ AllocateEntry
    /\ m_entry_infos' = [m_entry_infos EXCEPT ![NewHandle.index] = NewHandle.linear_id]
    /\ m_objects' = [m_objects EXCEPT ![NewHandle.index] = o]
    /\ refs' = [refs EXCEPT ![o] = @ + 1]
    /\ open' = open \union {<<NewHandle, o>>}
    /\ UNCHANGED <<m_table_size, reserved, users, toClose, cursor>>

Reserve ==
    /\ HasRoom
    /\ AllocateLinearId
    /\ AllocateEntry
    /\ reserved' = reserved \union {NewHandle}
    /\ UNCHANGED <<m_table_size, m_entry_infos, m_objects, open, objects, cursor>>

\* Nothing happens to a table that has been finalized.
Register(h, o) ==
    /\ h \in reserved
    /\ users[o] > 0
    /\ reserved' = reserved \ {h}
    /\ IF h.index < m_table_size
       THEN /\ m_entry_infos' = [m_entry_infos EXCEPT ![h.index] = h.linear_id]
            /\ m_objects' = [m_objects EXCEPT ![h.index] = o]
            /\ refs' = [refs EXCEPT ![o] = @ + 1]
            /\ open' = open \union {<<h, o>>}
       ELSE UNCHANGED <<m_entry_infos, m_objects, refs, open>>
    /\ UNCHANGED <<m_table_size, freeList, m_next_linear_id, stale, users, toClose,
                   cursor>>

Unreserve(h) ==
    /\ h \in reserved
    /\ reserved' = reserved \ {h}
    /\ stale' = stale \union {h}
    /\ IF h.index < m_table_size THEN FreeEntry(h.index)
       ELSE UNCHANGED <<freeList, m_entry_infos, m_objects>>
    /\ UNCHANGED <<m_table_size, m_next_linear_id, open, objects, cursor>>

\* The entry is freed under the lock, and the object closed after it.
Remove(h) ==
    /\ IsValidHandle(h)
    /\ toClose[m_objects[h.index]] < MaxRefs
    /\ toClose' = [toClose EXCEPT ![m_objects[h.index]] = @ + 1]
    /\ FreeEntry(h.index)
    /\ open' = {e \in open : e[1] # h}
    /\ stale' = stale \union {h}
    /\ UNCHANGED <<m_table_size, m_next_linear_id, reserved, users, refs, cursor>>

RemoveClose(o) ==
    /\ toClose[o] > 0
    /\ toClose' = [toClose EXCEPT ![o] = @ - 1]
    /\ refs' = [refs EXCEPT ![o] = @ - 1]
    /\ UNCHANGED <<m_table_size, freeList, m_next_linear_id, m_entry_infos,
                   m_objects, open, reserved, stale, users, cursor>>

\* A lookup opens a reference for its caller before the lock is released.
GetObject(h) ==
    /\ IsValidHandle(h)
    /\ LET o == m_objects[h.index]
       IN  /\ users[o] < MaxRefs
           /\ users' = [users EXCEPT ![o] = @ + 1]
           /\ refs' = [refs EXCEPT ![o] = @ + 1]
    /\ UNCHANGED <<m_table_size, freeList, m_next_linear_id, m_entry_infos,
                   m_objects, open, reserved, stale, toClose, cursor>>

\* A user gives its reference back.
UserClose(o) ==
    /\ users[o] > 0
    /\ users' = [users EXCEPT ![o] = @ - 1]
    /\ refs' = [refs EXCEPT ![o] = @ - 1]
    /\ UNCHANGED <<m_table_size, freeList, m_next_linear_id, m_entry_infos,
                   m_objects, open, reserved, stale, toClose, cursor>>

\* The table is emptied under the lock, and its entries closed after it.
Finalize ==
    /\ m_table_size > 0
    /\ m_table_size' = 0
    /\ cursor' = 0
    /\ UNCHANGED <<freeList, m_next_linear_id, m_entry_infos, m_objects, open,
                   reserved, stale, objects>>

FinalizeClose ==
    /\ cursor < TableSize
    /\ cursor' = cursor + 1
    /\ IF m_objects[cursor] # None
       THEN refs' = [refs EXCEPT ![m_objects[cursor]] = @ - 1]
       ELSE UNCHANGED refs
    /\ UNCHANGED <<m_table_size, freeList, m_next_linear_id, m_entry_infos,
                   m_objects, open, reserved, stale, users, toClose>>

-----------------------------------------------------------------------------
Next ==
    \/ \E o \in Objects : Add(o)
    \/ Reserve
    \/ \E h \in Handle, o \in Objects : Register(h, o)
    \/ \E h \in Handle : Unreserve(h)
    \/ \E h \in Handle : Remove(h)
    \/ \E h \in Handle : GetObject(h)
    \/ \E o \in Objects : RemoveClose(o)
    \/ \E o \in Objects : UserClose(o)
    \/ Finalize
    \/ FinalizeClose

Spec == Init /\ [][Next]_vars

-----------------------------------------------------------------------------
Handles == {e[1] : e \in open} \union reserved
FreeIndices == {i \in Index : \A h \in Handles : h.index # i}

\* f lists the free entries from the end of the free list to its head.
IsFreeList(f) ==
    LET n == TableSize - m_count
    IN  /\ f \in [1..n -> Index]
        /\ \A j, k \in 1..n : f[j] = f[k] => j = k
        /\ \A i \in Index : i \in FreeIndices <=> \E k \in 1..n : f[k] = i
        /\ m_free_head_index = IF n = 0 THEN -1 ELSE f[n]
        /\ \A k \in 1..n :
             m_entry_infos[f[k]] = IF k = 1 THEN -1 ELSE f[k - 1]

(* The free list, threaded by AllocateEntry and FreeEntry through a union   *)
(* whose other member is in use, holds each entry that no handle stands     *)
(* for, once, and m_count counts the others, until the table is finalized.  *)
FreeListExact ==
    m_table_size > 0 =>
        \E f \in [1..(TableSize - m_count) -> Index] : IsFreeList(f)

(* A handle stands for the object it was made for until it is removed, and  *)
(* no two handles share an entry, a reserved one included.                  *)
HandlesResolve ==
    /\ \A e \in open :
         /\ m_objects[e[1].index] = e[2]
         /\ m_table_size > 0 => IsValidHandle(e[1])
    /\ \A d, e \in open : d[1].index = e[1].index => d = e
    /\ \A e \in open, h \in reserved : e[1].index # h.index
    /\ \A g, h \in reserved : g.index = h.index => g = h

(* A handle that was given up is dead, whatever its entry is used for next, *)
(* until its linear id is given out again a whole cycle of ids later.       *)
StaleHandleDead == \A h \in stale : ~IsValidHandle(h)

(* The reference count of an object is exact: the references of users, of   *)
(* entries, and of removals and a finalization under way, none twice.       *)
RefsExact ==
    \A o \in Objects :
        refs[o] = users[o] + toClose[o]
                  + Cardinality({i \in Index :
                        m_objects[i] = o /\ (m_table_size > 0 \/ i >= cursor)})

(* The table is exact: its entries are on the free list or behind one live  *)
(* handle, a handle that was given up finds none of them, and the reference *)
(* counts of its objects are exact.                                         *)
TableExact == FreeListExact /\ HandlesResolve /\ StaleHandleDead /\ RefsExact
=============================================================================
