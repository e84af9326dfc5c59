---------------------------- MODULE SyncpointManager ----------------------------
(***************************************************************************)
(* A syncpoint of the host1x unit (Tegra::Host1x::SyncpointManager): GPU   *)
(* side threads increment it, others register actions to be run when it    *)
(* reaches a value, or wait for that.                                      *)
(*                                                                         *)
(* The value is incremented before guard is taken, so that it runs ahead   *)
(* of the actions.  What an action does is left to the module that         *)
(* registers it; a thread that runs one does so inside Increment, with     *)
(* guard, or inside RegisterAction, with or without it.  The value stays   *)
(* below the wrap-around of u32.                                           *)
(***************************************************************************)
EXTENDS Integers, Sequences, SequencesExt

CONSTANTS Incrementers, \* threads that increment the syncpoint
          Nobody        \* nobody holds guard

VARIABLES value,   \* syncpoints_host
          guard,   \* owner of guard
          storage, \* host_action_storage
          inc,     \* where each incrementer is
          newValue \* its new_value

syncpoint == <<value, guard, storage, inc, newValue>>

SyncpointInit ==
  /\ value = 0
  /\ guard = Nobody
  /\ storage = <<>>
  /\ inc = [i \in Incrementers |-> "idle"]
  /\ newValue = [i \in Incrementers |-> 0]

IsReady(v) == value >= v
-----------------------------------------------------------------------------
(* Increment *)

IncrementValue(i) ==
  /\ inc[i] = "idle"
  /\ value' = value + 1
  /\ newValue' = [newValue EXCEPT ![i] = value + 1]
  /\ inc' = [inc EXCEPT ![i] = "lock"]
  /\ UNCHANGED <<guard, storage>>

IncrementLock(i) ==
  /\ inc[i] = "lock" /\ guard = Nobody
  /\ guard' = i
  /\ inc' = [inc EXCEPT ![i] = "loop"]
  /\ UNCHANGED <<value, storage, newValue>>

\* The actions are run from the front until one is not due.
HeadDue(i) == storage # <<>> /\ Head(storage).expected <= newValue[i]

\* The action at the front is run; it is erased when it returns.
IncrementRun(i, first) ==
  /\ inc[i] = "loop" /\ HeadDue(i)
  /\ inc' = [inc EXCEPT ![i] = first]
  /\ UNCHANGED <<value, guard, storage, newValue>>

IncrementErase(i) ==
  /\ storage' = Tail(storage)
  /\ inc' = [inc EXCEPT ![i] = "loop"]
  /\ UNCHANGED <<value, guard, newValue>>

\* The threads that wait are notified and guard is released.
IncrementEnd(i) ==
  /\ inc[i] = "loop" /\ ~ HeadDue(i)
  /\ guard' = Nobody
  /\ inc' = [inc EXCEPT ![i] = "idle"]
  /\ newValue' = [newValue EXCEPT ![i] = 0]
  /\ UNCHANGED <<value, storage>>
-----------------------------------------------------------------------------
(* RegisterAction and DeregisterAction *)

\* Fault: a new action goes to the end of the list.
InsertPlace_Last(v) == Len(storage)

\* How many actions stay in front of one for v: those before the first whose value is
\* not lower.
InsertPlace(v) == SelectInSeq(Append(storage, [expected |-> v]), LAMBDA a : a.expected >= v) - 1

Inserted(a) == InsertAt(storage, InsertPlace(a.expected) + 1, a)

\* The action is erased if the list still has it.
Erased(a) == RemoveFirst(storage, a)
=============================================================================
