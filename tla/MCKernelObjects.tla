---------------------------- MODULE MCKernelObjects ----------------------------
(***************************************************************************)
(* Three small parts of the kernel for TLC: KHandleTable, KResourceLimit   *)
(* and KAddressArbiter share no state, and a behaviour is one of one part; *)
(* the others stay as they begin.                                          *)
(***************************************************************************)
EXTENDS KHandleTable, KResourceLimit, KAddressArbiter, TLC

CONSTANTS t1, t2, t3

VARIABLE part \* the part that runs

\* Of the threads that use the arbiter t1 is better than the other two, which are equal.
MCPriority == t1 :> 1 @@ t2 :> 2 @@ t3 :> 2
MCSymmetry == Permutations({t2, t3}) \union Permutations(Objects)

mcVars == <<vars, limitVars, arbiterVars, part>>

\* One state of the table is enough for the other parts.
MCInit ==
  /\ Init /\ LimitInit /\ ArbiterInit
  /\ part \in {"handles", "limit", "arbiter"}
  /\ part # "handles" => users = [o \in Objects |-> 0]

MCNext ==
  \/ part = "handles" /\ Next /\ UNCHANGED <<limitVars, arbiterVars, part>>
  \/ part = "limit" /\ LimitNext /\ UNCHANGED <<vars, arbiterVars, part>>
  \/ part = "arbiter" /\ ArbiterNext /\ UNCHANGED <<vars, limitVars, part>>

MCSpec == MCInit /\ [][MCNext]_mcVars
=============================================================================
