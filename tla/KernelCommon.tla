------------------------------ MODULE KernelCommon ------------------------------
(***************************************************************************)
(* Threads, and integers of w bits that wrap around (s32, s64).            *)
(***************************************************************************)
EXTENDS Integers, FiniteSets

CONSTANTS Threads, NoThread

ASSUME ThreadsAssumption == NoThread \notin Threads

Half(w) == 2^(w - 1)
Signed(w) == -Half(w) .. Half(w) - 1
Wrap(w, x) == ((x + Half(w)) % (2 * Half(w))) - Half(w)
=============================================================================
