--------------------------- MODULE MCGraphicsServices ---------------------------
(***************************************************************************)
(* The services by which a guest draws, for TLC: the events of fences      *)
(* (NvhostCtrl) and the queue of buffers (BufferQueue) share no state, and *)
(* a behaviour is one of either.                                           *)
(***************************************************************************)
EXTENDS BufferQueue, NvhostCtrl

VARIABLE part \* the part that runs

mcVars == <<vars, ctrlVars, part>>

MCInit == Init /\ CtrlInit /\ part \in {"buffers", "events"}

MCNext ==
  \/ part = "buffers" /\ Next /\ UNCHANGED <<ctrlVars, part>>
  \/ part = "events" /\ CtrlNext /\ UNCHANGED <<vars, part>>

\* The fairness of FairSpec and of FairCtrlSpec, for the part that runs.
MCSpec ==
  /\ MCInit /\ [][MCNext]_mcVars
  /\ WF_vars(part = "buffers" /\ ~ Jumped /\ Compose)
  /\ WF_vars(part = "buffers" /\ ~ Jumped /\ Dispdrv)
  /\ WF_ctrlVars(part = "events" /\ ~ Crashed /\ ServiceStep)
  /\ \A i \in Incrementers : SF_ctrlVars(part = "events" /\ ~ Crashed /\ GpuStep(i))
=============================================================================
