------------------------------ MODULE MCSessions ------------------------------
(***************************************************************************)
(* The sessions of the kernel for TLC: KServerSession and KLightSession    *)
(* share no state, and a behaviour is one of either.                       *)
(***************************************************************************)
EXTENDS KServerSession, KLightSession

VARIABLE kind \* the kind of session

mcVars == <<vars, lightVars, kind>>

MCInit == Init /\ LightInit /\ kind \in {"session", "light"}

MCNext ==
  \/ kind = "session" /\ Next /\ UNCHANGED <<lightVars, kind>>
  \/ kind = "light" /\ LightNext /\ UNCHANGED <<vars, kind>>

\* The fairness of KServerSession!FairSpec.
MCSpec ==
  /\ MCInit /\ [][MCNext]_mcVars
  /\ kind = "session" =>
       /\ \A s \in Servers : /\ WF_vars(ServerStep(s) \/ ReceiveFail(s))
                             /\ SF_vars(Lock(s))
       /\ WF_vars(CloseStep) /\ \A side \in Sides : SF_vars(CloseLock(side))

\* The request that is served is the oldest of a light session; and a request of a session
\* is neither freed while it is used, nor answered twice, nor forgotten.
RequestsKept == RefsExact /\ AnsweredOnce /\ CurrentIsOldest

\* No server thread sleeps while there is a request for it, of either kind of session.
ServersSeeRequests == ServerSeesRequest /\ LightServerSeesRequest
=============================================================================
