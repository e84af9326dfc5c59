----------------------------- MODULE KLightSession -----------------------------
(***************************************************************************)
(* A light IPC session (KLightSession, KLightClientSession,                *)
(* KLightServerSession).  The request list holds the waiting client        *)
(* threads themselves; the thread that is served stays at its head.        *)
(*                                                                         *)
(* Sections under the scheduler lock are atomic.  The loop of              *)
(* CleanupRequests is unrolled: it holds the scheduler lock, so nothing    *)
(* else happens while it has a node in its hands.  A side is destroyed     *)
(* with its last reference, so no call of that side is in progress then.   *)
(***************************************************************************)
EXTENDS Integers, Sequences, SequencesExt

CONSTANTS LightClients,  \* client threads
          LightServers,  \* server threads
          NoThread       \* nullptr, InvalidThreadId

ASSUME LightAssumption ==
    /\ NoThread \notin LightClients \union LightServers
    /\ LightClients \intersect LightServers = {}

VARIABLES lightState,     \* m_state
          lightList,      \* m_request_list
          lightCurrent,   \* m_current_request
          serverThread,   \* m_server_thread
          serverThreadId, \* m_server_thread_id
          lightClient,    \* what each client thread does
          lightServer,    \* what each server thread does
          lightTerm,      \* the thread is to terminate
          waitCancelled,  \* KThread::m_wait_cancelled of a server thread
          cursor,         \* the node CleanupRequests has in its hands
          lightClosing    \* progress of the Destroy of either side

receiver == <<lightCurrent, serverThread, serverThreadId>>
lightVars == <<lightState, lightList, receiver, lightClient, lightServer, lightTerm,
               waitCancelled, cursor, lightClosing>>

LightThreads == LightClients \union LightServers
Ends == {"client", "server"}

LightTypeOK ==
    /\ lightState \in {"Normal", "ServerClosed", "ClientClosed"}
    /\ lightList \in Seq(LightClients) /\ IsInjective(lightList)
    /\ lightCurrent \in LightClients \union {NoThread}
    /\ {serverThread, serverThreadId} \subseteq LightServers \union {NoThread}
    /\ lightClient \in [LightClients -> {"idle", "waiting", "elsewhere", "disturbed"}]
    /\ lightServer \in [LightServers -> {"idle", "receive", "wait"}]
    /\ lightTerm \in [LightThreads -> BOOLEAN]
    /\ waitCancelled \in [LightServers -> BOOLEAN]
    /\ cursor \in LightClients \union {NoThread}
    /\ lightClosing \in [Ends -> {"open", "check", "set", "cleanup", "loop", "closed"}]

LightInit ==
    /\ lightState = "Normal"
    /\ lightList = <<>>
    /\ lightCurrent = NoThread
    /\ serverThread = NoThread
    /\ serverThreadId = NoThread
    /\ lightClient = [t \in LightClients |-> "idle"]
    /\ lightServer = [s \in LightServers |-> "idle"]
    /\ lightTerm = [t \in LightThreads |-> FALSE]
    /\ waitCancelled = [s \in LightServers |-> FALSE]
    /\ cursor = NoThread
    /\ lightClosing = [d \in Ends |-> "open"]

\* The scheduler lock is free.
Unlocked == cursor = NoThread

LightIsClosed == lightState # "Normal"

-----------------------------------------------------------------------------
(* Ends of waits.                                                          *)

ListWithout(t) == RemoveFirst(lightList, t)

\* KThread::EndWait of a client thread, on whatever it waits for.
ClientAfterEndWait(t) ==
    CASE lightClient[t] = "waiting" -> [lightClient EXCEPT ![t] = "idle"]
      [] lightClient[t] = "elsewhere" -> [lightClient EXCEPT ![t] = "disturbed"]
      [] OTHER -> lightClient

LightMayEndWait(t) == ~lightTerm[t]

\* The answer to the current request: its thread is woken unless it is
\* terminating, and the session lets go of it.
AnswerCurrent ==
    /\ IF LightMayEndWait(lightCurrent)
       THEN /\ lightClient' = ClientAfterEndWait(lightCurrent)
            /\ lightList' = ListWithout(lightCurrent)
       ELSE UNCHANGED <<lightClient, lightList>>
    /\ lightCurrent' = NoThread
    /\ serverThreadId' = NoThread

\* The server threads after the EndWait of m_server_thread: with success it
\* goes round the loop of ReplyAndReceive, otherwise it returns.
ServerAfterEndWait(next) ==
    IF serverThread = NoThread THEN lightServer
    ELSE [lightServer EXCEPT ![serverThread] = next]

-----------------------------------------------------------------------------
(* Clients.                                                                *)

Woken == ServerAfterEndWait("receive")

OnRequest(t) ==
    /\ Unlocked
    /\ lightClient[t] = "idle"
    /\ lightClosing["client"] = "open"
    /\ ~LightIsClosed
    /\ ~lightTerm[t]
    /\ lightList' = Append(lightList, t)
    /\ lightClient' = [lightClient EXCEPT ![t] = "waiting"]
    /\ lightServer' = Woken
    /\ serverThread' = NoThread
    /\ UNCHANGED <<lightState, lightCurrent, serverThreadId, lightTerm, waitCancelled,
                   cursor, lightClosing>>

\* CancelWait takes a waiting client thread off the list; a waiting server
\* thread is no longer the one that is asleep.
LightRequestTerminate(t) ==
    /\ Unlocked
    /\ ~lightTerm[t]
    /\ lightTerm' = [lightTerm EXCEPT ![t] = TRUE]
    /\ IF t \in LightClients
       THEN /\ lightList' = ListWithout(t)
            /\ lightClient' = [lightClient EXCEPT ![t] = "idle"]
            /\ UNCHANGED <<lightServer, serverThread>>
       ELSE /\ lightServer' = [lightServer EXCEPT ![t] = IF @ = "wait" THEN "idle" ELSE @]
            /\ serverThread' = IF serverThread = t THEN NoThread ELSE serverThread
            /\ UNCHANGED <<lightList, lightClient>>
    /\ UNCHANGED <<lightState, lightCurrent, serverThreadId, waitCancelled, cursor,
                   lightClosing>>

\* On its way out a terminated thread waits for other things.
LightWaitElsewhere(t) ==
    /\ Unlocked
    /\ lightTerm[t]
    /\ lightClient[t] = "idle"
    /\ lightClient' = [lightClient EXCEPT ![t] = "elsewhere"]
    /\ UNCHANGED <<lightState, lightList, receiver, lightServer, lightTerm, waitCancelled,
                   cursor, lightClosing>>

-----------------------------------------------------------------------------
(* Servers: ReplyAndReceive.                                               *)

\* The reply, when the flag asks for one.
LightReply(s) ==
    /\ Unlocked
    /\ lightServer[s] = "idle"
    /\ lightClosing["server"] = "open"
    /\ ~LightIsClosed
    /\ lightCurrent # NoThread
    /\ serverThreadId = s
    /\ AnswerCurrent
    /\ lightServer' = [lightServer EXCEPT ![s] = "receive"]
    /\ UNCHANGED <<lightState, serverThread, lightTerm, waitCancelled, cursor,
                   lightClosing>>

\* A call without the flag has nothing to do before the receive.
NoReply(s) ==
    /\ Unlocked
    /\ lightServer[s] = "idle"
    /\ lightClosing["server"] = "open"
    /\ lightServer' = [lightServer EXCEPT ![s] = "receive"]
    /\ UNCHANGED <<lightState, lightList, receiver, lightClient, lightTerm, waitCancelled,
                   cursor, lightClosing>>

\* Fault: a thread that sleeps in the receive is not looked for.
MayReceive_Second(s) == serverThreadId = NoThread /\ ~LightIsClosed /\ ~lightTerm[s]

MayReceive(s) ==
    /\ serverThread = NoThread
    /\ serverThreadId = NoThread
    /\ ~LightIsClosed
    /\ ~lightTerm[s]

\* ResultInvalidState, ResultSessionClosed or ResultTerminationRequested; or
\* ResultCancelled where the thread would have to wait.
ReceiveFails(s) ==
    /\ Unlocked
    /\ lightServer[s] = "receive"
    /\ \/ /\ ~MayReceive(s)
          /\ UNCHANGED waitCancelled
       \/ /\ MayReceive(s)
          /\ lightList = <<>>
          /\ waitCancelled[s]
          /\ waitCancelled' = [waitCancelled EXCEPT ![s] = FALSE]
    /\ lightServer' = [lightServer EXCEPT ![s] = "idle"]
    /\ UNCHANGED <<lightState, lightList, receiver, lightClient, lightTerm, cursor,
                   lightClosing>>

\* Fault: the request that came last is served.
Received_Last == Last(lightList)

Received == Head(lightList)

Receive(s) ==
    /\ Unlocked
    /\ lightServer[s] = "receive"
    /\ MayReceive(s)
    /\ lightList # <<>>
    /\ lightCurrent' = Received
    /\ serverThreadId' = s
    /\ lightServer' = [lightServer EXCEPT ![s] = "idle"]
    /\ UNCHANGED <<lightState, lightList, serverThread, lightClient, lightTerm,
                   waitCancelled, cursor, lightClosing>>

ReceiveWaits(s) ==
    /\ Unlocked
    /\ lightServer[s] = "receive"
    /\ MayReceive(s)
    /\ lightList = <<>>
    /\ ~waitCancelled[s]
    /\ serverThread' = s
    /\ lightServer' = [lightServer EXCEPT ![s] = "wait"]
    /\ UNCHANGED <<lightState, lightList, lightCurrent, serverThreadId, lightClient,
                   lightTerm, waitCancelled, cursor, lightClosing>>

WaitCancel(s) ==
    /\ Unlocked
    /\ IF lightServer[s] = "wait"
       THEN /\ waitCancelled' = [waitCancelled EXCEPT ![s] = FALSE]
            /\ lightServer' = [lightServer EXCEPT ![s] = "idle"]
            /\ serverThread' = IF serverThread = s THEN NoThread ELSE serverThread
       ELSE /\ waitCancelled' = [waitCancelled EXCEPT ![s] = TRUE]
            /\ UNCHANGED <<lightServer, serverThread>>
    /\ UNCHANGED <<lightState, lightList, lightCurrent, serverThreadId, lightClient,
                   lightTerm, cursor, lightClosing>>

-----------------------------------------------------------------------------
(* Closing.                                                                *)

\* No call of the side is in progress.
LightUnreferenced(d) ==
    IF d = "client" THEN \A t \in LightClients : lightClient[t] # "waiting"
    ELSE \A s \in LightServers : lightServer[s] = "idle"

\* KLightServerSession::Destroy cleans up and then tells the session;
\* KLightClientSession::Destroy tells the session, which then cleans up.
LightCloseBegin(d) ==
    /\ Unlocked
    /\ lightClosing[d] = "open"
    /\ LightUnreferenced(d)
    /\ lightClosing' = [lightClosing EXCEPT ![d] = IF d = "client" THEN "check" ELSE "cleanup"]
    /\ UNCHANGED <<lightState, lightList, receiver, lightClient, lightServer, lightTerm,
                   waitCancelled, cursor>>

CloseCheckState(d) ==
    /\ lightClosing[d] = "check"
    /\ lightClosing' = [lightClosing EXCEPT ![d] = IF LightIsClosed THEN "closed" ELSE "set"]
    /\ UNCHANGED <<lightState, lightList, receiver, lightClient, lightServer, lightTerm,
                   waitCancelled, cursor>>

LightCloseSetState(d) ==
    /\ lightClosing[d] = "set"
    /\ lightState' = IF d = "client" THEN "ClientClosed" ELSE "ServerClosed"
    /\ lightClosing' = [lightClosing EXCEPT ![d] = IF d = "client" THEN "cleanup" ELSE "closed"]
    /\ UNCHANGED <<lightList, receiver, lightClient, lightServer, lightTerm,
                   waitCancelled, cursor>>

AfterCleanup(d) ==
    [lightClosing EXCEPT ![d] = IF d = "client" THEN "closed" ELSE "check"]

\* CleanupRequests up to its loop, and the whole of it when the list is
\* empty by then.
CleanupRequests(d) ==
    /\ Unlocked
    /\ lightClosing[d] = "cleanup"
    /\ IF lightCurrent # NoThread THEN AnswerCurrent
       ELSE UNCHANGED <<lightClient, lightList, lightCurrent, serverThreadId>>
    /\ IF lightList' = <<>>
       THEN /\ cursor' = NoThread
            /\ lightServer' = ServerAfterEndWait("idle")
            /\ serverThread' = NoThread
            /\ lightClosing' = AfterCleanup(d)
       ELSE /\ cursor' = Head(lightList')
            /\ lightClosing' = [lightClosing EXCEPT ![d] = "loop"]
            /\ UNCHANGED <<lightServer, serverThread>>
    /\ UNCHANGED <<lightState, lightTerm, waitCancelled>>

\* One turn of the loop over the list.  EndWait erases the node, and a node
\* that is not linked is its own successor.
CleanupLoop(d) ==
    /\ lightClosing[d] = "loop"
    /\ lightClient' = ClientAfterEndWait(cursor)
    /\ lightList' = ListWithout(cursor)
    /\ UNCHANGED <<lightState, receiver, lightServer, lightTerm, waitCancelled, cursor,
                   lightClosing>>

-----------------------------------------------------------------------------
LightNext ==
    \/ \E t \in LightClients : OnRequest(t) \/ LightWaitElsewhere(t)
    \/ \E t \in LightThreads : LightRequestTerminate(t)
    \/ \E s \in LightServers :
         \/ LightReply(s)
         \/ NoReply(s)
         \/ ReceiveFails(s)
         \/ Receive(s)
         \/ ReceiveWaits(s)
         \/ WaitCancel(s)
    \/ \E d \in Ends :
         \/ LightCloseBegin(d)
         \/ CloseCheckState(d)
         \/ LightCloseSetState(d)
         \/ CleanupRequests(d)
         \/ CleanupLoop(d)

LightSpec == LightInit /\ [][LightNext]_lightVars

-----------------------------------------------------------------------------
(* The request that is served is the oldest: m_current_request is at the    *)
(* head of the list, asleep, from the receive to the reply, unless its      *)
(* thread is terminating; its owner is the one server thread noted.         *)
CurrentIsOldest ==
    /\ lightCurrent # NoThread /\ ~lightTerm[lightCurrent] =>
          /\ lightList # <<>> /\ Head(lightList) = lightCurrent
          /\ lightClient[lightCurrent] = "waiting"
    /\ lightCurrent = NoThread <=> serverThreadId = NoThread

(* No server thread sleeps in ReplyAndReceive while a request is queued,    *)
(* and one that sleeps can be found: it is m_server_thread, so the next     *)
(* request or the close of the client wakes it.                             *)
LightServerSeesRequest ==
    \A s \in LightServers : lightServer[s] = "wait" => lightList = <<>> /\ serverThread = s
=============================================================================
