----------------------------- MODULE ServerManager -----------------------------
(***************************************************************************)
(* The loop in which an HLE service serves its sessions (ServerManager),   *)
(* with the registry of named services (SM::ServiceManager) whose          *)
(* GetService requests are deferred until the service is there.            *)
(*                                                                         *)
(* Host threads take turns to wait for the holders of m_multi_wait; the    *)
(* one that is signaled is unlinked, handled by that thread without any    *)
(* lock, and linked again through m_deferred_list and the wakeup event.    *)
(* Two servers differ in what they use: sm: manages a deferral event and   *)
(* has one thread, bsd:u starts additional threads and defers nothing.     *)
(*                                                                         *)
(* Sections under m_deferred_list_mutex, the lock of the registry or the   *)
(* scheduler lock are atomic.  A kernel session is what its server sees of *)
(* it (KServerSession has its inside): whether its client is open, and     *)
(* whether a request is queued or in the hands of the server.              *)
(***************************************************************************)
EXTENDS Integers, FiniteSets, Sequences, SequencesExt

CONSTANTS Main,     \* the host thread of LoopProcess
          Extra,    \* the threads of StartAdditionalHostThreads
          Sessions, \* the sessions that clients may open, each once
          None      \* nullptr

VARIABLES server,           \* which server this is
          stop,             \* progress of the destructor
          wakeup,           \* m_wakeup_event is signaled
          deferral,         \* m_deferral_event is signaled
          multiWait,        \* m_multi_wait
          deferredList,     \* m_deferred_list
          deferredSessions, \* m_deferred_sessions
          selection,        \* owner of m_selection_mutex
          pc,               \* where each host thread is
          job,              \* the holder or the session it handles
          links,            \* the holders it has yet to link
          batch,            \* the deferred sessions it has yet to complete
          backlog,          \* sessions that the port has not handed out
          registered,       \* the service that the clients of sm: ask for is registered
          sess,             \* state of each session
          open,             \* its client end is open
          req,              \* its request
          kind              \* what the request asks for

lists == <<multiWait, deferredList, deferredSessions>>
threads == <<pc, job, links, batch>>
clients == <<backlog, sess, open, req, kind>>
vars == <<server, stop, wakeup, deferral, lists, selection, threads, registered, clients>>

Threads == Extra \union {Main}
Running == IF server = "sm" THEN {Main} ELSE Threads
Holders == Sessions \union {"wakeup", "deferral", "port"}
Kinds == {"get", "close"}

TypeOK ==
  /\ server \in {"sm", "bsd"}
  /\ stop \in {"no", "requested", "signaled", "gone"}
  /\ {wakeup, deferral, registered} \subseteq BOOLEAN
  /\ {multiWait, deferredList} \subseteq Seq(Holders)
  /\ deferredSessions \in Seq(Sessions)
  /\ selection \in Threads \union {None}
  /\ pc \in [Threads -> {"select", "link", "stopcheck", "wait", "blocked", "selected",
                         "accept", "receive", "handle", "defer", "reply", "clear", "take",
                         "relink", "signal", "finish", "done"}]
  /\ job \in [Threads -> Holders \union {None}]
  /\ links \in [Threads -> Seq(Holders)]
  /\ batch \in [Threads -> Seq(Sessions)]
  /\ backlog \in Seq(Sessions)
  /\ sess \in [Sessions -> {"none", "pending", "open", "dead"}]
  /\ open \in [Sessions -> BOOLEAN]
  /\ req \in [Sessions -> {"none", "queued", "received"}]
  /\ kind \in [Sessions -> Kinds]

\* The constructor links the wakeup holder; ManageDeferral and ManageNamedPort
\* link theirs and signal the wakeup event.
FirstHolders ==
  IF server = "sm" THEN <<"wakeup", "deferral", "port">> ELSE <<"wakeup", "port">>

Init ==
  /\ server \in {"sm", "bsd"}
  /\ stop = "no" /\ wakeup = TRUE /\ deferral = FALSE
  /\ multiWait = <<>>
  /\ deferredList = FirstHolders
  /\ deferredSessions = <<>>
  /\ selection = None
  /\ pc = [t \in Threads |-> IF t \in Running THEN "select" ELSE "done"]
  /\ job = [t \in Threads |-> None]
  /\ links = [t \in Threads |-> <<>>]
  /\ batch = [t \in Threads |-> <<>>]
  /\ backlog = <<>>
  /\ registered = (server = "bsd")
  /\ sess = [s \in Sessions |-> "none"]
  /\ open = [s \in Sessions |-> FALSE]
  /\ req = [s \in Sessions |-> "none"]
  /\ kind = [s \in Sessions |-> "get"]
-----------------------------------------------------------------------------
(* Waiting for a holder *)

Signaled(h) ==
  CASE h = "wakeup" -> wakeup
    [] h = "deferral" -> deferral
    [] h = "port" -> backlog # <<>>
    [] OTHER -> ~ open[h] \/ req[h] = "queued"

\* NotifyAvailable of holder h ends the wait of the thread that waits for it.
Waits(t, h) == pc[t] = "blocked" /\ h \in ToSet(multiWait)
Woken(h) == [t \in Threads |-> IF Waits(t, h) THEN "selected" ELSE pc[t]]
WokenBy(h) == [t \in Threads |-> IF Waits(t, h) THEN h ELSE job[t]]
Notified(h) == pc' = Woken(h) /\ job' = WokenBy(h)

Goto(t, p) == pc' = [pc EXCEPT ![t] = p]

\* WaitSignaled
LockSelection(t) ==
  /\ pc[t] = "select" /\ selection = None
  /\ selection' = t
  /\ Goto(t, "link")
  /\ UNCHANGED <<server, stop, wakeup, deferral, lists, job, links, batch, registered, clients>>

LinkDeferred(t) ==
  /\ pc[t] = "link"
  /\ multiWait' = multiWait \o deferredList
  /\ deferredList' = <<>>
  /\ Goto(t, "stopcheck")
  /\ UNCHANGED <<server, stop, wakeup, deferral, deferredSessions, selection, job, links,
                 batch, registered, clients>>

\* Fault: the stop is only looked at between two holders.
MustStop_Later == FALSE

MustStop == stop # "no"

\* A thread that is to stop returns, and LoopProcessImpl ends.
StopCheck(t) ==
  /\ pc[t] = "stopcheck"
  /\ IF MustStop THEN Goto(t, "done") /\ selection' = None
                 ELSE Goto(t, "wait") /\ UNCHANGED selection
  /\ UNCHANGED <<server, stop, wakeup, deferral, lists, job, links, batch, registered, clients>>

\* The first signaled holder in the order of the list, or a wait for any.
WaitAny(t) ==
  LET signaled == SelectSeq(multiWait, Signaled)
  IN /\ pc[t] = "wait"
     /\ IF signaled = <<>> THEN Goto(t, "blocked") /\ UNCHANGED job
                           ELSE Goto(t, "selected") /\ job' = [job EXCEPT ![t] = Head(signaled)]
     /\ UNCHANGED <<server, stop, wakeup, deferral, lists, selection, links, batch,
                    registered, clients>>

\* Fault: a thread that was woken up waits again without looking at m_deferred_list.
WokenGoto_Wait == "wait"

WokenGoto == "link"

WokenUp(t) ==
  /\ pc[t] = "selected" /\ job[t] = "wakeup"
  /\ wakeup' = FALSE
  /\ job' = [job EXCEPT ![t] = None]
  /\ Goto(t, WokenGoto)
  /\ UNCHANGED <<server, stop, deferral, lists, selection, links, batch, registered, clients>>

\* Process: the handler that the tag of the holder names.
Handler(h) == CASE h = "port" -> "accept" [] h = "deferral" -> "clear" [] OTHER -> "receive"

Unlink(t) ==
  /\ pc[t] = "selected" /\ job[t] # "wakeup"
  /\ multiWait' = SelectSeq(multiWait, LAMBDA h : h # job[t])
  /\ selection' = None
  /\ Goto(t, Handler(job[t]))
  /\ UNCHANGED <<server, stop, wakeup, deferral, deferredList, deferredSessions, job, links,
                 batch, registered, clients>>
-----------------------------------------------------------------------------
(* Handling it *)

\* Thread t is done with a holder; it goes on to the next deferred session it took, or
\* round the loop of LoopProcessImpl.
Finish(t) ==
  /\ pc[t] = "finish"
  /\ IF batch[t] = <<>>
       THEN /\ Goto(t, IF stop = "no" THEN "select" ELSE "done")
            /\ job' = [job EXCEPT ![t] = None]
            /\ UNCHANGED batch
       ELSE /\ Goto(t, "handle")
            /\ job' = [job EXCEPT ![t] = Head(batch[t])]
            /\ batch' = [batch EXCEPT ![t] = Tail(@)]
  /\ UNCHANGED <<server, stop, wakeup, deferral, lists, selection, links, registered, clients>>

\* LinkToDeferredList
LinkToDeferredList(t) ==
  /\ pc[t] = "relink"
  /\ deferredList' = Append(deferredList, Head(links[t]))
  /\ Goto(t, "signal")
  /\ UNCHANGED <<server, stop, wakeup, deferral, multiWait, deferredSessions, selection, job,
                 links, batch, registered, clients>>

\* The wakeup event is signaled without the lock of the list; the thread that waits for
\* it is another one.
SignalWakeup(t) ==
  /\ pc[t] = "signal"
  /\ wakeup' = TRUE
  /\ links' = [links EXCEPT ![t] = Tail(@)]
  /\ pc' = [Woken("wakeup") EXCEPT ![t] = IF links'[t] = <<>> THEN "finish" ELSE "relink"]
  /\ job' = WokenBy("wakeup")
  /\ UNCHANGED <<server, stop, deferral, lists, selection, batch, registered, clients>>

\* OnPortEvent: RegisterSession of the new session, then the port again.
OnPortEvent(t) ==
  /\ pc[t] = "accept"
  /\ backlog' = Tail(backlog)
  /\ sess' = [sess EXCEPT ![Head(backlog)] = "open"]
  /\ links' = [links EXCEPT ![t] = <<Head(backlog), "port">>]
  /\ Goto(t, "relink")
  /\ UNCHANGED <<server, stop, wakeup, deferral, lists, selection, job, batch, registered,
                 open, req, kind>>

\* DestroySession closes the server end.
DestroySession(s) == sess' = [sess EXCEPT ![s] = "dead"]

\* OnSessionEvent
OnSessionEvent(t) ==
  /\ pc[t] = "receive"
  /\ IF open[job[t]]
       THEN /\ req' = [req EXCEPT ![job[t]] = "received"]
            /\ Goto(t, "handle")
            /\ UNCHANGED sess
       ELSE DestroySession(job[t]) /\ Goto(t, "finish") /\ UNCHANGED req
  /\ UNCHANGED <<server, stop, wakeup, deferral, lists, selection, job, links, batch,
                 registered, backlog, open, kind>>

\* GetServiceImpl defers the request while GetServicePort does not find the service.
Deferred(s) == server = "sm" /\ kind[s] = "get" /\ ~ registered

\* The handler of the request.
CompleteSyncRequest(t) ==
  /\ pc[t] = "handle"
  /\ Goto(t, IF Deferred(job[t]) THEN "defer" ELSE "reply")
  /\ UNCHANGED <<server, stop, wakeup, deferral, lists, selection, job, links, batch,
                 registered, clients>>

Defer(t) ==
  /\ pc[t] = "defer"
  /\ deferredSessions' = Append(deferredSessions, job[t])
  /\ Goto(t, "finish")
  /\ UNCHANGED <<server, stop, wakeup, deferral, multiWait, deferredList, selection, job,
                 links, batch, registered, clients>>

\* SendReplyHLE; the session is served again unless its client or the request closed it.
SendReply(t) ==
  /\ pc[t] = "reply"
  /\ req' = [req EXCEPT ![job[t]] = "none"]
  /\ kind' = [kind EXCEPT ![job[t]] = "get"]
  /\ IF open[job[t]] /\ kind[job[t]] # "close"
       THEN /\ links' = [links EXCEPT ![t] = <<job[t]>>]
            /\ Goto(t, "relink")
            /\ UNCHANGED sess
       ELSE DestroySession(job[t]) /\ Goto(t, "finish") /\ UNCHANGED links
  /\ UNCHANGED <<server, stop, wakeup, deferral, lists, selection, job, batch, registered,
                 backlog, open>>

\* OnDeferralEvent clears the event, takes the list, links the event again and then
\* completes every session that was in the list.
ClearDeferral(t) ==
  /\ pc[t] = "clear"
  /\ deferral' = FALSE
  /\ Goto(t, "take")
  /\ UNCHANGED <<server, stop, wakeup, lists, selection, job, links, batch, registered, clients>>

\* Fault: the list is copied.
LeftDeferred_All == deferredSessions

LeftDeferred == <<>>

TakeDeferrals(t) ==
  /\ pc[t] = "take"
  /\ batch' = [batch EXCEPT ![t] = deferredSessions]
  /\ deferredSessions' = LeftDeferred
  /\ links' = [links EXCEPT ![t] = <<"deferral">>]
  /\ Goto(t, "relink")
  /\ UNCHANGED <<server, stop, wakeup, deferral, multiWait, deferredList, selection, job,
                 registered, clients>>

HostStep(t) ==
  \/ LockSelection(t) \/ LinkDeferred(t) \/ StopCheck(t) \/ WaitAny(t)
  \/ WokenUp(t) \/ Unlink(t) \/ LinkToDeferredList(t) \/ SignalWakeup(t) \/ Finish(t)
  \/ OnPortEvent(t) \/ OnSessionEvent(t) \/ CompleteSyncRequest(t) \/ Defer(t)
  \/ SendReply(t) \/ ClearDeferral(t) \/ TakeDeferrals(t)
-----------------------------------------------------------------------------
(* Clients, the registry and the destructor *)

\* A client connects: the port queues the server end of its session.
Connect(s) ==
  /\ sess[s] = "none" /\ stop # "gone"
  /\ sess' = [sess EXCEPT ![s] = "pending"]
  /\ open' = [open EXCEPT ![s] = TRUE]
  /\ backlog' = Append(backlog, s)
  /\ Notified("port")
  /\ UNCHANGED <<server, stop, wakeup, deferral, lists, selection, links, batch, registered,
                 req, kind>>

\* It sends a request, which it may do before its session was accepted.
SendRequest(s, k) ==
  /\ sess[s] \in {"pending", "open"} /\ open[s] /\ req[s] = "none"
  /\ req' = [req EXCEPT ![s] = "queued"]
  /\ kind' = [kind EXCEPT ![s] = k]
  /\ Notified(s)
  /\ UNCHANGED <<server, stop, wakeup, deferral, lists, selection, links, batch, registered,
                 backlog, sess, open>>

\* It goes away; a request that was not received goes with it.
CloseClient(s) ==
  /\ sess[s] \in {"pending", "open"} /\ open[s]
  /\ open' = [open EXCEPT ![s] = FALSE]
  /\ req' = [req EXCEPT ![s] = IF @ = "queued" THEN "none" ELSE @]
  /\ kind' = [kind EXCEPT ![s] = IF req[s] = "queued" THEN "get" ELSE @]
  /\ Notified(s)
  /\ UNCHANGED <<server, stop, wakeup, deferral, lists, selection, links, batch, registered,
                 backlog, sess>>

\* Fault: the event is signaled for the requests that are in the list.
SignalsDeferral_Listed == deferral \/ deferredSessions # <<>>

SignalsDeferral == TRUE

\* ServiceManager::RegisterService, on the thread of another server.
RegisterService ==
  /\ server = "sm" /\ ~ registered
  /\ registered' = TRUE
  /\ deferral' = SignalsDeferral
  /\ Notified("deferral")
  /\ UNCHANGED <<server, stop, wakeup, lists, selection, links, batch, clients>>

UnregisterService ==
  /\ server = "sm" /\ registered
  /\ registered' = FALSE
  /\ UNCHANGED <<server, stop, wakeup, deferral, lists, selection, threads, clients>>

\* ~ServerManager asks the threads to stop, wakes the one that waits, and when all have
\* ended closes the port and the sessions.
RequestStop ==
  /\ stop = "no"
  /\ stop' = "requested"
  /\ UNCHANGED <<server, wakeup, deferral, lists, selection, threads, registered, clients>>

SignalStop ==
  /\ stop = "requested"
  /\ stop' = "signaled"
  /\ wakeup' = TRUE
  /\ Notified("wakeup")
  /\ UNCHANGED <<server, deferral, lists, selection, links, batch, registered, clients>>

CleanUp ==
  /\ stop = "signaled"
  /\ \A t \in Threads : pc[t] = "done"
  /\ stop' = "gone"
  /\ backlog' = <<>>
  /\ sess' = [s \in Sessions |-> IF sess[s] = "none" THEN "none" ELSE "dead"]
  /\ UNCHANGED <<server, wakeup, deferral, lists, selection, threads, registered, open, req,
                 kind>>

Next ==
  \/ \E t \in Threads : HostStep(t)
  \/ \E s \in Sessions : \/ Connect(s) \/ CloseClient(s)
                          \/ \E k \in Kinds : SendRequest(s, k)
  \/ RegisterService \/ UnregisterService
  \/ RequestStop \/ SignalStop \/ CleanUp

Spec == Init /\ [][Next]_vars

\* Host threads run, and the destructor goes on.
FairSpec ==
  /\ Spec
  /\ \A t \in Threads : WF_vars(HostStep(t))
  /\ WF_vars(SignalStop \/ CleanUp)
-----------------------------------------------------------------------------
(* Properties *)

\* In how many places a holder is.
Places(h) ==
  LET in(list) == IF h \in ToSet(list) THEN 1 ELSE 0
      inHands(t) == job[t] = h /\ pc[t] \in {"accept", "receive", "handle", "defer", "reply",
                                           "clear", "take"}
  IN in(multiWait) + in(deferredList) + in(deferredSessions)
       + Cardinality({t \in Threads : inHands(t)})
       + Cardinality({t \in Threads : pc[t] = "relink" /\ h \in ToSet(links[t])})
       + Cardinality({t \in Threads : pc[t] = "signal" /\ h \in ToSet(Tail(links[t]))})
       + Cardinality({t \in Threads : h \in ToSet(batch[t])})

\* Every session that was accepted and not destroyed, the port and the deferral event are
\* each in exactly one place: waited for, about to be, deferred, or in the hands of one
\* thread.  None is forgotten, and none is handled by two threads at a time.
HeldOnce ==
  stop # "gone" =>
    /\ \A s \in Sessions : Places(s) = (IF sess[s] = "open" THEN 1 ELSE 0)
    /\ Places("port") = 1
    /\ Places("deferral") = (IF server = "sm" THEN 1 ELSE 0)

\* A request whose service is registered is answered, or its session or the server goes.
Served ==
  \A s \in Sessions :
    req[s] # "none" ~> \/ req[s] = "none" \/ ~ registered
                      \/ sess[s] = "dead" \/ stop # "no"

\* Once the destructor has begun, every host thread ends and the sessions are closed,
\* whatever the threads were doing.
StopEnds == stop # "no" ~> stop = "gone"
=============================================================================
