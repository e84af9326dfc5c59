---------------------------- MODULE KServerSession ----------------------------
(***************************************************************************)
(* An IPC session (KSession, KClientSession, KServerSession): client       *)
(* threads send requests, wait for them or get an event signaled, server   *)
(* threads receive them and reply, and either side may be closed at any    *)
(* time.  The contents of messages are left out.                           *)
(*                                                                         *)
(* m_lock serializes the server's operations and the two cleanups; the     *)
(* sections under the scheduler lock are atomic, and what runs between     *)
(* them is a step of its own.  A side is closed when its last reference    *)
(* goes, so no call of that side is in progress then.                      *)
(***************************************************************************)
EXTENDS Integers, Sequences, Functions

CONSTANTS Clients,   \* client threads
          Servers,   \* server threads
          Requests,  \* the request objects there are, each used once
          None       \* nullptr

VARIABLES state,     \* KSession::m_atomic_state
          list,      \* m_request_list
          current,   \* m_current_request
          mlock,     \* owner of m_lock
          refs,      \* reference count of each request
          thread,    \* KSessionRequest::m_thread
          async,     \* m_event is set
          answers,   \* how often the request was answered
          used,      \* requests that were created
          client,    \* what each client thread does
          creq,      \* the request a client thread has created
          term,      \* the client thread is to terminate
          server,    \* what each server thread does
          held,      \* the request in the hands of a server thread or a cleanup
          closing    \* progress of the Destroy of either side

vars == <<state, list, current, mlock, refs, thread, async, answers, used, client, creq, term,
          server, held, closing>>

Sides == {"client", "server"}
Holders == Servers \cup Sides

ASSUME SessionAssumption == None \notin Requests \cup Clients \cup Holders /\ Servers \cap Sides = {}

TypeOK ==
  /\ state \in {"Normal", "ClientClosed", "ServerClosed"}
  /\ list \in Seq(Requests)
  /\ current \in Requests \cup {None}
  /\ mlock \in Holders \cup {None}
  /\ refs \in [Requests -> 0..3]
  /\ thread \in [Requests -> Clients \cup {None}]
  /\ async \in [Requests -> BOOLEAN]
  /\ answers \in [Requests -> 0..2]
  /\ used \subseteq Requests
  /\ client \in [Clients -> {"idle", "waiting", "returning", "elsewhere"}]
  /\ creq \in [Clients -> Requests \cup {None}]
  /\ term \in [Clients -> BOOLEAN]
  /\ server \in [Servers -> {"idle", "waiting", "receive", "locked", "popped", "receiving",
                             "failed", "serving", "replying", "taken", "gone"}]
  /\ held \in [Holders -> Requests \cup {None}]
  /\ closing \in [Sides -> {"open", "normal", "lock", "loop", "done"}]

Init ==
  /\ state = "Normal" /\ list = <<>> /\ current = None /\ mlock = None
  /\ refs = [r \in Requests |-> 0]
  /\ thread = [r \in Requests |-> None]
  /\ async = [r \in Requests |-> FALSE]
  /\ answers = [r \in Requests |-> 0]
  /\ used = {}
  /\ client = [c \in Clients |-> "idle"]
  /\ creq = [c \in Clients |-> None]
  /\ term = [c \in Clients |-> FALSE]
  /\ server = [s \in Servers |-> "idle"]
  /\ held = [h \in Holders |-> None]
  /\ closing = [s \in Sides |-> "open"]
-----------------------------------------------------------------------------
IsClosed == state # "Normal"

\* NotifyAvailable: if the session is signaled once l and cur are in place, every
\* server thread that waits for it goes on to receive.
Notified(l, cur) ==
  IF IsClosed \/ (l # <<>> /\ cur = None)
    THEN [s \in Servers |-> IF server[s] = "waiting" THEN "receive" ELSE server[s]]
    ELSE server

\* Close a reference.
Closed(r) == [refs EXCEPT ![r] = @ - 1]

MayEndWait(t) == ~ term[t]

\* Answer r: signal the event of an asynchronous request, or end the wait of the
\* client thread if it is not to terminate.  A request may have lost its thread.
Answer(r) ==
  LET t == thread[r]
  IN /\ answers' = IF t # None THEN [answers EXCEPT ![r] = @ + 1] ELSE answers
     /\ client' = IF /\ t # None /\ ~ async[r]
                     /\ MayEndWait(t) /\ client[t] \in {"waiting", "elsewhere"}
                    THEN [client EXCEPT ![t] = "returning"]
                    ELSE client
-----------------------------------------------------------------------------
(* Client threads *)

\* Fault: requests are accepted when the other side is closed.
Accepts_Always == TRUE

Accepts == ~ IsClosed

\* SendSyncRequest and SendAsyncRequest: OnRequest appends the request.
SendRequest(c, r, isAsync) ==
  /\ closing["client"] = "open"
  /\ client[c] = "idle" /\ ~ term[c]
  /\ r \notin used
  /\ Accepts
  /\ used' = used \cup {r}
  /\ refs' = [refs EXCEPT ![r] = 2]
  /\ thread' = [thread EXCEPT ![r] = c]
  /\ async' = [async EXCEPT ![r] = isAsync]
  /\ creq' = [creq EXCEPT ![c] = r]
  /\ list' = Append(list, r)
  /\ server' = IF list = <<>> THEN Notified(list', current) ELSE server
  /\ client' = [client EXCEPT ![c] = IF isAsync THEN "returning" ELSE "waiting"]
  /\ UNCHANGED <<state, current, mlock, answers, term, held, closing>>

\* The call returns and closes the caller's reference.
RequestReturns(c) ==
  /\ client[c] = "returning"
  /\ refs' = Closed(creq[c])
  /\ client' = [client EXCEPT ![c] = "idle"]
  /\ creq' = [creq EXCEPT ![c] = None]
  /\ UNCHANGED <<state, list, current, mlock, thread, async, answers, used, term, server,
                 held, closing>>

\* RequestTerminate cancels the wait; the request stays with the server.
RequestTerminate(c) ==
  /\ ~ term[c]
  /\ term' = [term EXCEPT ![c] = TRUE]
  /\ client' = [client EXCEPT ![c] = IF @ = "waiting" THEN "returning" ELSE @]
  /\ UNCHANGED <<state, list, current, mlock, refs, thread, async, answers, used, creq,
                 server, held, closing>>

\* On its way out the thread waits for something else.
WaitElsewhere(c) ==
  /\ term[c] /\ client[c] = "idle"
  /\ client' = [client EXCEPT ![c] = "elsewhere"]
  /\ UNCHANGED <<state, list, current, mlock, refs, thread, async, answers, used, creq, term,
                 server, held, closing>>
-----------------------------------------------------------------------------
(* Server threads *)

\* What the steps of a server thread never touch.
serverKeeps == <<state, thread, async, used, creq, term, closing>>

Goto(s, pc) == server' = [server EXCEPT ![s] = pc]

\* KSynchronizationObject::Wait for the session.
WaitSynchronization(s) ==
  /\ server[s] = "idle" /\ closing["server"] = "open"
  /\ Goto(s, IF IsClosed \/ (list # <<>> /\ current = None) THEN "receive" ELSE "waiting")
  /\ UNCHANGED <<serverKeeps, list, current, mlock, refs, answers, client, held>>

\* ReceiveRequest and SendReply start by taking m_lock.
Lock(s) ==
  /\ server[s] \in {"receive", "serving"}
  /\ mlock = None
  /\ mlock' = s
  /\ Goto(s, IF server[s] = "receive" THEN "locked" ELSE "replying")
  /\ UNCHANGED <<serverKeeps, list, current, refs, answers, client, held>>

CanReceive == ~ IsClosed /\ current = None /\ list # <<>>

\* ReceiveRequest pops the first request, or returns and unlocks.
ReceivePop(s) ==
  /\ server[s] = "locked"
  /\ IF CanReceive
       THEN /\ held' = [held EXCEPT ![s] = Head(list)]
            /\ list' = Tail(list)
            /\ Goto(s, "popped") /\ UNCHANGED mlock
       ELSE /\ mlock' = None
            /\ Goto(s, "idle") /\ UNCHANGED <<held, list>>
  /\ UNCHANGED <<serverKeeps, current, refs, answers, client>>

\* m_current_request is set without the scheduler lock.
ReceiveSetCurrent(s) ==
  /\ server[s] = "popped"
  /\ current' = held[s]
  /\ Goto(s, "receiving")
  /\ UNCHANGED <<serverKeeps, list, mlock, refs, answers, client, held>>

\* The message is received: unlock and serve it.
ReceiveOk(s) ==
  /\ server[s] = "receiving"
  /\ held' = [held EXCEPT ![s] = None]
  /\ mlock' = None
  /\ Goto(s, "serving")
  /\ UNCHANGED <<serverKeeps, list, current, refs, answers, client>>

\* Fault: the other server threads are not told that the session is free again.
AfterCurrent_Silent(s, pc) == [server EXCEPT ![s] = pc]

\* The current request was cleared: notify if others are queued.
AfterCurrent(s, pc) ==
  [(IF list # <<>> THEN Notified(list, None) ELSE server) EXCEPT ![s] = pc]

\* The message cannot be received: clear the current request.
ReceiveFail(s) ==
  /\ server[s] = "receiving"
  /\ current' = None
  /\ server' = AfterCurrent(s, "failed")
  /\ UNCHANGED <<serverKeeps, list, mlock, refs, answers, client, held>>

\* Fault: SendReply leaves the request current.
CurrentAfterTake_Kept == current

CurrentAfterTake == None

\* SendReply takes the current request.
ReplyTake(s) ==
  /\ server[s] = "replying"
  /\ IF current = None
       THEN mlock' = None /\ Goto(s, "idle") /\ UNCHANGED <<held, current>>
       ELSE /\ held' = [held EXCEPT ![s] = current]
            /\ current' = CurrentAfterTake
            /\ server' = AfterCurrent(s, "taken")
            /\ UNCHANGED mlock
  /\ UNCHANGED <<serverKeeps, list, refs, answers, client>>

\* The end of SendReply, and of ReceiveRequest after a failure: answer, close the
\* reference, unlock.
Reply(s) ==
  /\ server[s] \in {"failed", "taken"}
  /\ Answer(held[s])
  /\ refs' = Closed(held[s])
  /\ held' = [held EXCEPT ![s] = None]
  /\ mlock' = None
  /\ Goto(s, "idle")
  /\ UNCHANGED <<serverKeeps, list, current>>
-----------------------------------------------------------------------------
(* Closing a side *)

closeKeeps == <<used, creq, term>>

Step(side, pc) == closing' = [closing EXCEPT ![side] = pc]

\* No thread is inside a call of this side, so its last reference can go.
Unreferenced(side) ==
  IF side = "client" THEN \A c \in Clients : client[c] \in {"idle", "elsewhere"}
                     ELSE \A s \in Servers : server[s] \in {"idle", "serving"}

\* Destroy: OnClientClosed or OnServerClosed of the session looks at the state.  If the
\* other side is closed the client has nothing to do; the server still cleans up.
CloseBegin(side) ==
  /\ closing[side] = "open" /\ Unreferenced(side)
  /\ Step(side, IF state = "Normal" THEN "normal" ELSE IF side = "client" THEN "done" ELSE "lock")
  /\ server' = IF side = "server" THEN [s \in Servers |-> "gone"] ELSE server
  /\ UNCHANGED <<closeKeeps, state, list, current, mlock, refs, thread, async, answers, client, held>>

\* It was Normal: set it.
CloseSetState(side) ==
  /\ closing[side] = "normal"
  /\ state' = IF side = "client" THEN "ClientClosed" ELSE "ServerClosed"
  /\ Step(side, "lock")
  /\ UNCHANGED <<closeKeeps, list, current, mlock, refs, thread, async, answers, client, server, held>>

\* KServerSession::OnClientClosed or CleanupRequests takes m_lock.
CloseLock(side) ==
  /\ closing[side] = "lock"
  /\ mlock = None
  /\ mlock' = side
  /\ Step(side, "loop")
  /\ UNCHANGED <<closeKeeps, state, list, current, refs, thread, async, answers, client, server, held>>

\* OnClientClosed visits the current request once and leaves it to the server; it takes
\* thread and event away if the thread is to terminate.
ClientClosedCurrent ==
  LET t == thread[current]
  IN /\ closing["client"] = "loop"
     /\ current \notin {None, held["client"]}
     /\ held' = [held EXCEPT !["client"] = current]
     /\ IF t # None /\ term[t]
          THEN /\ thread' = [thread EXCEPT ![current] = None]
               /\ async' = [async EXCEPT ![current] = FALSE]
          ELSE UNCHANGED <<thread, async>>
     /\ UNCHANGED <<closeKeeps, state, list, current, mlock, refs, answers, client, server, closing>>

EventSignaled(r) == IF async[r] THEN [answers EXCEPT ![r] = @ + 1] ELSE answers

\* OnClientClosed pops a queued request.  An asynchronous one is answered; nobody waits
\* for a synchronous one, or the client could not be closed.
ClientClosedQueued ==
  /\ closing["client"] = "loop"
  /\ current \in {None, held["client"]} /\ list # <<>>
  /\ list' = Tail(list)
  /\ answers' = EventSignaled(Head(list))
  /\ refs' = Closed(Head(list))
  /\ UNCHANGED <<closeKeeps, state, current, mlock, thread, async, client, server, held, closing>>

\* OnClientClosed is done: notify the server threads.
ClientClosedEnd ==
  /\ closing["client"] = "loop"
  /\ current \in {None, held["client"]} /\ list = <<>>
  /\ server' = Notified(list, current)
  /\ held' = [held EXCEPT !["client"] = None]
  /\ mlock' = None
  /\ Step("client", "done")
  /\ UNCHANGED <<closeKeeps, state, list, current, refs, thread, async, answers, client>>

\* CleanupRequests takes the current request or a queued one.
CleanupTake ==
  /\ closing["server"] = "loop" /\ held["server"] = None
  /\ \/ /\ current # None
        /\ held' = [held EXCEPT !["server"] = current]
        /\ current' = None /\ UNCHANGED list
     \/ /\ current = None /\ list # <<>>
        /\ held' = [held EXCEPT !["server"] = Head(list)]
        /\ list' = Tail(list) /\ UNCHANGED current
  /\ UNCHANGED <<closeKeeps, state, mlock, refs, thread, async, answers, client, server, closing>>

\* It answers the request with ResultSessionClosed and closes the reference.
CleanupAnswer ==
  /\ closing["server"] = "loop" /\ held["server"] # None
  /\ Answer(held["server"])
  /\ refs' = Closed(held["server"])
  /\ held' = [held EXCEPT !["server"] = None]
  /\ UNCHANGED <<closeKeeps, state, list, current, mlock, thread, async, server, closing>>

\* Nothing is left.
CleanupEnd ==
  /\ closing["server"] = "loop" /\ held["server"] = None
  /\ current = None /\ list = <<>>
  /\ mlock' = None
  /\ Step("server", "done")
  /\ UNCHANGED <<closeKeeps, state, list, current, refs, thread, async, answers, client, server, held>>

ServerStep(s) ==
  \/ WaitSynchronization(s) \/ Lock(s) \/ ReceivePop(s) \/ ReceiveSetCurrent(s)
  \/ ReceiveOk(s) \/ ReplyTake(s) \/ Reply(s)

CloseStep ==
  \/ \E side \in Sides : CloseSetState(side) \/ CloseLock(side)
  \/ ClientClosedCurrent \/ ClientClosedQueued \/ ClientClosedEnd
  \/ CleanupTake \/ CleanupAnswer \/ CleanupEnd

Next ==
  \/ \E c \in Clients : \/ \E r \in Requests, isAsync \in BOOLEAN : SendRequest(c, r, isAsync)
                        \/ RequestReturns(c) \/ RequestTerminate(c) \/ WaitElsewhere(c)
  \/ \E s \in Servers : ServerStep(s) \/ ReceiveFail(s)
  \/ \E side \in Sides : CloseBegin(side)
  \/ CloseStep

Spec == Init /\ [][Next]_vars

\* Server threads keep serving until the server is closed, m_lock is handed over
\* fairly, and a cleanup that was begun goes on.
FairSpec ==
  /\ Spec
  /\ \A s \in Servers : WF_vars(ServerStep(s) \/ ReceiveFail(s)) /\ SF_vars(Lock(s))
  /\ WF_vars(CloseStep) /\ \A side \in Sides : SF_vars(CloseLock(side))
-----------------------------------------------------------------------------
(* Properties *)

InHands(r) == \/ r \in Range(list) \/ r = current
              \/ \E h \in Servers \cup {"server"} : held[h] = r

\* A request has one reference for the call that sent it and one for the session, as
\* long as either has it: it is never freed under anybody and never leaks.
RefsExact ==
  \A r \in Requests :
    refs[r] = (IF \E c \in Clients : creq[c] = r THEN 1 ELSE 0) + (IF InHands(r) THEN 1 ELSE 0)

\* A request is answered at most once, by the server, the failed receive or a cleanup,
\* and an asynchronous one is not forgotten: once the session has let go of it, with its
\* event still in place, it was answered.
AnsweredOnce ==
  /\ \A r \in Requests : answers[r] <= 1
  /\ \A r \in used : async[r] /\ ~ InHands(r) => answers[r] = 1

\* No server thread waits while the session is open with a request to receive.
ServerSeesRequest ==
  ~ IsClosed /\ list # <<>> /\ current = None => \A s \in Servers : server[s] # "waiting"

\* A client thread that waits for a request gets its answer.
ClientServed == \A c \in Clients : client[c] = "waiting" ~> client[c] # "waiting"
=============================================================================
