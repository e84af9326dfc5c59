--------------------------- MODULE KServerSessionProofs ---------------------------
(***************************************************************************)
(* Proofs about KServerSession, for any sets of clients, servers and       *)
(* requests.                                                               *)
(***************************************************************************)
EXTENDS KServerSession, SequenceTheorems, TLAPS
-----------------------------------------------------------------------------
(* Sequences without repetitions *)

\* What a new element at the end changes.
LEMMA AppendFacts ==
  ASSUME NEW S, NEW s \in Seq(S), NEW e \in S
  PROVE  /\ Append(s, e) \in Seq(S) /\ Append(s, e) # <<>>
         /\ Range(Append(s, e)) = Range(s) \cup {e}
         /\ Head(Append(s, e)) = IF s = <<>> THEN e ELSE Head(s)
         /\ IsInjective(s) /\ e \notin Range(s) => IsInjective(Append(s, e))
<1> DEFINE r == Append(s, e)
<1>1. /\ Len(s) \in Nat /\ DOMAIN s = 1..Len(s)
      /\ r \in Seq(S) /\ Len(r) = Len(s) + 1 /\ DOMAIN r = 1..Len(s) + 1
      /\ r[Len(s) + 1] = e /\ \A k \in 1..Len(s) : r[k] = s[k]
  BY LenProperties, AppendProperties
<1> HIDE DEF r
<1>2. Range(r) = Range(s) \cup {e}
  <2>1. ASSUME NEW x \in Range(r) PROVE x \in Range(s) \cup {e}
    <3>1. PICK k \in 1..Len(s) + 1 : x = r[k]
      BY <1>1 DEF Range
    <3> QED BY <1>1, <3>1 DEF Range
  <2>2. ASSUME NEW x \in Range(s) PROVE x \in Range(r)
    BY <1>1 DEF Range
  <2>3. e \in Range(r)
    BY <1>1 DEF Range
  <2> QED BY <2>1, <2>2, <2>3
<1>3. r # <<>> /\ Head(r) = r[1] /\ (s = <<>> => Len(s) = 0) /\ (s # <<>> => Head(s) = s[1] /\ Len(s) >= 1)
  BY <1>1
<1>4. Head(r) = IF s = <<>> THEN e ELSE Head(s)
  BY <1>1, <1>3
<1>5. ASSUME IsInjective(s), e \notin Range(s) PROVE IsInjective(r)
  <2>1. \A j, k \in 1..Len(s) : s[j] = s[k] => j = k
    BY <1>1, <1>5 DEF IsInjective
  <2>2. \A k \in 1..Len(s) : s[k] # e
    BY <1>1, <1>5 DEF Range
  <2> SUFFICES ASSUME NEW j \in 1..Len(s) + 1, NEW k \in 1..Len(s) + 1, r[j] = r[k]
               PROVE  j = k
    BY <1>1 DEF IsInjective
  <2> QED BY <1>1, <2>1, <2>2
<1> QED BY <1>1, <1>2, <1>3, <1>4, <1>5 DEF r

\* The first element leaves.
LEMMA TailFacts ==
  ASSUME NEW S, NEW s \in Seq(S), s # <<>>
  PROVE  /\ Head(s) \in S /\ Tail(s) \in Seq(S)
         /\ Range(s) = Range(Tail(s)) \cup {Head(s)}
         /\ IsInjective(s) => IsInjective(Tail(s)) /\ Head(s) \notin Range(Tail(s))
<1> DEFINE r == Tail(s)
<1>1. /\ Len(s) \in Nat /\ Len(s) >= 1 /\ DOMAIN s = 1..Len(s) /\ Head(s) = s[1] /\ s[1] \in S
      /\ r \in Seq(S) /\ Len(r) = Len(s) - 1 /\ DOMAIN r = 1..Len(s) - 1
      /\ \A k \in 1..Len(s) - 1 : r[k] = s[k + 1]
  BY LenProperties, EmptySeq, HeadTailProperties
<1> HIDE DEF r
<1>2. ASSUME NEW x \in Range(s) PROVE x \in Range(r) \cup {Head(s)}
  <2>1. PICK k \in 1..Len(s) : x = s[k]
    BY <1>1 DEF Range
  <2>2. CASE k # 1
    <3>1. k - 1 \in 1..Len(s) - 1 /\ r[k - 1] = x
      BY <1>1, <2>1, <2>2
    <3> QED BY <1>1, <3>1 DEF Range
  <2> QED BY <1>1, <2>1, <2>2
<1>3. ASSUME NEW x \in Range(r) PROVE \E k \in 1..Len(s) : k # 1 /\ x = s[k]
  <2>1. PICK k \in 1..Len(s) - 1 : x = r[k]
    BY <1>1 DEF Range
  <2>2. k + 1 \in 1..Len(s) /\ k + 1 # 1 /\ x = s[k + 1]
    BY <1>1, <2>1
  <2> QED BY <2>2
<1>4. Range(s) = Range(r) \cup {Head(s)}
  <2>1. ASSUME NEW x \in Range(r) PROVE x \in Range(s)
    BY <1>1, <1>3, Zenon DEF Range
  <2>2. Head(s) \in Range(s)
    BY <1>1 DEF Range
  <2> QED BY <1>2, <2>1, <2>2
<1>5. ASSUME IsInjective(s) PROVE IsInjective(r) /\ Head(s) \notin Range(r)
  <2>1. \A j, k \in 1..Len(s) : s[j] = s[k] => j = k
    BY <1>1, <1>5 DEF IsInjective
  <2>2. Head(s) \notin Range(r)
    BY <1>1, <1>3, <2>1
  <2>3. ASSUME NEW j \in 1..Len(s) - 1, NEW k \in 1..Len(s) - 1, r[j] = r[k] PROVE j = k
    <3>1. j + 1 \in 1..Len(s) /\ k + 1 \in 1..Len(s) /\ s[j + 1] = s[k + 1]
      BY <1>1, <2>3
    <3>2. j + 1 = k + 1
      BY <2>1, <3>1
    <3> QED BY <3>2
  <2> QED BY <1>1, <2>2, <2>3 DEF IsInjective
<1> QED BY <1>1, <1>4, <1>5 DEF r
-----------------------------------------------------------------------------
(***************************************************************************)
(* A session.  The owner of m_lock is known from where it is, it has a     *)
(* request in its hands exactly between taking and letting go of it, and   *)
(* a request is in one place only.                                         *)
(***************************************************************************)

\* Where a server thread has m_lock, and a request in its hands.
Locking == {"locked", "popped", "receiving", "failed", "replying", "taken"}
Carrying == {"popped", "receiving", "failed", "taken"}
ServerPCs == Locking \cup {"idle", "waiting", "receive", "serving", "gone"}

SessionTypes ==
  /\ state \in {"Normal", "ClientClosed", "ServerClosed"}
  /\ list \in Seq(Requests)
  /\ current \in Requests \cup {None} /\ mlock \in Holders \cup {None}
  /\ refs \in [Requests -> Int] /\ answers \in [Requests -> Nat]
  /\ thread \in [Requests -> Clients \cup {None}] /\ async \in [Requests -> BOOLEAN]
  /\ used \in SUBSET Requests
  /\ client \in [Clients -> {"idle", "waiting", "returning", "elsewhere"}]
  /\ creq \in [Clients -> Requests \cup {None}]
  /\ term \in [Clients -> BOOLEAN]
  /\ server \in [Servers -> ServerPCs]
  /\ held \in [Holders -> Requests \cup {None}]
  /\ closing \in [Sides -> {"open", "normal", "lock", "loop", "done"}]

\* m_lock belongs to the thread or the cleanup that is inside.
MlockInv ==
  /\ \A s \in Servers : server[s] \in Locking => mlock = s
  /\ \A d \in Sides : closing[d] = "loop" => mlock = d

\* Whoever has a request in its hands has m_lock.
HeldInv ==
  /\ \A s \in Servers : server[s] \in Carrying <=> held[s] # None
  /\ \A d \in Sides : held[d] # None => closing[d] = "loop"

\* The current request is in the hands of the thread that receives it, and of nobody else;
\* the cleanup of the client only looks at it.
CurrentInv ==
  /\ \A s \in Servers : /\ server[s] = "receiving" => current = held[s]
                        /\ server[s] \in {"popped", "failed", "taken"} => current = None
  /\ held["server"] # None => current = None
  /\ held["client"] # None => current = held["client"]

\* A request is in one place of the list or out of it.
ListOnce ==
  /\ IsInjective(list)
  /\ current \notin Range(list)
  /\ \A h \in Servers \cup {"server"} : held[h] \notin Range(list)

\* Requests that anybody has were created, those that were not have no references.
UsedInv ==
  /\ \A r \in Requests : InHands(r) => r \in used /\ answers[r] = 0
  /\ \A r \in Requests \ used : answers[r] = 0
  /\ \A r \in used : async[r] => thread[r] # None

\* A client thread has created a request while it is inside the call.
ClientInv ==
  /\ \A c \in Clients : /\ client[c] \in {"waiting", "returning"} <=> creq[c] # None
                        /\ creq[c] # None => creq[c] \in used
                        /\ client[c] = "elsewhere" => term[c]
  /\ \A c, e \in Clients : creq[c] # None /\ creq[c] = creq[e] => c = e

\* A side that is being closed has set the state; without server the threads are gone.
ClosingInv ==
  /\ \A d \in Sides : closing[d] \in {"lock", "loop", "done"} => IsClosed
  /\ closing["server"] # "open" => \A s \in Servers : server[s] = "gone"

\* An asynchronous request that the session has let go of was answered, once.
AnswerInv ==
  /\ \A r \in Requests : answers[r] <= 1
  /\ \A r \in used : async[r] /\ ~ InHands(r) => answers[r] = 1

LockInv == MlockInv /\ HeldInv /\ CurrentInv
CountInv == UsedInv /\ ClientInv /\ AnswerInv /\ RefsExact

SessionInv ==
  SessionTypes /\ LockInv /\ ListOnce /\ CountInv /\ ClosingInv /\ ServerSeesRequest

\* Whoever has a request in its hands owns m_lock.
LEMMA HolderLocks ==
  ASSUME SessionInv, NEW h \in Holders, held[h] # None
  PROVE  mlock = h
  BY DEF SessionInv, LockInv, MlockInv, HeldInv, Holders, Locking, Carrying

\* A step that leaves the counts alone and every request in the hands it is in, or moves it
\* from one to another, keeps what is said about the counts.
LEMMA CountKept ==
  ASSUME SessionInv, UNCHANGED <<refs, used, answers, creq, client, term, thread, async>>,
         \A r \in Requests : InHands(r)' <=> InHands(r)
  PROVE  CountInv'
<1>1. UsedInv' /\ AnswerInv'
  BY DEF SessionInv, CountInv, UsedInv, AnswerInv, SessionTypes
<1>2. ClientInv'
  BY DEF SessionInv, CountInv, ClientInv
<1>3. RefsExact'
  BY DEF SessionInv, CountInv, RefsExact
<1> QED BY <1>1, <1>2, <1>3 DEF CountInv

\* What the answer to a request changes.
LEMMA AnswerFacts ==
  ASSUME SessionInv, NEW r \in Requests, InHands(r), UNCHANGED <<creq, used, term>>,
         \/ Answer(r)
         \/ client' = client /\ answers' = EventSignaled(r)
  PROVE  /\ answers' \in [Requests -> Nat] /\ answers'[r] <= 1 /\ (async[r] => answers'[r] = 1)
         /\ \A q \in Requests \ {r} : answers'[q] = answers[q]
         /\ client' \in [Clients -> {"idle", "waiting", "returning", "elsewhere"}]
         /\ ClientInv'
<1>1. answers[r] = 0 /\ r \in used /\ (async[r] => thread[r] # None)
  BY DEF SessionInv, CountInv, UsedInv
<1>2. /\ answers' \in [Requests -> Nat] /\ answers'[r] <= 1 /\ (async[r] => answers'[r] = 1)
      /\ \A q \in Requests \ {r} : answers'[q] = answers[q]
  <2>1. answers' = answers \/ answers' = [answers EXCEPT ![r] = @ + 1]
    BY DEF Answer, EventSignaled
  <2>2. ASSUME async[r] PROVE answers' = [answers EXCEPT ![r] = @ + 1]
    BY <1>1, <2>2 DEF Answer, EventSignaled
  <2>3. answers \in [Requests -> Nat]
    BY DEF SessionInv, SessionTypes
  <2> QED BY ONLY <1>1, <2>1, <2>2, <2>3, r \in Requests
<1>3. /\ client' \in [Clients -> {"idle", "waiting", "returning", "elsewhere"}]
      /\ \A c \in Clients : \/ client'[c] = client[c]
                            \/ ~ term[c] /\ client[c] \in {"waiting", "elsewhere"} /\ client'[c] = "returning"
  <2> DEFINE t == thread[r]
  <2>1. \/ client' = client
        \/ /\ t # None /\ ~ term[t] /\ client[t] \in {"waiting", "elsewhere"}
           /\ client' = [client EXCEPT ![t] = "returning"]
    BY DEF Answer, MayEndWait
  <2>2. /\ client \in [Clients -> {"idle", "waiting", "returning", "elsewhere"}]
        /\ t \in Clients \cup {None}
    BY DEF SessionInv, SessionTypes
  <2> HIDE DEF t
  <2> QED BY ONLY <2>1, <2>2
<1>4. ClientInv'
  BY <1>3 DEF SessionInv, CountInv, ClientInv
<1> QED BY <1>2, <1>3, <1>4

\* The session lets go of a request: it answers it and closes the reference.
LEMMA CountLetGo ==
  ASSUME SessionInv, NEW r \in Requests, InHands(r),
         \A q \in Requests : InHands(q)' <=> InHands(q) /\ q # r,
         refs' = Closed(r), UNCHANGED <<used, creq, term, thread, async>>,
         \/ Answer(r)
         \/ client' = client /\ answers' = EventSignaled(r)
  PROVE  /\ CountInv' /\ refs' \in [Requests -> Int] /\ answers' \in [Requests -> Nat]
         /\ client' \in [Clients -> {"idle", "waiting", "returning", "elsewhere"}]
<1>1. /\ answers' \in [Requests -> Nat] /\ answers'[r] <= 1 /\ (async[r] => answers'[r] = 1)
      /\ \A q \in Requests \ {r} : answers'[q] = answers[q]
      /\ client' \in [Clients -> {"idle", "waiting", "returning", "elsewhere"}]
      /\ ClientInv'
  BY AnswerFacts
<1>2. /\ refs' \in [Requests -> Int] /\ refs'[r] = refs[r] - 1
      /\ \A q \in Requests \ {r} : refs'[q] = refs[q]
  BY DEF SessionInv, SessionTypes, Closed
<1>3. r \in used
  BY DEF SessionInv, CountInv, UsedInv
<1>4. UsedInv'
  BY <1>1, <1>3 DEF SessionInv, CountInv, UsedInv
<1>5. AnswerInv'
  BY <1>1, Zenon DEF SessionInv, CountInv, AnswerInv, SessionTypes
<1>6. RefsExact'
  BY <1>2 DEF SessionInv, CountInv, RefsExact
<1> QED BY <1>1, <1>2, <1>4, <1>5, <1>6 DEF CountInv

\* NotifyAvailable only moves threads that wait, and leaves none if there is a request.
LEMMA NotifiedFacts ==
  ASSUME SessionTypes, NEW l, NEW cur
  PROVE  /\ Notified(l, cur) \in [Servers -> ServerPCs]
         /\ \A s \in Servers : \/ Notified(l, cur)[s] = server[s]
                               \/ server[s] = "waiting" /\ Notified(l, cur)[s] = "receive"
         /\ IsClosed \/ (l # <<>> /\ cur = None)
              => \A s \in Servers : Notified(l, cur)[s] # "waiting"
  BY DEF SessionTypes, Notified, ServerPCs

LEMMA AfterCurrentFacts ==
  ASSUME SessionTypes, NEW s \in Servers,
         NEW pc \in ServerPCs,
         server' = AfterCurrent(s, pc)
  PROVE  /\ server' \in [Servers -> ServerPCs]
         /\ server'[s] = pc
         /\ \A t \in Servers \ {s} : \/ server'[t] = server[t]
                                     \/ server[t] = "waiting" /\ server'[t] = "receive"
         /\ list # <<>> => \A t \in Servers \ {s} : server'[t] # "waiting"
<1> DEFINE n == IF list # <<>> THEN Notified(list, None) ELSE server
<1>1. /\ n \in [Servers -> ServerPCs]
      /\ \A t \in Servers : n[t] = server[t] \/ (server[t] = "waiting" /\ n[t] = "receive")
      /\ list # <<>> => \A t \in Servers : n[t] # "waiting"
  BY NotifiedFacts DEF SessionTypes
<1>2. server' = [n EXCEPT ![s] = pc]
  BY DEF AfterCurrent
<1> HIDE DEF n
<1> QED BY <1>1, <1>2

\* The invariant holds of a new session.
LEMMA SessionInvInit == Init => SessionInv
<1> SUFFICES ASSUME Init PROVE SessionInv
  OBVIOUS
<1>1. SessionTypes
  BY DEF Init, SessionTypes, ServerPCs
<1>2. LockInv /\ ClosingInv /\ ServerSeesRequest
  BY DEF Init, LockInv, MlockInv, HeldInv, CurrentInv, Locking, Carrying, ClosingInv,
         ServerSeesRequest, Holders, Sides
<1>3. ListOnce
  BY DEF Init, ListOnce, IsInjective, Range
<1>4. ASSUME NEW r \in Requests PROVE ~ InHands(r)
  BY SessionAssumption DEF Init, InHands, Range, Holders, Sides
<1>5. UsedInv /\ ClientInv /\ AnswerInv
  BY <1>4 DEF Init, UsedInv, ClientInv, AnswerInv
<1>6. RefsExact
  BY <1>4, SessionAssumption DEF Init, RefsExact
<1> QED BY <1>1, <1>2, <1>3, <1>5, <1>6 DEF SessionInv, CountInv

\* A server thread goes to pc; threads that wait may be notified.
ServerMoves(s, pc) ==
  /\ server' \in [Servers -> ServerPCs] /\ server'[s] = pc
  /\ \A t \in Servers \ {s} : \/ server'[t] = server[t]
                              \/ server[t] = "waiting" /\ server'[t] = "receive"

\* Steps outside m_lock keep what is said about its owner.
LEMMA LockKept ==
  ASSUME SessionInv, UNCHANGED <<mlock, held, current, closing>>,
         \A t \in Servers : \/ server'[t] = server[t]
                            \/ server[t] \notin Locking /\ server'[t] \notin Locking
  PROVE  LockInv'
<1>1. MlockInv'
  BY DEF SessionInv, LockInv, MlockInv
<1>2. HeldInv'
  BY DEF SessionInv, LockInv, HeldInv, Locking, Carrying
<1>3. CurrentInv'
  BY DEF SessionInv, LockInv, CurrentInv, Locking
<1> QED BY <1>1, <1>2, <1>3 DEF LockInv

\* A step of the server thread that owns m_lock, or takes it.
LEMMA OwnerMoves ==
  ASSUME SessionInv, NEW s \in Servers, NEW pc \in ServerPCs, ServerMoves(s, pc),
         mlock \in {s, None}, mlock' = IF pc \in Locking THEN s ELSE None,
         closing' = closing,
         \A h \in Holders \ {s} : held'[h] = held[h],
         pc \in Carrying <=> held'[s] # None,
         pc = "receiving" => current' = held'[s],
         pc \in {"popped", "failed", "taken"} => current' = None
  PROVE  LockInv'
<1>1. s \notin Sides /\ s # None /\ None \notin Sides
  BY SessionAssumption DEF Holders
<1>2. \A t \in Servers \ {s} : server[t] \notin Locking /\ server'[t] \notin Locking
  BY SessionAssumption DEF SessionInv, LockInv, MlockInv, ServerMoves, Locking, Holders
<1>3. \A d \in Sides : closing[d] # "loop"
  BY <1>1 DEF SessionInv, LockInv, MlockInv
<1>4. \A h \in Holders \ {s} : held'[h] = None
  BY <1>2, <1>3 DEF SessionInv, LockInv, HeldInv, Holders, Locking, Carrying
<1>5. MlockInv'
  BY <1>2, <1>3 DEF MlockInv, ServerMoves
<1>6. HeldInv'
  BY <1>1, <1>2, <1>4 DEF HeldInv, Holders, Locking, Carrying, ServerMoves
<1>7. CurrentInv'
  BY <1>1, <1>2, <1>4 DEF CurrentInv, Holders, Locking, ServerMoves, Sides
<1> QED BY <1>5, <1>6, <1>7 DEF LockInv

\* Server threads that are there keep what is said about closing.
LEMMA ClosingKept ==
  ASSUME SessionInv, NEW s \in Servers, server[s] # "gone", UNCHANGED <<state, closing>>
  PROVE  ClosingInv'
  BY DEF SessionInv, ClosingInv, IsClosed

\* Sending a request.
LEMMA SessionInvSend ==
  ASSUME SessionInv, NEW c \in Clients, NEW r \in Requests, NEW isAsync \in BOOLEAN,
         SendRequest(c, r, isAsync)
  PROVE  SessionInv'
<1> USE DEF SendRequest
<1>1. SessionTypes /\ r \notin used /\ ~ InHands(r) /\ answers[r] = 0
  BY DEF SessionInv, CountInv, UsedInv
<1>2. /\ list' \in Seq(Requests) /\ list' # <<>> /\ IsInjective(list')
      /\ Range(list') = Range(list) \cup {r}
  <2>1. r \notin Range(list) /\ IsInjective(list) /\ list \in Seq(Requests)
    BY <1>1 DEF SessionInv, ListOnce, InHands, SessionTypes
  <2> QED BY <2>1, AppendFacts
<1>3. \A q \in Requests : InHands(q)' <=> InHands(q) \/ q = r
  BY <1>2 DEF InHands
<1>4. /\ server' \in [Servers -> ServerPCs]
      /\ \A t \in Servers : \/ server'[t] = server[t]
                            \/ server[t] = "waiting" /\ server'[t] = "receive"
      /\ ServerSeesRequest'
  <2>1. CASE list = <<>>
    BY <1>1, <1>2, <2>1, NotifiedFacts DEF ServerSeesRequest, IsClosed
  <2>2. CASE list # <<>>
    BY <1>1, <2>2 DEF SessionInv, SessionTypes, ServerSeesRequest, IsClosed
  <2> QED BY <2>1, <2>2
<1>5. SessionTypes'
  BY <1>1, <1>2, <1>4 DEF SessionTypes
<1>6. LockInv'
  BY <1>4, LockKept DEF Locking
<1>7. ListOnce'
  BY <1>1, <1>2 DEF SessionInv, ListOnce, InHands
<1>8. UsedInv' /\ AnswerInv'
  BY <1>1, <1>3, SessionAssumption DEF SessionInv, CountInv, UsedInv, AnswerInv, SessionTypes
<1>9. /\ creq[c] = None /\ creq' = [creq EXCEPT ![c] = r] /\ r # None
      /\ \A e \in Clients : creq[e] # r
  BY <1>1, SessionAssumption DEF SessionInv, CountInv, ClientInv
<1>10. ClientInv'
  BY <1>1, <1>9 DEF SessionInv, CountInv, ClientInv, SessionTypes
<1>11. RefsExact'
  <2>1. refs'[r] = 2 /\ \A q \in Requests \ {r} : refs'[q] = refs[q]
    BY <1>1 DEF SessionTypes
  <2>2. /\ \E e \in Clients : creq'[e] = r
        /\ \A q \in Requests \ {r} : (\E e \in Clients : creq'[e] = q) <=> (\E e \in Clients : creq[e] = q)
    BY <1>1, <1>9, SessionAssumption DEF SessionTypes
  <2> QED BY <1>3, <2>1, <2>2 DEF SessionInv, CountInv, RefsExact
<1>12. ClosingInv'
  BY <1>4 DEF SessionInv, ClosingInv, IsClosed
<1> QED BY <1>4, <1>5, <1>6, <1>7, <1>8, <1>10, <1>11, <1>12 DEF SessionInv, CountInv

\* The other steps of client threads.
LEMMA SessionInvClients ==
  ASSUME SessionInv, NEW c \in Clients,
         RequestReturns(c) \/ RequestTerminate(c) \/ WaitElsewhere(c)
  PROVE  SessionInv'
<1>1. /\ UNCHANGED <<state, list, current, mlock, thread, async, answers, used, server, held, closing>>
      /\ \A r \in Requests : InHands(r)' <=> InHands(r)
  BY DEF RequestReturns, RequestTerminate, WaitElsewhere, InHands
<1>2. LockInv' /\ ListOnce' /\ ClosingInv' /\ ServerSeesRequest'
  BY <1>1, LockKept DEF SessionInv, ListOnce, ClosingInv, ServerSeesRequest, IsClosed
<1>3. UsedInv' /\ AnswerInv'
  BY <1>1 DEF SessionInv, SessionTypes, CountInv, UsedInv, AnswerInv
<1>4. CASE RequestReturns(c)
  <2>1. creq[c] \in Requests
    BY <1>4 DEF RequestReturns, SessionInv, SessionTypes, CountInv, ClientInv
  <2>2. /\ SessionTypes' /\ refs'[creq[c]] = refs[creq[c]] - 1
        /\ \A r \in Requests \ {creq[c]} : refs'[r] = refs[r]
    BY <1>4, <1>1, <2>1 DEF RequestReturns, SessionInv, SessionTypes, Closed
  <2>3. ClientInv'
    BY <1>4, <1>1 DEF RequestReturns, SessionInv, SessionTypes, CountInv, ClientInv
  <2>4. \A r \in Requests : (\E e \in Clients : creq'[e] = r) <=> r # creq[c] /\ \E e \in Clients : creq[e] = r
    BY <1>4, <2>1, SessionAssumption DEF RequestReturns, SessionInv, SessionTypes, CountInv, ClientInv
  <2>5. RefsExact'
    <3> DEFINE n(r) == IF InHands(r) THEN 1 ELSE 0
               m(r) == IF \E e \in Clients : creq[e] = r THEN 1 ELSE 0
    <3>1. \A r \in Requests : refs[r] = m(r) + n(r) /\ m(r) \in Nat /\ n(r) \in Nat
      BY DEF SessionInv, CountInv, RefsExact
    <3>2. \A r \in Requests : refs'[r] = (IF r = creq[c] THEN 0 ELSE m(r)) + n(r)
      BY <2>1, <2>2, <3>1
    <3>3. \A r \in Requests : (IF InHands(r)' THEN 1 ELSE 0) = n(r)
      BY <1>1
    <3> HIDE DEF n
    <3> QED BY <2>4, <3>2, <3>3 DEF RefsExact
  <2> QED BY <1>2, <1>3, <2>2, <2>3, <2>5 DEF SessionInv, CountInv
<1>5. CASE RequestTerminate(c) \/ WaitElsewhere(c)
  <2>1. SessionTypes'
    BY <1>5, <1>1, Zenon DEF RequestTerminate, WaitElsewhere, SessionInv, SessionTypes
  <2>2. ClientInv'
    BY <1>5, <1>1 DEF RequestTerminate, WaitElsewhere, SessionInv, SessionTypes, CountInv, ClientInv
  <2>3. RefsExact'
    <3>1. UNCHANGED <<refs, creq>>
      BY <1>5 DEF RequestTerminate, WaitElsewhere
    <3> QED BY <1>1, <3>1 DEF SessionInv, CountInv, RefsExact
  <2> QED BY <1>2, <1>3, <2>1, <2>2, <2>3 DEF SessionInv, CountInv
<1> QED BY <1>4, <1>5
-----------------------------------------------------------------------------
\* What a step of a server thread has to keep, where it answers nothing.
LEMMA ServerKept ==
  ASSUME SessionInv, NEW s \in Servers, server[s] # "gone",
         UNCHANGED <<serverKeeps, refs, answers, client>>,
         \A r \in Requests : InHands(r)' <=> InHands(r),
         SessionTypes', LockInv', ListOnce', ServerSeesRequest'
  PROVE  SessionInv'
<1>1. CountInv'
  BY CountKept DEF serverKeeps
<1>2. ClosingInv'
  BY ClosingKept DEF serverKeeps
<1> QED BY <1>1, <1>2 DEF SessionInv

\* A thread goes on, and the others with it if there is a request only now.
LEMMA GotoFacts ==
  ASSUME SessionInv, NEW s \in Servers, NEW pc \in ServerPCs, Goto(s, pc)
  PROVE  /\ ServerMoves(s, pc)
         /\ state' = state /\ pc # "waiting"
              /\ (list' # <<>> /\ current' = None => list # <<>> /\ current = None)
              => ServerSeesRequest'
  BY DEF SessionInv, SessionTypes, Goto, ServerMoves, ServerSeesRequest, IsClosed

\* Waiting for the session and taking m_lock.
LEMMA SessionInvWait ==
  ASSUME SessionInv, NEW s \in Servers, WaitSynchronization(s) \/ Lock(s)
  PROVE  SessionInv'
<1>1. /\ UNCHANGED <<serverKeeps, list, current, refs, answers, client, held>>
      /\ \A r \in Requests : InHands(r)' <=> InHands(r)
      /\ ListOnce'
  BY DEF WaitSynchronization, Lock, InHands, SessionInv, ListOnce
<1>2. CASE WaitSynchronization(s)
  <2>1. PICK pc \in {"receive", "waiting"} :
            /\ Goto(s, pc)
            /\ pc = "waiting" => ~ (IsClosed \/ (list # <<>> /\ current = None))
    BY <1>2 DEF WaitSynchronization
  <2>2. ServerMoves(s, pc)
    BY <2>1, GotoFacts DEF ServerPCs
  <2>3. SessionTypes'
    BY <1>2, <1>1, <2>2 DEF WaitSynchronization, SessionInv, SessionTypes, ServerMoves, serverKeeps
  <2>4. LockInv'
    BY <1>2, <1>1, <2>1, <2>2, LockKept DEF WaitSynchronization, ServerMoves, Locking, serverKeeps
  <2>5. ServerSeesRequest'
    BY <1>1, <2>1, <2>2 DEF SessionInv, ServerSeesRequest, ServerMoves, IsClosed, serverKeeps
  <2> QED BY <1>2, <1>1, <2>3, <2>4, <2>5, ServerKept DEF WaitSynchronization
<1>3. CASE Lock(s)
  <2>1. PICK pc \in {"locked", "replying"} : Goto(s, pc)
    BY <1>3 DEF Lock
  <2>2. pc \in ServerPCs /\ pc \in Locking /\ pc \notin Carrying /\ pc # "waiting"
    BY <2>1 DEF ServerPCs, Locking, Carrying
  <2>3. ServerMoves(s, pc) /\ ServerSeesRequest'
    BY <1>1, <2>1, <2>2, GotoFacts DEF serverKeeps
  <2>4. SessionTypes'
    BY <1>3, <1>1, <2>3 DEF Lock, SessionInv, SessionTypes, ServerMoves, serverKeeps, Holders
  <2>5. held'[s] = None
    BY <1>3, <1>1 DEF Lock, SessionInv, LockInv, HeldInv, Carrying
  <2>6. LockInv'
    BY <1>3, <1>1, <2>1, <2>2, <2>3, <2>5, OwnerMoves, Zenon DEF Lock, serverKeeps
  <2> QED BY <1>3, <1>1, <2>3, <2>4, <2>6, ServerKept DEF Lock
<1> QED BY <1>2, <1>3

\* The steps of ReceiveRequest that succeed.
LEMMA SessionInvReceive ==
  ASSUME SessionInv, NEW s \in Servers, ReceivePop(s) \/ ReceiveSetCurrent(s) \/ ReceiveOk(s)
  PROVE  SessionInv'
<1>1. /\ UNCHANGED <<serverKeeps, refs, answers, client>>
      /\ server[s] \in {"locked", "popped", "receiving"} /\ server[s] # "gone"
  BY DEF ReceivePop, ReceiveSetCurrent, ReceiveOk
<1>2. mlock = s
  BY <1>1 DEF SessionInv, LockInv, MlockInv, Locking
<1>3. \A h \in Holders \ {s} : held[h] = None
  BY <1>2, HolderLocks
<1>4. SessionTypes /\ s \in Holders /\ Servers \cup {"server"} \subseteq Holders /\ "server" # s
  BY SessionAssumption DEF SessionInv, Holders, Sides
<1>5. CASE ReceivePop(s) /\ CanReceive
  <2>1. /\ list # <<>> /\ current = None /\ UNCHANGED <<current, mlock>>
        /\ held' = [held EXCEPT ![s] = Head(list)] /\ list' = Tail(list) /\ Goto(s, "popped")
    BY <1>5 DEF ReceivePop, CanReceive
  <2>2. "popped" \in ServerPCs /\ "popped" \in Locking /\ "popped" \in Carrying
    BY DEF ServerPCs, Locking, Carrying
  <2>3. ServerMoves(s, "popped") /\ ServerSeesRequest'
    BY <1>1, <2>1, <2>2, GotoFacts DEF serverKeeps
  <2>4. /\ Head(list) \in Requests /\ list' \in Seq(Requests) /\ IsInjective(list')
        /\ Range(list) = Range(list') \cup {Head(list)} /\ Head(list) \notin Range(list')
    BY <1>4, <2>1, TailFacts DEF SessionInv, SessionTypes, ListOnce
  <2>5. SessionTypes'
    BY <1>1, <1>4, <2>1, <2>3, <2>4 DEF SessionTypes, ServerMoves, serverKeeps
  <2>6. held[s] = None /\ held'[s] = Head(list) /\ \A h \in Holders \ {s} : held'[h] = held[h]
    BY <1>5, <1>4, <2>1, Zenon DEF ReceivePop, SessionInv, SessionTypes, LockInv, HeldInv, Carrying
  <2>7. LockInv'
    BY <1>1, <1>2, <2>1, <2>2, <2>3, <2>4, <2>6, SessionAssumption, OwnerMoves DEF serverKeeps
  <2>8. ListOnce'
    BY <1>3, <1>4, <2>1, <2>4, <2>6 DEF SessionInv, ListOnce
  <2>9. \A r \in Requests : InHands(r)' <=> InHands(r)
    BY <1>3, <1>4, <2>1, <2>4, <2>6, SessionAssumption DEF InHands
  <2> QED BY <1>1, <2>3, <2>5, <2>7, <2>8, <2>9, ServerKept
<1>6. CASE ReceivePop(s) /\ ~ CanReceive
  <2>1. UNCHANGED <<list, current, held>> /\ mlock' = None /\ Goto(s, "idle")
    BY <1>6 DEF ReceivePop
  <2>2. "idle" \in ServerPCs /\ "idle" \notin Locking /\ "idle" \notin Carrying
    BY DEF ServerPCs, Locking, Carrying
  <2>3. ServerMoves(s, "idle") /\ ServerSeesRequest'
    BY <1>1, <2>1, <2>2, GotoFacts DEF serverKeeps
  <2>4. SessionTypes'
    BY <1>1, <1>4, <2>1, <2>3 DEF SessionTypes, ServerMoves, serverKeeps
  <2>5. held'[s] = None
    BY <1>6, <2>1 DEF ReceivePop, SessionInv, LockInv, HeldInv, Carrying
  <2>6. LockInv'
    BY <1>1, <1>2, <2>1, <2>2, <2>3, <2>5, OwnerMoves DEF serverKeeps
  <2>7. ListOnce' /\ \A r \in Requests : InHands(r)' <=> InHands(r)
    BY <2>1 DEF SessionInv, ListOnce, InHands
  <2> QED BY <1>1, <2>3, <2>4, <2>6, <2>7, ServerKept
<1>7. CASE ReceiveSetCurrent(s)
  <2>1. UNCHANGED <<list, held, mlock>> /\ current' = held[s] /\ Goto(s, "receiving")
    BY <1>7 DEF ReceiveSetCurrent
  <2>2. "receiving" \in ServerPCs /\ "receiving" \in Locking /\ "receiving" \in Carrying
    BY DEF ServerPCs, Locking, Carrying
  <2>3. held[s] # None /\ current = None /\ held[s] \notin Range(list)
    BY <1>7 DEF ReceiveSetCurrent, SessionInv, LockInv, HeldInv, CurrentInv, ListOnce, Carrying
  <2>4. ServerMoves(s, "receiving") /\ ServerSeesRequest'
    BY <1>1, <2>1, <2>2, <2>3, GotoFacts DEF serverKeeps
  <2>5. SessionTypes'
    BY <1>1, <1>4, <2>1, <2>4 DEF SessionTypes, ServerMoves, serverKeeps
  <2>6. LockInv'
    BY <1>1, <1>2, <2>1, <2>2, <2>3, <2>4, OwnerMoves, Zenon DEF serverKeeps
  <2>7. ListOnce'
    BY <2>1, <2>3 DEF SessionInv, ListOnce
  <2>8. \A r \in Requests : InHands(r)' <=> InHands(r)
    BY <2>1, <2>3, SessionAssumption DEF InHands
  <2> QED BY <1>1, <2>4, <2>5, <2>6, <2>7, <2>8, ServerKept
<1>8. CASE ReceiveOk(s)
  <2>1. /\ UNCHANGED <<list, current>> /\ mlock' = None /\ Goto(s, "serving")
        /\ held' = [held EXCEPT ![s] = None]
    BY <1>8 DEF ReceiveOk
  <2>2. "serving" \in ServerPCs /\ "serving" \notin Locking /\ "serving" \notin Carrying
    BY DEF ServerPCs, Locking, Carrying
  <2>3. held[s] = current /\ held'[s] = None /\ \A h \in Holders \ {s} : held'[h] = held[h]
    BY <1>8, <1>4, <2>1 DEF ReceiveOk, SessionInv, SessionTypes, LockInv, CurrentInv
  <2>4. ServerMoves(s, "serving") /\ ServerSeesRequest'
    BY <1>1, <2>1, <2>2, GotoFacts DEF serverKeeps
  <2>5. SessionTypes'
    BY <1>1, <1>4, <2>1, <2>4 DEF SessionTypes, ServerMoves, serverKeeps
  <2>6. LockInv'
    BY <1>1, <1>2, <2>1, <2>2, <2>3, <2>4, OwnerMoves, Zenon DEF serverKeeps
  <2>7. ListOnce'
    BY <1>4, <2>1, <2>3, SessionAssumption DEF SessionInv, ListOnce, SessionTypes, Range
  <2>8. \A r \in Requests : InHands(r)' <=> InHands(r)
    BY <1>4, <2>1, <2>3, SessionAssumption, Zenon DEF InHands
  <2> QED BY <1>1, <2>4, <2>5, <2>6, <2>7, <2>8, ServerKept
<1> QED BY <1>5, <1>6, <1>7, <1>8

\* A failed receive, and the steps of SendReply.
LEMMA SessionInvReply ==
  ASSUME SessionInv, NEW s \in Servers, ReceiveFail(s) \/ ReplyTake(s) \/ Reply(s)
  PROVE  SessionInv'
<1>1. /\ UNCHANGED serverKeeps /\ list' = list
      /\ server[s] \in {"receiving", "replying", "failed", "taken"} /\ server[s] # "gone"
  BY DEF ReceiveFail, ReplyTake, Reply
<1>2. mlock = s
  BY <1>1 DEF SessionInv, LockInv, MlockInv, Locking
<1>3. \A h \in Holders \ {s} : held[h] = None
  BY <1>2, HolderLocks
<1>4. SessionTypes /\ s \in Holders /\ Servers \cup {"server"} \subseteq Holders /\ "server" # s
  BY SessionAssumption DEF SessionInv, Holders, Sides
<1>5. None \notin Range(list)
  BY <1>4, SessionAssumption DEF SessionTypes, Range
<1>6. {"failed", "taken"} \subseteq ServerPCs \cap Locking \cap Carrying
  BY DEF ServerPCs, Locking, Carrying
<1>7. "idle" \in ServerPCs /\ "idle" \notin Locking /\ "idle" \notin Carrying
  BY DEF ServerPCs, Locking, Carrying
<1>8. CASE ReceiveFail(s)
  <2>1. /\ UNCHANGED <<held, mlock, refs, answers, client>> /\ current' = None
        /\ server' = AfterCurrent(s, "failed")
    BY <1>8 DEF ReceiveFail
  <2>2. held[s] = current /\ held[s] # None
    BY <1>8 DEF ReceiveFail, SessionInv, LockInv, CurrentInv, HeldInv, Carrying
  <2>3. ServerMoves(s, "failed") /\ (list # <<>> => \A t \in Servers : server'[t] # "waiting")
    BY <1>4, <1>6, <2>1, AfterCurrentFacts DEF ServerMoves
  <2>4. ServerSeesRequest'
    BY <1>1, <2>3 DEF ServerSeesRequest
  <2>5. SessionTypes'
    BY <1>1, <1>4, <2>1, <2>3 DEF SessionTypes, ServerMoves, serverKeeps
  <2>6. LockInv'
    BY <1>1, <1>2, <1>6, <2>1, <2>2, <2>3, OwnerMoves DEF serverKeeps
  <2>7. ListOnce'
    BY <1>1, <1>5, <2>1 DEF SessionInv, ListOnce
  <2>8. \A r \in Requests : InHands(r)' <=> InHands(r)
    BY <1>1, <2>1, <2>2, SessionAssumption DEF InHands
  <2> QED BY <1>1, <2>1, <2>4, <2>5, <2>6, <2>7, <2>8, ServerKept
<1>9. CASE ReplyTake(s) /\ current = None
  <2>1. UNCHANGED <<held, current, refs, answers, client>> /\ mlock' = None /\ Goto(s, "idle")
    BY <1>9 DEF ReplyTake
  <2>2. held'[s] = None
    BY <1>9, <2>1 DEF ReplyTake, SessionInv, LockInv, HeldInv, Carrying
  <2>3. ServerMoves(s, "idle") /\ ServerSeesRequest'
    BY <1>1, <1>7, <2>1, GotoFacts DEF serverKeeps
  <2>4. SessionTypes'
    BY <1>1, <1>4, <2>1, <2>3 DEF SessionTypes, ServerMoves, serverKeeps
  <2>5. LockInv'
    BY <1>1, <1>2, <1>7, <2>1, <2>2, <2>3, OwnerMoves, Zenon DEF serverKeeps
  <2>6. ListOnce' /\ \A r \in Requests : InHands(r)' <=> InHands(r)
    BY <1>1, <2>1 DEF SessionInv, ListOnce, InHands
  <2> QED BY <1>1, <2>1, <2>3, <2>4, <2>5, <2>6, ServerKept
<1>10. CASE ReplyTake(s) /\ current # None
  <2>1. /\ UNCHANGED <<mlock, refs, answers, client>> /\ current' = None
        /\ held' = [held EXCEPT ![s] = current] /\ server' = AfterCurrent(s, "taken")
    BY <1>10 DEF ReplyTake, CurrentAfterTake
  <2>2. held[s] = None /\ held'[s] = current /\ \A h \in Holders \ {s} : held'[h] = held[h]
    BY <1>10, <1>4, <2>1, Zenon DEF ReplyTake, SessionInv, SessionTypes, LockInv, HeldInv, Carrying
  <2>3. ServerMoves(s, "taken") /\ (list # <<>> => \A t \in Servers : server'[t] # "waiting")
    BY <1>4, <1>6, <2>1, AfterCurrentFacts DEF ServerMoves
  <2>4. ServerSeesRequest'
    BY <1>1, <2>3 DEF ServerSeesRequest
  <2>5. SessionTypes'
    BY <1>1, <1>4, <2>1, <2>3 DEF SessionTypes, ServerMoves, serverKeeps
  <2>6. LockInv'
    BY <1>10, <1>1, <1>2, <1>6, <2>1, <2>2, <2>3, OwnerMoves, Zenon DEF serverKeeps
  <2>7. ListOnce'
    BY <1>1, <1>4, <1>5, <2>1, <2>2 DEF SessionInv, ListOnce
  <2>8. \A r \in Requests : InHands(r)' <=> InHands(r)
    BY <1>1, <1>4, <2>1, <2>2, SessionAssumption DEF InHands
  <2> QED BY <1>1, <2>1, <2>4, <2>5, <2>6, <2>7, <2>8, ServerKept
<1>11. CASE Reply(s)
  <2>1. /\ Answer(held[s]) /\ refs' = Closed(held[s]) /\ held' = [held EXCEPT ![s] = None]
        /\ mlock' = None /\ Goto(s, "idle") /\ current' = current
    BY <1>11 DEF Reply
  <2>2. held[s] \in Requests /\ current = None /\ held[s] \notin Range(list)
    <3>1. server[s] \in {"failed", "taken"}
      BY <1>11 DEF Reply
    <3>2. held[s] # None /\ current = None
      BY <3>1 DEF SessionInv, LockInv, HeldInv, CurrentInv, Carrying
    <3> QED BY <1>4, <3>2 DEF SessionInv, SessionTypes, ListOnce
  <2>3. held'[s] = None /\ \A h \in Holders \ {s} : held'[h] = held[h]
    BY <1>4, <2>1 DEF SessionTypes
  <2>4. ServerMoves(s, "idle") /\ ServerSeesRequest'
    BY <1>1, <1>7, <2>1, GotoFacts DEF serverKeeps
  <2>5. InHands(held[s])
    BY DEF InHands
  <2>6. \A q \in Requests : InHands(q)' <=> InHands(q) /\ q # held[s]
    BY <1>1, <1>3, <1>4, <2>1, <2>2, <2>3, SessionAssumption DEF InHands
  <2>7. /\ CountInv' /\ refs' \in [Requests -> Int] /\ answers' \in [Requests -> Nat]
        /\ client' \in [Clients -> {"idle", "waiting", "returning", "elsewhere"}]
    BY <1>1, <2>1, <2>2, <2>5, <2>6, CountLetGo DEF serverKeeps
  <2>8. SessionTypes'
    BY <1>1, <1>4, <2>1, <2>4, <2>7, Zenon DEF SessionTypes, ServerMoves, serverKeeps
  <2>9. LockInv'
    BY <1>1, <1>2, <1>7, <2>1, <2>3, <2>4, OwnerMoves, Zenon DEF serverKeeps
  <2>10. ListOnce'
    BY <1>1, <1>3, <1>4, <1>5, <2>1, <2>3 DEF SessionInv, ListOnce
  <2>11. ClosingInv'
    BY <1>1, ClosingKept DEF serverKeeps
  <2> QED BY <2>4, <2>7, <2>8, <2>9, <2>10, <2>11 DEF SessionInv
<1> QED BY <1>8, <1>9, <1>10, <1>11
-----------------------------------------------------------------------------
\* Destroy of a side up to the state, and taking m_lock for the cleanup.
LEMMA SessionInvClose ==
  ASSUME SessionInv, NEW d \in Sides, CloseBegin(d) \/ CloseSetState(d) \/ CloseLock(d)
  PROVE  SessionInv'
<1>1. /\ UNCHANGED <<closeKeeps, list, current, refs, thread, async, answers, client, held>>
      /\ closing[d] \in {"open", "normal", "lock"}
  BY DEF CloseBegin, CloseSetState, CloseLock
<1>2. SessionTypes /\ held[d] = None /\ d \in Holders
  BY <1>1 DEF SessionInv, LockInv, HeldInv, Holders
<1>3. ListOnce' /\ \A r \in Requests : InHands(r)' <=> InHands(r)
  BY <1>1 DEF SessionInv, ListOnce, InHands
<1>4. CountInv'
  BY <1>1, <1>3, CountKept DEF closeKeeps
<1>5. CASE CloseBegin(d)
  <2>1. PICK pc \in {"normal", "done", "lock"} :
            /\ closing' = [closing EXCEPT ![d] = pc] /\ UNCHANGED <<state, mlock>>
            /\ pc # "normal" => IsClosed
    BY <1>5, Zenon DEF CloseBegin, Step, IsClosed
  <2>2. closing'[d] = pc /\ \A e \in Sides \ {d} : closing'[e] = closing[e]
    BY <1>2, <2>1 DEF SessionTypes
  <2>3. /\ server' \in [Servers -> ServerPCs]
        /\ \A s \in Servers : /\ server'[s] = server[s] \/ (server[s] \notin Locking /\ server'[s] = "gone")
                              /\ d = "server" => server'[s] = "gone"
    BY <1>2, <1>5, Zenon DEF SessionTypes, CloseBegin, Unreferenced, ServerPCs, Locking
  <2>4. SessionTypes'
    BY <1>1, <1>2, <2>1, <2>3 DEF SessionTypes, closeKeeps
  <2>5. MlockInv'
    BY <2>1, <2>2, <2>3 DEF SessionInv, LockInv, MlockInv, Locking
  <2>6. HeldInv'
    BY <1>1, <1>2, <2>2, <2>3 DEF SessionInv, LockInv, HeldInv, Locking, Carrying
  <2>7. CurrentInv'
    BY <1>1, <2>3 DEF SessionInv, LockInv, CurrentInv
  <2>8. (\A e \in Sides : closing'[e] \in {"lock", "loop", "done"} => IsClosed)
    BY <2>1, <2>2 DEF SessionInv, ClosingInv
  <2>9. closing'["server"] # "open" => \A s \in Servers : server'[s] = "gone"
    BY <2>2, <2>3 DEF SessionInv, ClosingInv, Sides
  <2>10. ServerSeesRequest'
    BY <1>1, <2>1, <2>3 DEF SessionInv, ServerSeesRequest, IsClosed
  <2> QED BY <1>3, <1>4, <2>1, <2>4, <2>5, <2>6, <2>7, <2>8, <2>9, <2>10
          DEF SessionInv, LockInv, ClosingInv, IsClosed
<1>6. CASE CloseSetState(d)
  <2>1. /\ closing' = [closing EXCEPT ![d] = "lock"] /\ UNCHANGED <<mlock, server>> /\ IsClosed'
        /\ state' \in {"ClientClosed", "ServerClosed"} /\ closing[d] # "open"
    BY <1>6 DEF CloseSetState, Step, IsClosed
  <2>2. closing'[d] = "lock" /\ \A e \in Sides \ {d} : closing'[e] = closing[e]
    BY <1>2, <2>1 DEF SessionTypes
  <2>3. SessionTypes'
    BY <1>1, <1>2, <2>1 DEF SessionTypes, closeKeeps
  <2>4. MlockInv' /\ CurrentInv'
    BY <1>1, <2>1, <2>2 DEF SessionInv, LockInv, MlockInv, CurrentInv
  <2>5. HeldInv'
    BY <1>1, <1>2, <2>1, <2>2 DEF SessionInv, LockInv, HeldInv
  <2>6. ClosingInv' /\ ServerSeesRequest'
    BY <2>1, <2>2 DEF SessionInv, ClosingInv, ServerSeesRequest, Sides
  <2> QED BY <1>3, <1>4, <2>3, <2>4, <2>5, <2>6 DEF SessionInv, LockInv
<1>7. CASE CloseLock(d)
  <2>1. /\ closing' = [closing EXCEPT ![d] = "loop"] /\ UNCHANGED <<state, server>>
        /\ closing[d] = "lock" /\ mlock = None /\ mlock' = d
    BY <1>7 DEF CloseLock, Step
  <2>2. closing'[d] = "loop" /\ \A e \in Sides \ {d} : closing'[e] = closing[e]
    BY <1>2, <2>1 DEF SessionTypes
  <2>3. SessionTypes'
    BY <1>1, <1>2, <2>1 DEF SessionTypes, closeKeeps
  <2>4. (\A s \in Servers : server[s] \notin Locking) /\ \A e \in Sides : closing[e] # "loop"
    BY <2>1, SessionAssumption DEF SessionInv, LockInv, MlockInv, Holders
  <2>5. MlockInv' /\ CurrentInv'
    BY <1>1, <2>1, <2>2, <2>4 DEF SessionInv, LockInv, MlockInv, CurrentInv
  <2>6. HeldInv'
    BY <1>1, <1>2, <2>1, <2>2 DEF SessionInv, LockInv, HeldInv
  <2>7. ClosingInv' /\ ServerSeesRequest'
    BY <1>1, <2>1, <2>2 DEF SessionInv, ClosingInv, ServerSeesRequest, IsClosed, Sides
  <2> QED BY <1>3, <1>4, <2>3, <2>5, <2>6, <2>7 DEF SessionInv, LockInv
<1> QED BY <1>5, <1>6, <1>7

\* The cleanup of a side has m_lock to itself, and the session is closed.
LEMMA CleanupOwns ==
  ASSUME SessionInv, NEW d \in Sides, closing[d] = "loop"
  PROVE  /\ mlock = d /\ IsClosed /\ d \in Holders /\ Servers \cup {"server"} \subseteq Holders
         /\ \A s \in Servers : server[s] \notin Locking
         /\ \A e \in Sides \ {d} : closing[e] # "loop"
         /\ \A h \in Holders \ {d} : held[h] = None
<1>1. mlock = d /\ IsClosed /\ d \in Holders /\ Servers \cup {"server"} \subseteq Holders
  BY DEF SessionInv, LockInv, MlockInv, ClosingInv, Holders, Sides
<1>2. \A h \in Holders \ {d} : held[h] = None
  BY <1>1, HolderLocks
<1>3. \A s \in Servers : server[s] \notin Locking
  BY <1>1, SessionAssumption DEF SessionInv, LockInv, MlockInv
<1>4. \A e \in Sides \ {d} : closing[e] # "loop"
  BY <1>1 DEF SessionInv, LockInv, MlockInv
<1> QED BY <1>1, <1>2, <1>3, <1>4

\* A step of a cleanup.
LEMMA CleanupMoves ==
  ASSUME SessionInv, NEW d \in Sides, closing[d] = "loop",
         NEW pc \in {"loop", "done"}, closing' = [closing EXCEPT ![d] = pc],
         mlock' = (IF pc = "loop" THEN d ELSE None), state' = state,
         \A s \in Servers : \/ server'[s] = server[s]
                            \/ server[s] = "waiting" /\ server'[s] = "receive",
         \A h \in Holders \ {d} : held'[h] = held[h],
         held'[d] # None => /\ pc = "loop"
                            /\ current' = IF d = "server" THEN None ELSE held'[d]
  PROVE  LockInv' /\ ClosingInv' /\ ServerSeesRequest'
<1>1. /\ mlock = d /\ IsClosed /\ d \in Holders /\ Servers \cup {"server"} \subseteq Holders
      /\ \A s \in Servers : server[s] \notin Locking
      /\ \A e \in Sides \ {d} : closing[e] # "loop"
      /\ \A h \in Holders \ {d} : held[h] = None
  BY CleanupOwns
<1>2. /\ \A s \in Servers : server'[s] \notin Locking /\ held'[s] = None
      /\ closing'[d] = pc /\ \A e \in Sides \ {d} : closing'[e] = closing[e] /\ held'[e] = None
  BY <1>1, SessionAssumption, Zenon DEF SessionInv, SessionTypes, Holders, Locking
<1>3. MlockInv' /\ HeldInv'
  BY <1>1, <1>2 DEF MlockInv, HeldInv, Locking, Carrying
<1>4. CurrentInv'
  BY <1>2 DEF CurrentInv, Locking, Sides
<1>5. ClosingInv'
  BY <1>1, <1>2 DEF SessionInv, ClosingInv, IsClosed
<1>6. ServerSeesRequest'
  BY <1>1 DEF ServerSeesRequest, IsClosed
<1> QED BY <1>3, <1>4, <1>5, <1>6 DEF LockInv

\* KServerSession::OnClientClosed.
LEMMA SessionInvClientClosed ==
  ASSUME SessionInv, ClientClosedCurrent \/ ClientClosedQueued \/ ClientClosedEnd
  PROVE  SessionInv'
<1>2. "client" \in Sides /\ closing["client"] = "loop"
  BY DEF ClientClosedCurrent, ClientClosedQueued, ClientClosedEnd, Sides
<1>3. /\ mlock = "client" /\ "client" \in Holders /\ Servers \cup {"server"} \subseteq Holders
      /\ \A h \in Holders \ {"client"} : held[h] = None
  BY <1>2, CleanupOwns
<1>4. /\ SessionTypes /\ closing = [closing EXCEPT !["client"] = "loop"] /\ "client" \notin Servers
      /\ Servers \cup {"server"} \subseteq Holders \ {"client"}
  BY <1>2, <1>3, SessionAssumption DEF SessionInv, SessionTypes, Sides
<1>5. CASE ClientClosedCurrent
  <2>1. /\ current \in Requests /\ held' = [held EXCEPT !["client"] = current]
        /\ UNCHANGED <<closeKeeps, state, list, current, mlock, refs, answers, client, server, closing>>
    BY <1>5, <1>4 DEF ClientClosedCurrent, SessionTypes
  <2>2. held'["client"] = current /\ \A h \in Holders \ {"client"} : held'[h] = held[h]
    BY <1>3, <1>4, <2>1 DEF SessionTypes
  <2>3. /\ thread' \in [Requests -> Clients \cup {None}] /\ async' \in [Requests -> BOOLEAN]
        /\ \A r \in Requests : /\ async'[r] => async[r]
                               /\ async'[r] => thread'[r] = thread[r]
    <3>1. \/ /\ thread' = [thread EXCEPT ![current] = None]
             /\ async' = [async EXCEPT ![current] = FALSE]
          \/ UNCHANGED <<thread, async>>
      BY <1>5 DEF ClientClosedCurrent
    <3>2. thread \in [Requests -> Clients \cup {None}] /\ async \in [Requests -> BOOLEAN]
      BY <1>4 DEF SessionTypes
    <3>3. CASE UNCHANGED <<thread, async>>
      BY ONLY <3>2, <3>3
    <3>4. CASE /\ thread' = [thread EXCEPT ![current] = None]
               /\ async' = [async EXCEPT ![current] = FALSE]
      BY ONLY <2>1, <3>2, <3>4
    <3> QED BY <3>1, <3>3, <3>4
  <2>4. SessionTypes'
    BY <1>3, <1>4, <2>1, <2>3 DEF SessionTypes, closeKeeps
  <2>5. LockInv' /\ ClosingInv' /\ ServerSeesRequest'
    BY <1>2, <1>3, <1>4, <2>1, <2>2, CleanupMoves
  <2>6. ListOnce' /\ \A r \in Requests : InHands(r)' <=> InHands(r)
    BY <1>4, <2>1, <2>2 DEF SessionInv, ListOnce, InHands
  <2>7. UsedInv' /\ AnswerInv'
    BY <1>4, <2>1, <2>3, <2>6, Zenon DEF SessionInv, SessionTypes, CountInv, UsedInv, AnswerInv, closeKeeps
  <2>8. ClientInv'
    BY <2>1, Zenon DEF SessionInv, CountInv, ClientInv, closeKeeps
  <2>9. RefsExact'
    BY <2>1, <2>6 DEF SessionInv, CountInv, RefsExact, closeKeeps
  <2> QED BY <2>4, <2>5, <2>6, <2>7, <2>8, <2>9 DEF SessionInv, CountInv
<1>6. CASE ClientClosedQueued
  <2>1. /\ list # <<>> /\ list' = Tail(list)
        /\ answers' = EventSignaled(Head(list)) /\ refs' = Closed(Head(list))
        /\ UNCHANGED <<closeKeeps, state, current, mlock, thread, async, client, server, held, closing>>
    BY <1>6 DEF ClientClosedQueued
  <2>2. /\ Head(list) \in Requests /\ list' \in Seq(Requests) /\ IsInjective(list')
        /\ Range(list) = Range(list') \cup {Head(list)} /\ Head(list) \notin Range(list')
    BY <1>4, <2>1, TailFacts DEF SessionInv, SessionTypes, ListOnce
  <2>3. InHands(Head(list))
    BY <2>2 DEF InHands
  <2>4. \A q \in Requests : InHands(q)' <=> InHands(q) /\ q # Head(list)
    BY <2>1, <2>2 DEF SessionInv, ListOnce, InHands
  <2>5. /\ CountInv' /\ refs' \in [Requests -> Int] /\ answers' \in [Requests -> Nat]
    BY <2>1, <2>2, <2>3, <2>4, CountLetGo DEF closeKeeps
  <2>6. SessionTypes'
    BY <1>4, <2>1, <2>2, <2>5, Zenon DEF SessionTypes, closeKeeps
  <2>7. held'["client"] # None => current' = held'["client"]
    BY <2>1 DEF SessionInv, LockInv, CurrentInv
  <2>8. LockInv' /\ ClosingInv' /\ ServerSeesRequest'
    BY <1>2, <1>3, <1>4, <2>1, <2>7, CleanupMoves
  <2>9. ListOnce'
    BY <2>1, <2>2 DEF SessionInv, ListOnce
  <2> QED BY <2>5, <2>6, <2>8, <2>9 DEF SessionInv
<1>7. CASE ClientClosedEnd
  <2>1. /\ server' = Notified(list, current) /\ held' = [held EXCEPT !["client"] = None]
        /\ mlock' = None /\ closing' = [closing EXCEPT !["client"] = "done"]
        /\ UNCHANGED <<closeKeeps, state, list, current, refs, thread, async, answers, client>>
    BY <1>7 DEF ClientClosedEnd, Step
  <2>2. held'["client"] = None /\ \A h \in Holders \ {"client"} : held'[h] = held[h]
    BY <1>3, <1>4, <2>1 DEF SessionTypes
  <2>3. /\ server' \in [Servers -> ServerPCs]
        /\ \A s \in Servers : \/ server'[s] = server[s]
                              \/ server[s] = "waiting" /\ server'[s] = "receive"
    BY <1>4, <2>1, NotifiedFacts
  <2>4. SessionTypes'
    BY <1>2, <1>3, <1>4, <2>1, <2>3 DEF SessionTypes, closeKeeps
  <2>5. LockInv' /\ ClosingInv' /\ ServerSeesRequest'
    BY <1>2, <2>1, <2>2, <2>3, CleanupMoves, Zenon
  <2>6. ListOnce' /\ \A r \in Requests : InHands(r)' <=> InHands(r)
    BY <1>4, <2>1, <2>2, Zenon DEF SessionInv, ListOnce, InHands
  <2>7. CountInv'
    BY <2>1, <2>6, CountKept DEF closeKeeps
  <2> QED BY <2>4, <2>5, <2>6, <2>7 DEF SessionInv
<1> QED BY <1>5, <1>6, <1>7

\* CleanupRequests when the server goes.
LEMMA SessionInvCleanup ==
  ASSUME SessionInv, CleanupTake \/ CleanupAnswer \/ CleanupEnd
  PROVE  SessionInv'
<1>1. "server" \in Sides /\ closing["server"] = "loop"
  BY DEF CleanupTake, CleanupAnswer, CleanupEnd, Sides
<1>2. /\ mlock = "server" /\ "server" \in Holders /\ Servers \cup {"server"} \subseteq Holders
      /\ \A h \in Holders \ {"server"} : held[h] = None
  BY <1>1, CleanupOwns
<1>3. SessionTypes /\ closing = [closing EXCEPT !["server"] = "loop"] /\ "server" \notin Servers
  BY <1>1, SessionAssumption DEF SessionInv, SessionTypes, Sides
<1>4. None \notin Range(list)
  BY <1>3, SessionAssumption DEF SessionTypes, Range
<1>5. CASE CleanupTake
  <2>1. /\ held["server"] = None
        /\ UNCHANGED <<closeKeeps, state, mlock, refs, thread, async, answers, client, server, closing>>
    BY <1>5 DEF CleanupTake
  <2>2. PICK r \in Requests :
           /\ held' = [held EXCEPT !["server"] = r] /\ current' = None
           /\ list' \in Seq(Requests) /\ IsInjective(list') /\ r \notin Range(list')
           /\ Range(list') \subseteq Range(list)
           /\ \A q \in Requests : q \in Range(list) \/ q = current <=> q \in Range(list') \/ q = r
    <3>1. CASE /\ current # None /\ held' = [held EXCEPT !["server"] = current]
               /\ current' = None /\ list' = list
      BY <1>3, <3>1, Zenon DEF SessionInv, SessionTypes, ListOnce
    <3>2. CASE /\ current = None /\ list # <<>> /\ held' = [held EXCEPT !["server"] = Head(list)]
               /\ list' = Tail(list) /\ current' = current
      <4>1. /\ Head(list) \in Requests /\ list' \in Seq(Requests) /\ IsInjective(list')
            /\ Range(list) = Range(list') \cup {Head(list)} /\ Head(list) \notin Range(list')
        BY <1>3, <3>2, TailFacts DEF SessionInv, SessionTypes, ListOnce
      <4> QED BY <3>2, <4>1, SessionAssumption, Zenon
    <3> QED BY <1>5, <3>1, <3>2 DEF CleanupTake
  <2>3. held'["server"] = r /\ \A h \in Holders \ {"server"} : held'[h] = held[h]
    BY <1>2, <1>3, <2>2 DEF SessionTypes
  <2>4. SessionTypes'
    BY <1>2, <1>3, <2>1, <2>2 DEF SessionTypes, closeKeeps
  <2>5. LockInv' /\ ClosingInv' /\ ServerSeesRequest'
    BY <1>1, <1>2, <1>3, <2>1, <2>2, <2>3, CleanupMoves
  <2>6. ListOnce'
    BY <1>2, <1>4, <2>2, <2>3 DEF ListOnce
  <2>7. \A q \in Requests : InHands(q)' <=> InHands(q)
    BY <1>2, <2>1, <2>2, <2>3, SessionAssumption DEF InHands
  <2>8. CountInv'
    BY <2>1, <2>7, CountKept DEF closeKeeps
  <2> QED BY <2>4, <2>5, <2>6, <2>8 DEF SessionInv
<1>6. CASE CleanupAnswer
  <2> DEFINE r == held["server"]
  <2>1. /\ Answer(r) /\ refs' = Closed(r) /\ held' = [held EXCEPT !["server"] = None]
        /\ UNCHANGED <<closeKeeps, state, list, current, mlock, thread, async, server, closing>>
    BY <1>6 DEF CleanupAnswer
  <2>2. r \in Requests /\ current = None /\ r \notin Range(list) /\ InHands(r)
    BY <1>6, <1>2, <1>3 DEF CleanupAnswer, SessionInv, SessionTypes, LockInv, CurrentInv, ListOnce, InHands
  <2>3. held'["server"] = None /\ \A h \in Holders \ {"server"} : held'[h] = held[h]
    BY <1>2, <1>3, <2>1 DEF SessionTypes
  <2>4. \A q \in Requests : InHands(q)' <=> InHands(q) /\ q # r
    BY <1>2, <2>1, <2>2, <2>3, SessionAssumption DEF InHands
  <2> HIDE DEF r
  <2>5. /\ CountInv' /\ refs' \in [Requests -> Int] /\ answers' \in [Requests -> Nat]
        /\ client' \in [Clients -> {"idle", "waiting", "returning", "elsewhere"}]
    BY <2>1, <2>2, <2>4, CountLetGo DEF closeKeeps
  <2>6. SessionTypes'
    BY <1>2, <1>3, <2>1, <2>5 DEF SessionTypes, closeKeeps
  <2>7. LockInv' /\ ClosingInv' /\ ServerSeesRequest'
    BY <1>1, <1>2, <1>3, <2>1, <2>3, CleanupMoves
  <2>8. ListOnce'
    BY <1>2, <1>4, <2>1, <2>3 DEF SessionInv, ListOnce
  <2> QED BY <2>5, <2>6, <2>7, <2>8 DEF SessionInv
<1>7. CASE CleanupEnd
  <2>1. /\ mlock' = None /\ closing' = [closing EXCEPT !["server"] = "done"]
        /\ held["server"] = None
        /\ UNCHANGED <<closeKeeps, state, list, current, refs, thread, async, answers, client, server, held>>
    BY <1>7 DEF CleanupEnd, Step
  <2>2. SessionTypes'
    BY <1>1, <1>3, <2>1 DEF SessionTypes, closeKeeps
  <2>3. LockInv' /\ ClosingInv' /\ ServerSeesRequest'
    BY <1>1, <2>1, CleanupMoves, Zenon
  <2>4. ListOnce' /\ \A r \in Requests : InHands(r)' <=> InHands(r)
    BY <2>1 DEF SessionInv, ListOnce, InHands
  <2>5. CountInv'
    BY <2>1, <2>4, CountKept DEF closeKeeps
  <2> QED BY <2>2, <2>3, <2>4, <2>5 DEF SessionInv
<1> QED BY <1>5, <1>6, <1>7

\* Every step of a session keeps the invariant.
LEMMA SessionInvNext == SessionInv /\ [Next]_vars => SessionInv'
<1> SUFFICES ASSUME SessionInv, [Next]_vars PROVE SessionInv'
  OBVIOUS
<1>1. ASSUME NEW s \in Servers, ServerStep(s) \/ ReceiveFail(s) PROVE SessionInv'
  BY <1>1, SessionInvWait, SessionInvReceive, SessionInvReply, Zenon, Zenon DEF ServerStep
<1>2. ASSUME CloseStep PROVE SessionInv'
  BY <1>2, SessionInvClose, SessionInvClientClosed, SessionInvCleanup, Zenon, Zenon DEF CloseStep
<1>3. ASSUME Next PROVE SessionInv'
  BY <1>1, <1>2, <1>3, SessionInvSend, SessionInvClients, SessionInvClose, Zenon, Zenon DEF Next
<1>4. CASE UNCHANGED vars
  <2>1. \A r \in Requests : InHands(r)' <=> InHands(r)
    BY <1>4 DEF vars, InHands
  <2>2. CountInv'
    BY <1>4, <2>1, CountKept DEF vars
  <2>3. SessionTypes' /\ ListOnce'
    BY <1>4 DEF vars, SessionInv, SessionTypes, ListOnce
  <2>4. LockInv' /\ ClosingInv' /\ ServerSeesRequest'
    BY <1>4, LockKept DEF vars, SessionInv, ClosingInv, ServerSeesRequest, IsClosed
  <2> QED BY <2>2, <2>3, <2>4 DEF SessionInv
<1> QED BY <1>3, <1>4
-----------------------------------------------------------------------------
\* A request of a session is neither freed while it is used nor leaked: it has one reference
\* for the call that sent it and one for the session (SendRequest, ReceiveRequest, SendReply,
\* OnClientClosed and CleanupRequests in any interleaving).
THEOREM ReferencesExact == Spec => []RefsExact
<1>1. SessionInv => RefsExact
  BY DEF SessionInv, CountInv
<1> QED BY <1>1, SessionInvInit, SessionInvNext, PTL DEF Spec

\* No request is answered twice, and an asynchronous one the session has let go of with its
\* event was answered.
THEOREM EveryRequestAnswered == Spec => []AnsweredOnce
<1>1. SessionInv => AnsweredOnce
  BY DEF SessionInv, CountInv, AnswerInv, AnsweredOnce
<1> QED BY <1>1, SessionInvInit, SessionInvNext, PTL DEF Spec

\* No server thread waits for a session that has a request to receive.
THEOREM ServerAwake == Spec => []ServerSeesRequest
<1>1. SessionInv => ServerSeesRequest
  BY DEF SessionInv
<1> QED BY <1>1, SessionInvInit, SessionInvNext, PTL DEF Spec

\* The variables of a session keep their types: a request never has more than two references.
THEOREM SessionTypesCorrect == Spec => []TypeOK
<1>1. SessionInv => TypeOK
  <2> SUFFICES ASSUME SessionInv PROVE TypeOK
    OBVIOUS
  <2>1. \A r \in Requests : refs[r] \in 0..3
    BY DEF SessionInv, CountInv, RefsExact
  <2>2. \A r \in Requests : answers[r] \in 0..2
    BY DEF SessionInv, SessionTypes, CountInv, AnswerInv
  <2> QED BY <2>1, <2>2 DEF SessionInv, SessionTypes, TypeOK, ServerPCs, Locking
<1> QED BY <1>1, SessionInvInit, SessionInvNext, PTL DEF Spec
=============================================================================
