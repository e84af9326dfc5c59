-------------------------- MODULE KLightSessionProofs --------------------------
(***************************************************************************)
(* Proofs about KLightSession, for any sets of clients and servers.        *)
(***************************************************************************)
EXTENDS MCSessions, KServerSessionProofs, WellFoundedInduction
-----------------------------------------------------------------------------
(* Sequences without repetitions *)

\* A non-empty set of natural numbers has a least element.
LEMMA LeastNatural ==
  ASSUME NEW S \in SUBSET Nat, S # {}
  PROVE  Min(S) \in S
  <1> DEFINE R == OpToRel(<, Nat)
  <1>1. IsWellFoundedOn(R, Nat) BY NatLessThanWellFounded, Zenon
  <1>2. \E m \in S : \A n \in S : ~ (<<n, m>> \in R)
    <2> HIDE DEF R
    <2> QED BY <1>1, WFMin, Zenon
  <1>3. ASSUME NEW m \in S, NEW n \in S, ~ (<<n, m>> \in R) PROVE m <= n
    <2>1. <<n, m>> \in Nat \X Nat OBVIOUS
    <2>2. ~ (n < m) BY <1>3, <2>1, Zenon DEF OpToRel
    <2> QED BY <2>2
  <1>4. \E m \in S : \A n \in S : m <= n BY <1>2, <1>3
  <1> QED BY <1>4, Zenon DEF Min

\* What RemoveAt leaves.
LEMMA RemoveAtFacts ==
  ASSUME NEW S, NEW s \in Seq(S), NEW i \in 1..Len(s)
  PROVE  /\ RemoveAt(s, i) \in Seq(S)
         /\ Len(RemoveAt(s, i)) = Len(s) - 1
         /\ \A k \in 1..Len(s) - 1 : RemoveAt(s, i)[k] = IF k < i THEN s[k] ELSE s[k + 1]
<1> DEFINE a == SubSeq(s, 1, i - 1)
           b == SubSeq(s, i + 1, Len(s))
<1>1. a \in Seq(S) /\ Len(a) = i - 1 /\ \A k \in 1..i - 1 : a[k] = s[k]
  BY LenProperties, SubSeqProperties
<1>2. b \in Seq(S) /\ Len(b) = Len(s) - i /\ \A k \in 1..Len(s) - i : b[k] = s[i + k]
  BY LenProperties, SubSeqProperties
<1>3. RemoveAt(s, i) = a \o b
  BY Zenon DEF RemoveAt
<1>4. Len(s) \in Nat
  BY LenProperties
<1> HIDE DEF a, b
<1>5. /\ a \o b \in Seq(S) /\ Len(a \o b) = Len(a) + Len(b)
      /\ \A k \in 1..Len(a) + Len(b) : (a \o b)[k] = IF k <= Len(a) THEN a[k] ELSE b[k - Len(a)]
  BY ONLY <1>1, <1>2, ConcatProperties
<1>6. ASSUME NEW k \in 1..Len(s) - 1 PROVE (a \o b)[k] = IF k < i THEN s[k] ELSE s[k + 1]
  <2>1. CASE k < i
    BY <1>1, <1>2, <1>4, <1>5, <2>1
  <2>2. CASE ~ k < i
    <3>1. (a \o b)[k] = b[k - (i - 1)] /\ k - (i - 1) \in 1..Len(s) - i
      BY ONLY <1>1, <1>2, <1>4, <1>5, <2>2, k \in 1..Len(s) - 1, i \in 1..Len(s)
    <3>2. b[k - (i - 1)] = s[i + (k - (i - 1))] /\ i + (k - (i - 1)) = k + 1
      BY ONLY <1>2, <1>4, <3>1, k \in 1..Len(s) - 1, i \in 1..Len(s)
    <3> QED BY ONLY <2>2, <3>1, <3>2
  <2> QED BY <2>1, <2>2
<1> QED BY <1>1, <1>2, <1>3, <1>4, <1>5, <1>6

\* RemoveFirst takes an element out of a sequence that has it once, and keeps the head if
\* that is another.
LEMMA RemoveFirstFacts ==
  ASSUME NEW S, NEW s \in Seq(S), IsInjective(s), NEW e
  PROVE  /\ RemoveFirst(s, e) \in Seq(S) /\ IsInjective(RemoveFirst(s, e))
         /\ Range(RemoveFirst(s, e)) = Range(s) \ {e}
         /\ s # <<>> /\ Head(s) # e
              => RemoveFirst(s, e) # <<>> /\ Head(RemoveFirst(s, e)) = Head(s)
<1> DEFINE I == {k \in 1..Len(s) : s[k] = e}
           r == RemoveFirst(s, e)
<1>0. Len(s) \in Nat /\ DOMAIN s = 1..Len(s)
  BY LenProperties
<1>1. CASE I = {}
  <2>1. r = s
    BY <1>1, Zenon DEF RemoveFirst
  <2> QED BY <1>0, <1>1, <2>1 DEF Range
<1>2. CASE I # {}
  <2>1. r = RemoveAt(s, Min(I))
    BY <1>2, Zenon DEF RemoveFirst, SelectInSeq
  <2>2. Min(I) \in I
    <3>1. I \in SUBSET Nat
      BY <1>0
    <3> HIDE DEF I
    <3> QED BY <1>2, <3>1, LeastNatural
  <2>3. PICK i \in 1..Len(s) : s[i] = e /\ r = RemoveAt(s, i)
    BY <2>1, <2>2
  <2> HIDE DEF r
  <2>4. /\ r \in Seq(S) /\ Len(r) = Len(s) - 1 /\ DOMAIN r = 1..Len(s) - 1
        /\ \A k \in 1..Len(s) - 1 : r[k] = IF k < i THEN s[k] ELSE s[k + 1]
    BY <2>3, RemoveAtFacts, LenProperties
  <2>5. \A j, k \in 1..Len(s) : s[j] = s[k] => j = k
    BY <1>0 DEF IsInjective
  <2>6. IsInjective(r)
    <3> SUFFICES ASSUME NEW j \in 1..Len(s) - 1, NEW k \in 1..Len(s) - 1, r[j] = r[k]
                 PROVE  j = k
      BY <2>4 DEF IsInjective
    <3> DEFINE p(n) == IF n < i THEN n ELSE n + 1
    <3>1. \A n \in 1..Len(s) - 1 : r[n] = s[p(n)] /\ p(n) \in 1..Len(s)
      BY <1>0, <2>4
    <3>2. p(j) = p(k)
      BY <2>5, <3>1
    <3> QED BY <3>2
  <2>7. ASSUME NEW x \in Range(r) PROVE x \in Range(s) /\ x # e
    <3>1. PICK k \in 1..Len(s) - 1 : x = r[k]
      BY <2>4 DEF Range
    <3>2. PICK j \in 1..Len(s) : x = s[j] /\ j # i
      BY <1>0, <2>4, <3>1
    <3> QED BY <1>0, <2>3, <2>5, <3>2 DEF Range
  <2>8. ASSUME NEW x \in Range(s), x # e PROVE x \in Range(r)
    <3>1. PICK k \in 1..Len(s) : x = s[k]
      BY <1>0 DEF Range
    <3>2. CASE k < i
      <4>1. k \in 1..Len(s) - 1 /\ r[k] = x
        BY <1>0, <2>4, <3>1, <3>2
      <4> QED BY <2>4, <4>1 DEF Range
    <3>3. CASE k > i
      <4>1. k - 1 \in 1..Len(s) - 1 /\ r[k - 1] = x
        BY <1>0, <2>4, <3>1, <3>3
      <4> QED BY <2>4, <4>1 DEF Range
    <3>4. k # i
      BY <2>3, <2>8, <3>1
    <3> QED BY <1>0, <3>2, <3>3, <3>4
  <2>9. ASSUME s # <<>>, Head(s) # e PROVE r # <<>> /\ Head(r) = Head(s)
    <3>1. Head(s) = s[1] /\ Len(s) >= 1
      BY <1>0, <2>3, <2>9
    <3>2. i # 1
      BY <2>3, <2>9, <3>1
    <3>3. Len(r) >= 1 /\ r[1] = s[1]
      BY <1>0, <2>4, <3>1, <3>2
    <3> QED BY <2>4, <3>1, <3>3
  <2>10. Range(r) = Range(s) \ {e}
    BY <2>7, <2>8
  <2> QED BY <2>4, <2>6, <2>9, <2>10 DEF r
<1> QED BY <1>1, <1>2
-----------------------------------------------------------------------------
(***************************************************************************)
(* A light session.  A client thread waits if and only if it is in the     *)
(* list, once; while the loop of CleanupRequests has a node, the current   *)
(* request has been answered.                                              *)
(***************************************************************************)

\* The list holds the client threads that wait.
ListIsWaiting ==
  \A t \in LightClients : lightClient[t] = "waiting" <=> t \in Range(lightList)

\* The loop of CleanupRequests has a node in its hands, and no request is current.
LoopHasNode ==
  \A d \in Ends : lightClosing[d] = "loop" => cursor # NoThread /\ lightCurrent = NoThread

LightInv ==
  LightTypeOK /\ ListIsWaiting /\ LoopHasNode /\ CurrentIsOldest /\ LightServerSeesRequest

\* A client thread leaves the list, and what it waited for.
LEMMA LeavesList ==
  ASSUME LightTypeOK, ListIsWaiting, NEW t \in LightClients,
         lightList' = ListWithout(t),
         NEW c, lightClient' = c,
         c \in [LightClients -> {"idle", "waiting", "elsewhere", "disturbed"}],
         c[t] # "waiting",
         \A u \in LightClients \ {t} : c[u] = lightClient[u]
  PROVE  /\ lightList' \in Seq(LightClients) /\ IsInjective(lightList')
         /\ lightClient' \in [LightClients -> {"idle", "waiting", "elsewhere", "disturbed"}]
         /\ ListIsWaiting'
         /\ lightList = <<>> => lightList' = <<>>
         /\ lightList # <<>> /\ Head(lightList) # t
              => lightList' # <<>> /\ Head(lightList') = Head(lightList)
<1>1. lightList \in Seq(LightClients) /\ IsInjective(lightList)
  BY DEF LightTypeOK
<1>2. /\ lightList' \in Seq(LightClients) /\ IsInjective(lightList')
      /\ Range(lightList') = Range(lightList) \ {t}
      /\ lightList # <<>> /\ Head(lightList) # t
           => lightList' # <<>> /\ Head(lightList') = Head(lightList)
  BY <1>1, RemoveFirstFacts, Zenon DEF ListWithout
<1>3. ListIsWaiting'
  BY <1>2 DEF ListIsWaiting
<1>4. ASSUME lightList = <<>> PROVE lightList' = <<>>
  <2>1. Range(lightList) = {}
    BY <1>4 DEF Range
  <2>2. lightList' # <<>> => Head(lightList') \in Range(lightList')
    BY <1>2, TailFacts
  <2> QED BY <1>2, <2>1, <2>2
<1> QED BY <1>2, <1>3, <1>4

\* EndWait of a client thread.
LEMMA ClientAfterEndWaitFacts ==
  ASSUME LightTypeOK, NEW t \in LightClients
  PROVE  /\ ClientAfterEndWait(t) \in [LightClients -> {"idle", "waiting", "elsewhere", "disturbed"}]
         /\ ClientAfterEndWait(t)[t] # "waiting"
         /\ \A u \in LightClients \ {t} : ClientAfterEndWait(t)[u] = lightClient[u]
  BY DEF LightTypeOK, ClientAfterEndWait

\* The answer to the current request keeps the list, and nobody is current then.
LEMMA AnswerCurrentFacts ==
  ASSUME LightInv, lightCurrent # NoThread, AnswerCurrent, lightTerm' = lightTerm
  PROVE  /\ lightList' \in Seq(LightClients) /\ IsInjective(lightList')
         /\ lightClient' \in [LightClients -> {"idle", "waiting", "elsewhere", "disturbed"}]
         /\ ListIsWaiting' /\ CurrentIsOldest'
         /\ lightCurrent' = NoThread /\ serverThreadId' = NoThread
         /\ lightList = <<>> => lightList' = <<>>
<1>1. lightCurrent \in LightClients
  BY DEF LightInv, LightTypeOK
<1>2. CASE LightMayEndWait(lightCurrent)
  BY <1>1, <1>2, LeavesList, ClientAfterEndWaitFacts
    DEF AnswerCurrent, CurrentIsOldest, LightInv
<1>3. CASE ~ LightMayEndWait(lightCurrent)
  BY <1>3 DEF AnswerCurrent, CurrentIsOldest, LightInv, LightTypeOK, ListIsWaiting
<1> QED BY <1>2, <1>3

\* The invariant holds of a new light session.
LEMMA LightInvInit == LightInit => LightInv
  BY LightAssumption
    DEF LightInit, LightInv, LightTypeOK, ListIsWaiting, LoopHasNode, CurrentIsOldest,
        LightServerSeesRequest, LightThreads, Ends, IsInjective, Range

\* Client threads and terminations keep it.
LEMMA LightInvClients ==
  ASSUME LightInv, NEW t \in LightThreads,
         \/ t \in LightClients /\ (OnRequest(t) \/ LightWaitElsewhere(t))
         \/ LightRequestTerminate(t)
  PROVE  LightInv'
<1> USE DEF LightInv
<1>1. CASE t \in LightClients /\ OnRequest(t)
  <2> USE <1>1 DEF OnRequest
  <2>1. t \notin Range(lightList)
    BY DEF ListIsWaiting
  <2>2. lightList \in Seq(LightClients) /\ IsInjective(lightList)
    BY DEF LightTypeOK
  <2>3. /\ lightList' \in Seq(LightClients) /\ lightList' # <<>> /\ IsInjective(lightList')
        /\ Range(lightList') = Range(lightList) \cup {t}
        /\ Head(lightList') = IF lightList = <<>> THEN t ELSE Head(lightList)
    BY <2>1, <2>2, AppendFacts
  <2>4. LightTypeOK'
    BY <2>3 DEF LightTypeOK, Woken, ServerAfterEndWait
  <2>5. ListIsWaiting'
    BY <2>3 DEF ListIsWaiting, LightTypeOK
  <2>6. LoopHasNode'
    BY DEF LoopHasNode
  <2>7. CurrentIsOldest'
    BY <2>3 DEF CurrentIsOldest, LightTypeOK
  <2>8. LightServerSeesRequest'
    BY LightAssumption DEF LightServerSeesRequest, LightTypeOK, Woken, ServerAfterEndWait
  <2> QED BY <2>4, <2>5, <2>6, <2>7, <2>8
<1>2. CASE t \in LightClients /\ LightWaitElsewhere(t)
  <2> USE <1>2 DEF LightWaitElsewhere, receiver
  <2>1. LightTypeOK'
    BY DEF LightTypeOK
  <2>2. ListIsWaiting'
    BY DEF ListIsWaiting, LightTypeOK
  <2>3. LoopHasNode' /\ LightServerSeesRequest'
    BY DEF LoopHasNode, LightServerSeesRequest
  <2>4. CurrentIsOldest'
    BY DEF CurrentIsOldest, LightTypeOK
  <2> QED BY <2>1, <2>2, <2>3, <2>4
<1>3. CASE LightRequestTerminate(t) /\ t \in LightClients
  <2> USE <1>3 DEF LightRequestTerminate
  <2>1. /\ [lightClient EXCEPT ![t] = "idle"]
              \in [LightClients -> {"idle", "waiting", "elsewhere", "disturbed"}]
        /\ [lightClient EXCEPT ![t] = "idle"][t] # "waiting"
        /\ \A u \in LightClients \ {t} : [lightClient EXCEPT ![t] = "idle"][u] = lightClient[u]
    BY DEF LightTypeOK
  <2>2. /\ lightList' \in Seq(LightClients) /\ IsInjective(lightList')
        /\ lightClient' \in [LightClients -> {"idle", "waiting", "elsewhere", "disturbed"}]
        /\ ListIsWaiting'
        /\ lightList = <<>> => lightList' = <<>>
        /\ lightList # <<>> /\ Head(lightList) # t
              => lightList' # <<>> /\ Head(lightList') = Head(lightList)
    BY <2>1, LeavesList
  <2>3. LightTypeOK'
    BY <2>2 DEF LightTypeOK
  <2>4. LoopHasNode'
    BY DEF LoopHasNode
  <2>5. CurrentIsOldest'
    BY <2>1, <2>2 DEF CurrentIsOldest, LightTypeOK, LightThreads
  <2>6. LightServerSeesRequest'
    BY <2>2 DEF LightServerSeesRequest
  <2> QED BY <2>2, <2>3, <2>4, <2>5, <2>6
<1>4. CASE LightRequestTerminate(t) /\ t \notin LightClients
  <2> USE <1>4 DEF LightRequestTerminate
  <2>1. t \in LightServers /\ t # NoThread
    BY LightAssumption DEF LightThreads
  <2>2. LightTypeOK'
    BY <2>1 DEF LightTypeOK
  <2>3. ListIsWaiting' /\ LoopHasNode'
    BY DEF ListIsWaiting, LoopHasNode
  <2>4. CurrentIsOldest'
    BY DEF CurrentIsOldest, LightTypeOK, LightThreads
  <2>5. LightServerSeesRequest'
    BY <2>1 DEF LightServerSeesRequest, LightTypeOK
  <2> QED BY <2>2, <2>3, <2>4, <2>5
<1> QED BY <1>1, <1>2, <1>3, <1>4

\* Server threads keep it.
LEMMA LightInvServers ==
  ASSUME LightInv, NEW s \in LightServers,
         \/ LightReply(s) \/ NoReply(s) \/ ReceiveFails(s)
         \/ Receive(s) \/ ReceiveWaits(s) \/ WaitCancel(s)
  PROVE  LightInv'
<1> USE DEF LightInv
<1>1. CASE LightReply(s)
  <2> USE <1>1 DEF LightReply
  <2>1. /\ lightList' \in Seq(LightClients) /\ IsInjective(lightList')
        /\ lightClient' \in [LightClients -> {"idle", "waiting", "elsewhere", "disturbed"}]
        /\ ListIsWaiting' /\ CurrentIsOldest'
        /\ lightCurrent' = NoThread /\ serverThreadId' = NoThread
        /\ lightList = <<>> => lightList' = <<>>
    BY AnswerCurrentFacts
  <2>2. LightTypeOK'
    BY <2>1 DEF LightTypeOK
  <2>3. LoopHasNode'
    BY <2>1 DEF LoopHasNode
  <2>4. LightServerSeesRequest'
    BY <2>1 DEF LightServerSeesRequest, LightTypeOK
  <2> QED BY <2>1, <2>2, <2>3, <2>4
<1>2. CASE NoReply(s) \/ ReceiveFails(s)
  <2>1. LightTypeOK'
    <3>1. /\ UNCHANGED <<lightState, lightList, receiver, lightClient, lightTerm, cursor, lightClosing>>
          /\ lightServer' \in [LightServers -> {"idle", "receive", "wait"}]
          /\ waitCancelled' \in [LightServers -> BOOLEAN]
      BY <1>2 DEF LightTypeOK, NoReply, ReceiveFails
    <3> QED BY <3>1 DEF LightTypeOK, receiver
  <2>2. ListIsWaiting' /\ LoopHasNode' /\ CurrentIsOldest'
    BY <1>2 DEF ListIsWaiting, LoopHasNode, CurrentIsOldest, NoReply, ReceiveFails, receiver
  <2>3. LightServerSeesRequest'
    BY <1>2 DEF LightServerSeesRequest, LightTypeOK, NoReply, ReceiveFails, receiver
  <2> QED BY <2>1, <2>2, <2>3
<1>3. CASE Receive(s)
  <2> USE <1>3 DEF Receive, Received
  <2>1. Head(lightList) \in LightClients /\ Head(lightList) \in Range(lightList)
    BY TailFacts DEF LightTypeOK
  <2>2. LightTypeOK'
    BY <2>1 DEF LightTypeOK
  <2>3. ListIsWaiting'
    BY DEF ListIsWaiting
  <2>4. LoopHasNode'
    BY DEF LoopHasNode, Unlocked
  <2>5. CurrentIsOldest'
    BY <2>1, LightAssumption DEF CurrentIsOldest, ListIsWaiting
  <2>6. LightServerSeesRequest'
    BY DEF LightServerSeesRequest, LightTypeOK
  <2> QED BY <2>2, <2>3, <2>4, <2>5, <2>6
<1>4. CASE ReceiveWaits(s)
  <2> USE <1>4 DEF ReceiveWaits
  <2>1. LightTypeOK'
    BY DEF LightTypeOK
  <2>2. ListIsWaiting' /\ LoopHasNode' /\ CurrentIsOldest'
    BY DEF ListIsWaiting, LoopHasNode, CurrentIsOldest
  <2>3. LightServerSeesRequest'
    BY LightAssumption DEF LightServerSeesRequest, LightTypeOK, MayReceive
  <2> QED BY <2>1, <2>2, <2>3
<1>5. CASE WaitCancel(s)
  <2> USE <1>5 DEF WaitCancel
  <2>1. LightTypeOK'
    BY DEF LightTypeOK
  <2>2. ListIsWaiting' /\ LoopHasNode' /\ CurrentIsOldest'
    BY DEF ListIsWaiting, LoopHasNode, CurrentIsOldest
  <2>3. LightServerSeesRequest'
    BY DEF LightServerSeesRequest, LightTypeOK
  <2> QED BY <2>1, <2>2, <2>3
<1> QED BY <1>1, <1>2, <1>3, <1>4, <1>5

\* The steps of closing a side keep it.
LEMMA LightInvClosing ==
  ASSUME LightInv, NEW d \in Ends,
         \/ LightCloseBegin(d) \/ CloseCheckState(d) \/ LightCloseSetState(d)
         \/ CleanupRequests(d) \/ CleanupLoop(d)
  PROVE  LightInv'
<1> USE DEF LightInv
<1>1. CASE LightCloseBegin(d) \/ CloseCheckState(d) \/ LightCloseSetState(d)
  <2> USE <1>1 DEF LightCloseBegin, CloseCheckState, LightCloseSetState, receiver
  <2>1. LightTypeOK'
    BY DEF LightTypeOK
  <2>2. ListIsWaiting' /\ CurrentIsOldest' /\ LightServerSeesRequest'
    BY DEF ListIsWaiting, CurrentIsOldest, LightServerSeesRequest
  <2>3. LoopHasNode'
    BY DEF LoopHasNode, LightTypeOK
  <2> QED BY <2>1, <2>2, <2>3
<1>2. CASE CleanupRequests(d)
  <2> USE <1>2 DEF CleanupRequests
  <2>1. /\ lightList' \in Seq(LightClients) /\ IsInjective(lightList')
        /\ lightClient' \in [LightClients -> {"idle", "waiting", "elsewhere", "disturbed"}]
        /\ ListIsWaiting' /\ CurrentIsOldest'
        /\ lightCurrent' = NoThread /\ serverThreadId' = NoThread
        /\ lightList = <<>> => lightList' = <<>>
    <3>1. CASE lightCurrent # NoThread
      BY <3>1, AnswerCurrentFacts
    <3>2. CASE lightCurrent = NoThread
      BY <3>2 DEF CurrentIsOldest, ListIsWaiting, LightTypeOK
    <3> QED BY <3>1, <3>2
  <2>2. lightList' # <<>> => Head(lightList') \in LightClients
    BY <2>1, TailFacts
  <2>3. LightTypeOK'
    BY <2>1, <2>2 DEF LightTypeOK, AfterCleanup, ServerAfterEndWait
  <2>4. LoopHasNode'
    BY <2>1, <2>2, LightAssumption DEF LoopHasNode, LightTypeOK, AfterCleanup, Unlocked
  <2>5. LightServerSeesRequest'
    BY <2>1, LightAssumption DEF LightServerSeesRequest, LightTypeOK, ServerAfterEndWait
  <2> QED BY <2>1, <2>3, <2>4, <2>5
<1>3. CASE CleanupLoop(d)
  <2> USE <1>3 DEF CleanupLoop, receiver
  <2>1. cursor \in LightClients /\ lightCurrent = NoThread
    BY DEF LoopHasNode, LightTypeOK
  <2>2. /\ lightList' \in Seq(LightClients) /\ IsInjective(lightList')
        /\ lightClient' \in [LightClients -> {"idle", "waiting", "elsewhere", "disturbed"}]
        /\ ListIsWaiting'
        /\ lightList = <<>> => lightList' = <<>>
    BY <2>1, LeavesList, ClientAfterEndWaitFacts
  <2>3. LightTypeOK'
    BY <2>2 DEF LightTypeOK
  <2>4. LoopHasNode' /\ CurrentIsOldest'
    BY <2>1 DEF LoopHasNode, CurrentIsOldest
  <2>5. LightServerSeesRequest'
    BY <2>2 DEF LightServerSeesRequest
  <2> QED BY <2>2, <2>3, <2>4, <2>5
<1> QED BY <1>1, <1>2, <1>3

\* Every step of a light session keeps the invariant.
LEMMA LightInvNext == LightInv /\ [LightNext]_lightVars => LightInv'
<1> SUFFICES ASSUME LightInv, [LightNext]_lightVars PROVE LightInv'
  OBVIOUS
<1>1. CASE LightNext
  <2>1. LightClients \subseteq LightThreads
    BY DEF LightThreads
  <2>2. ASSUME NEW t \in LightClients, OnRequest(t) \/ LightWaitElsewhere(t) PROVE LightInv'
    BY <2>1, <2>2, LightInvClients
  <2>3. ASSUME NEW t \in LightThreads, LightRequestTerminate(t) PROVE LightInv'
    BY <2>3, LightInvClients
  <2> QED BY <1>1, <2>2, <2>3, LightInvServers, LightInvClosing, Zenon DEF LightNext
<1>2. CASE UNCHANGED lightVars
  BY <1>2
    DEF lightVars, receiver, LightInv, LightTypeOK, ListIsWaiting, LoopHasNode, CurrentIsOldest,
        LightServerSeesRequest
<1> QED BY <1>1, <1>2

\* In a light session the request that is served is the oldest one, asleep until the reply
\* (ReplyAndReceive, OnRequest, CleanupRequests and terminations in any order).
THEOREM OldestServed == LightSpec => []CurrentIsOldest
<1>1. LightInv => CurrentIsOldest
  BY DEF LightInv
<1> QED BY <1>1, LightInvInit, LightInvNext, PTL DEF LightSpec

\* No server thread sleeps in ReplyAndReceive while a request is queued, and one that sleeps
\* is m_server_thread.
THEOREM LightServerAwake == LightSpec => []LightServerSeesRequest
<1>1. LightInv => LightServerSeesRequest
  BY DEF LightInv
<1> QED BY <1>1, LightInvInit, LightInvNext, PTL DEF LightSpec
-----------------------------------------------------------------------------
\* Both invariants hold of the sessions together, which share no state.
LEMMA SessionsInv ==
  /\ MCInit => SessionInv /\ LightInv
  /\ SessionInv /\ LightInv /\ [MCNext]_mcVars => SessionInv' /\ LightInv'
<1>1. MCInit => SessionInv /\ LightInv
  BY SessionInvInit, LightInvInit DEF MCInit
<1>2. ASSUME [MCNext]_mcVars PROVE [Next]_vars /\ [LightNext]_lightVars
  <2>1. CASE MCNext
    BY <2>1 DEF MCNext
  <2>2. CASE UNCHANGED mcVars
    BY <2>2 DEF mcVars
  <2> QED BY <1>2, <2>1, <2>2
<1> QED BY <1>1, <1>2, SessionInvNext, LightInvNext

\* Requests are kept, answered once and, in a light session, served in the order they came.
THEOREM RequestsAreKept == MCSpec => []RequestsKept
<1>1. SessionInv /\ LightInv => RequestsKept
  BY DEF SessionInv, CountInv, AnswerInv, AnsweredOnce, LightInv, RequestsKept
<1> QED BY <1>1, SessionsInv, PTL DEF MCSpec

\* No server thread of either kind of session sleeps while there is a request for it.
THEOREM ServersAwake == MCSpec => []ServersSeeRequests
<1>1. SessionInv /\ LightInv => ServersSeeRequests
  BY DEF SessionInv, LightInv, ServersSeeRequests
<1> QED BY <1>1, SessionsInv, PTL DEF MCSpec
=============================================================================
