------------------------- MODULE RequestQueueProofs -------------------------
(***************************************************************************)
(* RequestQueue delivers for every capacity, size limit and number of      *)
(* submissions: the conservation law is inductive, and the order and the   *)
(* uniqueness of replies follow from it.                                   *)
(***************************************************************************)
EXTENDS RequestQueue, SequenceTheorems, TLAPS

\* What Head and Tail take apart.
LEMMA HeadThenTail ==
    ASSUME NEW S, NEW s \in Seq(S), s # << >>
    PROVE  /\ Len(s) \in Nat /\ Len(s) > 0
           /\ Head(s) \in S /\ Head(s) = s[1] /\ Tail(s) \in Seq(S)
           /\ Len(Tail(s)) = Len(s) - 1
           /\ \A i \in 1..Len(Tail(s)) : Tail(s)[i] = s[i + 1]
  OBVIOUS

\* What Append puts together.
LEMMA AppendElements ==
    ASSUME NEW S, NEW s \in Seq(S), NEW e \in S
    PROVE  /\ Append(s, e) \in Seq(S)
           /\ Len(s) \in Nat /\ Len(Append(s, e)) = Len(s) + 1
           /\ Append(s, e)[Len(s) + 1] = e
           /\ \A i \in 1..Len(s) : Append(s, e)[i] = s[i]
  OBVIOUS

-----------------------------------------------------------------------------
USE QueueAssumption

\* The id of a request in a sequence of requests.
LEMMA RequestId ==
    ASSUME NEW s \in Seq(Request), NEW i \in 1..Len(s)
    PROVE  s[i] \in Request /\ s[i].id \in Nat
  <1>1. s[i] \in Request
    BY ElementOfSeq
  <1>2. QED
    BY <1>1 DEF Request

\* The facts about the queue hold initially.
LEMMA QueueInit == QInit => QInv
  BY DEF QInit, QInv, QTypeOK, OneOperation, Conservation, After, AcceptedAscending, QueueBounded, Request

\* A producer's Push keeps them, whatever text it submits.
LEMMA QueuePush ==
    ASSUME QInv, NEW s \in Seq(Byte), Push(s)
    PROVE  QInv'
  <1> DEFINE r == [id |-> submitted + 1, source |-> s]
  <1>t. /\ submitted \in Nat /\ submitted < MaxSubmissions /\ submitted' = submitted + 1
        /\ submitted' \in 0..MaxSubmissions
        /\ requests \in Seq(Request) /\ popped \in Seq(Request) /\ Len(popped) <= 1
        /\ cancelled \in Seq(Request)
        /\ accepted \in Seq(Request) /\ answered \in Seq(Request)
        /\ popped' = popped /\ cancelled' = cancelled /\ answered' = answered
    BY DEF QInv, QTypeOK, Push
  <1>r. r \in Request /\ r.id = submitted + 1 /\ r.source = s
    BY <1>t DEF Request
  <1>o. OneOperation'
    BY <1>t DEF QInv, OneOperation
  <1>2. CASE PushAccepts(s)
    <2>1. requests' = Append(requests, r) /\ accepted' = Append(accepted, r)
      BY <1>2 DEF Push
    <2> HIDE DEF r
    <2>2. QTypeOK'
      BY <1>t, <1>r, <2>1, AppendElements DEF QTypeOK
    <2>3. Conservation'
      <3>1. /\ Len(accepted') = Len(accepted) + 1 /\ accepted'[Len(accepted) + 1] = r
            /\ \A i \in 1..Len(accepted) : accepted'[i] = accepted[i]
            /\ Len(requests') = Len(requests) + 1 /\ requests'[Len(requests) + 1] = r
            /\ \A i \in 1..Len(requests) : requests'[i] = requests[i]
        BY <1>t, <1>r, <2>1, AppendElements
      <3>2. /\ Len(answered) \in Nat /\ Len(popped) \in Nat /\ Len(cancelled) \in Nat
            /\ Len(requests) \in Nat /\ Len(accepted) \in Nat
        BY <1>t
      <3>3. popped' = popped /\ cancelled' = cancelled /\ answered' = answered
        BY <1>t
      <3> DEFINE n == Len(answered) + Len(popped) + Len(cancelled)
      <3>4. Len(accepted) = n + Len(requests) /\ n \in Nat
        BY <3>2 DEF QInv, Conservation
      <3>5. ASSUME NEW i \in 1..Len(requests') PROVE accepted'[n + i] = requests'[i]
        <4>1. CASE i \in 1..Len(requests)
          <5>1. accepted[n + i] = requests[i]
            BY <4>1 DEF QInv, Conservation, After
          <5>2. n + i \in 1..Len(accepted)
            BY <3>2, <3>4, <4>1
          <5>3. QED
            BY <3>1, <4>1, <5>1, <5>2
        <4>2. CASE i = Len(requests) + 1
          <5>1. n + i = Len(accepted) + 1
            BY <3>2, <3>4, <4>2
          <5>2. QED
            BY <3>1, <4>2, <5>1
        <4>3. QED
          BY <3>1, <3>2, <4>1, <4>2
      <3>6. /\ \A i \in 1..Len(answered) : accepted'[0 + i] = answered[i]
            /\ \A i \in 1..Len(popped) : accepted'[Len(answered) + i] = popped[i]
            /\ \A i \in 1..Len(cancelled) : accepted'[Len(answered) + Len(popped) + i] = cancelled[i]
        <4>1. /\ \A i \in 1..Len(answered) : accepted[0 + i] = answered[i]
              /\ \A i \in 1..Len(popped) : accepted[Len(answered) + i] = popped[i]
              /\ \A i \in 1..Len(cancelled) :
                    accepted[Len(answered) + Len(popped) + i] = cancelled[i]
          BY DEF QInv, Conservation, After
        <4>2. /\ \A i \in 1..Len(answered) : 0 + i \in 1..Len(accepted)
              /\ \A i \in 1..Len(popped) : Len(answered) + i \in 1..Len(accepted)
              /\ \A i \in 1..Len(cancelled) : Len(answered) + Len(popped) + i \in 1..Len(accepted)
          BY <3>2, <3>4
        <4>3. QED
          BY <3>1, <4>1, <4>2
      <3>7. Len(accepted') = n + Len(requests')
        BY <3>1, <3>2, <3>4
      <3>8. QED
        BY <3>3, <3>5, <3>6, <3>7 DEF Conservation, After
    <2>4. AcceptedAscending'
      <3>1. /\ Len(accepted') = Len(accepted) + 1
            /\ accepted'[Len(accepted) + 1] = r
            /\ \A i \in 1..Len(accepted) : accepted'[i] = accepted[i]
        BY <1>t, <1>r, <2>1, AppendElements
      <3>2. Len(accepted) \in Nat /\ \A i \in 1..Len(accepted) : accepted[i].id \in Nat
        BY <1>t, RequestId
      <3>3. \A i \in 1..Len(accepted) : accepted[i].id <= submitted
        BY DEF QInv, AcceptedAscending
      <3>4. \A i, j \in 1..Len(accepted) : i < j => accepted[i].id < accepted[j].id
        BY DEF QInv, AcceptedAscending
      <3>n. submitted \in Nat /\ submitted' = submitted + 1 /\ r.id = submitted + 1
        BY <1>t, <1>r
      <3>5. ASSUME NEW i \in 1..Len(accepted') PROVE accepted'[i].id <= submitted'
        <4>1. CASE i \in 1..Len(accepted)
          <5>1. accepted'[i].id = accepted[i].id /\ accepted[i].id <= submitted /\ accepted[i].id \in Nat
            BY <3>1, <3>2, <3>3, <4>1
          <5>2. QED
            BY <3>n, <5>1
        <4>2. CASE i = Len(accepted) + 1
          <5>1. accepted'[i].id = submitted + 1
            BY <3>1, <3>n, <4>2
          <5>2. QED
            BY <3>n, <5>1
        <4>3. QED
          BY <3>1, <3>2, <4>1, <4>2
      <3>6. ASSUME NEW i \in 1..Len(accepted'), NEW j \in 1..Len(accepted'), i < j
            PROVE  accepted'[i].id < accepted'[j].id
        <4>1. i \in 1..Len(accepted)
          BY <3>1, <3>2, <3>6
        <4>2. CASE j \in 1..Len(accepted)
          BY <3>1, <3>4, <3>6, <4>1, <4>2
        <4>3. CASE j = Len(accepted) + 1
          <5>1. accepted'[j].id = submitted + 1
            BY <3>1, <3>n, <4>3
          <5>2. accepted'[i].id = accepted[i].id /\ accepted[i].id <= submitted /\ accepted[i].id \in Nat
            BY <3>1, <3>2, <3>3, <4>1
          <5>3. QED
            BY <3>n, <5>1, <5>2
        <4>4. QED
          BY <3>1, <3>2, <4>2, <4>3
      <3>7. QED
        BY <3>5, <3>6 DEF AcceptedAscending
    <2>5. QueueBounded'
      <3>1. /\ Len(requests') = Len(requests) + 1
            /\ requests'[Len(requests) + 1] = r
            /\ \A i \in 1..Len(requests) : requests'[i] = requests[i]
        BY <1>t, <1>r, <2>1, AppendElements
      <3>2. Len(requests) \in Nat /\ Len(s) \in Nat
        BY <1>t
      <3>3. Len(requests) < MaxPendingRequests /\ Len(s) <= MaxRequestBytes
        BY <1>2, <3>2 DEF PushAccepts, QInv, QueueBounded
      <3>4. QED
        BY <1>r, <3>1, <3>2, <3>3 DEF QInv, QueueBounded
    <2>6. QED
      BY <1>o, <2>2, <2>3, <2>4, <2>5 DEF QInv
  <1>3. CASE ~PushAccepts(s)
    <2>1. requests' = requests /\ accepted' = accepted
      BY <1>3 DEF Push
    <2>2. QTypeOK'
      BY <1>t, <2>1 DEF QTypeOK
    <2>3. Conservation' /\ QueueBounded'
      BY <1>t, <2>1 DEF QInv, Conservation, After, QueueBounded
    <2>4. AcceptedAscending'
      <3>1. \A i \in 1..Len(accepted) : accepted[i].id \in Nat
        BY <1>t, RequestId
      <3>2. \A i \in 1..Len(accepted) : accepted[i].id <= submitted
        BY DEF QInv, AcceptedAscending
      <3>n. submitted \in Nat /\ submitted' = submitted + 1
        BY <1>t
      <3>3. \A i \in 1..Len(accepted) : accepted[i].id <= submitted'
        <4>1. SUFFICES ASSUME NEW i \in 1..Len(accepted)
                       PROVE  accepted[i].id <= submitted'
          OBVIOUS
        <4>2. accepted[i].id \in Nat /\ accepted[i].id <= submitted
          BY <3>1, <3>2
        <4>3. QED
          BY <3>n, <4>2
      <3>4. QED
        BY <2>1, <3>3 DEF QInv, AcceptedAscending
    <2>5. QED
      BY <1>o, <2>2, <2>3, <2>4 DEF QInv
  <1>4. QED
    BY <1>2, <1>3

\* The owner's four steps keep them too.
LEMMA QueueOwner ==
    ASSUME QInv, OwnerStep
    PROVE  QInv'
  <1>t. /\ submitted \in 0..MaxSubmissions
        /\ requests \in Seq(Request) /\ popped \in Seq(Request) /\ Len(popped) <= 1
        /\ cancelled \in Seq(Request)
        /\ accepted \in Seq(Request) /\ answered \in Seq(Request)
    BY DEF QInv, QTypeOK
  <1>a. submitted' = submitted /\ accepted' = accepted
    BY DEF OwnerStep, Pop, ReplyPopped, CancelAll, ReplyCancelled
  <1>b. AcceptedAscending'
    BY <1>a DEF QInv, AcceptedAscending
  <1>1. CASE Pop
    <2>1. /\ Head(requests) \in Request /\ Tail(requests) \in Seq(Request)
          /\ Len(Tail(requests)) = Len(requests) - 1
          /\ \A i \in 1..Len(Tail(requests)) : Tail(requests)[i] = requests[i + 1]
      BY <1>1, <1>t, HeadThenTail DEF Pop
    <2>h. Head(requests) = requests[1]
      BY <1>1, <1>t, HeadThenTail DEF Pop
    <2>2. QTypeOK' /\ OneOperation'
      BY <1>1, <1>a, <1>t, <2>1 DEF Pop, OwnerFree, QTypeOK, OneOperation
    <2>3. Conservation'
      <3>1. /\ popped = << >> /\ cancelled = << >> /\ cancelled' = << >> /\ answered' = answered
            /\ requests' = Tail(requests) /\ accepted' = accepted
            /\ Len(popped') = 1 /\ popped'[1] = requests[1]
        BY <1>1, <1>a, <2>1, <2>h DEF Pop, OwnerFree
      <3>2. Len(answered) \in Nat /\ Len(requests) \in Nat
        BY <1>t
      <3>e. Len(popped) = 0 /\ Len(cancelled) = 0 /\ Len(cancelled') = 0
        BY <3>1
      <3>n. Len(requests) # 0
        BY <1>1, <1>t, HeadThenTail DEF Pop
      <3>c. /\ \A i \in 1..Len(answered) : accepted[0 + i] = answered[i]
            /\ \A i \in 1..Len(requests) : accepted[Len(answered) + i] = requests[i]
            /\ Len(accepted) = Len(answered) + Len(requests)
        BY <3>2, <3>e DEF QInv, Conservation, After
      <3>3. After(0, answered)'
        BY <3>1, <3>c DEF After
      <3>4. After(Len(answered), popped)'
        <4>1. 1 \in 1..Len(requests)
          BY <3>2, <3>n
        <4>2. accepted[Len(answered) + 1] = requests[1]
          BY <3>c, <4>1
        <4>3. \A i \in 1..1 : i = 1
          OBVIOUS
        <4>4. QED
          BY <3>1, <4>2, <4>3 DEF After
      <3>5. After(Len(answered) + Len(popped), cancelled)'
        BY <3>1, <3>e DEF After
      <3>6. After(Len(answered) + Len(popped) + Len(cancelled), requests)'
        <4>1. SUFFICES ASSUME NEW i \in 1..Len(Tail(requests))
                       PROVE  accepted[Len(answered) + 1 + 0 + i] = Tail(requests)[i]
          BY <3>1, <3>e DEF After
        <4>2. i \in Nat /\ i + 1 \in 1..Len(requests)
          BY <2>1, <3>2
        <4>3. Len(answered) + 1 + 0 + i = Len(answered) + (i + 1)
          BY <3>2, <4>2
        <4>4. QED
          BY <2>1, <3>c, <4>2, <4>3
      <3>7. Len(accepted') = Len(answered') + Len(popped') + Len(cancelled') + Len(requests')
        BY <2>1, <3>1, <3>2, <3>e, <3>c
      <3>8. QED
        BY <3>3, <3>4, <3>5, <3>6, <3>7 DEF Conservation
    <2>4. QueueBounded'
      BY <1>1, <1>t, <2>1 DEF Pop, QInv, QueueBounded
    <2>5. QED
      BY <1>b, <2>2, <2>3, <2>4 DEF QInv
  <1>2. CASE ReplyPopped
    <2>h. Len(popped) = 1 /\ Head(popped) \in Request /\ Head(popped) = popped[1]
      <3>1. popped # << >> /\ popped \in Seq(Request) /\ Len(popped) <= 1
        BY <1>2, <1>t DEF ReplyPopped
      <3>2. /\ Len(popped) \in Nat /\ Len(popped) > 0
            /\ Head(popped) \in Request /\ Head(popped) = popped[1]
        BY <3>1, HeadThenTail
      <3>3. Len(popped) <= 1 /\ Len(popped) > 0 /\ Len(popped) \in Nat => Len(popped) = 1
        <4> DEFINE n == Len(popped)
        <4> HIDE DEF n
        <4>1. n <= 1 /\ n > 0 /\ n \in Nat => n = 1
          OBVIOUS
        <4>2. QED
          BY <4>1 DEF n
      <3>4. QED
        BY <3>1, <3>2, <3>3
    <2>1. /\ Len(popped) = 1 /\ Head(popped) \in Request
          /\ Len(answered') = Len(answered) + 1 /\ Len(answered) \in Nat
          /\ answered'[Len(answered) + 1] = popped[1]
          /\ \A i \in 1..Len(answered) : answered'[i] = answered[i]
          /\ answered' \in Seq(Request)
      BY <1>2, <1>t, <2>h, AppendElements DEF ReplyPopped
    <2>2. QTypeOK' /\ OneOperation'
      BY <1>2, <1>a, <1>t, <2>1 DEF ReplyPopped, QTypeOK, OneOperation
    <2>3. Conservation'
      BY <1>2, <1>a, <1>t, <2>1 DEF ReplyPopped, QInv, Conservation, After
    <2>4. QueueBounded'
      BY <1>2 DEF ReplyPopped, QInv, QueueBounded
    <2>5. QED
      BY <1>b, <2>2, <2>3, <2>4 DEF QInv
  <1>3. CASE CancelAll
    <2>1. QTypeOK' /\ OneOperation'
      BY <1>3, <1>a, <1>t DEF CancelAll, OwnerFree, QTypeOK, OneOperation
    <2>2. Conservation'
      BY <1>3, <1>a, <1>t DEF CancelAll, OwnerFree, QInv, Conservation, After
    <2>3. QueueBounded'
      BY <1>3 DEF CancelAll, QueueBounded
    <2>4. QED
      BY <1>b, <2>1, <2>2, <2>3 DEF QInv
  <1>4. CASE ReplyCancelled
    <2>1. /\ Len(cancelled) > 0 /\ Head(cancelled) \in Request /\ Head(cancelled) = cancelled[1]
          /\ Tail(cancelled) \in Seq(Request) /\ Len(Tail(cancelled)) = Len(cancelled) - 1
          /\ \A i \in 1..Len(Tail(cancelled)) : Tail(cancelled)[i] = cancelled[i + 1]
      BY <1>4, <1>t, HeadThenTail DEF ReplyCancelled
    <2>p. popped = << >>
      BY <1>4 DEF ReplyCancelled, QInv, OneOperation
    <2>c. /\ Len(answered') = Len(answered) + 1 /\ Len(answered) \in Nat
          /\ answered'[Len(answered) + 1] = cancelled[1]
          /\ \A i \in 1..Len(answered) : answered'[i] = answered[i]
          /\ answered' \in Seq(Request)
      BY <1>4, <1>t, <2>1, AppendElements DEF ReplyCancelled
    <2>2. QTypeOK' /\ OneOperation'
      BY <1>4, <1>a, <1>t, <2>1, <2>p, <2>c DEF ReplyCancelled, QTypeOK, OneOperation
    <2>3. Conservation'
      <3>1. /\ popped = << >> /\ popped' = << >> /\ cancelled' = Tail(cancelled)
            /\ requests' = requests /\ accepted' = accepted
        BY <1>4, <1>a, <2>p DEF ReplyCancelled
      <3>2. Len(cancelled) \in Nat /\ Len(requests) \in Nat
        BY <1>t
      <3>3. /\ \A i \in 1..Len(answered) : accepted[0 + i] = answered[i]
            /\ \A i \in 1..Len(cancelled) : accepted[Len(answered) + i] = cancelled[i]
            /\ \A i \in 1..Len(requests) :
                  accepted[Len(answered) + Len(cancelled) + i] = requests[i]
            /\ Len(accepted) = Len(answered) + Len(cancelled) + Len(requests)
        BY <2>c, <3>1, <3>2 DEF QInv, Conservation, After
      <3>4. \A i \in 1..Len(answered') : accepted[0 + i] = answered'[i]
        <4>1. SUFFICES ASSUME NEW i \in 1..Len(answered')
                       PROVE  accepted[i] = answered'[i]
          BY <2>c
        <4>2. CASE i \in 1..Len(answered)
          BY <2>c, <3>3, <4>2
        <4>3. CASE i = Len(answered) + 1
          <5>1. 1 \in 1..Len(cancelled)
            BY <2>1, <3>2
          <5>2. QED
            BY <2>c, <3>3, <4>3, <5>1
        <4>4. QED
          BY <2>c, <4>2, <4>3
      <3>5. \A i \in 1..Len(cancelled') : accepted[Len(answered') + i] = cancelled'[i]
        BY <2>1, <2>c, <3>1, <3>2, <3>3
      <3>6. /\ Len(answered') + Len(cancelled') = Len(answered) + Len(cancelled)
            /\ Len(answered') \in Nat /\ Len(cancelled') \in Nat
        BY <2>1, <2>c, <3>1, <3>2
      <3>7. Len(popped') = 0 /\ Len(answered') + 0 = Len(answered')
        BY <3>1, <3>6
      <3>8. \A i \in 1..Len(requests') :
                accepted'[Len(answered') + Len(popped') + Len(cancelled') + i] = requests'[i]
        <4>1. Len(answered') + Len(popped') + Len(cancelled') = Len(answered) + Len(cancelled)
          BY <3>6, <3>7
        <4>2. QED
          BY <3>1, <3>3, <4>1
      <3>9. Len(accepted') = Len(answered') + Len(popped') + Len(cancelled') + Len(requests')
        BY <3>1, <3>2, <3>3, <3>6, <3>7
      <3>10. QED
        BY <3>1, <3>4, <3>5, <3>7, <3>8, <3>9 DEF Conservation, After
    <2>4. QueueBounded'
      BY <1>4 DEF ReplyCancelled, QInv, QueueBounded
    <2>5. QED
      BY <1>b, <2>2, <2>3, <2>4 DEF QInv
  <1>5. QED
    BY <1>1, <1>2, <1>3, <1>4 DEF OwnerStep

\* QInv is an invariant of the queue with any number of producers.
THEOREM QueueInvariant == QSpec => []QInv
  <1>1. QInv /\ [QNext]_qvars => QInv'
    <2>1. CASE UNCHANGED qvars
      BY <2>1 DEF qvars, QInv, QTypeOK, OneOperation, Conservation, After,
                  AcceptedAscending, QueueBounded
    <2>2. QED
      BY <2>1, QueueOwner, QueuePush DEF QNext
  <1>2. QED
    BY <1>1, QueueInit, PTL DEF QSpec

\* What is answered is a prefix of what was accepted.
LEMMA PrefixOfAccepted == QInv => AnsweredInOrder
  <1> SUFFICES ASSUME QInv PROVE AnsweredInOrder
    OBVIOUS
  <1>1. /\ Len(answered) \in Nat /\ Len(popped) \in Nat /\ Len(cancelled) \in Nat
        /\ Len(requests) \in Nat
    BY DEF QInv, QTypeOK
  <1>2. QED
    BY <1>1 DEF AnsweredInOrder, QInv, Conservation, After

\* No request is answered twice.
LEMMA NoSecondReply == QInv => AnsweredOnce
  <1> SUFFICES ASSUME QInv, NEW i \in 1..Len(answered), NEW j \in 1..Len(answered), i # j
               PROVE  answered[i].id # answered[j].id
    BY DEF AnsweredOnce
  <1>1. /\ answered[i] = accepted[i] /\ answered[j] = accepted[j]
        /\ i \in 1..Len(accepted) /\ j \in 1..Len(accepted)
    BY PrefixOfAccepted DEF AnsweredInOrder, QInv, QTypeOK
  <1>2. accepted[i].id \in Nat /\ accepted[j].id \in Nat
    BY <1>1, RequestId DEF QInv, QTypeOK
  <1>3. accepted[i].id < accepted[j].id \/ accepted[j].id < accepted[i].id
    BY <1>1 DEF QInv, AcceptedAscending
  <1>4. QED
    BY <1>1, <1>2, <1>3

\* Every reply is called once and in acceptance order, for every capacity and
\* every interleaving of producers with Drain and CancelAll.
THEOREM RepliesInOrderOnce == QSpec => [](AnsweredInOrder /\ AnsweredOnce /\ QueueBounded)
  <1>1. QInv => AnsweredInOrder /\ AnsweredOnce /\ QueueBounded
    BY PrefixOfAccepted, NoSecondReply DEF QInv
  <1>2. QED
    BY <1>1, QueueInvariant, PTL

-----------------------------------------------------------------------------
(* The queue implements ReplyService. *)

\* What the service sees as waiting, in the three places where it is kept.
LEMMA WaitingParts ==
    ASSUME NEW S, NEW p \in Seq(S), NEW c \in Seq(S), NEW q \in Seq(S)
    PROVE  /\ p \o c \o q \in Seq(S)
           /\ Len(p \o c \o q) = Len(p) + Len(c) + Len(q)
           /\ \A i \in 1..Len(p) : (p \o c \o q)[i] = p[i]
           /\ \A i \in 1..Len(c) : (p \o c \o q)[Len(p) + i] = c[i]
           /\ \A i \in 1..Len(q) : (p \o c \o q)[Len(p) + Len(c) + i] = q[i]
  OBVIOUS

\* A request at the back of the queue is at the back of what waits.
LEMMA BackOfQueue ==
    ASSUME NEW S, NEW p \in Seq(S), NEW c \in Seq(S), NEW q \in Seq(S), NEW r \in S
    PROVE  p \o c \o Append(q, r) = Append(p \o c \o q, r)
  <1>1. p \o c \in Seq(S)
    OBVIOUS
  <1>2. Append(q, r) = q \o << r >> /\ Append((p \o c) \o q, r) = ((p \o c) \o q) \o << r >>
    BY <1>1, AppendIsConcat, ConcatProperties
  <1>3. << r >> \in Seq(S)
    OBVIOUS
  <1>4. QED
    BY <1>1, <1>2, <1>3, ConcatAssociative

\* The request that has waited longest, taken from the front of a part.
LEMMA FrontOfParts ==
    ASSUME NEW S, NEW s \in Seq(S), NEW q \in Seq(S), s # << >>
    PROVE  s \o q # << >> /\ Head(s \o q) = Head(s) /\ Tail(s \o q) = Tail(s) \o q
  OBVIOUS

\* What waits is, in order, the part of the accepted requests not yet answered,
\* so an id given out later is among neither.
LEMMA WaitingIsNew ==
    ASSUME QInv, NEW r, r.id = submitted + 1
    PROVE  Service!New(r)
  <1> DEFINE w == popped \o cancelled \o requests
  <1>t. /\ popped \in Seq(Request) /\ cancelled \in Seq(Request) /\ requests \in Seq(Request)
        /\ accepted \in Seq(Request) /\ answered \in Seq(Request) /\ submitted \in Nat
    BY DEF QInv, QTypeOK
  <1>n. /\ Len(answered) \in Nat /\ Len(popped) \in Nat /\ Len(cancelled) \in Nat
        /\ Len(requests) \in Nat /\ Len(accepted) \in Nat
    BY <1>t
  <1>1. \A i \in 1..Len(accepted) : accepted[i].id # submitted + 1
    <2>1. \A i \in 1..Len(accepted) : accepted[i].id \in Nat /\ accepted[i].id <= submitted
      BY <1>t, RequestId DEF QInv, AcceptedAscending
    <2>2. QED
      BY <1>t, <2>1
  <1>2. \A i \in 1..Len(answered) : answered[i].id # r.id
    BY <1>1, <1>n, PrefixOfAccepted DEF AnsweredInOrder
  <1>w. /\ Len(w) = Len(popped) + Len(cancelled) + Len(requests)
        /\ \A i \in 1..Len(popped) : w[i] = popped[i]
        /\ \A i \in 1..Len(cancelled) : w[Len(popped) + i] = cancelled[i]
        /\ \A i \in 1..Len(requests) : w[Len(popped) + Len(cancelled) + i] = requests[i]
    BY <1>t, WaitingParts, SMTT(30)
  <1>c. /\ \A i \in 1..Len(popped) : accepted[Len(answered) + i] = popped[i]
        /\ \A i \in 1..Len(cancelled) : accepted[Len(answered) + Len(popped) + i] = cancelled[i]
        /\ \A i \in 1..Len(requests) :
              accepted[Len(answered) + Len(popped) + Len(cancelled) + i] = requests[i]
    BY DEF QInv, Conservation, After
  <1>3. ASSUME NEW i \in 1..Len(w) PROVE w[i].id # r.id
    <2> HIDE DEF w
    <2>1. Len(w) = Len(popped) + Len(cancelled) + Len(requests)
      BY <1>w
    <2>2. CASE i \in 1..Len(popped)
      <3>1. w[i] = popped[i] /\ accepted[Len(answered) + i] = popped[i]
        BY <1>w, <1>c, <2>2
      <3>2. Len(answered) + i \in 1..Len(accepted)
        BY <1>n, <2>2 DEF QInv, Conservation
      <3>3. QED
        BY <1>1, <3>1, <3>2
    <2>3. CASE i \in Len(popped) + 1..Len(popped) + Len(cancelled)
      <3> DEFINE k == i - Len(popped)
      <3>1. k \in 1..Len(cancelled) /\ i = Len(popped) + k
        BY <1>n, <2>3
      <3>2. w[i] = cancelled[k] /\ accepted[Len(answered) + Len(popped) + k] = cancelled[k]
        BY <1>w, <1>c, <3>1
      <3>3. Len(answered) + Len(popped) + k \in 1..Len(accepted)
        BY <1>n, <3>1 DEF QInv, Conservation
      <3>4. QED
        BY <1>1, <3>2, <3>3
    <2>4. CASE i \in Len(popped) + Len(cancelled) + 1..Len(w)
      <3> DEFINE k == i - Len(popped) - Len(cancelled)
      <3>1. k \in 1..Len(requests) /\ i = Len(popped) + Len(cancelled) + k
        BY <1>n, <2>1, <2>4
      <3> HIDE DEF k
      <3>2. w[i] = requests[k] /\ accepted[Len(answered) + Len(popped) + Len(cancelled) + k] = requests[k]
        BY ONLY <1>w, <1>c, <3>1
      <3>3. Len(answered) + Len(popped) + Len(cancelled) + k \in 1..Len(accepted)
        BY <1>n, <3>1 DEF QInv, Conservation
      <3>4. QED
        BY <1>1, <3>2, <3>3
    <2>5. QED
      BY <1>n, <2>1, <2>2, <2>3, <2>4
  <1>4. QED
    BY <1>2, <1>3 DEF Service!New

\* A Push is an Accept of the service, or nothing it sees.
LEMMA PushAccepted ==
    ASSUME QInv, NEW s \in Seq(Byte), Push(s)
    PROVE  [Service!Next]_Service!svars
  <1> DEFINE r == [id |-> submitted + 1, source |-> s]
             w == popped \o cancelled \o requests
  <1>t. /\ popped \in Seq(Request) /\ cancelled \in Seq(Request) /\ requests \in Seq(Request)
        /\ popped' = popped /\ cancelled' = cancelled /\ answered' = answered
    BY DEF QInv, QTypeOK, Push
  <1>r. r \in Request /\ r.id = submitted + 1
    BY DEF Push, QInv, QTypeOK, Request
  <1>1. CASE PushAccepts(s)
    <2>1. requests' = Append(requests, r)
      BY <1>1 DEF Push
    <2>2. w' = Append(w, r)
      BY <1>t, <1>r, <2>1, BackOfQueue
    <2>3. w \in Seq(Request)
      BY <1>t, WaitingParts
    <2> HIDE DEF r, w
    <2>4. w' # << >> /\ w'[Len(w')] = r
      BY <1>r, <2>2, <2>3
    <2>5. Service!New(r)
      BY <1>r, WaitingIsNew
    <2> USE DEF w
    <2>6. Service!Newest' = r
      BY <2>4 DEF Service!Newest
    <2>7. Service!Accept
      BY <1>r, <1>t, <2>2, <2>4, <2>5, <2>6 DEF Service!Accept
    <2>8. QED
      BY <2>7 DEF Service!Next
  <1>2. CASE ~PushAccepts(s)
    BY <1>2, <1>t DEF Push, Service!svars
  <1>3. QED
    BY <1>1, <1>2

\* The owner's Pop and CancelAll are nothing the service sees; a reply of either
\* kind answers the oldest request.
LEMMA OwnerAnswers ==
    ASSUME QInv, OwnerStep
    PROVE  [Service!Next]_Service!svars
  <1> DEFINE w == popped \o cancelled \o requests
  <1>t. popped \in Seq(Request) /\ cancelled \in Seq(Request) /\ requests \in Seq(Request)
    BY DEF QInv, QTypeOK
  <1>1. CASE Pop
    <2>1. /\ popped = << >> /\ cancelled = << >> /\ cancelled' = << >> /\ requests # << >>
          /\ popped' = << Head(requests) >> /\ requests' = Tail(requests) /\ answered' = answered
      BY <1>1 DEF Pop, OwnerFree
    <2>2. w = requests
      BY <1>t, <2>1
    <2>3. w' = << Head(requests) >> \o Tail(requests)
      BY <1>t, <2>1
    <2>4. << Head(requests) >> \o Tail(requests) = requests
      BY <1>t, <2>1
    <2>5. QED
      BY <2>1, <2>2, <2>3, <2>4 DEF Service!svars
  <1>2. CASE CancelAll
    <2>1. /\ popped = << >> /\ popped' = << >> /\ cancelled = << >> /\ cancelled' = requests
          /\ requests' = << >> /\ answered' = answered
      BY <1>2 DEF CancelAll, OwnerFree
    <2>2. w = requests /\ w' = requests
      BY <1>t, <2>1
    <2>3. QED
      BY <2>1, <2>2 DEF Service!svars
  <1>3. CASE ReplyPopped
    <2>1. /\ popped # << >> /\ popped' = << >> /\ cancelled' = cancelled /\ requests' = requests
          /\ answered' = Append(answered, Head(popped))
      BY <1>3 DEF ReplyPopped
    <2>2. Tail(popped) = << >> /\ cancelled \o requests \in Seq(Request)
      BY <1>t, <2>1 DEF QInv, QTypeOK
    <2>3. w = popped \o (cancelled \o requests)
      BY <1>t, ConcatAssociative
    <2> DEFINE rest == cancelled \o requests
    <2>f. popped \o rest # << >> /\ Head(popped \o rest) = Head(popped) /\ Tail(popped \o rest) = Tail(popped) \o rest
      <3> HIDE DEF rest
      <3>1. rest \in Seq(Request)
        BY <2>2 DEF rest
      <3>2. QED
        BY <1>t, <2>1, <3>1, FrontOfParts
    <2>4. w # << >> /\ Head(w) = Head(popped) /\ Tail(w) = Tail(popped) \o rest
      BY <2>3, <2>f
    <2>5. w' = << >> \o cancelled \o requests /\ << >> \o cancelled = cancelled
      BY <1>t, <2>1
    <2>6. Tail(w) = cancelled \o requests
      BY <2>2, <2>4, ConcatEmptySeq
    <2>7. w' = Tail(w)
      BY <2>5, <2>6
    <2>8. QED
      BY <2>1, <2>4, <2>7 DEF Service!Answer, Service!Next
  <1>4. CASE ReplyCancelled
    <2>1. /\ cancelled # << >> /\ cancelled' = Tail(cancelled) /\ popped' = popped
          /\ requests' = requests /\ answered' = Append(answered, Head(cancelled))
      BY <1>4 DEF ReplyCancelled
    <2>2. popped = << >>
      BY <2>1 DEF QInv, OneOperation
    <2>3. w = cancelled \o requests /\ w' = Tail(cancelled) \o requests
      <3>1. w = (<< >> \o cancelled) \o requests /\ w' = (<< >> \o Tail(cancelled)) \o requests
        BY <2>1, <2>2
      <3>2. Tail(cancelled) \in Seq(Request)
        BY <1>t, <2>1
      <3> QED
        BY ONLY <1>t, <3>1, <3>2, ConcatEmptySeq
    <2>4. w # << >> /\ Head(w) = Head(cancelled) /\ Tail(w) = Tail(cancelled) \o requests
      <3>1. /\ cancelled \o requests # << >> /\ Head(cancelled \o requests) = Head(cancelled)
            /\ Tail(cancelled \o requests) = Tail(cancelled) \o requests
        BY ONLY <1>t, <2>1, FrontOfParts, Zenon
      <3> QED
        BY ONLY <2>3, <3>1
    <2>5. QED
      BY <2>1, <2>3, <2>4 DEF Service!Answer, Service!Next
  <1>5. QED
    BY <1>1, <1>2, <1>3, <1>4 DEF OwnerStep

LEMMA ServiceInit == QInit => Service!Init
  BY DEF QInit, Service!Init

\* For every capacity, size limit and number of submissions the queue refines
\* the service: nothing is lost, repeated or answered out of turn.
THEOREM QueueImplementsService == QSpec => ImplementsService
  <1>1. QInv /\ [QNext]_qvars => [Service!Next]_Service!svars
    <2>1. CASE UNCHANGED qvars
      BY <2>1 DEF qvars, Service!svars
    <2>2. QED
      BY <2>1, PushAccepted, OwnerAnswers DEF QNext
  <1>2. QED
    BY <1>1, ServiceInit, QueueInvariant, PTL DEF QSpec, ImplementsService, Service!Spec
=============================================================================
