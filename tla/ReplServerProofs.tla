-------------------------- MODULE ReplServerProofs --------------------------
(***************************************************************************)
(* ReplServer keeps its lifetime promises for every number of clients and  *)
(* restarts, every traffic and every interleaving.  SInv is inductive; the *)
(* lifetime properties follow from it.  SInv and FInv together are, too:   *)
(* they say where in its client's bytes ServeClient is, and the framing    *)
(* property follows from them.                                             *)
(***************************************************************************)
EXTENDS ReplServer, RequestQueueProofs, FiniteSetTheorems, WellFoundedInduction

USE QueueAssumption, ServerAssumption

\* The steps that leave the queue alone keep the facts about it.
LEMMA QueueAlone == QInv /\ UNCHANGED qvars => QInv'
  BY DEF qvars, QInv, QTypeOK, OneOperation, Conservation, After, AcceptedAscending, QueueBounded

\* Every step of the server is a step of the queue, or leaves it alone.
LEMMA QueueStep ==
    ASSUME TypeOK, QInv, [Next]_vars
    PROVE  QInv'
  <1>1. CASE UNCHANGED qvars
    BY <1>1, QueueAlone
  <1>2. CASE PushLine
    BY <1>2, QueuePush DEF PushLine, TypeOK
  <1>3. CASE DrainPop \/ DrainReply \/ StopCancel \/ CancelAll
    BY <1>3, QueueOwner DEF DrainPop, DrainReply, StopCancel, OwnerStep
  <1>4. CASE StopJoin
    BY <1>1, <1>3, <1>4 DEF StopJoin
  <1>5. CASE UNCHANGED vars
    BY <1>1, <1>5 DEF vars
  <1>6. CASE StartOk \/ StartFails \/ DrainBegin \/ DrainEnd \/ StopFlag \/ StopListener \/ StopEnd
    BY <1>1, <1>6 DEF StartOk, StartFails, DrainBegin, DrainEnd, StopFlag, StopListener, StopEnd
  <1>7. CASE Worker /\ ~PushLine
    BY <1>1, <1>7 DEF Worker, RunLoop, Accept, AcceptFails, ServeLoop, RecvTimeout, RecvEnd, RecvData,
                      TakeNext, LinesEnd, Wait, SendResult, SendRejected, SendRefused, CloseClient
  <1>8. CASE Clients
    BY <1>1, <1>8 DEF Clients, Connect, Read, Leave, Write
  <1>9. QED
    BY <1>2, <1>3, <1>4, <1>5, <1>6, <1>7, <1>8 DEF Next, Owner, Draining, Stopping

-----------------------------------------------------------------------------
\* A non-empty set of naturals has a least element.
LEMMA LeastInNat ==
    ASSUME NEW S \in SUBSET Nat, S # {}
    PROVE  \E m \in S : \A k \in S : m <= k
  <1> DEFINE R == OpToRel(<, Nat)
  <1>1. PICK m \in S : \A k \in S : << k, m >> \notin R
    <2>1. IsWellFoundedOn(R, Nat)
      BY NatLessThanWellFounded
    <2> HIDE DEF R
    <2>2. QED
      BY <2>1, WFMin
  <1>2. \A k \in S : ~(k < m)
    BY <1>1 DEF OpToRel
  <1>3. QED
    BY <1>2

\* What the byte-string helpers return.
LEMMA ByteStrings ==
    ASSUME NEW b \in Seq(Byte), NEW n \in Nat
    PROVE  /\ FindNewline(b) \in Nat
           /\ n # 0 => TakeLine(b, n) \in Seq(Byte)
           /\ DropLine(b, n) \in Seq(Byte)
           /\ StripCR(b) \in Seq(Byte)
  <1>1. FindNewline(b) \in Nat
    <2>1. CASE \E i \in 1..Len(b) : b[i] = "\n"
      <3>1. \E i \in 1..Len(b) : b[i] = "\n" /\ \A j \in 1..(i - 1) : b[j] # "\n"
        <4> DEFINE hits == {i \in 1..Len(b) : b[i] = "\n"}
        <4>1. hits \subseteq Nat /\ hits # {}
          BY <2>1
        <4>2. PICK m \in hits : \A k \in hits : m <= k
          BY <4>1, LeastInNat
        <4>3. \A j \in 1..(m - 1) : b[j] # "\n"
          BY <4>2
        <4>4. QED
          BY <4>2, <4>3
      <3>2. QED
        BY <2>1, <3>1 DEF FindNewline
    <2>2. CASE ~\E i \in 1..Len(b) : b[i] = "\n"
      BY <2>2 DEF FindNewline
    <2>3. QED
      BY <2>1, <2>2
  <1>2. n # 0 => TakeLine(b, n) \in Seq(Byte)
    BY DEF TakeLine
  <1>3. DropLine(b, n) \in Seq(Byte)
    BY DEF DropLine
  <1>4. StripCR(b) \in Seq(Byte)
    BY DEF StripCR
  <1>5. QED
    BY <1>1, <1>2, <1>3, <1>4

\* SendLine appends one reply for the client, or nothing.
LEMMA SendLineType ==
    ASSUME TypeOK, client \in Client, NEW l \in Reply, SendLine(l)
    PROVE  sent' \in [Client -> Seq(Reply)] /\ unread' \in [Client -> Nat]
  <1>1. CASE gone[client]
    BY <1>1 DEF TypeOK, SendLine
  <1>2. CASE ~gone[client]
    <2>1. sent[client] \in Seq(Reply) /\ unread[client] \in Nat
      BY DEF TypeOK
    <2>2. Append(sent[client], l) \in Seq(Reply) /\ unread[client] + 1 \in Nat
      BY <2>1
    <2>3. sent' = [sent EXCEPT ![client] = Append(sent[client], l)]
      BY <1>2 DEF SendLine
    <2>4. unread' = [unread EXCEPT ![client] = unread[client] + 1]
      BY <1>2 DEF SendLine
    <2>5. QED
      BY <2>2, <2>3, <2>4 DEF TypeOK
  <1>3. QED
    BY <1>1, <1>2

\* The type invariant is kept.
LEMMA TypeStep ==
    ASSUME SInv, QInv', [Next]_vars
    PROVE  TypeOK'
  <1> USE DEF SInv
  <1>q. QTypeOK'
    BY DEF QInv
  <1>1. CASE StartOk
    BY <1>1, <1>q DEF StartOk, TypeOK, WorkerPC, netVars
  <1>2. CASE StartFails \/ DrainBegin \/ DrainEnd \/ DrainPop \/ StopFlag \/ StopEnd
    <2>1. UNCHANGED << workerVars, promise, netVars >>
      BY <1>2 DEF StartFails, DrainBegin, DrainEnd, DrainPop, StopFlag, StopEnd
    <2>2. owner' \in {"stopped", "idle", "draining", "evaluating", "closing", "joining", "cancelling"}
      BY <1>2 DEF StartFails, DrainBegin, DrainEnd, DrainPop, StopFlag, StopEnd, TypeOK
    <2>3. starts' \in 0..MaxStarts /\ listening' \in BOOLEAN
      BY <1>2 DEF StartFails, DrainBegin, DrainEnd, DrainPop, StopFlag, StopEnd, TypeOK
    <2>4. running' \in BOOLEAN /\ bound' \in BOOLEAN
      BY <1>2 DEF StartFails, DrainBegin, DrainEnd, DrainPop, StopFlag, StopEnd, TypeOK
    <2>5. QED
      BY <1>q, <2>1, <2>2, <2>3, <2>4 DEF TypeOK, netVars, workerVars
  <1>3. CASE DrainReply
    <2>0. Head(popped) \in Request
      BY <1>3, HeadThenTail DEF DrainReply, ReplyPopped, TypeOK, QTypeOK
    <2>1. Head(popped).id \in 1..MaxSubmissions /\ Head(popped).source \in Seq(Byte)
      BY <2>0 DEF Request
    <2>2. Value(Head(popped).source) \in Reply
      BY <2>1 DEF Value, Reply
    <2>3. QED
      BY <1>3, <1>q, <2>1, <2>2 DEF DrainReply, TypeOK, netVars, workerVars
  <1>4. CASE StopListener
    <2>1. conn' \in [Client -> {"new", "queued", "serving", "closed"}] /\ backlog' \in Seq(Client)
      BY <1>4 DEF StopListener, TypeOK
    <2>2. UNCHANGED << starts, running, bound, workerVars, promise, gone, written, lines, got, sent, unread >>
      BY <1>4 DEF StopListener
    <2>3. owner' = "joining" /\ listening' = FALSE
      BY <1>4 DEF StopListener
    <2>4. QED
      BY <1>q, <2>1, <2>2, <2>3 DEF TypeOK, workerVars
  <1>5. CASE StopJoin
    BY <1>5, <1>q DEF StopJoin, TypeOK, WorkerPC, netVars
  <1>6. CASE StopCancel
    <2>1. Ended \in Reply
      BY DEF Reply
    <2>2. QED
      BY <1>6, <1>q, <2>1 DEF StopCancel, TypeOK, ownerVars, netVars, workerVars
  <1>7. CASE RunLoop \/ ServeLoop \/ RecvTimeout \/ RecvEnd \/ LinesEnd \/ Wait
    <2>1. /\ worker' \in WorkerPC /\ future' = future
          /\ UNCHANGED << qvars, ownerVars, promise, netVars, client, buffered, newline, source >>
      BY <1>7 DEF RunLoop, ServeLoop, RecvTimeout, RecvEnd, LinesEnd, Wait, Goto, WorkerPC
    <2>2. QED
      BY <1>q, <2>1 DEF TypeOK, ownerVars, netVars
  <1>8. CASE Accept \/ AcceptFails
    <2>1. backlog # << >> => Head(backlog) \in Client /\ Tail(backlog) \in Seq(Client)
      BY HeadThenTail DEF TypeOK
    <2>2. conn' \in [Client -> {"new", "queued", "serving", "closed"}] /\ backlog' \in Seq(Client)
      BY <1>8, <2>1 DEF Accept, AcceptFails, TypeOK
    <2>3. worker' \in {"serve", "close", "returned"}
      BY <1>8 DEF Accept, AcceptFails, Goto
    <2>c. client' \in Client \cup {None} /\ buffered' \in Seq(Byte)
      <3>1. CASE Accept
        BY <3>1, <2>1 DEF Accept
      <3>2. CASE AcceptFails
        BY <3>2 DEF AcceptFails, TypeOK
      <3>3. QED
        BY <1>8, <3>1, <3>2
    <2>4. UNCHANGED << ownerVars, newline, source, future, promise, gone, written, lines, got, sent, unread >>
      BY <1>8 DEF Accept, AcceptFails
    <2>5. QED
      BY <1>q, <2>2, <2>3, <2>4, <2>c DEF TypeOK, WorkerPC, ownerVars
  <1>9. CASE RecvData
    <2>1. client \in Client
      BY <1>9 DEF RecvData, Serving
    <2>2. PICK n \in 1..(Len(written[client]) - got[client]) :
              /\ got' = [got EXCEPT ![client] = @ + n]
              /\ buffered' = buffered \o SubSeq(written[client], got[client] + 1, got[client] + n)
              /\ newline' = FindNewline(buffered')
              /\ worker' \in {"refuse", "lines"}
      BY <1>9 DEF RecvData, Goto
    <2>3. SubSeq(written[client], got[client] + 1, got[client] + n) \in Seq(Byte)
      <3>1. written[client] \in Seq(Byte) /\ got[client] \in Nat
        BY <2>1 DEF TypeOK
      <3>2. QED
        BY <3>1
    <2>b. buffered' \in Seq(Byte)
      BY <2>2, <2>3 DEF TypeOK
    <2>n. newline' \in Nat
      BY <2>2, <2>b, ByteStrings
    <2>4. got' \in [Client -> Nat]
      <3>1. got \in [Client -> Nat] /\ got[client] + n \in Nat
        BY <2>1 DEF TypeOK
      <3>2. QED
        BY <2>1, <2>2, <3>1
    <2>5. QED
      BY <1>9, <1>q, <2>2, <2>4, <2>b, <2>n DEF RecvData, TypeOK, WorkerPC, ownerVars
  <1>10. CASE TakeNext
    <2>1. TakeLine(buffered, newline) \in Seq(Byte) /\ DropLine(buffered, newline) \in Seq(Byte)
      BY <1>10, ByteStrings DEF TakeNext, TypeOK
    <2>2. source' \in Seq(Byte) /\ buffered' \in Seq(Byte)
      BY <1>10, <2>1, ByteStrings DEF TakeNext
    <2>3. QED
      BY <1>10, <1>q, <2>2 DEF TakeNext, Goto, TypeOK, WorkerPC, ownerVars, netVars
  <1>11. CASE PushLine
    <2>1. submitted' \in 0..MaxSubmissions
      BY <1>q DEF QTypeOK
    <2>2. QED
      BY <1>11, <1>q, <2>1 DEF PushLine, Goto, TypeOK, WorkerPC, ownerVars, netVars
  <1>12. CASE SendResult \/ SendRejected \/ SendRefused
    <2>1. client \in Client
      BY <1>12 DEF SendResult, SendRejected, SendRefused, Serving
    <2>2. Error \in Reply
      BY DEF Reply
    <2>3. SendResult => promise[future] \in Reply
      BY DEF SendResult, Promised, TypeOK
    <2>4. sent' \in [Client -> Seq(Reply)] /\ unread' \in [Client -> Nat]
      BY <1>12, <2>1, <2>2, <2>3, SendLineType DEF SendResult, SendRejected, SendRefused
    <2>5. newline' \in Nat
      <3>1. newline' = FindNewline(buffered) \/ newline' = newline
        BY <1>12 DEF SendResult, SendRejected, SendRefused
      <3>2. buffered \in Seq(Byte) /\ newline \in Nat
        BY DEF TypeOK
      <3>3. FindNewline(buffered) \in Nat
        BY <3>2, ByteStrings
      <3>4. QED
        BY <3>1, <3>2, <3>3
    <2>6. QED
      BY <1>12, <1>q, <2>4, <2>5 DEF SendResult, SendRejected, SendRefused, Goto, TypeOK, WorkerPC, ownerVars
  <1>13. CASE CloseClient
    <2>1. conn' \in [Client -> {"new", "queued", "serving", "closed"}]
      BY <1>13 DEF CloseClient, TypeOK
    <2>2. /\ client' = None /\ buffered' = << >> /\ newline' = 0 /\ source' = << >> /\ future' = 0
          /\ worker' = "run"
          /\ UNCHANGED << ownerVars, promise, backlog, gone, written, lines, got, sent, unread >>
      BY <1>13 DEF CloseClient, Goto
    <2>3. client' \in Client \cup {None} /\ buffered' \in Seq(Byte) /\ source' \in Seq(Byte)
      BY <2>2
    <2>4. newline' \in Nat /\ future' \in 0..MaxSubmissions
      BY <2>2
    <2>5. QED
      BY <1>q, <2>1, <2>2, <2>3, <2>4 DEF TypeOK, WorkerPC, ownerVars
  <1>14. ASSUME NEW c \in Client, Connect(c) \/ Read(c) \/ Leave(c)
         PROVE  TypeOK'
    <2>1. UNCHANGED << ownerVars, workerVars, promise, written, lines, got, sent >>
      BY <1>14 DEF Connect, Read, Leave
    <2>2. conn' \in [Client -> {"new", "queued", "serving", "closed"}]
      BY <1>14 DEF Connect, Read, Leave, TypeOK
    <2>b. backlog' \in Seq(Client)
      <3>1. backlog' = backlog \/ backlog' = Append(backlog, c)
        BY <1>14 DEF Connect, Read, Leave
      <3>2. backlog \in Seq(Client)
        BY DEF TypeOK
      <3>3. QED
        BY <3>1, <3>2
    <2>3. gone' \in [Client -> BOOLEAN]
      BY <1>14 DEF Connect, Read, Leave, TypeOK
    <2>4. unread' \in [Client -> Nat]
      <3>1. Read(c) => unread[c] - 1 \in Nat
        BY DEF Read, TypeOK
      <3>2. QED
        BY <1>14, <3>1 DEF Connect, Read, Leave, TypeOK
    <2>5. QED
      BY <1>q, <2>1, <2>2, <2>3, <2>4, <2>b DEF TypeOK, ownerVars, workerVars
  <1>15. ASSUME NEW c \in Client, NEW l \in Line, Write(c, l)
         PROVE  TypeOK'
    <2>1. written' \in [Client -> Seq(Byte)]
      BY <1>15 DEF Write, TypeOK
    <2>2. lines' \in 0..MaxLines
      BY <1>15 DEF Write, TypeOK
    <2>3. UNCHANGED << ownerVars, workerVars, promise, backlog, conn, gone, got, sent, unread >>
      BY <1>15 DEF Write
    <2>4. QED
      BY <1>q, <2>1, <2>2, <2>3 DEF TypeOK, ownerVars, workerVars
  <1>16. CASE UNCHANGED vars
    BY <1>16, <1>q DEF vars, TypeOK, ownerVars, workerVars, netVars
  <1>17. QED
    BY <1>1, <1>2, <1>3, <1>4, <1>5, <1>6, <1>7, <1>8, <1>9, <1>10, <1>11, <1>12, <1>13, <1>14, <1>15, <1>16
       DEF Next, Owner, Draining, Stopping, Worker, Clients

-----------------------------------------------------------------------------
\* The heads and lengths the queue's steps leave.
LEMMA QueueShape ==
    ASSUME TypeOK
    PROVE  /\ Len(popped) \in Nat /\ Len(cancelled) \in Nat /\ Len(requests) \in Nat
           /\ popped = << >> <=> Len(popped) = 0
           /\ cancelled = << >> <=> Len(cancelled) = 0
           /\ requests = << >> <=> Len(requests) = 0
  BY DEF TypeOK, QTypeOK

\* The owner's place keeps deciding the flags and the life of the worker.
LEMMA PhaseStep ==
    ASSUME SInv, [Next]_vars
    PROVE  Phases' /\ Serving'
  <1> USE DEF SInv, Phases, Serving
  <1>1. CASE Owner
    <2>1. CASE StartOk \/ StartFails \/ StopFlag
      BY <2>1 DEF StartOk, StartFails, StopFlag, workerVars
    <2>2. CASE Draining
      BY <2>2 DEF Draining, DrainBegin, DrainPop, DrainReply, DrainEnd, workerVars
    <2>3. CASE Stopping
      BY <2>3 DEF Stopping, StopListener, StopJoin, StopCancel, StopEnd, workerVars, ownerVars
    <2>4. QED
      BY <1>1, <2>1, <2>2, <2>3 DEF Owner
  <1>2. CASE Worker
    <2>1. worker # "none" /\ worker' # "none" /\ UNCHANGED << owner, running, bound >>
      BY <1>2 DEF Worker, RunLoop, Accept, AcceptFails, ServeLoop, RecvTimeout, RecvEnd, RecvData,
                  TakeNext, LinesEnd, PushLine, Wait, SendResult, SendRejected, SendRefused,
                  CloseClient, Goto, ownerVars
    <2>2. Phases'
      BY <2>1
    <2>3. Serving'
      <3>1. CASE Accept
        <4>1. client' \in Client
          BY <3>1, HeadThenTail DEF Accept, TypeOK
        <4>2. QED
          BY <4>1
      <3>2. CASE CloseClient
        BY <3>2 DEF CloseClient, Goto
      <3>3. CASE ~Accept /\ ~CloseClient
        BY <1>2, <3>3 DEF Worker, RunLoop, AcceptFails, ServeLoop, RecvTimeout, RecvEnd, RecvData,
                  TakeNext, LinesEnd, PushLine, Wait, SendResult, SendRejected, SendRefused, Goto
      <3>4. QED
        BY <3>1, <3>2, <3>3
    <2>4. QED
      BY <2>2, <2>3
  <1>3. CASE Clients
    BY <1>3 DEF Clients, Connect, Read, Leave, Write, ownerVars, workerVars
  <1>4. CASE UNCHANGED vars
    BY <1>4 DEF vars, ownerVars, workerVars
  <1>5. QED
    BY <1>1, <1>2, <1>3, <1>4 DEF Next

\* Which part of the queue can hold something keeps following the owner's place.
LEMMA HoldingStep ==
    ASSUME SInv, [Next]_vars
    PROVE  Holding'
  <1> USE DEF SInv, Holding
  <1>1. CASE Owner
    <2>1. CASE StartOk \/ StartFails \/ StopFlag
      BY <2>1 DEF StartOk, StartFails, StopFlag, qvars
    <2>2. CASE DrainBegin \/ DrainEnd
      BY <2>2 DEF DrainBegin, DrainEnd, qvars
    <2>3. CASE DrainPop \/ DrainReply
      <3>1. CASE DrainPop
        <4>1. popped' = << Head(requests) >> /\ cancelled' = << >> /\ owner' = "evaluating"
          BY <3>1 DEF DrainPop, Pop, OwnerFree
        <4>2. popped' # << >>
          BY <4>1
        <4>3. QED
          BY <4>1, <4>2
      <3>2. CASE DrainReply
        BY <3>2 DEF DrainReply, ReplyPopped
      <3>3. QED
        BY <2>3, <3>1, <3>2
    <2>4. CASE StopListener \/ StopEnd
      BY <2>4 DEF StopListener, StopEnd, qvars
    <2>5. CASE StopJoin
      BY <2>5 DEF StopJoin, CancelAll, qvars
    <2>6. CASE StopCancel
      BY <2>6 DEF StopCancel, ReplyCancelled, ownerVars
    <2>7. QED
      BY <1>1, <2>1, <2>2, <2>3, <2>4, <2>5, <2>6 DEF Owner, Draining, Stopping
  <1>2. CASE PushLine
    BY <1>2 DEF PushLine, Push, ownerVars, Phases
  <1>3. CASE Worker /\ ~PushLine
    BY <1>3 DEF Worker, RunLoop, Accept, AcceptFails, ServeLoop, RecvTimeout, RecvEnd, RecvData,
                TakeNext, LinesEnd, Wait, SendResult, SendRejected, SendRefused, CloseClient,
                ownerVars, qvars
  <1>4. CASE Clients
    BY <1>4 DEF Clients, Connect, Read, Leave, Write, ownerVars, qvars
  <1>5. CASE UNCHANGED vars
    BY <1>5 DEF vars, ownerVars, qvars
  <1>6. QED
    BY <1>1, <1>2, <1>3, <1>4, <1>5 DEF Next

\* The only unanswered request stays the only one, unanswered, and waited for
\* or left behind; and the promises keep following it.
LEMMA OutstandingStep ==
    ASSUME SInv, QInv', [Next]_vars
    PROVE  Outstanding' /\ Promised'
  <1>t. TypeOK /\ Phases /\ Holding /\ Outstanding /\ Promised
    BY DEF SInv
  <1>u. ASSUME UNCHANGED << qvars, promise, running, future, worker >>
        PROVE  Outstanding' /\ Promised'
    BY <1>u, <1>t DEF Outstanding, Promised, qvars
  <1>1. CASE StartOk
    <2>1. popped = << >> /\ cancelled = << >> /\ requests = << >>
      BY <1>1, <1>t DEF StartOk, Holding
    <2>2. QED
      BY <1>1, <1>t, <2>1 DEF StartOk, Outstanding, Promised, qvars
  <1>2. CASE StartFails \/ DrainBegin \/ DrainEnd \/ StopListener \/ StopEnd \/ Clients \/ UNCHANGED vars
    BY <1>2, <1>u DEF StartFails, DrainBegin, DrainEnd, StopListener, StopEnd, Clients, Connect,
                      Read, Leave, Write, workerVars, ownerVars, vars
  <1>3. CASE DrainPop
    <2>1. /\ popped = << >> /\ cancelled = << >> /\ requests # << >> /\ Len(requests) = 1
          /\ popped' = << requests[1] >> /\ requests' = << >> /\ cancelled' = << >>
      <3>1. popped = << >> /\ cancelled = << >> /\ requests # << >> /\ cancelled' = cancelled
        BY <1>3 DEF DrainPop, Pop, OwnerFree
      <3>2. Len(requests) <= 1 /\ requests \in Seq(Request) /\ Len(requests) \in Nat
        BY <1>t, <3>1 DEF Outstanding, TypeOK, QTypeOK
      <3>3. Len(requests) = 1
        BY <3>1, <3>2, HeadThenTail
      <3>4. popped' = << Head(requests) >> /\ requests' = Tail(requests)
        BY <1>3 DEF DrainPop, Pop
      <3>5. QED
        BY <3>1, <3>2, <3>3, <3>4
    <2>2. UNCHANGED << promise, running, future, worker, submitted >>
      BY <1>3 DEF DrainPop, Pop, workerVars
    <2>3. /\ promise[requests[1].id] = Unset
          /\ \/ worker = "wait" /\ requests[1].id = future
             \/ ~running /\ worker \in {"close", "run", "returned", "none"}
      BY <1>t, <2>1 DEF Outstanding
    <2>4. Len(popped') = 1 /\ popped'[1] = requests[1] /\ popped' # << >>
      BY <2>1
    <2>5. Outstanding'
      BY <2>1, <2>2, <2>3, <2>4 DEF Outstanding
    <2>6. Promised'
      BY <1>t, <2>2, <2>4 DEF Promised
    <2>7. QED
      BY <2>5, <2>6
  <1>4. CASE DrainReply
    <2>1. /\ popped # << >> /\ cancelled = << >> /\ requests = << >> /\ popped' = << >>
          /\ cancelled' = << >> /\ requests' = << >>
      BY <1>4, <1>t, QueueShape DEF DrainReply, ReplyPopped, Holding, Outstanding
    <2>2. /\ Head(popped) = popped[1] /\ popped[1] \in Request
          /\ promise' = [promise EXCEPT ![popped[1].id] = Value(Head(popped).source)]
          /\ UNCHANGED << running, future, worker, submitted >>
      <3>1. popped \in Seq(Request)
        BY <1>t DEF TypeOK, QTypeOK
      <3>2. Head(popped) = popped[1] /\ popped[1] \in Request
        BY <2>1, <3>1, HeadThenTail
      <3>3. QED
        BY <1>4, <3>2 DEF DrainReply, ReplyPopped, workerVars
    <2>3. Value(Head(popped).source) # Unset
      BY DEF Value, Unset
    <2>4. popped[1].id \in 1..MaxSubmissions /\ popped[1].id <= submitted
      <3>1. popped[1].id \in 1..MaxSubmissions
        BY <2>2 DEF Request
      <3>2. popped[1] = accepted[Len(answered) + 1] /\ Len(answered) + 1 \in 1..Len(accepted)
        BY <2>1, QueueShape, <1>t DEF SInv, QInv, QTypeOK, Conservation, After
      <3>3. QED
        BY <3>1, <3>2 DEF SInv, QInv, AcceptedAscending
    <2>5. Outstanding'
      BY <2>1 DEF Outstanding
    <2>6. worker = "wait" => popped[1].id = future
      BY <1>4, <1>t, <2>1 DEF DrainReply, Outstanding, Phases
    <2>7. worker # "send"
      BY <1>4, <1>t, <2>1 DEF DrainReply, Outstanding, Phases
    <2>8. Promised'
      <3>1. promise \in [1..MaxSubmissions -> Reply \cup {Unset}] /\ submitted \in Nat
        BY <1>t DEF TypeOK, QTypeOK
      <3>2. promise'[popped[1].id] # Unset
        BY <2>2, <2>3, <2>4, <3>1
      <3>3. \A k \in 1..MaxSubmissions : k # popped[1].id => promise'[k] = promise[k]
        BY <2>2, <3>1
      <3>4. \A k \in 1..MaxSubmissions : k > submitted => k # popped[1].id
        BY <2>4, <3>1
      <3>5. \A k \in 1..MaxSubmissions : k > submitted' => promise'[k] = Unset
        BY <1>t, <2>2, <3>3, <3>4 DEF Promised
      <3>6. QED
        BY <1>t, <2>2, <2>6, <2>7, <3>2, <3>5 DEF Promised
    <2>9. QED
      BY <2>5, <2>8
  <1>5. CASE StopFlag
    BY <1>5, <1>t DEF StopFlag, Outstanding, Promised, qvars, workerVars
  <1>6. CASE StopJoin
    <2>1. /\ popped = << >> /\ cancelled = << >> /\ popped' = << >>
          /\ cancelled' = requests /\ requests' = << >> /\ submitted' = submitted
      BY <1>6, <1>t DEF StopJoin, CancelAll, OwnerFree, Holding, qvars
    <2>2. worker = "returned" /\ worker' = "none" /\ ~running /\ UNCHANGED << running, promise, future >>
      BY <1>6, <1>t DEF StopJoin, Phases
    <2>3. Len(popped) = 0 /\ Len(cancelled) = 0 /\ Len(requests) \in Nat
      BY <1>t, <2>1, QueueShape
    <2>4. Outstanding'
      BY <1>t, <2>1, <2>2, <2>3 DEF Outstanding
    <2>5. Promised'
      BY <1>t, <2>1, <2>2 DEF Promised
    <2>6. QED
      BY <2>4, <2>5
  <1>7. CASE StopCancel
    <2>1. cancelled # << >> /\ Len(cancelled) = 1 /\ popped = << >> /\ requests = << >>
      <3>1. cancelled # << >> /\ Len(popped) + Len(cancelled) + Len(requests) <= 1
        BY <1>7, <1>t DEF StopCancel, ReplyCancelled, Outstanding
      <3>2. Len(cancelled) # 0
        BY <1>t, <3>1, QueueShape
      <3>3. Len(cancelled) = 1 /\ Len(popped) = 0 /\ Len(requests) = 0
        <4>1. Len(popped) \in Nat /\ Len(cancelled) \in Nat /\ Len(requests) \in Nat
          BY <1>t, QueueShape
        <4>2. \A i, j, k \in Nat : j # 0 /\ i + j + k <= 1 => j = 1 /\ i = 0 /\ k = 0
          OBVIOUS
        <4>3. QED
          BY <3>1, <3>2, <4>1, <4>2
      <3>4. QED
        BY <1>t, <3>1, <3>3, QueueShape
    <2>2. popped' = << >> /\ cancelled' = << >> /\ requests' = << >>
      <3>1. cancelled \in Seq(Request)
        BY <1>t DEF TypeOK, QTypeOK
      <3>2. Tail(cancelled) = << >>
        <4>1. Tail(cancelled) \in Seq(Request) /\ Len(Tail(cancelled)) = 0
          BY <2>1, <3>1, HeadThenTail
        <4>2. QED
          BY <4>1, EmptySeq
      <3>3. QED
        BY <1>7, <2>1, <3>2 DEF StopCancel, ReplyCancelled
    <2>3. /\ Head(cancelled) = cancelled[1] /\ cancelled[1] \in Request
          /\ promise' = [promise EXCEPT ![cancelled[1].id] = Ended]
          /\ UNCHANGED << running, future, worker, submitted >> /\ worker = "none"
      BY <1>7, <1>t, <2>1, HeadThenTail DEF StopCancel, ReplyCancelled, TypeOK, QTypeOK, workerVars, ownerVars, Phases
    <2>4. cancelled[1].id \in 1..MaxSubmissions /\ cancelled[1].id <= submitted
      <3>1. cancelled[1].id \in 1..MaxSubmissions
        BY <2>3 DEF Request
      <3>2. cancelled[1] = accepted[Len(answered) + 1] /\ Len(answered) + 1 \in 1..Len(accepted)
        BY <2>1, QueueShape, <1>t DEF SInv, QInv, QTypeOK, Conservation, After
      <3>3. QED
        BY <3>1, <3>2 DEF SInv, QInv, AcceptedAscending
    <2>5. Outstanding'
      BY <2>2 DEF Outstanding
    <2>6. Promised'
      <3>1. promise \in [1..MaxSubmissions -> Reply \cup {Unset}] /\ submitted \in Nat
        BY <1>t DEF TypeOK, QTypeOK
      <3>2. \A k \in 1..MaxSubmissions : k # cancelled[1].id => promise'[k] = promise[k]
        BY <2>3, <3>1
      <3>3. \A k \in 1..MaxSubmissions : k > submitted => k # cancelled[1].id
        BY <2>4, <3>1
      <3>4. \A k \in 1..MaxSubmissions : k > submitted' => promise'[k] = Unset
        BY <1>t, <2>3, <3>2, <3>3 DEF Promised
      <3>5. QED
        BY <2>3, <3>4 DEF Promised
    <2>7. QED
      BY <2>5, <2>6
  <1>8. CASE PushLine
    <2>1. popped = << >> /\ cancelled = << >> /\ requests = << >>
      BY <1>8, <1>t DEF PushLine, Outstanding
    <2>2. /\ submitted \in Nat /\ submitted < MaxSubmissions /\ submitted' = submitted + 1
          /\ popped' = << >> /\ cancelled' = << >> /\ UNCHANGED << promise, running >>
      BY <1>8, <1>t, <2>1 DEF PushLine, Push, TypeOK, QTypeOK, ownerVars
    <2>3. promise[submitted + 1] = Unset
      BY <1>t, <2>2 DEF Promised
    <2>4. CASE PushAccepts(source)
      <3>1. /\ requests' = << [id |-> submitted + 1, source |-> source] >>
            /\ future' = submitted + 1 /\ worker' = "wait"
        BY <1>8, <2>1, <2>2, <2>4 DEF PushLine, Push, Goto
      <3>2. Len(requests') = 1 /\ requests'[1].id = submitted + 1 /\ requests' # << >>
        BY <3>1
      <3>3. Outstanding'
        BY <2>2, <2>3, <3>1, <3>2 DEF Outstanding
      <3>4. Promised'
        BY <1>t, <2>2, <2>3, <3>1, <3>2 DEF Promised
      <3>5. QED
        BY <3>3, <3>4
    <2>5. CASE ~PushAccepts(source)
      <3>1. requests' = << >> /\ worker' = "reject"
        BY <1>8, <2>1, <2>5 DEF PushLine, Push, Goto
      <3>2. QED
        BY <1>t, <2>2, <3>1 DEF Outstanding, Promised
    <2>6. QED
      BY <2>4, <2>5
  <1>9. CASE Wait
    BY <1>9, <1>t DEF Wait, Goto, Outstanding, Promised, qvars, ownerVars
  <1>10. CASE RunLoop \/ CloseClient \/ AcceptFails
    BY <1>10, <1>t DEF RunLoop, CloseClient, AcceptFails, Goto, Outstanding, Promised, qvars, ownerVars
  <1>11. CASE Worker /\ worker \notin {"run", "close", "wait", "push"}
    <2>1. /\ popped = << >> /\ cancelled = << >> /\ requests = << >>
          \/ AcceptFails
      BY <1>11, <1>t DEF Outstanding, Worker, RunLoop, Accept, ServeLoop, RecvTimeout, RecvEnd, RecvData,
                TakeNext, LinesEnd, PushLine, Wait, SendResult, SendRejected, SendRefused, CloseClient
    <2>2. AcceptFails \/ (worker' \notin {"wait", "send"} /\ UNCHANGED << qvars, promise, running >>)
      BY <1>11 DEF Worker, RunLoop, Accept, ServeLoop, RecvTimeout, RecvEnd, RecvData,
                TakeNext, LinesEnd, PushLine, Wait, SendResult, SendRejected, SendRefused, CloseClient,
                Goto, ownerVars
    <2>3. QED
      BY <1>10, <1>t, <2>1, <2>2 DEF Outstanding, Promised, qvars
  <1>12. QED
    BY <1>1, <1>2, <1>3, <1>4, <1>5, <1>6, <1>7, <1>8, <1>9, <1>10, <1>11
       DEF Next, Owner, Draining, Stopping, Worker, PushLine, Wait, RunLoop, CloseClient, AcceptFails,
           Accept, ServeLoop, RecvTimeout, RecvEnd, RecvData, TakeNext, LinesEnd, SendResult,
           SendRejected, SendRefused

-----------------------------------------------------------------------------
\* SInv holds initially.
LEMMA ServerInit == Init => SInv
  <1> SUFFICES ASSUME Init PROVE SInv
    OBVIOUS
  <1>1. QInv
    BY QueueInit DEF Init
  <1>2. TypeOK
    <2>1. QTypeOK
      BY <1>1 DEF QInv
    <2>2. << >> \in Seq(Byte) /\ << >> \in Seq(Reply) /\ << >> \in Seq(Client)
      OBVIOUS
    <2>3. /\ newline \in Nat /\ future \in 0..MaxSubmissions /\ starts \in 0..MaxStarts
          /\ lines \in 0..MaxLines
      BY DEF Init
    <2>4. /\ got \in [Client -> Nat] /\ unread \in [Client -> Nat]
          /\ promise \in [1..MaxSubmissions -> Reply \cup {Unset}]
      BY DEF Init
    <2>5. /\ written \in [Client -> Seq(Byte)] /\ sent \in [Client -> Seq(Reply)]
          /\ buffered \in Seq(Byte) /\ source \in Seq(Byte) /\ backlog \in Seq(Client)
      BY <2>2 DEF Init
    <2>6. /\ conn \in [Client -> {"new", "queued", "serving", "closed"}]
          /\ gone \in [Client -> BOOLEAN] /\ client \in Client \cup {None}
      BY DEF Init
    <2>7. QED
      BY <2>1, <2>3, <2>4, <2>5, <2>6 DEF Init, TypeOK, WorkerPC
  <1>3. popped = << >> /\ cancelled = << >> /\ requests = << >> /\ Len(<< >>) = 0
    BY DEF Init, QInit
  <1>4. Outstanding
    BY <1>3 DEF Outstanding
  <1>5. Phases /\ Holding /\ Promised /\ Serving
    BY <1>3 DEF Init, Phases, Holding, Promised, Serving
  <1>6. QED
    BY <1>1, <1>2, <1>4, <1>5 DEF SInv

\* SInv is an invariant of the server, whatever the clients send and however
\* often the owner stops and starts it.
THEOREM ServerInvariant == Spec => []SInv
  <1>1. ASSUME SInv, [Next]_vars PROVE SInv'
    <2>1. QInv'
      BY <1>1, QueueStep DEF SInv
    <2>2. TypeOK'
      BY <1>1, <2>1, TypeStep
    <2>3. Phases' /\ Serving'
      BY <1>1, PhaseStep
    <2>4. Holding'
      BY <1>1, HoldingStep
    <2>5. Outstanding' /\ Promised'
      BY <1>1, <2>1, OutstandingStep
    <2>6. QED
      BY <2>1, <2>2, <2>3, <2>4, <2>5 DEF SInv
  <1>2. QED
    BY <1>1, ServerInit, PTL DEF Spec

\* Every variable keeps its type: in particular no unset promise is ever sent.
THEOREM TypeCorrect == Spec => []TypeOK
  BY ServerInvariant, PTL DEF SInv

\* The worker runs only while the queue pointer it dereferences is set, and it
\* has been joined when Stop returns.
THEOREM WorkerLifetime == Spec => []WorkerWithinLifetime
  <1>1. SInv => WorkerWithinLifetime
    BY DEF SInv, TypeOK, Phases, WorkerWithinLifetime, WorkerGone
  <1>2. QED
    BY <1>1, ServerInvariant, PTL

\* Nothing accepted in one lifetime is left when Stop has returned.
THEOREM QuietAfterStop == Spec => []QuietWhenStopped
  <1>1. SInv => QuietWhenStopped
    <2> SUFFICES ASSUME SInv, owner = "stopped" PROVE QuietWhenStopped
      BY DEF QuietWhenStopped
    <2>1. popped = << >> /\ cancelled = << >> /\ requests = << >>
      BY DEF SInv, Holding
    <2>2. Len(popped) = 0 /\ Len(cancelled) = 0 /\ Len(requests) = 0
      BY <2>1
    <2>3. Len(answered) \in Nat /\ Len(accepted) = Len(answered) + Len(popped) + Len(cancelled) + Len(requests)
      BY DEF SInv, QInv, QTypeOK, Conservation
    <2>4. QED
      BY <2>1, <2>2, <2>3 DEF QuietWhenStopped
  <1>2. QED
    BY <1>1, ServerInvariant, PTL

\* At most one request is outstanding, and it is the one the worker waits for.
THEOREM SingleRequest == Spec => []OneOutstanding
  <1>1. SInv => OneOutstanding
    BY DEF SInv, Outstanding, Promised, OneOutstanding
  <1>2. QED
    BY <1>1, ServerInvariant, PTL

\* No promise is fulfilled twice.
THEOREM RepliesOnce == Spec => PromiseSetOnce
  <1> DEFINE Once == /\ \A i \in Len(answered) + 1..Len(answered') : promise[answered'[i].id] = Unset
                     /\ \A r \in 1..MaxSubmissions : promise[r] # Unset => promise'[r] = promise[r]
  <1>1. ASSUME SInv, [Next]_vars
        PROVE  [Once]_<< answered, promise >>
    <2>t. answered \in Seq(Request) /\ promise \in [1..MaxSubmissions -> Reply \cup {Unset}]
      BY <1>1 DEF SInv, TypeOK, QInv, QTypeOK
    <2>1. CASE DrainReply
      <3>1. popped # << >> /\ popped \in Seq(Request)
        BY <1>1, <2>1 DEF DrainReply, ReplyPopped, SInv, QInv, QTypeOK
      <3>2. Head(popped) = popped[1] /\ Head(popped) \in Request
        BY <3>1, HeadThenTail
      <3>3. promise[Head(popped).id] = Unset
        BY <1>1, <3>1, <3>2 DEF SInv, Outstanding
      <3>4. answered' = Append(answered, Head(popped))
        BY <2>1 DEF DrainReply, ReplyPopped
      <3>5. /\ Len(answered') = Len(answered) + 1 /\ Len(answered) \in Nat
            /\ answered'[Len(answered) + 1] = Head(popped)
        BY <2>t, <3>2, <3>4, AppendElements
      <3>6. \A r \in 1..MaxSubmissions : promise[r] # Unset => promise'[r] = promise[r]
        BY <2>1, <2>t, <3>3 DEF DrainReply
      <3>7. \A i \in Len(answered) + 1..Len(answered') : i = Len(answered) + 1
        BY <3>5
      <3>8. QED
        BY <3>3, <3>5, <3>6, <3>7
    <2>2. CASE StopCancel
      <3>1. cancelled # << >> /\ cancelled \in Seq(Request)
        BY <1>1, <2>2 DEF StopCancel, ReplyCancelled, SInv, QInv, QTypeOK
      <3>2. Head(cancelled) = cancelled[1] /\ Head(cancelled) \in Request
        BY <3>1, HeadThenTail
      <3>3. promise[Head(cancelled).id] = Unset
        BY <1>1, <3>1, <3>2 DEF SInv, Outstanding
      <3>4. answered' = Append(answered, Head(cancelled))
        BY <2>2 DEF StopCancel, ReplyCancelled
      <3>5. /\ Len(answered') = Len(answered) + 1 /\ Len(answered) \in Nat
            /\ answered'[Len(answered) + 1] = Head(cancelled)
        BY <2>t, <3>2, <3>4, AppendElements
      <3>6. \A r \in 1..MaxSubmissions : promise[r] # Unset => promise'[r] = promise[r]
        BY <2>2, <2>t, <3>3 DEF StopCancel
      <3>7. \A i \in Len(answered) + 1..Len(answered') : i = Len(answered) + 1
        BY <3>5
      <3>8. QED
        BY <3>3, <3>5, <3>6, <3>7
    <2>4. ASSUME Owner, ~DrainReply, ~StopCancel PROVE UNCHANGED << answered, promise >>
      BY <2>4 DEF Owner, Draining, Stopping, StartOk, StartFails, DrainBegin, DrainPop, Pop, DrainEnd,
                  StopFlag, StopListener, StopJoin, CancelAll, StopEnd, qvars
    <2>5. ASSUME Worker PROVE UNCHANGED << answered, promise >>
      BY <2>5 DEF Worker, RunLoop, Accept, AcceptFails, ServeLoop, RecvTimeout, RecvEnd, RecvData,
                  TakeNext, LinesEnd, PushLine, Push, Wait, SendResult, SendRejected, SendRefused,
                  CloseClient, qvars
    <2>6. ASSUME Clients PROVE UNCHANGED << answered, promise >>
      BY <2>6 DEF Clients, Connect, Read, Leave, Write, qvars
    <2>7. ASSUME UNCHANGED vars PROVE UNCHANGED << answered, promise >>
      BY <2>7 DEF vars, qvars
    <2>8. QED
      BY <1>1, <2>1, <2>2, <2>4, <2>5, <2>6, <2>7 DEF Next
  <1>2. QED
    BY <1>1, ServerInvariant, PTL DEF Spec, PromiseSetOnce

\* The server with its sockets, worker and restarts is still that service: every
\* step of it accepts a request at the back, answers the oldest, or is not seen.
THEOREM ServerImplementsService == Spec => ImplementsService
  <1>1. ASSUME SInv, [Next]_vars
        PROVE  [Service!Next]_Service!svars
    <2>t. TypeOK /\ QInv
      BY <1>1 DEF SInv
    <2>1. CASE UNCHANGED qvars
      BY <2>1 DEF qvars, Service!svars
    <2>2. CASE PushLine
      BY <2>2, <2>t, PushAccepted DEF PushLine, TypeOK
    <2>3. CASE DrainPop \/ DrainReply \/ StopCancel \/ CancelAll
      BY <2>3, <2>t, OwnerAnswers DEF DrainPop, DrainReply, StopCancel, OwnerStep
    <2>4. CASE StopJoin
      BY <2>1, <2>3, <2>4 DEF StopJoin
    <2>5. CASE UNCHANGED vars
      BY <2>1, <2>5 DEF vars
    <2>6. CASE StartOk \/ StartFails \/ DrainBegin \/ DrainEnd \/ StopFlag \/ StopListener \/ StopEnd
      BY <2>1, <2>6 DEF StartOk, StartFails, DrainBegin, DrainEnd, StopFlag, StopListener, StopEnd
    <2>7. CASE Worker /\ ~PushLine
      BY <2>1, <2>7 DEF Worker, RunLoop, Accept, AcceptFails, ServeLoop, RecvTimeout, RecvEnd, RecvData,
                        TakeNext, LinesEnd, Wait, SendResult, SendRejected, SendRefused, CloseClient
    <2>8. CASE Clients
      BY <2>1, <2>8 DEF Clients, Connect, Read, Leave, Write
    <2>9. QED
      BY <1>1, <2>2, <2>3, <2>4, <2>5, <2>6, <2>7, <2>8 DEF Next, Owner, Draining, Stopping
  <1>2. Init => Service!Init
    BY ServiceInit DEF Init
  <1>3. QED
    BY <1>1, <1>2, ServerInvariant, PTL DEF Spec, ImplementsService, Service!Spec

-----------------------------------------------------------------------------
(***************************************************************************)
(* CleanClientFramed.  The replies sent so far are the answers to the      *)
(* client's first lines (Tell); ServeClient's locals say where in the      *)
(* client's bytes it is (Keeps); the request it waits for has the text of  *)
(* the line in hand (Asked).                                               *)
(***************************************************************************)

-----------------------------------------------------------------------------
(* The lines of a text. *)

\* What it is to be a line.
LEMMA LineIs ==
    ASSUME NEW w \in Seq(Byte), NEW l \in LinesOf(w)
    PROVE  /\ Len(w) \in Nat /\ l.after \in Nat /\ l.end \in Nat
           /\ l.after < l.end /\ 1 <= l.end /\ l.end <= Len(w) /\ w[l.end] = "\n"
           /\ l.after = 0 \/ w[l.after] = "\n"
           /\ \A j \in (l.after + 1)..(l.end - 1) : w[j] # "\n"
           /\ l = [after |-> l.after, end |-> l.end]
<1>1. l \in [after : 0..Len(w), end : 1..Len(w)]
  BY DEF LinesOf
<1>2. l.after \in 0..Len(w) /\ l.end \in 1..Len(w) /\ l = [after |-> l.after, end |-> l.end]
  BY <1>1
<1>3. /\ l.after < l.end /\ w[l.end] = "\n"
      /\ l.after = 0 \/ w[l.after] = "\n"
      /\ \A j \in (l.after + 1)..(l.end - 1) : w[j] # "\n"
  BY DEF LinesOf
<1>4. Len(w) \in Nat
  OBVIOUS
<1> QED
  BY <1>2, <1>3, <1>4

\* ... and what makes one.
LEMMA IsLine ==
    ASSUME NEW w \in Seq(Byte), NEW s \in Nat, NEW e \in Nat, s < e, e <= Len(w), w[e] = "\n",
           s = 0 \/ w[s] = "\n", \A j \in (s + 1)..(e - 1) : w[j] # "\n"
    PROVE  [after |-> s, end |-> e] \in LinesOf(w)
<1>1. s \in 0..Len(w) /\ e \in 1..Len(w)
  <2>1. Len(w) \in Nat
    OBVIOUS
  <2> QED
    BY <2>1
<1> QED
  BY <1>1 DEF LinesOf

\* A line is known by its end.
LEMMA OneLine ==
    ASSUME NEW w \in Seq(Byte), NEW l \in LinesOf(w), NEW k \in LinesOf(w), l.end = k.end
    PROVE  l = k
<1>1. ASSUME NEW a \in LinesOf(w), NEW b \in LinesOf(w), a.end = b.end PROVE ~(a.after < b.after)
  <2> SUFFICES ASSUME a.after < b.after PROVE FALSE
    OBVIOUS
  <2>1. /\ a.after \in Nat /\ b.after \in Nat /\ b.end \in Nat /\ b.after < b.end
        /\ b.after = 0 \/ w[b.after] = "\n"
        /\ \A j \in (a.after + 1)..(a.end - 1) : w[j] # "\n"
    BY LineIs
  <2>2. b.after \in (a.after + 1)..(a.end - 1) /\ b.after # 0
    BY <1>1, <2>1
  <2> QED
    BY <2>1, <2>2
<1>2. l.after \in Nat /\ k.after \in Nat /\ ~(l.after < k.after) /\ ~(k.after < l.after)
  BY <1>1, LineIs
<1>3. l.after = k.after
  BY <1>2
<1> QED
  BY <1>3, LineIs

\* The lines of a text are finitely many.
LEMMA LinesFinite ==
    ASSUME NEW w \in Seq(Byte)
    PROVE  /\ IsFiniteSet(AskedIn(w)) /\ Cardinality(AskedIn(w)) \in Nat
           /\ \A n : /\ IsFiniteSet(Within(w, n)) /\ Cardinality(Within(w, n)) \in Nat
                     /\ Cardinality(Within(w, n)) <= Cardinality(AskedIn(w))
<1> DEFINE S == AskedIn(w)
           T == 1..Len(w)
           f == [l \in S |-> l.end]
<1>1. \A l \in S : l \in LinesOf(w) /\ l.end \in T
  BY LineIs DEF AskedIn
<1>2. \A l, k \in S : l.end = k.end => l = k
  BY <1>1, OneLine
<1>3. IsFiniteSet(T)
  <2>1. 1 \in Int /\ Len(w) \in Int
    OBVIOUS
  <2> QED
    BY <2>1, FS_Interval
<1> HIDE DEF S, T
<1>4. f \in Injection(S, T)
  <2>1. f \in [S -> T]
    BY <1>1
  <2>2. \A l, k \in S : f[l] = f[k] => l = k
    BY <1>2
  <2> QED
    BY <2>1, <2>2 DEF Injection, IsInjective
<1> HIDE DEF f
<1>5. IsFiniteSet(S)
  BY <1>3, <1>4, FS_Injection
<1>6. Cardinality(S) \in Nat
  BY <1>5, FS_CardinalityType
<1>7. ASSUME NEW n
      PROVE  /\ IsFiniteSet(Within(w, n)) /\ Cardinality(Within(w, n)) \in Nat
             /\ Cardinality(Within(w, n)) <= Cardinality(S)
  <2>1. Within(w, n) \in SUBSET S
    BY DEF Within, S
  <2>2. IsFiniteSet(Within(w, n)) /\ Cardinality(Within(w, n)) <= Cardinality(S)
    BY <1>5, <2>1, FS_Subset
  <2> QED
    BY <2>2, FS_CardinalityType
<1> QED
  BY <1>5, <1>6, <1>7 DEF S

\* No two lines have the same number.
LEMMA Numbers ==
    ASSUME NEW w \in Seq(Byte), NEW l \in AskedIn(w), NEW k \in AskedIn(w),
           Cardinality(Within(w, l.end)) = Cardinality(Within(w, k.end))
    PROVE  l = k
<1>1. ASSUME NEW a \in AskedIn(w), NEW b \in AskedIn(w), a.end < b.end
      PROVE  Cardinality(Within(w, a.end)) # Cardinality(Within(w, b.end))
  <2> DEFINE A == Within(w, a.end)
             B == Within(w, b.end)
  <2>1. a.end \in Nat /\ b.end \in Nat /\ \A m \in AskedIn(w) : m.end \in Nat
    BY LineIs DEF AskedIn
  <2>2. A \in SUBSET B
    BY <1>1, <2>1 DEF Within
  <2>3. b \in B /\ b \notin A
    BY <1>1, <2>1 DEF Within
  <2>4. IsFiniteSet(B)
    BY LinesFinite
  <2> HIDE DEF A, B
  <2>5. Cardinality(B) = Cardinality(A) => B = A
    BY <2>2, <2>4, FS_Subset
  <2>6. Cardinality(A) # Cardinality(B)
    BY <2>3, <2>5
  <2> QED
    BY <2>6 DEF A, B
<1>2. ~(l.end < k.end) /\ ~(k.end < l.end)
  BY <1>1
<1>3. l \in LinesOf(w) /\ k \in LinesOf(w)
  BY DEF AskedIn
<1>4. l.end \in Nat /\ k.end \in Nat
  BY <1>3, LineIs
<1>5. l.end = k.end
  BY ONLY <1>2, <1>4
<1> QED
  BY <1>3, <1>5, OneLine

\* These replies are the answers to the first lines of a text.
Tell(w, s) ==
    \A i \in 1..Len(s) : \E l \in AskedIn(w) :
        Cardinality(Within(w, l.end)) = i /\ s[i] = AnswerTo(TextOf(w, l))

\* Replies that tell the answers are the first of the answers.
LEMMA TellMeans ==
    ASSUME NEW w \in Seq(Byte), NEW s \in Seq(Reply), Tell(w, s)
    PROVE  IsPrefix(s, Answers(w))
<1> DEFINE n == Cardinality(AskedIn(w))
           m == Len(s)
           t == Answers(w)
<1>1. n \in Nat /\ m \in Nat
  BY LinesFinite
<1>2. \A i \in 1..m : \E l \in AskedIn(w) : Cardinality(Within(w, l.end)) = i /\ s[i] = AnswerTo(TextOf(w, l))
  BY DEF Tell
<1>3. m <= n
  <2>1. CASE m = 0
    BY <1>1, <2>1
  <2>2. CASE m # 0
    <3>1. m \in 1..m
      BY <1>1, <2>2
    <3>2. PICK l \in AskedIn(w) : Cardinality(Within(w, l.end)) = m
      BY <1>2, <3>1
    <3>3. Cardinality(Within(w, l.end)) <= n
      BY LinesFinite
    <3> QED
      BY <3>2, <3>3
  <2> QED
    BY <2>1, <2>2
<1>4. ASSUME NEW i \in 1..m PROVE t[i] = s[i]
  <2>1. PICK l \in AskedIn(w) : Cardinality(Within(w, l.end)) = i /\ s[i] = AnswerTo(TextOf(w, l))
    BY <1>2
  <2>2. \A k \in AskedIn(w) : Cardinality(Within(w, k.end)) = i => k = l
    <3> TAKE k \in AskedIn(w)
    <3> HAVE Cardinality(Within(w, k.end)) = i
    <3> QED
      BY <2>1, Numbers
  <2>3. Nth(w, i) = l
    BY <2>1, <2>2 DEF Nth
  <2>4. i \in 1..n
    BY <1>1, <1>3
  <2>5. t[i] = AnswerTo(TextOf(w, Nth(w, i)))
    BY <2>4 DEF Answers
  <2> QED
    BY <2>1, <2>3, <2>5
<1>5. Len(t) = n /\ t \in Seq({t[i] : i \in 1..n})
  <2>1. DOMAIN t = 1..n /\ t = [i \in 1..n |-> t[i]]
    BY DEF Answers
  <2>2. n \in Nat
    BY <1>1
  <2> HIDE DEF t, n
  <2> DEFINE E == {t[i] : i \in 1..n}
  <2>3. t \in [1..n -> E]
    BY ONLY <2>1
  <2> HIDE DEF E
  <2>4. t \in Seq(E)
    BY ONLY <2>2, <2>3, SeqDef, Zenon
  <2>5. Len(t) = n
    BY ONLY <2>1, <2>2, <2>4
  <2> QED
    BY <2>4, <2>5 DEF E
<1> HIDE DEF n, m, t
<1> DEFINE R == Reply \cup {t[i] : i \in 1..n}
<1>6. t \in Seq(R) /\ s \in Seq(R) /\ Len(s) = m
  <2>1. s \in Seq(Reply) /\ Len(s) = m
    BY DEF m
  <2>2. \A i \in 1..n : t[i] \in R
    OBVIOUS
  <2>3. Reply \subseteq R
    OBVIOUS
  <2> HIDE DEF R
  <2>4. \A i \in 1..m : s[i] \in R
    BY <2>1, <2>3
  <2>5. s \in Seq(R)
    BY <1>1, <2>1, <2>4
  <2>6. t \in Seq(R)
    BY <1>1, <1>5, <2>2
  <2> QED
    BY <2>1, <2>5, <2>6
<1> HIDE DEF R
<1> DEFINE u == SubSeq(t, 1, m)
<1>7. SubSeq(s, 1, m) = s
  BY <1>6, SubSeqFull
<1>8. /\ u \in Seq(R) /\ Len(u) = m /\ \A i \in 1..m : u[i] = t[i]
  <2>1. 1 \in Int /\ m \in Int /\ \A i \in 1..m : t[i] \in R
    BY <1>1, <1>3, <1>5, <1>6
  <2>2. /\ u \in Seq(R) /\ Len(u) = IF 1 <= m THEN m - 1 + 1 ELSE 0
        /\ \A i \in 1..(m - 1 + 1) : u[i] = t[1 + i - 1]
    BY <1>6, <2>1, SubSeqProperties
  <2> HIDE DEF u
  <2>3. m - 1 + 1 = m /\ \A i \in 1..m : 1 + i - 1 = i
    BY <1>1
  <2>4. Len(u) = m
    BY <1>1, <2>2
  <2>5. \A i \in 1..m : u[i] = t[i]
    BY <2>2, <2>3
  <2> QED
    BY <2>2, <2>4, <2>5
<1> HIDE DEF u
<1>9. \A i \in 1..Len(s) : s[i] = u[i]
  BY <1>4, <1>6, <1>8
<1>10. s = u
  BY <1>6, <1>8, <1>9, SeqEqual
<1>11. Len(s) <= Len(t) /\ SubSeq(s, 1, Len(s)) = SubSeq(t, 1, Len(s))
  BY <1>3, <1>5, <1>6, <1>7, <1>10 DEF u
<1> QED
  BY <1>11 DEF IsPrefix, t

-----------------------------------------------------------------------------
(* More of a text. *)

\* The parts of a text, when more follows it.
LEMMA Longer ==
    ASSUME NEW w \in Seq(Byte), NEW x \in Seq(Byte)
    PROVE  LET v == w \o x IN
           /\ v \in Seq(Byte) /\ Len(v) \in Nat /\ Len(w) \in Nat /\ Len(w) <= Len(v)
           /\ \A i \in 1..Len(w) : v[i] = w[i]
           /\ \A i, j \in Nat : 1 <= i /\ j <= Len(w) => SubSeq(v, i, j) = SubSeq(w, i, j)
<1> DEFINE v == w \o x
<1>1. v \in Seq(Byte) /\ Len(v) = Len(w) + Len(x) /\ Len(x) \in Nat /\ Len(w) \in Nat
  BY ConcatProperties
<1>2. \A i \in 1..Len(w) : v[i] = w[i]
  <2>1. \A i \in 1..(Len(w) + Len(x)) : v[i] = IF i <= Len(w) THEN w[i] ELSE x[i - Len(w)]
    BY ConcatProperties
  <2>2. \A i \in 1..Len(w) : i \in 1..(Len(w) + Len(x)) /\ i <= Len(w)
    BY <1>1
  <2> HIDE DEF v
  <2> QED
    BY <2>1, <2>2
<1> HIDE DEF v
<1>3. Len(w) <= Len(v) /\ Len(v) \in Nat
  BY ONLY <1>1
<1>4. ASSUME NEW i \in Nat, NEW j \in Nat, 1 <= i, j <= Len(w)
      PROVE  SubSeq(v, i, j) = SubSeq(w, i, j)
  <2>1. \A k \in i..j : k \in 1..Len(w) /\ k \in 1..Len(v)
    BY ONLY <1>1, <1>3, <1>4, i \in Nat, j \in Nat
  <2>2. \A k \in i..j : w[k] \in Byte /\ v[k] \in Byte /\ v[k] = w[k]
    <3>1. \A k \in 1..Len(w) : w[k] \in Byte
      BY ElementOfSeq
    <3>2. \A k \in 1..Len(v) : v[k] \in Byte
      BY <1>1, ElementOfSeq
    <3> QED
      BY ONLY <1>2, <2>1, <3>1, <3>2
  <2> DEFINE p == SubSeq(w, i, j)
             q == SubSeq(v, i, j)
             n == IF i <= j THEN j - i + 1 ELSE 0
  <2>0. i \in Int /\ j \in Int
    OBVIOUS
  <2>3. p \in Seq(Byte) /\ Len(p) = n /\ \A k \in 1..(j - i + 1) : p[k] = w[i + k - 1]
    BY ONLY <2>0, <2>2, SubSeqProperties
  <2>4. q \in Seq(Byte) /\ Len(q) = n /\ \A k \in 1..(j - i + 1) : q[k] = v[i + k - 1]
    BY ONLY <2>0, <2>2, SubSeqProperties
  <2> HIDE DEF p, q
  <2>5. \A k \in 1..n : k \in 1..(j - i + 1) /\ i + k - 1 \in i..j
    BY ONLY i \in Nat, j \in Nat
  <2>6. \A k \in 1..n : q[k] = p[k]
    BY ONLY <2>2, <2>3, <2>4, <2>5
  <2> HIDE DEF n
  <2>7. \A k \in 1..Len(q) : q[k] = p[k]
    BY ONLY <2>4, <2>6
  <2>8. q = p
    BY ONLY <2>3, <2>4, <2>7, SeqEqual
  <2> QED
    BY <2>8 DEF p, q
<1> QED
  BY <1>1, <1>2, <1>3, <1>4 DEF v

\* The lines that are there stay, and any other ends in what is new.
LEMMA LinesStay ==
    ASSUME NEW w \in Seq(Byte), NEW x \in Seq(Byte)
    PROVE  LET v == w \o x IN
           /\ \A l \in LinesOf(w) : l \in LinesOf(v) /\ TextOf(v, l) = TextOf(w, l)
           /\ \A l \in LinesOf(v) : l.end <= Len(w) => l \in LinesOf(w)
<1> DEFINE v == w \o x
<1>1. /\ v \in Seq(Byte) /\ Len(v) \in Nat /\ Len(w) \in Nat /\ Len(w) <= Len(v)
      /\ \A i \in 1..Len(w) : v[i] = w[i]
      /\ \A i, j \in Nat : 1 <= i /\ j <= Len(w) => SubSeq(v, i, j) = SubSeq(w, i, j)
  BY Longer
<1> HIDE DEF v
<1>2. ASSUME NEW l \in LinesOf(w) PROVE l \in LinesOf(v) /\ TextOf(v, l) = TextOf(w, l)
  <2> DEFINE s == l.after
             e == l.end
  <2>1. /\ s \in Nat /\ e \in Nat /\ s < e /\ 1 <= e /\ e <= Len(w) /\ w[e] = "\n"
        /\ s = 0 \/ w[s] = "\n"
        /\ \A j \in (s + 1)..(e - 1) : w[j] # "\n"
        /\ l = [after |-> s, end |-> e]
    BY LineIs
  <2> HIDE DEF s, e
  <2>2. e \in 1..Len(w) /\ s \in 0..Len(w) /\ e <= Len(v) /\ \A j \in (s + 1)..(e - 1) : j \in 1..Len(w)
    BY ONLY <1>1, <2>1
  <2>3. /\ v[e] = "\n" /\ (s = 0 \/ v[s] = "\n") /\ \A j \in (s + 1)..(e - 1) : v[j] # "\n"
    <3>1. s # 0 => s \in 1..Len(w)
      BY ONLY <1>1, <2>2
    <3> QED
      BY ONLY <1>1, <2>1, <2>2, <3>1
  <2>4. l \in LinesOf(v)
    BY ONLY <1>1, <2>1, <2>2, <2>3, IsLine
  <2>5. s + 1 \in Nat /\ e - 1 \in Nat /\ 1 <= s + 1 /\ e - 1 <= Len(w)
    BY ONLY <1>1, <2>1
  <2>6. SubSeq(v, s + 1, e - 1) = SubSeq(w, s + 1, e - 1)
    BY ONLY <1>1, <2>5
  <2> QED
    BY <2>4, <2>6 DEF TextOf, s, e
<1>3. ASSUME NEW l \in LinesOf(v), l.end <= Len(w) PROVE l \in LinesOf(w)
  <2> DEFINE s == l.after
             e == l.end
  <2>1. /\ s \in Nat /\ e \in Nat /\ s < e /\ 1 <= e /\ e <= Len(w) /\ v[e] = "\n"
        /\ s = 0 \/ v[s] = "\n"
        /\ \A j \in (s + 1)..(e - 1) : v[j] # "\n"
        /\ l = [after |-> s, end |-> e]
    BY <1>1, <1>3, LineIs
  <2> HIDE DEF s, e
  <2>2. e \in 1..Len(w) /\ s \in 0..Len(w) /\ \A j \in (s + 1)..(e - 1) : j \in 1..Len(w)
    BY ONLY <1>1, <2>1
  <2>3. /\ w[e] = "\n" /\ (s = 0 \/ w[s] = "\n") /\ \A j \in (s + 1)..(e - 1) : w[j] # "\n"
    <3>1. s # 0 => s \in 1..Len(w)
      BY ONLY <1>1, <2>2
    <3> QED
      BY ONLY <1>1, <2>1, <2>2, <3>1
  <2> QED
    BY ONLY w \in Seq(Byte), <2>1, <2>2, <2>3, IsLine
<1> QED
  BY <1>2, <1>3 DEF v

\* ... and so do the lines within a prefix.
LEMMA WithinStays ==
    ASSUME NEW w \in Seq(Byte), NEW x \in Seq(Byte), NEW n \in Nat, n <= Len(w)
    PROVE  Within(w \o x, n) = Within(w, n)
<1> DEFINE v == w \o x
<1>1. v \in Seq(Byte) /\ Len(w) \in Nat
  BY Longer
<1>2. /\ \A l \in LinesOf(w) : l \in LinesOf(v) /\ TextOf(v, l) = TextOf(w, l)
      /\ \A l \in LinesOf(v) : l.end <= Len(w) => l \in LinesOf(w)
  BY LinesStay
<1> HIDE DEF v
<1>3. \A l \in LinesOf(v) : l.end <= n => l.end <= Len(w)
  <2> TAKE l \in LinesOf(v)
  <2>1. l.end \in Nat
    BY <1>1, LineIs
  <2> QED
    BY ONLY <1>1, <2>1, n \in Nat, n <= Len(w)
<1>4. \A l : l \in Within(v, n) <=> l \in Within(w, n)
  BY <1>2, <1>3 DEF Within, AskedIn
<1> QED
  BY <1>4 DEF v, Within

\* A text that is clean was clean before its last part was written.
LEMMA CleanBefore ==
    ASSUME NEW w \in Seq(Byte), NEW x \in Seq(Byte), CleanText(w \o x)
    PROVE  CleanText(w)
<1> DEFINE v == w \o x
           m == MaxRequestBytes
<1>1. /\ Len(v) \in Nat /\ Len(w) \in Nat /\ Len(w) <= Len(v)
      /\ \A i \in 1..Len(w) : v[i] = w[i]
  BY Longer
<1>2. /\ \A l \in LinesOf(w) : l \in LinesOf(v) /\ TextOf(v, l) = TextOf(w, l)
  BY LinesStay
<1>3. Fits(v) /\ AskedIn(v) = LinesOf(v) /\ m \in Nat
  BY QueueAssumption DEF CleanText
<1> HIDE DEF v, m
<1>4. Fits(w)
  <2> SUFFICES ASSUME NEW i \in 1..Len(w), i + m <= Len(w) PROVE \E j \in i..(i + m) : w[j] = "\n"
    BY DEF Fits, m
  <2>1. i \in 1..Len(v) /\ i + m <= Len(v)
    BY ONLY <1>1, <1>3, i \in 1..Len(w), i + m <= Len(w)
  <2>2. PICK j \in i..(i + m) : v[j] = "\n"
    BY <1>3, <2>1 DEF Fits, m
  <2>3. j \in 1..Len(w)
    BY ONLY <1>1, <1>3, i \in 1..Len(w), i + m <= Len(w), j \in i..(i + m)
  <2> QED
    BY <1>1, <2>2, <2>3
<1>5. AskedIn(w) = LinesOf(w)
  BY <1>2, <1>3 DEF AskedIn
<1> QED
  BY <1>4, <1>5 DEF CleanText

\* What answered the lines of a text answers the same lines of a longer one.
LEMMA TellStill ==
    ASSUME NEW w \in Seq(Byte), NEW x \in Seq(Byte), NEW s, Tell(w, s)
    PROVE  Tell(w \o x, s)
<1> DEFINE v == w \o x
<1>1. \A l \in LinesOf(w) : l \in LinesOf(v) /\ TextOf(v, l) = TextOf(w, l)
  BY LinesStay
<1>2. ASSUME NEW l \in AskedIn(w)
      PROVE  /\ l \in AskedIn(v) /\ TextOf(v, l) = TextOf(w, l)
             /\ Cardinality(Within(v, l.end)) = Cardinality(Within(w, l.end))
  <2>1. l \in LinesOf(w) /\ TextOf(w, l) # << >>
    BY DEF AskedIn
  <2>2. l.end \in Nat /\ l.end <= Len(w)
    BY <2>1, LineIs
  <2>3. Within(v, l.end) = Within(w, l.end)
    BY <2>2, WithinStays
  <2> HIDE DEF v
  <2> QED
    BY <1>1, <2>1, <2>3 DEF AskedIn
<1> HIDE DEF v
<1>3. Tell(v, s)
  BY <1>2 DEF Tell
<1> QED
  BY <1>3 DEF v

-----------------------------------------------------------------------------
(* What ServeClient has read of a clean text. *)

\* std::string::find gives the first newline, or none.
LEMMA Found ==
    ASSUME NEW b \in Seq(Byte)
    PROVE  LET p == FindNewline(b) IN
           /\ p = 0 => \A j \in 1..Len(b) : b[j] # "\n"
           /\ p # 0 => /\ p \in 1..Len(b) /\ b[p] = "\n"
                       /\ \A j \in 1..(p - 1) : b[j] # "\n"
<1>1. CASE \E i \in 1..Len(b) : b[i] = "\n"
  <2> DEFINE hits == {i \in 1..Len(b) : b[i] = "\n"}
  <2>1. hits \subseteq Nat /\ hits # {}
    BY <1>1
  <2>2. PICK m \in hits : \A k \in hits : m <= k
    BY <2>1, LeastInNat
  <2>3. m \in 1..Len(b) /\ b[m] = "\n" /\ \A j \in 1..(m - 1) : b[j] # "\n"
    <3>1. ASSUME NEW j \in 1..(m - 1) PROVE b[j] # "\n"
      <4>1. j \in 1..Len(b) /\ ~(m <= j)
        OBVIOUS
      <4> QED
        BY <2>2, <4>1
    <3> QED
      BY <3>1
  <2>4. FindNewline(b) = CHOOSE i \in 1..Len(b) : b[i] = "\n" /\ \A j \in 1..(i - 1) : b[j] # "\n"
    BY <1>1 DEF FindNewline
  <2>5. /\ FindNewline(b) \in 1..Len(b) /\ b[FindNewline(b)] = "\n"
        /\ \A j \in 1..(FindNewline(b) - 1) : b[j] # "\n"
    BY <2>3, <2>4
  <2>6. FindNewline(b) # 0
    BY <2>5
  <2> QED
    BY <2>5, <2>6
<1>2. CASE ~\E i \in 1..Len(b) : b[i] = "\n"
  BY <1>2 DEF FindNewline
<1> QED
  BY <1>1, <1>2

\* A part of a text.
LEMMA Slice ==
    ASSUME NEW w \in Seq(Byte), NEW i \in Nat, NEW j \in Nat, i <= j, j <= Len(w)
    PROVE  LET b == SubSeq(w, i + 1, j) IN
           /\ b \in Seq(Byte) /\ Len(b) = j - i
           /\ \A k \in 1..(j - i) : b[k] = w[i + k]
<1> DEFINE b == SubSeq(w, i + 1, j)
           n == j - i
<1>1. /\ i + 1 \in Int /\ j \in Int /\ Len(w) \in Nat /\ n \in Nat /\ j - (i + 1) + 1 = n
      /\ \A k \in (i + 1)..j : k \in 1..Len(w)
  OBVIOUS
<1>2. \A k \in (i + 1)..j : w[k] \in Byte
  BY <1>1, ElementOfSeq
<1>3. /\ b \in Seq(Byte) /\ Len(b) = (IF i + 1 <= j THEN j - (i + 1) + 1 ELSE 0)
      /\ \A k \in 1..(j - (i + 1) + 1) : b[k] = w[(i + 1) + k - 1]
  BY <1>1, <1>2, SubSeqProperties
<1> HIDE DEF b
<1>4. Len(b) = n
  BY <1>1, <1>3
<1>5. \A k \in 1..n : (i + 1) + k - 1 = i + k
  BY <1>1
<1>6. \A k \in 1..n : b[k] = w[i + k]
  BY <1>1, <1>3, <1>5
<1> QED
  BY <1>3, <1>4, <1>6 DEF b

\* A part of a part.
LEMMA SliceOfSlice ==
    ASSUME NEW w \in Seq(Byte), NEW i \in Nat, NEW j \in Nat, i <= j, j <= Len(w),
           NEW p \in Nat, NEW q \in Nat, p <= q, q <= j - i
    PROVE  SubSeq(SubSeq(w, i + 1, j), p + 1, q) = SubSeq(w, (i + p) + 1, i + q)
<1> DEFINE b == SubSeq(w, i + 1, j)
           c == SubSeq(b, p + 1, q)
           d == SubSeq(w, (i + p) + 1, i + q)
<1>1. b \in Seq(Byte) /\ Len(b) = j - i /\ \A k \in 1..(j - i) : b[k] = w[i + k]
  BY Slice
<1> HIDE DEF b
<1>2. c \in Seq(Byte) /\ Len(c) = q - p /\ \A k \in 1..(q - p) : c[k] = b[p + k]
  BY <1>1, Slice
<1>3. d \in Seq(Byte) /\ Len(d) = q - p /\ \A k \in 1..(q - p) : d[k] = w[(i + p) + k]
  <2>1. Len(w) \in Nat
    OBVIOUS
  <2>2. i + p \in Nat /\ i + q \in Nat /\ i + p <= i + q /\ i + q <= Len(w) /\ (i + q) - (i + p) = q - p
    BY <2>1
  <2> HIDE DEF d
  <2>3. /\ d \in Seq(Byte) /\ Len(d) = (i + q) - (i + p)
        /\ \A k \in 1..((i + q) - (i + p)) : d[k] = w[(i + p) + k]
    BY ONLY <2>2, Slice, w \in Seq(Byte) DEF d
  <2> QED
    BY <2>2, <2>3
<1> HIDE DEF c, d
<1>4. \A k \in 1..(q - p) : p + k \in 1..(j - i) /\ i + (p + k) = (i + p) + k
  OBVIOUS
<1>5. \A k \in 1..(q - p) : c[k] = d[k]
  BY <1>1, <1>2, <1>3, <1>4
<1>6. \A k \in 1..Len(c) : c[k] = d[k]
  BY <1>2, <1>5
<1>7. c = d
  BY <1>2, <1>3, <1>6, SeqEqual
<1> QED
  BY <1>7 DEF b, c, d

\* In a text whose lines fit, more than the limit without a newline is not to
\* be found.
LEMMA Bounded ==
    ASSUME NEW w \in Seq(Byte), Fits(w), NEW i \in Nat, NEW j \in Nat, i <= j, j <= Len(w),
           \A k \in (i + 1)..j : w[k] # "\n"
    PROVE  j - i <= MaxRequestBytes
<1> DEFINE m == MaxRequestBytes
<1>1. m \in Nat /\ Len(w) \in Nat
  BY QueueAssumption
<1>2. ASSUME NEW k \in 1..Len(w), k + m <= Len(w) PROVE \E h \in k..(k + m) : w[h] = "\n"
  BY <1>2 DEF Fits
<1> HIDE DEF m
<1> SUFFICES ASSUME ~(j - i <= m) PROVE FALSE
  BY DEF m
<1>3. i + 1 \in 1..Len(w) /\ (i + 1) + m <= Len(w) /\ \A h \in (i + 1)..((i + 1) + m) : h \in (i + 1)..j
  BY <1>1
<1>4. PICK h \in (i + 1)..((i + 1) + m) : w[h] = "\n"
  BY <1>2, <1>3
<1> QED
  BY <1>3, <1>4

\* The text of a line that fits is a request that is accepted.
LEMMA StripShorter ==
    ASSUME NEW b \in Seq(Byte) PROVE StripCR(b) \in Seq(Byte) /\ Len(StripCR(b)) <= Len(b)
<1>1. CASE b # << >> /\ b[Len(b)] = "\r"
  <2>1. StripCR(b) = SubSeq(b, 1, Len(b) - 1)
    BY <1>1 DEF StripCR
  <2>2. Len(b) \in Nat /\ Len(b) # 0
    BY <1>1
  <2>3. 0 <= Len(b) - 1 /\ Len(b) - 1 \in Nat /\ Len(b) - 1 <= Len(b) /\ 0 + 1 = 1 /\ (Len(b) - 1) - 0 = Len(b) - 1
    BY ONLY <2>2
  <2>4. SubSeq(b, 0 + 1, Len(b) - 1) \in Seq(Byte) /\ Len(SubSeq(b, 0 + 1, Len(b) - 1)) = (Len(b) - 1) - 0
    BY ONLY <2>3, Slice, b \in Seq(Byte), 0 \in Nat
  <2> QED
    BY <2>1, <2>3, <2>4
<1>2. CASE ~(b # << >> /\ b[Len(b)] = "\r")
  <2>1. StripCR(b) = b /\ Len(b) \in Nat
    BY <1>2 DEF StripCR
  <2> QED
    BY <2>1
<1> QED
  BY <1>1, <1>2

\* A line of a text that fits is not too large.
LEMMA LineFits ==
    ASSUME NEW w \in Seq(Byte), Fits(w), NEW l \in LinesOf(w)
    PROVE  ~(Len(TextOf(w, l)) > MaxRequestBytes)
<1> DEFINE s == l.after
           e == l.end
           b == SubSeq(w, s + 1, e - 1)
<1>1. /\ s \in Nat /\ e \in Nat /\ s < e /\ e <= Len(w) /\ Len(w) \in Nat
      /\ \A j \in (s + 1)..(e - 1) : w[j] # "\n"
  BY LineIs
<1> HIDE DEF s, e
<1>2. e - 1 \in Nat /\ s <= e - 1 /\ e - 1 <= Len(w)
  BY ONLY <1>1
<1>3. b \in Seq(Byte) /\ Len(b) = (e - 1) - s
  BY ONLY <1>1, <1>2, Slice, w \in Seq(Byte)
<1>4. (e - 1) - s <= MaxRequestBytes
  BY ONLY <1>1, <1>2, Bounded, w \in Seq(Byte), Fits(w)
<1> HIDE DEF b
<1>5. StripCR(b) \in Seq(Byte) /\ Len(StripCR(b)) <= Len(b)
  BY <1>3, StripShorter
<1>6. Len(StripCR(b)) \in Nat /\ MaxRequestBytes \in Nat
  BY <1>5, QueueAssumption
<1>7. ~(Len(StripCR(b)) > MaxRequestBytes)
  BY ONLY <1>1, <1>3, <1>4, <1>5, <1>6
<1> QED
  BY <1>7 DEF TextOf, b, s, e

-----------------------------------------------------------------------------
\* A line has been framed and its reply has not been sent.
Busy == {"push", "wait", "send"}

\* ServeClient, at this point of its loop, has received g bytes of the text w
\* and framed its first t bytes, whole lines; n replies have been sent, one for
\* each of these lines but the one in hand.
Keeps(at, w, t, g, buf, src, nl, n) ==
    /\ t \in Nat /\ g \in Nat /\ t <= g /\ g <= Len(w)
    /\ buf = SubSeq(w, t + 1, g)
    /\ t = 0 \/ w[t] = "\n"
    /\ Cardinality(Within(w, t)) = IF at \in Busy THEN n + 1 ELSE n
    /\ at \in Busy => \E l \in LinesOf(w) : l.end = t /\ src = TextOf(w, l)
    /\ at = "lines" => nl = FindNewline(buf)
    /\ at \notin {"reject", "refuse"}

\* Accept: nothing has been received.
LEMMA KeepsFirst ==
    ASSUME NEW w \in Seq(Byte), NEW src, NEW nl
    PROVE  Keeps("serve", w, 0, 0, << >>, src, nl, 0)
<1>1. SubSeq(w, 0 + 1, 0) = << >>
  <2>1. SubSeq(w, 0 + 1, 0) \in Seq(Byte) /\ Len(SubSeq(w, 0 + 1, 0)) = 0 - 0
    <3>1. 0 \in Nat /\ 0 <= 0 /\ 0 <= Len(w)
      OBVIOUS
    <3> QED
      BY <3>1, Slice
  <2> QED
    BY <2>1, EmptySeq
<1>2. Within(w, 0) = {}
  <2>1. \A l \in AskedIn(w) : l.end \in Nat /\ 1 <= l.end
    BY LineIs DEF AskedIn
  <2> QED
    BY <2>1 DEF Within
<1>3. Cardinality(Within(w, 0)) = 0
  BY <1>2, FS_EmptySet
<1>4. 0 <= Len(w)
  OBVIOUS
<1> QED
  BY <1>1, <1>3, <1>4 DEF Keeps, Busy

\* The steps that only move on.
LEMMA KeepsOn ==
    ASSUME NEW at, NEW w, NEW t, NEW g, NEW buf, NEW src, NEW nl, NEW n,
           Keeps(at, w, t, g, buf, src, nl, n), NEW to, to \in Busy <=> at \in Busy,
           to \notin {"lines", "reject", "refuse"}, NEW ln
    PROVE  Keeps(to, w, t, g, buf, src, ln, n)
  BY DEF Keeps

\* recv returned k more bytes.
LEMMA KeepsRecv ==
    ASSUME NEW w \in Seq(Byte), NEW t, NEW g, NEW buf, NEW src, NEW nl, NEW n,
           Keeps("recv", w, t, g, buf, src, nl, n), NEW k \in 1..(Len(w) - g)
    PROVE  LET b == buf \o SubSeq(w, g + 1, g + k) IN
           /\ Keeps("lines", w, t, g + k, b, src, FindNewline(b), n)
           /\ Fits(w) /\ Len(b) > MaxRequestBytes => FindNewline(b) # 0
<1> DEFINE b == buf \o SubSeq(w, g + 1, g + k)
           h == g + k
<1>1. /\ t \in Nat /\ g \in Nat /\ t <= g /\ g <= Len(w) /\ buf = SubSeq(w, t + 1, g)
      /\ t = 0 \/ w[t] = "\n"
      /\ Cardinality(Within(w, t)) = n
  BY DEF Keeps, Busy
<1>2. h \in Nat /\ t <= h /\ h <= Len(w) /\ Len(w) \in Nat /\ g <= h
  <2>1. Len(w) \in Nat
    OBVIOUS
  <2> QED
    BY ONLY <1>1, <2>1, k \in 1..(Len(w) - g)
<1>3. b = SubSeq(w, t + 1, h)
  <2>1. t + 1 \in 1..(Len(w) + 1) /\ g \in ((t + 1) - 1)..Len(w) /\ h \in g..Len(w)
    BY ONLY <1>1, <1>2
  <2> HIDE DEF h
  <2>2. SubSeq(w, t + 1, g) \o SubSeq(w, g + 1, h) = SubSeq(w, t + 1, h)
    BY ONLY <2>1, w \in Seq(Byte), ConcatAdjacentSubSeq
  <2> QED
    BY <1>1, <2>2 DEF h
<1> HIDE DEF b, h
<1>4. Keeps("lines", w, t, h, b, src, FindNewline(b), n)
  BY ONLY <1>1, <1>2, <1>3 DEF Keeps, Busy
<1>5. ASSUME Fits(w), Len(b) > MaxRequestBytes PROVE FindNewline(b) # 0
  <2> SUFFICES ASSUME FindNewline(b) = 0 PROVE FALSE
    OBVIOUS
  <2>1. b \in Seq(Byte) /\ Len(b) = h - t /\ \A i \in 1..(h - t) : b[i] = w[t + i]
    BY ONLY <1>1, <1>2, <1>3, Slice, w \in Seq(Byte)
  <2>2. \A j \in 1..Len(b) : b[j] # "\n"
    BY <2>1, Found
  <2>3. \A i \in (t + 1)..h : i - t \in 1..(h - t) /\ t + (i - t) = i
    BY ONLY <1>1, <1>2
  <2>4. \A i \in (t + 1)..h : w[i] # "\n"
    BY <2>1, <2>2, <2>3
  <2>5. h - t <= MaxRequestBytes
    BY ONLY <1>1, <1>2, <1>5, <2>4, Bounded, w \in Seq(Byte)
  <2>6. MaxRequestBytes \in Nat
    BY QueueAssumption
  <2> QED
    BY ONLY <1>1, <1>2, <1>5, <2>1, <2>5, <2>6
<1> QED
  BY <1>4, <1>5 DEF b, h

\* The framing loop takes the next line.
LEMMA KeepsTake ==
    ASSUME NEW w \in Seq(Byte), CleanText(w), NEW t, NEW g, NEW buf, NEW src, NEW nl, nl # 0, NEW n \in Nat,
           Keeps("lines", w, t, g, buf, src, nl, n)
    PROVE  LET line == StripCR(TakeLine(buf, nl)) IN
           /\ line # << >>
           /\ \E s : Keeps("push", w, s, g, DropLine(buf, nl), line, nl, n)
<1> DEFINE line == StripCR(TakeLine(buf, nl))
           s == t + nl
           l == [after |-> t, end |-> s]
<1>1. /\ t \in Nat /\ g \in Nat /\ t <= g /\ g <= Len(w) /\ buf = SubSeq(w, t + 1, g)
      /\ t = 0 \/ w[t] = "\n"
      /\ Cardinality(Within(w, t)) = n /\ nl = FindNewline(buf) /\ Len(w) \in Nat
  <2>1. Len(w) \in Nat
    OBVIOUS
  <2> HIDE DEF line, s, l
  <2> QED
    BY ONLY <2>1, Keeps("lines", w, t, g, buf, src, nl, n) DEF Keeps, Busy
<1>2. buf \in Seq(Byte) /\ Len(buf) = g - t /\ \A i \in 1..(g - t) : buf[i] = w[t + i]
  BY ONLY <1>1, Slice, w \in Seq(Byte)
<1>3. nl \in 1..Len(buf) /\ buf[nl] = "\n" /\ \A j \in 1..(nl - 1) : buf[j] # "\n"
  BY <1>1, <1>2, Found
<1>4. /\ t \in Nat /\ g \in Nat /\ t <= g /\ g <= Len(w) /\ Len(w) \in Nat
      /\ s = t + nl /\ Len(buf) = g - t /\ nl \in Nat /\ 1 <= nl /\ nl <= g - t /\ s \in Nat /\ t < s /\ s <= g /\ s <= Len(w)
      /\ nl \in 1..(g - t)
  <2>1. t \in Nat /\ g \in Nat /\ t <= g /\ g <= Len(w) /\ Len(w) \in Nat
    BY <1>1
  <2>2. Len(buf) = g - t /\ nl \in 1..Len(buf)
    BY <1>2, <1>3
  <2>3. nl \in 1..(g - t)
    BY ONLY <2>2
  <2>4. nl \in Nat /\ 1 <= nl /\ nl <= g - t
    BY ONLY <2>1, <2>3
  <2>5. s = t + nl
    OBVIOUS
  <2> HIDE DEF s, l, line
  <2>6. s \in Nat /\ t < s /\ s <= g /\ s <= Len(w)
    BY ONLY <2>1, <2>4, <2>5
  <2> QED
    BY ONLY <2>1, <2>2, <2>3, <2>4, <2>5, <2>6
<1>5. w[s] = "\n"
  BY <1>2, <1>3, <1>4
<1>6. \A j \in (t + 1)..(s - 1) : w[j] # "\n"
  <2>1. \A j \in (t + 1)..(s - 1) : j - t \in 1..(nl - 1) /\ j - t \in 1..(g - t) /\ t + (j - t) = j
    <3> HIDE DEF s, l, line
    <3> QED
      BY ONLY <1>4
  <2> QED
    BY <1>2, <1>3, <2>1
<1>7. l \in LinesOf(w)
  <2> HIDE DEF s
  <2> QED
    BY ONLY <1>1, <1>4, <1>5, <1>6, IsLine, w \in Seq(Byte)
<1>8. line = TextOf(w, l)
  <2>1. TakeLine(buf, nl) = SubSeq(buf, 1, nl - 1)
    <3>1. nl - 1 < Len(buf)
      BY ONLY <1>4
    <3> QED
      BY <3>1 DEF TakeLine
  <2>2. /\ 0 \in Nat /\ nl - 1 \in Nat /\ 0 <= nl - 1 /\ nl - 1 <= g - t
        /\ 0 + 1 = 1 /\ (t + 0) + 1 = t + 1 /\ t + (nl - 1) = s - 1
    <3> HIDE DEF s, l, line
    <3> QED
      BY ONLY <1>4
  <2> HIDE DEF s
  <2> DEFINE d == nl - 1
             o == 0
  <2>3. o \in Nat /\ d \in Nat /\ o <= d /\ d <= g - t
    BY <2>2
  <2> HIDE DEF d, o
  <2>e. SubSeq(SubSeq(w, t + 1, g), o + 1, d) = SubSeq(w, (t + o) + 1, t + d)
    BY ONLY <1>4, <2>3, SliceOfSlice, w \in Seq(Byte)
  <2>4. SubSeq(buf, 1, nl - 1) = SubSeq(w, t + 1, s - 1)
    BY <1>1, <2>2, <2>e DEF d, o
  <2>5. l.after = t /\ l.end = s
    OBVIOUS
  <2>6. line = StripCR(SubSeq(w, t + 1, s - 1))
    BY <2>1, <2>4
  <2> HIDE DEF l, line
  <2> QED
    BY ONLY <2>5, <2>6 DEF TextOf
<1>9. DropLine(buf, nl) = SubSeq(w, s + 1, g)
  <2>1. DropLine(buf, nl) = SubSeq(buf, nl + 1, g - t)
    BY <1>2 DEF DropLine
  <2>2. g - t \in Nat /\ nl <= g - t /\ g - t <= g - t /\ t + (g - t) = g
    BY ONLY <1>4
  <2>3. t \in Nat /\ g \in Nat /\ t <= g /\ g <= Len(w) /\ nl \in Nat
    BY <1>1, <1>4
  <2> DEFINE d == g - t
  <2>4. d \in Nat /\ nl <= d /\ d <= g - t
    BY <2>2
  <2> HIDE DEF d
  <2>5. SubSeq(SubSeq(w, t + 1, g), nl + 1, d) = SubSeq(w, (t + nl) + 1, t + d)
    BY ONLY <2>3, <2>4, SliceOfSlice, w \in Seq(Byte)
  <2> QED
    BY <1>1, <2>1, <2>2, <2>5 DEF d
<1>10. AskedIn(w) = LinesOf(w)
  BY DEF CleanText
<1>11. line # << >>
  BY <1>7, <1>8, <1>10 DEF AskedIn
<1>12. Within(w, s) = Within(w, t) \cup {l}
  <2>1. ASSUME NEW k \in LinesOf(w) PROVE k.end <= s <=> (k.end <= t \/ k = l)
    <3>1. k.end \in Nat /\ w[k.end] = "\n" /\ l.end = s
      BY LineIs
    <3> HIDE DEF l
    <3>2. CASE k.end <= t
      BY ONLY <1>4, <3>1, <3>2
    <3>3. CASE ~(k.end <= t)
      <4>1. k.end <= s => k.end = s
        <5>1. k.end \notin (t + 1)..(s - 1)
          BY <1>6, <3>1
        <5> DEFINE e == k.end
        <5>2. e \in Nat /\ ~(e <= t) /\ e \notin (t + 1)..(s - 1)
          BY <3>1, <3>3, <5>1
        <5>3. t \in Nat /\ s \in Nat
          BY <1>4
        <5> HIDE DEF e, s
        <5>4. e <= s => e = s
          BY ONLY <5>2, <5>3
        <5> QED
          BY <5>4 DEF e
      <4>2. k.end = s => k = l
        BY <1>7, <3>1, OneLine
      <4>3. k = l => k.end <= s
        BY ONLY <1>4, <3>1
      <4> QED
        BY ONLY <3>3, <4>1, <4>2, <4>3
    <3> QED
      BY <3>2, <3>3
  <2> HIDE DEF l, s
  <2> QED
    BY <1>7, <1>10, <2>1 DEF Within
<1>13. Cardinality(Within(w, s)) = n + 1
  <2>1. IsFiniteSet(Within(w, t))
    BY LinesFinite
  <2>2. l \notin Within(w, t)
    <3>1. ~(l.end <= t)
      BY ONLY <1>4
    <3> QED
      BY <3>1 DEF Within
  <2> HIDE DEF l, s
  <2> QED
    BY <1>1, <1>12, <2>1, <2>2, FS_AddElement
<1>14. \E k \in LinesOf(w) : k.end = s /\ line = TextOf(w, k)
  BY <1>7, <1>8
<1> HIDE DEF s, l, line
<1>15. Keeps("push", w, s, g, DropLine(buf, nl), line, nl, n)
  BY ONLY <1>1, <1>4, <1>5, <1>9, <1>13, <1>14 DEF Keeps, Busy
<1> QED
  BY <1>11, <1>15 DEF line

\* The line in hand is not too large.
LEMMA KeepsFits ==
    ASSUME NEW w \in Seq(Byte), CleanText(w), NEW at \in Busy, NEW t, NEW g, NEW buf, NEW src, NEW nl, NEW n,
           Keeps(at, w, t, g, buf, src, nl, n)
    PROVE  ~(Len(src) > MaxRequestBytes)
<1>1. PICK l \in LinesOf(w) : src = TextOf(w, l)
  BY DEF Keeps
<1> QED
  BY <1>1, LineFits DEF CleanText

\* Its reply goes out.
LEMMA KeepsSend ==
    ASSUME NEW w \in Seq(Byte), CleanText(w), NEW t, NEW g, NEW buf, NEW src, NEW nl,
           NEW s \in Seq(Reply), Tell(w, s), Keeps("send", w, t, g, buf, src, nl, Len(s)),
           Value(src) \in Reply
    PROVE  /\ Tell(w, Append(s, Value(src)))
           /\ Keeps("lines", w, t, g, buf, src, FindNewline(buf), Len(Append(s, Value(src))))
<1> DEFINE r == Append(s, Value(src))
           n == Len(s)
<1>1. n \in Nat /\ Len(r) = n + 1 /\ r[n + 1] = Value(src) /\ \A i \in 1..n : r[i] = s[i]
  BY AppendElements
<1>2. Value(src) = AnswerTo(src)
  <2>1. ~(Len(src) > MaxRequestBytes)
    <3>1. "send" \in Busy
      BY DEF Busy
    <3> QED
      BY <3>1, KeepsFits
  <2> QED
    BY <2>1 DEF AnswerTo
<1>3. PICK l \in LinesOf(w) : l.end = t /\ src = TextOf(w, l)
  BY DEF Keeps, Busy
<1>4. l \in AskedIn(w)
  BY DEF CleanText
<1>5. Cardinality(Within(w, t)) = n + 1
  BY DEF Keeps, Busy
<1> HIDE DEF r, n
<1>6. Tell(w, r)
  <2> SUFFICES ASSUME NEW i \in 1..(n + 1)
               PROVE  \E k \in AskedIn(w) : Cardinality(Within(w, k.end)) = i /\ r[i] = AnswerTo(TextOf(w, k))
    BY <1>1 DEF Tell
  <2>1. CASE i = n + 1
    BY <1>1, <1>2, <1>3, <1>4, <1>5, <2>1
  <2>2. CASE i # n + 1
    <3>1. i \in 1..n
      BY ONLY <1>1, <2>2, i \in 1..(n + 1)
    <3>2. r[i] = s[i]
      BY <1>1, <3>1
    <3> QED
      BY <3>1, <3>2 DEF Tell, n
  <2> QED
    BY <2>1, <2>2
<1>7. Keeps("lines", w, t, g, buf, src, FindNewline(buf), n + 1)
  BY <1>5 DEF Keeps, Busy
<1> QED
  BY <1>1, <1>6, <1>7 DEF r

\* The client writes more.
LEMMA KeepsStill ==
    ASSUME NEW w \in Seq(Byte), NEW x \in Seq(Byte), NEW at, NEW t, NEW g, NEW buf, NEW src, NEW nl, NEW n,
           Keeps(at, w, t, g, buf, src, nl, n)
    PROVE  Keeps(at, w \o x, t, g, buf, src, nl, n)
<1> DEFINE v == w \o x
<1>1. /\ v \in Seq(Byte) /\ Len(v) \in Nat /\ Len(w) \in Nat /\ Len(w) <= Len(v)
      /\ \A i \in 1..Len(w) : v[i] = w[i]
      /\ \A i, j \in Nat : 1 <= i /\ j <= Len(w) => SubSeq(v, i, j) = SubSeq(w, i, j)
  BY Longer
<1>2. /\ t \in Nat /\ g \in Nat /\ t <= g /\ g <= Len(w) /\ buf = SubSeq(w, t + 1, g)
      /\ t = 0 \/ w[t] = "\n"
  BY DEF Keeps
<1>3. Within(v, t) = Within(w, t)
  <2>1. t <= Len(w)
    BY ONLY <1>1, <1>2
  <2> QED
    BY <1>2, <2>1, WithinStays
<1>4. \A l \in LinesOf(w) : l \in LinesOf(v) /\ TextOf(v, l) = TextOf(w, l)
  BY LinesStay
<1> HIDE DEF v
<1>5. g <= Len(v) /\ t + 1 \in Nat /\ 1 <= t + 1 /\ (t # 0 => t \in 1..Len(w))
  BY ONLY <1>1, <1>2
<1>6. buf = SubSeq(v, t + 1, g) /\ (t = 0 \/ v[t] = "\n")
  BY <1>1, <1>2, <1>5
<1>7. Keeps(at, v, t, g, buf, src, nl, n)
  BY <1>2, <1>3, <1>4, <1>5, <1>6 DEF Keeps
<1> QED
  BY <1>7 DEF v

-----------------------------------------------------------------------------
InLoop == {"serve", "recv", "refuse", "lines", "push", "wait", "reject", "send", "close"}

\* The connections in the backlog are different ones, not accepted yet;
\* nothing has passed on such a connection; ServeClient has an accepted one.
Waiting ==
    /\ \A i \in 1..Len(backlog) : conn[backlog[i]] = "queued"
    /\ \A i, j \in 1..Len(backlog) : backlog[i] = backlog[j] => i = j
Untouched == \A c \in Client : conn[c] \in {"new", "queued"} => sent[c] = << >> /\ got[c] = 0
InHand == worker \in InLoop => conn[client] = "serving"

\* The request the worker waits for has the text of the line in hand, and its
\* promise has no value but the evaluation of that text.
Asked ==
    /\ worker = "wait" =>
          \A q \in {popped, cancelled, requests} : q # << >> /\ q[1].id = future => q[1].source = source
    /\ worker \in {"wait", "send"} => promise[future] \in {Unset, Value(source)}

\* What a clean client has been sent answers its first lines, and ServeClient
\* is where these replies say it is.
Told == \A c \in Client : Clean(c) => Tell(written[c], sent[c])
Loop ==
    worker \in InLoop \ {"close"} /\ ~gone[client] /\ Clean(client) =>
        \E t : Keeps(worker, written[client], t, got[client], buffered, source, newline, Len(sent[client]))

FInv == Waiting /\ Untouched /\ InHand /\ Asked /\ Told /\ Loop

\* No client has been sent or asked anything at first.
LEMMA FramedInit == Init => FInv
<1> SUFFICES ASSUME Init PROVE FInv
  OBVIOUS
<1>1. worker = "none" /\ backlog = << >> /\ Len(<< >>) = 0
  BY DEF Init
<1>2. \A c \in Client : sent[c] = << >> /\ got[c] = 0
  BY DEF Init
<1>3. Waiting
  BY <1>1 DEF Waiting
<1>4. Told
  BY <1>1, <1>2 DEF Told, Tell
<1> QED
  BY <1>1, <1>2, <1>3, <1>4 DEF FInv, Untouched, InHand, Asked, Loop, InLoop

-----------------------------------------------------------------------------
\* The backlog loses its head.
LEMMA WaitingTail ==
    ASSUME TypeOK, Waiting, backlog # << >>, NEW to, backlog' = Tail(backlog),
           conn' = [conn EXCEPT ![Head(backlog)] = to]
    PROVE  Waiting' /\ Head(backlog) \in Client /\ conn[Head(backlog)] = "queued"
<1>1. backlog \in Seq(Client) /\ conn \in [Client -> {"new", "queued", "serving", "closed"}]
  BY DEF TypeOK
<1>2. /\ Len(backlog) \in Nat /\ Len(backlog) >= 1 /\ Head(backlog) = backlog[1] /\ backlog[1] \in Client
      /\ Len(backlog') = Len(backlog) - 1 /\ \A i \in 1..(Len(backlog) - 1) : backlog'[i] = backlog[i + 1]
  BY <1>1, HeadTailProperties
<1> DEFINE n == Len(backlog)
<1>3. /\ 1 \in 1..n /\ \A i \in 1..(n - 1) : i + 1 \in 1..n /\ i + 1 # 1
      /\ \A i, j \in 1..(n - 1) : i + 1 = j + 1 => i = j
  BY <1>2
<1>4. \A i \in 1..n : backlog[i] \in Client
  BY <1>1
<1> HIDE DEF n
<1>5. \A i \in 1..(n - 1) : conn'[backlog[i + 1]] = "queued"
  <2> SUFFICES ASSUME NEW i \in 1..(n - 1) PROVE conn'[backlog[i + 1]] = "queued"
    OBVIOUS
  <2>1. i + 1 \in 1..n /\ 1 \in 1..n /\ i + 1 # 1
    BY <1>3
  <2>2. backlog[i + 1] # backlog[1] /\ conn[backlog[i + 1]] = "queued" /\ backlog[i + 1] \in Client
    BY <1>4, <2>1 DEF Waiting, n
  <2> QED
    BY <1>1, <1>2, <2>2
<1>6. \A i, j \in 1..(n - 1) : backlog'[i] = backlog'[j] => i = j
  <2> SUFFICES ASSUME NEW i \in 1..(n - 1), NEW j \in 1..(n - 1), backlog'[i] = backlog'[j] PROVE i = j
    OBVIOUS
  <2>1. backlog[i + 1] = backlog[j + 1] /\ i + 1 \in 1..n /\ j + 1 \in 1..n
    BY <1>2, <1>3 DEF n
  <2>2. i + 1 = j + 1
    BY <2>1 DEF Waiting, n
  <2> QED
    BY <1>3, <2>2
<1>7. Len(backlog') = n - 1 /\ \A i \in 1..(n - 1) : conn'[backlog'[i]] = "queued"
  BY <1>2, <1>5 DEF n
<1>8. Waiting'
  BY <1>6, <1>7 DEF Waiting
<1>9. conn[backlog[1]] = "queued"
  BY <1>3 DEF Waiting, n
<1> QED
  BY <1>2, <1>8, <1>9

\* It gains a new connection.
LEMMA WaitingNew ==
    ASSUME TypeOK, Waiting, NEW c \in Client, Connect(c)
    PROVE  Waiting'
<1>1. backlog \in Seq(Client) /\ conn \in [Client -> {"new", "queued", "serving", "closed"}] /\ conn[c] = "new"
  BY DEF TypeOK, Connect
<1>2. backlog' = Append(backlog, c) /\ conn' = [conn EXCEPT ![c] = "queued"]
  BY DEF Connect
<1> DEFINE n == Len(backlog)
<1>3. /\ n \in Nat /\ Len(backlog') = n + 1 /\ backlog'[n + 1] = c
      /\ \A i \in 1..n : backlog'[i] = backlog[i] /\ backlog[i] \in Client
  BY <1>1, <1>2, AppendProperties
<1>4. \A i \in 1..n : conn[backlog[i]] = "queued" /\ backlog[i] # c
  BY <1>1 DEF Waiting
<1>w. \A i, j \in 1..n : backlog[i] = backlog[j] => i = j
  BY DEF Waiting
<1> HIDE DEF n
<1>5. \A i \in 1..(n + 1) : i \in 1..n \/ i = n + 1
  BY <1>3
<1>6. \A i \in 1..(n + 1) : conn'[backlog'[i]] = "queued"
  BY <1>1, <1>2, <1>3, <1>4, <1>5
<1>7. \A i, j \in 1..(n + 1) : backlog'[i] = backlog'[j] => i = j
  BY <1>3, <1>4, <1>5, <1>w
<1> QED
  BY <1>3, <1>6, <1>7 DEF Waiting

\* The connections keep their order of life.
LEMMA ConnStep ==
    ASSUME SInv, Waiting, Untouched, InHand, [Next]_vars
    PROVE  Waiting' /\ Untouched' /\ InHand'
<1>t. /\ TypeOK /\ Serving
      /\ conn \in [Client -> {"new", "queued", "serving", "closed"}]
      /\ sent \in [Client -> Seq(Reply)] /\ got \in [Client -> Nat]
  BY DEF SInv, TypeOK
<1>c. worker \in InLoop => client \in Client
  BY <1>t DEF Serving, InLoop
<1>a. ASSUME UNCHANGED << backlog, conn >> PROVE Waiting'
  BY <1>a DEF Waiting
<1>b. ASSUME UNCHANGED << conn, sent, got >> PROVE Untouched'
  BY <1>b DEF Untouched
<1>d. ASSUME UNCHANGED << conn, client >>, worker \in InLoop \/ worker' \notin InLoop PROVE InHand'
  BY <1>d DEF InHand
<1>e. ASSUME UNCHANGED << conn, client, worker >> PROVE InHand'
  BY <1>e DEF InHand
<1>1. CASE StartOk \/ StopJoin
  <2>1. UNCHANGED << backlog, conn, sent, got, client >> /\ worker' \notin InLoop
    BY <1>1 DEF StartOk, StopJoin, netVars, InLoop
  <2> QED
    BY <2>1, <1>a, <1>b, <1>d
<1>2. CASE StartFails \/ Draining \/ StopFlag \/ StopCancel \/ StopEnd
  <2>1. UNCHANGED << backlog, conn, sent, got, client, worker >>
    BY <1>2 DEF StartFails, Draining, DrainBegin, DrainPop, DrainReply, DrainEnd, StopFlag, StopCancel,
                StopEnd, netVars, workerVars
  <2> QED
    BY <2>1, <1>a, <1>b, <1>e
<1>3. CASE StopListener
  <2>1. /\ backlog' = << >> /\ UNCHANGED << sent, got, client, worker >>
        /\ conn' = [c \in Client |-> IF conn[c] = "queued" THEN "closed" ELSE conn[c]]
    BY <1>3 DEF StopListener, workerVars
  <2>2. Waiting'
    <3>1. Len(<< >>) = 0
      OBVIOUS
    <3> QED
      BY <2>1, <3>1 DEF Waiting
  <2>3. Untouched'
    BY <2>1 DEF Untouched
  <2>4. InHand'
    BY <2>1, <1>c DEF InHand
  <2> QED
    BY <2>2, <2>3, <2>4
<1>4. CASE RunLoop \/ ServeLoop \/ RecvTimeout \/ RecvEnd \/ TakeNext \/ LinesEnd \/ PushLine \/ Wait
  <2>1. UNCHANGED << backlog, conn, sent, got, client >>
    BY <1>4 DEF RunLoop, ServeLoop, RecvTimeout, RecvEnd, TakeNext, LinesEnd, PushLine, Wait, netVars
  <2>2. worker \in InLoop \/ worker' \notin InLoop
    BY <1>4 DEF RunLoop, ServeLoop, RecvTimeout, RecvEnd, TakeNext, LinesEnd, PushLine, Wait, Goto, InLoop
  <2> QED
    BY <2>1, <2>2, <1>a, <1>b, <1>d
<1>5. CASE Accept
  <2> DEFINE h == Head(backlog)
  <2>1. /\ backlog # << >> /\ backlog' = Tail(backlog) /\ conn' = [conn EXCEPT ![h] = "serving"]
        /\ client' = h /\ UNCHANGED << sent, got >>
    BY <1>5 DEF Accept
  <2>2. Waiting' /\ h \in Client
    BY <2>1, <1>t, WaitingTail
  <2> HIDE DEF h
  <2>3. Untouched'
    BY <2>1, <2>2, <1>t DEF Untouched
  <2>4. InHand'
    BY <2>1, <2>2, <1>t DEF InHand
  <2> QED
    BY <2>2, <2>3, <2>4
<1>6. CASE AcceptFails
  <2>1. worker' \notin InLoop /\ UNCHANGED << sent, got >>
    BY <1>6 DEF AcceptFails, Goto, InLoop
  <2>2. InHand'
    BY <2>1 DEF InHand
  <2>3. CASE UNCHANGED << backlog, conn >>
    BY <2>1, <2>2, <2>3, <1>a, <1>b
  <2>4. CASE /\ backlog # << >> /\ backlog' = Tail(backlog)
             /\ conn' = [conn EXCEPT ![Head(backlog)] = "closed"]
    <3>1. Waiting' /\ Head(backlog) \in Client
      BY <2>4, <1>t, WaitingTail
    <3> DEFINE h == Head(backlog)
    <3>2. conn' = [conn EXCEPT ![h] = "closed"] /\ h \in Client
      BY <2>4, <3>1
    <3> HIDE DEF h
    <3>3. Untouched'
      BY <2>1, <3>2, <1>t DEF Untouched
    <3> QED
      BY <2>2, <3>1, <3>3
  <2> QED
    BY <1>6, <2>3, <2>4 DEF AcceptFails
<1>7. CASE RecvData \/ SendResult \/ SendRejected \/ SendRefused
  <2>1. worker \in InLoop /\ UNCHANGED << backlog, conn, client >>
    BY <1>7 DEF RecvData, SendResult, SendRejected, SendRefused, InLoop
  <2>2. conn[client] = "serving"
    BY <2>1 DEF InHand
  <2>3. ASSUME NEW c \in Client, c # client PROVE sent'[c] = sent[c] /\ got'[c] = got[c]
    <3>1. CASE RecvData
      BY <2>3, <3>1, <1>t DEF RecvData
    <3>2. CASE SendResult \/ SendRejected \/ SendRefused
      BY <2>3, <3>2, <1>t DEF SendResult, SendRejected, SendRefused, SendLine
    <3> QED
      BY <1>7, <3>1, <3>2
  <2>4. Untouched'
    BY <2>1, <2>2, <2>3 DEF Untouched
  <2> QED
    BY <2>1, <2>4, <1>a, <1>d
<1>8. CASE CloseClient
  <2>1. /\ UNCHANGED << backlog, sent, got >> /\ conn' = [conn EXCEPT ![client] = "closed"]
        /\ worker' \notin InLoop /\ worker \in InLoop
    BY <1>8 DEF CloseClient, Goto, InLoop
  <2>2. client \in Client /\ conn[client] = "serving"
    BY <2>1, <1>c DEF InHand
  <2>3. Untouched'
    BY <2>1, <2>2, <1>t DEF Untouched
  <2>4. Waiting'
    <3>1. \A i \in 1..Len(backlog) : backlog[i] \in Client /\ conn[backlog[i]] = "queued"
      <4>1. backlog \in Seq(Client)
        BY <1>t DEF TypeOK
      <4> QED
        BY <4>1 DEF Waiting
    <3>2. \A i \in 1..Len(backlog) : conn'[backlog[i]] = "queued"
      BY <2>1, <2>2, <3>1, <1>t
    <3> QED
      BY <2>1, <3>2 DEF Waiting
  <2> QED
    BY <2>1, <2>3, <2>4 DEF InHand
<1>9. ASSUME NEW c \in Client, Connect(c) PROVE Waiting' /\ Untouched' /\ InHand'
  <2>1. Waiting'
    BY <1>9, <1>t, WaitingNew
  <2>2. /\ conn[c] = "new" /\ conn' = [conn EXCEPT ![c] = "queued"]
        /\ UNCHANGED << sent, got, client, worker >>
    BY <1>9 DEF Connect, workerVars
  <2>3. Untouched'
    BY <2>2, <1>t DEF Untouched
  <2>4. InHand'
    BY <2>2, <1>t, <1>c DEF InHand
  <2> QED
    BY <2>1, <2>3, <2>4
<1>10. ASSUME NEW c \in Client, Read(c) \/ Leave(c) \/ \E l \in Line : Write(c, l)
       PROVE  Waiting' /\ Untouched' /\ InHand'
  <2>1. UNCHANGED << backlog, conn, sent, got, client, worker >>
    BY <1>10 DEF Read, Leave, Write, workerVars
  <2> QED
    BY <2>1, <1>a, <1>b, <1>e
<1>11. CASE UNCHANGED vars
  <2>1. UNCHANGED << backlog, conn, sent, got, client, worker >>
    BY <1>11 DEF vars, netVars, workerVars
  <2> QED
    BY <2>1, <1>a, <1>b, <1>e
<1> QED
  BY <1>1, <1>2, <1>3, <1>4, <1>5, <1>6, <1>7, <1>8, <1>9, <1>10, <1>11
     DEF Next, Owner, Stopping, Worker, Clients

-----------------------------------------------------------------------------
\* The request waited for keeps the text of the line in hand.
LEMMA AskedStep ==
    ASSUME SInv, Asked, [Next]_vars
    PROVE  Asked'
<1>t. TypeOK /\ Phases /\ Holding /\ Outstanding /\ Promised
  BY DEF SInv
<1>s. /\ popped \in Seq(Request) /\ requests \in Seq(Request) /\ cancelled \in Seq(Request)
      /\ promise \in [1..MaxSubmissions -> Reply \cup {Unset}] /\ submitted \in Nat
  BY <1>t DEF TypeOK, QTypeOK
<1>a. ASSUME UNCHANGED << qvars, promise, worker, future, source >> PROVE Asked'
  BY <1>a DEF Asked, qvars
<1>b. ASSUME worker' \notin {"wait", "send"} PROVE Asked'
  BY <1>b DEF Asked
<1>1. CASE StartOk \/ StopJoin
  BY <1>1, <1>b DEF StartOk, StopJoin
<1>2. CASE StartFails \/ DrainBegin \/ DrainEnd \/ StopFlag \/ StopListener \/ StopEnd \/ Clients \/ UNCHANGED vars
  BY <1>2, <1>a DEF StartFails, DrainBegin, DrainEnd, StopFlag, StopListener, StopEnd, Clients, Connect,
                    Read, Leave, Write, workerVars, vars
<1>3. CASE DrainPop
  <2>1. /\ popped = << >> /\ cancelled = << >> /\ requests # << >> /\ cancelled' = << >>
        /\ popped' = << Head(requests) >> /\ requests' = Tail(requests)
        /\ UNCHANGED << promise, worker, future, source >>
    BY <1>3 DEF DrainPop, Pop, OwnerFree, workerVars
  <2>2. Len(requests) <= 1 /\ Len(requests) \in Nat
    BY <1>t, <2>1, <1>s DEF Outstanding
  <2>3. Len(requests) = 1 /\ Head(requests) = requests[1]
    BY <1>s, <2>1, <2>2, HeadThenTail
  <2>4. popped'[1] = requests[1] /\ requests' = << >>
    BY <1>s, <2>1, <2>3
  <2>5. /\ worker' = "wait" =>
               \A q \in {popped', cancelled', requests'} : q # << >> /\ q[1].id = future => q[1].source = source
    BY <2>1, <2>4 DEF Asked
  <2> QED
    BY <2>1, <2>5 DEF Asked
<1>4. CASE DrainReply
  <2>1. /\ popped # << >> /\ cancelled = << >> /\ requests = << >> /\ popped' = << >>
        /\ cancelled' = << >> /\ requests' = << >> /\ owner = "evaluating"
        /\ UNCHANGED << worker, future, source >>
    BY <1>4, <1>t, QueueShape DEF DrainReply, ReplyPopped, Holding, Outstanding, workerVars
  <2>2. Head(popped) = popped[1] /\ popped[1] \in Request
    BY <1>s, <2>1, HeadThenTail
  <2>3. promise' = [promise EXCEPT ![popped[1].id] = Value(popped[1].source)]
    BY <1>4, <2>2 DEF DrainReply
  <2>4. worker \in {"wait", "send"} => worker = "wait" /\ popped[1].id = future
    BY <1>t, <2>1 DEF Outstanding, Phases
  <2>5. worker = "wait" => popped[1].source = source
    BY <2>1, <2>4 DEF Asked
  <2>6. popped[1].id \in 1..MaxSubmissions
    BY <2>2 DEF Request
  <2>7. worker = "wait" => promise'[future] = Value(source)
    BY <1>s, <2>3, <2>4, <2>5, <2>6
  <2> QED
    BY <2>1, <2>4, <2>7 DEF Asked
<1>5. CASE StopCancel
  <2>1. worker' = "none"
    BY <1>5, <1>t DEF StopCancel, Phases, workerVars
  <2> QED
    BY <2>1, <1>b
<1>6. CASE PushLine
  <2>0. worker = "push" /\ UNCHANGED << source, promise >>
    BY <1>6 DEF PushLine
  <2>1. popped = << >> /\ cancelled = << >> /\ requests = << >>
    BY <1>t, <2>0 DEF Outstanding
  <2>2. CASE PushAccepts(source)
    <3> DEFINE r == [id |-> submitted + 1, source |-> source]
    <3>1. /\ requests' = Append(requests, r) /\ popped' = << >> /\ cancelled' = << >>
          /\ future' = submitted + 1 /\ submitted < MaxSubmissions
      BY <1>6, <2>1, <2>2 DEF PushLine, Push
    <3>2. requests' = << r >>
      BY <2>1, <3>1
    <3>3. requests'[1].source = source
      BY <3>2
    <3>4. submitted + 1 \in 1..MaxSubmissions /\ submitted + 1 > submitted
      BY <1>s, <3>1, QueueAssumption
    <3>5. promise[submitted + 1] = Unset
      BY <1>t, <3>4 DEF Promised
    <3> HIDE DEF r
    <3> QED
      BY <2>0, <3>1, <3>3, <3>5 DEF Asked
  <2>3. CASE ~PushAccepts(source)
    BY <1>6, <2>3, <1>b DEF PushLine, Goto
  <2> QED
    BY <2>2, <2>3
<1>7. CASE Wait
  BY <1>7 DEF Wait, Goto, Asked, qvars
<1>8. CASE RunLoop \/ Accept \/ AcceptFails \/ ServeLoop \/ RecvTimeout \/ RecvEnd \/ RecvData \/ TakeNext
           \/ LinesEnd \/ SendResult \/ SendRejected \/ SendRefused \/ CloseClient
  BY <1>8, <1>b DEF RunLoop, Accept, AcceptFails, ServeLoop, RecvTimeout, RecvEnd, RecvData, TakeNext,
                    LinesEnd, SendResult, SendRejected, SendRefused, CloseClient, Goto
<1> QED
  BY <1>1, <1>2, <1>3, <1>4, <1>5, <1>6, <1>7, <1>8 DEF Next, Owner, Draining, Stopping, Worker

-----------------------------------------------------------------------------
\* The steps that leave texts and replies alone and move on within the loop,
\* or leave it.
LEMMA LoopOn ==
    ASSUME Loop, UNCHANGED << client, gone, written, got, sent, buffered, source >>,
           \/ worker' \notin InLoop \ {"close"}
           \/ UNCHANGED << worker, newline >>
           \/ /\ worker \in InLoop \ {"close"} /\ (worker' \in Busy <=> worker \in Busy)
              /\ worker' \notin {"lines", "reject", "refuse"}
    PROVE  Loop'
<1> SUFFICES ASSUME worker' \in InLoop \ {"close"}, ~gone[client], Clean(client)
             PROVE  \E t : Keeps(worker', written[client], t, got[client], buffered, source, newline', Len(sent[client]))
  BY DEF Loop, Clean
<1>1. CASE UNCHANGED << worker, newline >>
  BY <1>1 DEF Loop
<1>2. CASE ~UNCHANGED << worker, newline >>
  <2>1. /\ worker \in InLoop \ {"close"} /\ (worker' \in Busy <=> worker \in Busy)
        /\ worker' \notin {"lines", "reject", "refuse"}
    BY <1>2
  <2>2. PICK t : Keeps(worker, written[client], t, got[client], buffered, source, newline, Len(sent[client]))
    BY <2>1 DEF Loop
  <2>3. Keeps(worker', written[client], t, got[client], buffered, source, newline', Len(sent[client]))
    BY ONLY <2>1, <2>2, KeepsOn
  <2> QED
    BY <2>3
<1> QED
  BY <1>1, <1>2

\* The steps that neither write nor send.
LEMMA ToldOn ==
    ASSUME Told, UNCHANGED << written, sent >>
    PROVE  Told'
  BY DEF Told, Clean

\* A client writes more: nothing it was sent, and nothing in hand, changes.
LEMMA FramedWrite ==
    ASSUME TypeOK, Serving, Told, Loop, NEW c \in Client, NEW l \in Line, Write(c, l)
    PROVE  Told' /\ Loop'
<1>1. /\ written \in [Client -> Seq(Byte)] /\ l \in Seq(Byte)
      /\ written' = [written EXCEPT ![c] = written[c] \o l]
      /\ UNCHANGED << client, gone, got, sent, buffered, source, worker, newline >>
  BY ServerAssumption DEF TypeOK, Write, workerVars
<1>2. written'[c] = written[c] \o l /\ \A d \in Client : d # c => written'[d] = written[d]
  BY <1>1
<1>3. written[c] \in Seq(Byte)
  BY <1>1
<1>4. Clean(c)' => Clean(c)
  BY <1>1, <1>2, <1>3, CleanBefore DEF Clean
<1>5. Told'
  <2> SUFFICES ASSUME NEW d \in Client, Clean(d)' PROVE Tell(written'[d], sent[d])
    BY <1>1 DEF Told
  <2>1. CASE d = c
    <3>1. Tell(written[c], sent[c])
      BY <1>4, <2>1 DEF Told
    <3> QED
      BY <1>1, <1>2, <1>3, <2>1, <3>1, TellStill
  <2>2. CASE d # c
    BY <1>2, <2>2 DEF Told, Clean
  <2> QED
    BY <2>1, <2>2
<1>6. Loop'
  <2> SUFFICES ASSUME worker \in InLoop \ {"close"}, ~gone[client], Clean(client)'
               PROVE  \E t : Keeps(worker, written'[client], t, got[client], buffered, source, newline, Len(sent[client]))
    BY <1>1 DEF Loop
  <2>0. client \in Client
    BY DEF Serving, InLoop
  <2>c. Clean(client)
    <3>1. CASE client = c
      BY <1>1, <1>4, <3>1 DEF Clean
    <3>2. CASE client # c
      BY <1>1, <1>2, <2>0, <3>2 DEF Clean
    <3> QED
      BY <3>1, <3>2
  <2>1. PICK t : Keeps(worker, written[client], t, got[client], buffered, source, newline, Len(sent[client]))
    BY <2>c DEF Loop
  <2>2. CASE client = c
    <3>1. Keeps(worker, written[client] \o l, t, got[client], buffered, source, newline, Len(sent[client]))
      BY ONLY <1>1, <1>3, <2>1, <2>2, KeepsStill
    <3> QED
      BY <1>2, <2>2, <3>1
  <2>3. CASE client # c
    BY <1>2, <2>0, <2>1, <2>3
  <2> QED
    BY <2>2, <2>3
<1> QED
  BY <1>5, <1>6

\* recv hands over some of the client's bytes.
LEMMA FramedRecv ==
    ASSUME TypeOK, Serving, Loop, RecvData
    PROVE  Loop'
<1>0. worker = "recv" /\ client \in Client /\ UNCHANGED << client, gone, written, sent, source >>
  BY DEF RecvData, Serving
<1> SUFFICES ASSUME worker' \in InLoop \ {"close"}, ~gone[client], Clean(client)
             PROVE  \E t : Keeps(worker', written[client], t, got'[client], buffered', source, newline', Len(sent[client]))
  BY <1>0 DEF Loop, Clean
<1> DEFINE w == written[client]
           g == got[client]
           m == Len(sent[client])
<1>1. w \in Seq(Byte) /\ got \in [Client -> Nat] /\ Fits(w)
  BY <1>0 DEF TypeOK, Clean, CleanText
<1>2. PICK k \in 1..(Len(w) - g) :
        LET b == buffered \o SubSeq(w, g + 1, g + k) IN
        /\ got' = [got EXCEPT ![client] = g + k] /\ buffered' = b /\ newline' = FindNewline(b)
        /\ worker' = IF Len(b) > MaxRequestBytes /\ FindNewline(b) = 0 THEN "refuse" ELSE "lines"
  BY DEF RecvData, Goto
<1>3. PICK t : Keeps("recv", w, t, g, buffered, source, newline, m)
  BY <1>0 DEF Loop, InLoop
<1> DEFINE b == buffered \o SubSeq(w, g + 1, g + k)
<1>4. got'[client] = g + k
  BY <1>0, <1>1, <1>2
<1>5. buffered' = b /\ newline' = FindNewline(b)
  BY <1>2
<1>6. worker' = IF Len(b) > MaxRequestBytes /\ FindNewline(b) = 0 THEN "refuse" ELSE "lines"
  BY <1>2
<1>7. k \in 1..(Len(w) - g)
  BY <1>2
<1> HIDE DEF w, g, m
<1>8. /\ Keeps("lines", w, t, g + k, b, source, FindNewline(b), m)
      /\ Fits(w) /\ Len(b) > MaxRequestBytes => FindNewline(b) # 0
  BY ONLY <1>1, <1>3, <1>7, KeepsRecv
<1> HIDE DEF b
<1>9. worker' = "lines"
  BY <1>1, <1>6, <1>8
<1> QED
  BY <1>4, <1>5, <1>8, <1>9 DEF w, m

-----------------------------------------------------------------------------
\* The framing loop takes a line; a clean client's is never blank.
LEMMA FramedTake ==
    ASSUME TypeOK, Serving, Loop, TakeNext
    PROVE  Loop'
<1>0. /\ worker = "lines" /\ newline # 0 /\ client \in Client
      /\ UNCHANGED << client, gone, written, got, sent, newline >>
  BY DEF TakeNext, Serving, netVars
<1> SUFFICES ASSUME ~gone[client], Clean(client)
             PROVE  \E t : Keeps(worker', written[client], t, got[client], buffered', source', newline, Len(sent[client]))
  BY <1>0 DEF Loop, Clean
<1> DEFINE w == written[client]
           m == Len(sent[client])
           line == StripCR(TakeLine(buffered, newline))
<1>1. w \in Seq(Byte) /\ CleanText(w) /\ m \in Nat
  BY <1>0 DEF TypeOK, Clean
<1>2. PICK t : Keeps("lines", w, t, got[client], buffered, source, newline, m)
  BY <1>0 DEF Loop, InLoop
<1>3. source' = line /\ buffered' = DropLine(buffered, newline)
  BY DEF TakeNext
<1> HIDE DEF w, m
<1>4. /\ line # << >>
      /\ \E s : Keeps("push", w, s, got[client], DropLine(buffered, newline), line, newline, m)
  BY ONLY <1>0, <1>1, <1>2, KeepsTake
<1>5. worker' = "push"
  BY <1>3, <1>4 DEF TakeNext, Goto
<1> QED
  BY <1>3, <1>4, <1>5 DEF w, m

\* A clean client's line is accepted: the queue is empty and the line fits.
LEMMA FramedPush ==
    ASSUME TypeOK, Serving, Outstanding, Loop, PushLine
    PROVE  Loop'
<1>0. /\ worker = "push" /\ client \in Client
      /\ UNCHANGED << client, gone, written, got, sent, buffered, source, newline >>
  BY DEF PushLine, Serving, netVars
<1>1. CASE PushAccepts(source)
  <2>1. worker' = "wait"
    BY <1>1 DEF PushLine, Goto
  <2> QED
    BY <1>0, <2>1, LoopOn DEF InLoop, Busy
<1>2. CASE ~PushAccepts(source)
  <2> SUFFICES ASSUME ~gone[client], Clean(client) PROVE FALSE
    BY <1>0 DEF Loop, Clean
  <2>1. requests = << >>
    BY <1>0 DEF Outstanding
  <2>2. Len(requests) # MaxPendingRequests
    BY <2>1, QueueAssumption
  <2> DEFINE w == written[client]
             m == Len(sent[client])
  <2>3. w \in Seq(Byte) /\ CleanText(w) /\ "push" \in Busy
    BY <1>0 DEF TypeOK, Clean, Busy
  <2>4. PICK t : Keeps("push", w, t, got[client], buffered, source, newline, m)
    BY <1>0 DEF Loop, InLoop
  <2> HIDE DEF w, m
  <2>5. ~(Len(source) > MaxRequestBytes)
    BY ONLY <2>3, <2>4, KeepsFits
  <2> QED
    BY <1>2, <2>2, <2>5 DEF PushAccepts
<1> QED
  BY <1>1, <1>2

\* The result goes to the client whose line is in hand.
LEMMA FramedSend ==
    ASSUME TypeOK, Serving, Promised, Asked, Told, Loop, SendResult
    PROVE  Told' /\ Loop'
<1>0. /\ worker = "send" /\ client \in Client /\ worker' = "lines" /\ newline' = FindNewline(buffered)
      /\ UNCHANGED << client, gone, written, got, buffered, source >>
      /\ SendLine(promise[future])
  BY DEF SendResult, Serving, Goto
<1>1. promise[future] = Value(source)
  BY <1>0 DEF Promised, Asked
<1>2. CASE gone[client]
  <2>1. sent' = sent
    BY <1>0, <1>2 DEF SendLine
  <2> QED
    BY <1>0, <1>2, <2>1, ToldOn DEF Loop
<1>3. CASE ~gone[client]
  <2> DEFINE w == written[client]
             s == sent[client]
  <2>1. /\ sent \in [Client -> Seq(Reply)] /\ w \in Seq(Byte) /\ s \in Seq(Reply)
    BY <1>0 DEF TypeOK
  <2>2. Value(source) \in Reply
    BY DEF TypeOK, Value, Reply
  <2>3. sent' = [sent EXCEPT ![client] = Append(s, Value(source))]
    BY <1>0, <1>1, <1>3 DEF SendLine
  <2>4. sent'[client] = Append(s, Value(source)) /\ \A d \in Client : d # client => sent'[d] = sent[d]
    BY <1>0, <2>1, <2>3
  <2>5. ASSUME Clean(client)
        PROVE  /\ Tell(w, Append(s, Value(source)))
               /\ \E t : Keeps("lines", w, t, got[client], buffered, source, FindNewline(buffered),
                               Len(Append(s, Value(source))))
    <3>1. PICK t : Keeps("send", w, t, got[client], buffered, source, newline, Len(s))
      BY <1>0, <1>3, <2>5 DEF Loop, InLoop
    <3>2. Tell(w, s) /\ CleanText(w)
      BY <1>0, <2>5 DEF Told, Clean
    <3> HIDE DEF w, s
    <3>3. /\ Tell(w, Append(s, Value(source)))
          /\ Keeps("lines", w, t, got[client], buffered, source, FindNewline(buffered),
                   Len(Append(s, Value(source))))
      BY ONLY <2>1, <2>2, <3>1, <3>2, KeepsSend
    <3> QED
      BY <3>3
  <2>6. Told'
    <3> SUFFICES ASSUME NEW d \in Client, Clean(d) PROVE Tell(written[d], sent'[d])
      BY <1>0 DEF Told, Clean
    <3>1. CASE d = client
      BY <2>4, <2>5, <3>1
    <3>2. CASE d # client
      BY <2>4, <3>2 DEF Told
    <3> QED
      BY <3>1, <3>2
  <2>7. Loop'
    <3> SUFFICES ASSUME Clean(client)
                 PROVE  \E t : Keeps("lines", w, t, got[client], buffered, source, FindNewline(buffered), Len(sent'[client]))
      BY <1>0 DEF Loop, Clean
    <3> QED
      BY <2>4, <2>5
  <2> QED
    BY <2>6, <2>7
<1> QED
  BY <1>2, <1>3

\* No error line goes to a clean client.
LEMMA FramedError ==
    ASSUME TypeOK, Serving, Told, Loop, SendRejected \/ SendRefused
    PROVE  Told' /\ Loop'
<1>0. /\ worker \in {"reject", "refuse"} /\ client \in Client /\ SendLine(Error)
      /\ UNCHANGED << client, gone, written, got, buffered, source, newline >>
  BY DEF SendRejected, SendRefused, Serving
<1>1. ~(~gone[client] /\ Clean(client))
  <2> SUFFICES ASSUME ~gone[client], Clean(client) PROVE FALSE
    OBVIOUS
  <2>1. PICK t : Keeps(worker, written[client], t, got[client], buffered, source, newline, Len(sent[client]))
    BY <1>0 DEF Loop, InLoop
  <2> QED
    BY <1>0, <2>1 DEF Keeps
<1>2. Loop'
  BY <1>0, <1>1 DEF Loop, Clean
<1>3. Told'
  <2> SUFFICES ASSUME NEW d \in Client, Clean(d) PROVE sent'[d] = sent[d]
    BY <1>0 DEF Told, Clean
  <2>1. sent \in [Client -> Seq(Reply)]
    BY DEF TypeOK
  <2>2. CASE gone[client]
    BY <1>0, <2>2 DEF SendLine
  <2>3. CASE ~gone[client]
    <3>1. d # client
      BY <1>1, <2>3
    <3> QED
      BY <1>0, <2>1, <2>3, <3>1 DEF SendLine
  <2> QED
    BY <2>2, <2>3
<1> QED
  BY <1>2, <1>3

\* A connection is accepted.
LEMMA FramedAccept ==
    ASSUME TypeOK, Waiting, Untouched, Told, Accept
    PROVE  Told' /\ Loop'
<1> DEFINE h == Head(backlog)
<1>1. /\ backlog # << >> /\ backlog' = Tail(backlog) /\ conn' = [conn EXCEPT ![h] = "serving"]
      /\ client' = h /\ buffered' = << >> /\ worker' \in {"serve", "close"}
      /\ UNCHANGED << sent, got, written, gone, source, newline >>
  BY DEF Accept, Goto
<1>2. h \in Client /\ conn[h] = "queued"
  BY <1>1, WaitingTail
<1> HIDE DEF h
<1>3. sent[h] = << >> /\ got[h] = 0 /\ Len(<< >>) = 0 /\ written[h] \in Seq(Byte)
  BY <1>2 DEF Untouched, TypeOK
<1>4. Keeps("serve", written[h], 0, 0, << >>, source, newline, 0)
  BY <1>3, KeepsFirst
<1>5. Loop'
  BY <1>1, <1>3, <1>4 DEF Loop
<1> QED
  BY <1>1, <1>5, ToldOn

-----------------------------------------------------------------------------
\* Every step keeps the clean clients told, and the loop in place.
LEMMA FramedStep ==
    ASSUME SInv, FInv, [Next]_vars
    PROVE  Told' /\ Loop'
<1>t. /\ TypeOK /\ Serving /\ Outstanding /\ Promised
      /\ Waiting /\ Untouched /\ Asked /\ Told /\ Loop
  BY DEF SInv, FInv
<1>1. CASE StartOk \/ StopJoin
  <2>1. worker' \notin InLoop /\ UNCHANGED << written, sent >>
    BY <1>1 DEF StartOk, StopJoin, netVars, InLoop
  <2> QED
    BY <1>t, <2>1, ToldOn DEF Loop
<1>2. CASE StartFails \/ Draining \/ StopFlag \/ StopListener \/ StopCancel \/ StopEnd \/ UNCHANGED vars
  <2>1. UNCHANGED << client, gone, written, got, sent, buffered, source, worker, newline >>
    BY <1>2 DEF StartFails, Draining, DrainBegin, DrainPop, DrainReply, DrainEnd, StopFlag, StopListener,
                StopCancel, StopEnd, netVars, workerVars, vars
  <2> QED
    BY <1>t, <2>1, ToldOn, LoopOn
<1>3. CASE RunLoop \/ AcceptFails \/ RecvEnd \/ CloseClient
  <2>1. worker' \notin InLoop \ {"close"} /\ UNCHANGED << written, sent >>
    BY <1>3 DEF RunLoop, AcceptFails, RecvEnd, CloseClient, netVars, Goto, InLoop
  <2> QED
    BY <1>t, <2>1, ToldOn DEF Loop
<1>4. CASE ServeLoop \/ RecvTimeout \/ LinesEnd \/ Wait
  <2>1. UNCHANGED << client, gone, written, got, sent, buffered, source >>
    BY <1>4 DEF ServeLoop, RecvTimeout, LinesEnd, Wait, netVars
  <2>2. \/ worker' = "close"
        \/ worker \in {"serve", "recv", "lines"} /\ worker' \in {"serve", "recv"}
        \/ worker = "wait" /\ worker' = "send"
    BY <1>4 DEF ServeLoop, RecvTimeout, LinesEnd, Wait, Goto
  <2>3. \/ worker' \notin InLoop \ {"close"}
        \/ /\ worker \in InLoop \ {"close"} /\ (worker' \in Busy <=> worker \in Busy)
           /\ worker' \notin {"lines", "reject", "refuse"}
    BY <2>2 DEF InLoop, Busy
  <2>4. Loop'
    BY <1>t, <2>1, <2>3, LoopOn
  <2> QED
    BY <1>t, <2>1, <2>4, ToldOn
<1>5. CASE Accept
  BY <1>t, <1>5, FramedAccept
<1>6. CASE RecvData
  <2>1. UNCHANGED << written, sent >>
    BY <1>6 DEF RecvData
  <2> QED
    BY <1>t, <1>6, <2>1, FramedRecv, ToldOn
<1>7. CASE TakeNext
  <2>1. UNCHANGED << written, sent >>
    BY <1>7 DEF TakeNext, netVars
  <2> QED
    BY <1>t, <1>7, <2>1, FramedTake, ToldOn
<1>8. CASE PushLine
  <2>1. UNCHANGED << written, sent >>
    BY <1>8 DEF PushLine, netVars
  <2> QED
    BY <1>t, <1>8, <2>1, FramedPush, ToldOn
<1>9. CASE SendResult
  BY <1>t, <1>9, FramedSend
<1>10. CASE SendRejected \/ SendRefused
  BY <1>t, <1>10, FramedError
<1>11. ASSUME NEW c \in Client, NEW l \in Line, Write(c, l) PROVE Told' /\ Loop'
  BY <1>t, <1>11, FramedWrite
<1>12. ASSUME NEW c \in Client, Connect(c) \/ Read(c) PROVE Told' /\ Loop'
  <2>1. UNCHANGED << client, gone, written, got, sent, buffered, source, worker, newline >>
    BY <1>12 DEF Connect, Read, workerVars
  <2> QED
    BY <1>t, <2>1, ToldOn, LoopOn
<1>13. ASSUME NEW c \in Client, Leave(c) PROVE Told' /\ Loop'
  <2>1. UNCHANGED << client, written, got, sent, buffered, source, worker, newline >>
    BY <1>13 DEF Leave, workerVars
  <2>2. gone' = [gone EXCEPT ![c] = TRUE] /\ gone \in [Client -> BOOLEAN]
    BY <1>13, <1>t DEF Leave, TypeOK
  <2>3. worker \in InLoop => client \in Client
    BY <1>t DEF Serving, InLoop
  <2>4. worker \in InLoop /\ ~gone'[client] => ~gone[client]
    BY <2>2, <2>3
  <2>5. Loop'
    BY <1>t, <2>1, <2>4 DEF Loop, Clean
  <2> QED
    BY <1>t, <2>1, <2>5, ToldOn
<1> QED
  BY <1>1, <1>2, <1>3, <1>4, <1>5, <1>6, <1>7, <1>8, <1>9, <1>10, <1>11, <1>12, <1>13
     DEF Next, Owner, Stopping, Worker, Clients

\* As long as a client writes only non-blank lines that fit, the replies it is
\* sent are the answers to its own lines, in order: ServeClient's framing loop
\* computes the reference's split, however recv cuts the bytes.
THEOREM CleanClientsFramed == Spec => []CleanClientFramed
<1>1. ASSUME SInv, FInv, [Next]_vars PROVE FInv'
  <2>1. Waiting' /\ Untouched' /\ InHand'
    BY <1>1, ConnStep DEF FInv
  <2>2. Asked'
    BY <1>1, AskedStep DEF FInv
  <2>3. Told' /\ Loop'
    BY <1>1, FramedStep
  <2> QED
    BY <2>1, <2>2, <2>3 DEF FInv
<1>2. ASSUME SInv, FInv PROVE CleanClientFramed
  <2> SUFFICES ASSUME NEW c \in Client, Clean(c) PROVE IsPrefix(sent[c], Answers(written[c]))
    BY DEF CleanClientFramed
  <2>1. written[c] \in Seq(Byte) /\ sent[c] \in Seq(Reply)
    BY <1>2 DEF SInv, TypeOK
  <2>2. Tell(written[c], sent[c])
    BY <1>2 DEF FInv, Told
  <2> QED
    BY <2>1, <2>2, TellMeans
<1> QED
  BY <1>1, <1>2, FramedInit, ServerInvariant, PTL DEF Spec
=============================================================================
