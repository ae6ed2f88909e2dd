---------------------------- MODULE RequestQueue ----------------------------
(***************************************************************************)
(* local_repl::RequestQueue (adapter/src/LocalReplQueue.hpp): the bounded  *)
(* FIFO between the threads that accept REPL source (the socket worker,    *)
(* the NeuralDeck) and the one thread that evaluates it.                   *)
(*                                                                         *)
(* Push and Pop run wholly under m_mutex, so each is one step.  CancelAll  *)
(* holds the mutex only while it swaps the queue out and then replies to   *)
(* the cancelled requests one by one, so it is several steps.  Pop, the    *)
(* evaluation of what it returned, and CancelAll all belong to the thread  *)
(* that owns the Lisp session; producers push at any moment in between.    *)
(***************************************************************************)
EXTENDS Naturals, Sequences, SequencesExt

CONSTANTS
    Byte,                \* the alphabet of request texts
    Source,              \* the texts producers of this module's own Next submit
    MaxRequestBytes,     \* kMaxRequestBytes
    MaxPendingRequests,  \* kMaxPendingRequests
    MaxSubmissions       \* bound: how many times Push is called

ASSUME QueueAssumption ==
    /\ \A s \in Source : s \in Seq(Byte)
    /\ MaxRequestBytes \in Nat
    /\ MaxPendingRequests \in Nat \ {0}
    /\ MaxSubmissions \in Nat

VARIABLES
    submitted,  \* number of Push calls so far; the k-th one makes request k
    requests,   \* m_requests
    popped,     \* the request Drain holds between Pop and its reply: << >> or << r >>
    cancelled,  \* the local queue CancelAll swapped m_requests into
    accepted,   \* history: the requests Push returned true for, in that order
    answered    \* history: the requests whose reply was called, in that order

qvars == << submitted, requests, popped, cancelled, accepted, answered >>

Request == [id : 1..MaxSubmissions, source : Seq(Byte)]

QInit ==
    /\ submitted = 0
    /\ requests = << >>
    /\ popped = << >>
    /\ cancelled = << >>
    /\ accepted = << >>
    /\ answered = << >>

(***************************************************************************)
(* Push(source, reply): false when the text is too large or the queue is   *)
(* full (the caller still owns the text), else the request goes to the     *)
(* back.                                                                   *)
(***************************************************************************)

PushAccepts(source) ==
    /\ ~(Len(source) > MaxRequestBytes)
    /\ Len(requests) # MaxPendingRequests

Push(source) ==
    /\ submitted < MaxSubmissions
    /\ submitted' = submitted + 1
    /\ LET r == [id |-> submitted + 1, source |-> source]
       IN  IF PushAccepts(source)
           THEN /\ requests' = Append(requests, r)
                /\ accepted' = Append(accepted, r)
           ELSE UNCHANGED << requests, accepted >>
    /\ UNCHANGED << popped, cancelled, answered >>

\* The owning thread is in none of its queue operations.
OwnerFree == popped = << >> /\ cancelled = << >>

\* Pop without m_requests.pop(), for the mutants.
PopKeepsFront ==
    /\ OwnerFree
    /\ requests # << >>
    /\ popped' = << Head(requests) >>
    /\ UNCHANGED << submitted, requests, cancelled, accepted, answered >>

\* Pop by the loop of Drain: the front request, removed under the lock.
Pop ==
    /\ OwnerFree
    /\ requests # << >>
    /\ popped' = << Head(requests) >>
    /\ requests' = Tail(requests)
    /\ UNCHANGED << submitted, cancelled, accepted, answered >>

\* request->reply(evaluate(request->source))
ReplyPopped ==
    /\ popped # << >>
    /\ answered' = Append(answered, Head(popped))
    /\ popped' = << >>
    /\ UNCHANGED << submitted, requests, cancelled, accepted >>

\* Defects of CancelAll, for the mutants: the requests are dropped, or
\* answered newest first.
CancelAllDrops ==
    /\ OwnerFree
    /\ requests # << >>
    /\ requests' = << >>
    /\ UNCHANGED << submitted, popped, cancelled, accepted, answered >>

ReplyCancelledLast ==
    /\ cancelled # << >>
    /\ answered' = Append(answered, Last(cancelled))
    /\ cancelled' = Front(cancelled)
    /\ UNCHANGED << submitted, requests, popped, accepted >>

\* CancelAll, under the lock: cancelled.swap(m_requests).
CancelAll ==
    /\ OwnerFree
    /\ requests # << >>
    /\ cancelled' = requests
    /\ requests' = << >>
    /\ UNCHANGED << submitted, popped, accepted, answered >>

\* CancelAll, after the lock: one turn of the loop that replies, oldest first.
ReplyCancelled ==
    /\ cancelled # << >>
    /\ answered' = Append(answered, Head(cancelled))
    /\ cancelled' = Tail(cancelled)
    /\ UNCHANGED << submitted, requests, popped, accepted >>

OwnerStep == Pop \/ ReplyPopped \/ CancelAll \/ ReplyCancelled

QNext == OwnerStep \/ \E s \in Source : Push(s)

QSpec == QInit /\ [][QNext]_qvars

-----------------------------------------------------------------------------
\* Types of the queue and its history.
QTypeOK ==
    /\ submitted \in 0..MaxSubmissions
    /\ requests \in Seq(Request)
    /\ popped \in Seq(Request) /\ Len(popped) <= 1
    /\ cancelled \in Seq(Request)
    /\ accepted \in Seq(Request)
    /\ answered \in Seq(Request)

\* Every accepted request is, in acceptance order, answered, in the owner's
\* hand, being cancelled, or still queued - and is in exactly one of these:
\* no interleaving of Push with Pop or CancelAll loses, repeats or reorders one.
After(n, s) == \A i \in 1..Len(s) : accepted[n + i] = s[i]

Conservation ==
    /\ Len(accepted) = Len(answered) + Len(popped) + Len(cancelled) + Len(requests)
    /\ After(0, answered)
    /\ After(Len(answered), popped)
    /\ After(Len(answered) + Len(popped), cancelled)
    /\ After(Len(answered) + Len(popped) + Len(cancelled), requests)

\* The owner is in one queue operation at a time.
OneOperation == popped = << >> \/ cancelled = << >>

\* Request ids grow along the acceptance order, so no request occurs in it twice.
AcceptedAscending ==
    /\ \A i \in 1..Len(accepted) : accepted[i].id <= submitted
    /\ \A i, j \in 1..Len(accepted) : i < j => accepted[i].id < accepted[j].id

\* The queue never holds more than kMaxPendingRequests, nor an oversized text.
QueueBounded ==
    /\ Len(requests) <= MaxPendingRequests
    /\ \A i \in 1..Len(requests) : Len(requests[i].source) <= MaxRequestBytes

\* Replies are called in the order Push accepted the requests, whichever of
\* evaluation and cancellation makes the call.
AnsweredInOrder ==
    /\ Len(answered) <= Len(accepted)
    /\ \A i \in 1..Len(answered) : answered[i] = accepted[i]

\* No reply is called twice: each one fulfils a std::promise, whose second
\* set_value throws on the thread that drains or cancels.
AnsweredOnce ==
    \A i, j \in 1..Len(answered) : i # j => answered[i].id # answered[j].id

\* All of this together: the inductive invariant of Push, Pop and CancelAll.
QInv == QTypeOK /\ OneOperation /\ Conservation /\ AcceptedAscending /\ QueueBounded

\* The queue is the service its users see: what was accepted waits in the order
\* of acceptance - in the owner's hand, being cancelled or queued - and Push,
\* Pop, CancelAll and the replies, in any interleaving, only ever accept a new
\* request at the back or answer the oldest one.
Service == INSTANCE ReplyService WITH waiting <- popped \o cancelled \o requests

ImplementsService == Service!Spec

\* Every accepted request is eventually answered, evaluated or cancelled.
AcceptedAreAnswered ==
    \A k \in 1..MaxSubmissions :
        (Len(accepted) >= k) ~> (Len(answered) >= k)
=============================================================================
