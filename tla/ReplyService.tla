---------------------------- MODULE ReplyService ----------------------------
(***************************************************************************)
(* What the request queue promises those who use it, without threads,      *)
(* locks or a CancelAll: a request that was accepted waits its turn, the   *)
(* one that has waited longest is answered next, and an answer is final.   *)
(* RequestQueue implements it.                                             *)
(***************************************************************************)
EXTENDS Naturals, Sequences

CONSTANT Request   \* records with an id

VARIABLES
    waiting,   \* accepted and not answered, oldest first
    answered   \* the requests answered, in that order

svars == << waiting, answered >>

Init == waiting = << >> /\ answered = << >>

\* The request has not been seen before.
New(r) ==
    /\ \A i \in 1..Len(waiting) : waiting[i].id # r.id
    /\ \A i \in 1..Len(answered) : answered[i].id # r.id

Newest == waiting[Len(waiting)]

\* A request comes in behind those that wait.
Accept ==
    /\ waiting' # << >>
    /\ Newest' \in Request /\ New(Newest')
    /\ waiting' = Append(waiting, Newest')
    /\ UNCHANGED answered

Answer ==
    /\ waiting # << >>
    /\ answered' = Append(answered, Head(waiting))
    /\ waiting' = Tail(waiting)

Next == Accept \/ Answer

Spec == Init /\ [][Next]_svars
=============================================================================
