----------------------------- MODULE ReplServer -----------------------------
(***************************************************************************)
(* local_repl::LocalReplServer (adapter/src/LocalReplServer.cpp) with its  *)
(* RequestQueue, the thread that owns the Lisp session (Start, Drain,      *)
(* Stop: BridgeRuntime's loop or the RED4ext tick) and the TCP clients.    *)
(*                                                                         *)
(* Three kinds of actors interleave: the socket worker (Run, ServeClient), *)
(* the owner thread, and the clients.  Text is a sequence of bytes drawn   *)
(* from a small alphabet in which only "\n" and "\r" are special, because  *)
(* the framing loop works on positions.                                    *)
(***************************************************************************)
EXTENDS RequestQueue

CONSTANTS
    Client,      \* TCP clients; each connects at most once
    Line,        \* what a client writes at once: bytes ending in "\n"
    MaxLines,    \* bound: lines the clients write, together
    MaxStarts,   \* bound: calls of Start
    SendWindow,  \* reply lines a client may leave unread before send() blocks
    None

ASSUME ServerAssumption ==
    /\ None \notin Client
    /\ MaxLines \in Nat /\ MaxStarts \in Nat /\ SendWindow \in Nat \ {0}
    /\ {"\n", "\r"} \subseteq Byte
    /\ \A l \in Line : l \in Seq(Byte)

VARIABLES
    owner,      \* where the owner thread is
    starts,     \* calls of Start so far
    running,    \* Impl::running
    listening,  \* Impl::listener is open
    bound,      \* Impl::queue # nullptr
    worker,     \* where the socket worker is; "none": not joinable
    client,     \* the connection ServeClient has, or None
    buffered,   \* ServeClient: bytes received and not yet framed
    newline,    \* ServeClient: position of the newline found; 0 is npos
    source,     \* ServeClient: the line being pushed
    future,     \* ServeClient: id of the request it waits for
    promise,    \* id |-> the value set_value gave, or Unset
    backlog,    \* connections the listener holds, oldest first
    conn,       \* client |-> "new", "queued", "serving" or "closed"
    gone,       \* client |-> it has closed or reset its end
    written,    \* client |-> all the bytes it wrote
    lines,      \* how many lines the clients have written
    got,        \* client |-> how many of them recv has returned
    sent,       \* client |-> the reply lines sent to it
    unread      \* client |-> how many of those it has not read

ownerVars == << owner, starts, running, listening, bound >>
workerVars == << worker, client, buffered, newline, source, future >>
netVars == << backlog, conn, gone, written, lines, got, sent, unread >>
vars == << qvars, ownerVars, workerVars, netVars, promise >>

-----------------------------------------------------------------------------
(* Reply lines, and what is sent for what. *)

Unset == [kind |-> "unset"]
Ended == [kind |-> "ended"]                      \* "error: REPL session ended"
Error == [kind |-> "error"]                      \* too large, or rejected
Value(text) == [kind |-> "value", of |-> text]   \* evaluate(text), one text each
Reply == {Ended, Error} \cup [kind : {"value"}, of : Seq(Byte)]

\* std::string::find('\n') on buffered: 0 stands for npos.
FindNewline(bytes) ==
    IF \E i \in 1..Len(bytes) : bytes[i] = "\n"
    THEN CHOOSE i \in 1..Len(bytes) :
             bytes[i] = "\n" /\ \A j \in 1..(i - 1) : bytes[j] # "\n"
    ELSE 0

\* buffered.substr(0, newline): like erase, it is clipped to the string.
TakeLine(bytes, pos) ==
    SubSeq(bytes, 1, IF pos - 1 < Len(bytes) THEN pos - 1 ELSE Len(bytes))

\* buffered.erase(0, newline + 1)
DropLine(bytes, pos) == SubSeq(bytes, pos + 1, Len(bytes))

StripCR(text) ==
    IF text # << >> /\ text[Len(text)] = "\r"
    THEN SubSeq(text, 1, Len(text) - 1) ELSE text

-----------------------------------------------------------------------------
Init ==
    /\ QInit
    /\ owner = "stopped" /\ starts = 0
    /\ running = FALSE /\ listening = FALSE /\ bound = FALSE
    /\ worker = "none" /\ client = None
    /\ buffered = << >> /\ newline = 0 /\ source = << >> /\ future = 0
    /\ promise = [r \in 1..MaxSubmissions |-> Unset]
    /\ backlog = << >>
    /\ conn = [c \in Client |-> "new"]
    /\ gone = [c \in Client |-> FALSE]
    /\ written = [c \in Client |-> << >>]
    /\ lines = 0
    /\ got = [c \in Client |-> 0]
    /\ sent = [c \in Client |-> << >>]
    /\ unread = [c \in Client |-> 0]

-----------------------------------------------------------------------------
(* The owner thread. *)

\* Start: listener, queue pointer, running flag, worker thread.
StartOk ==
    /\ owner = "stopped" /\ starts < MaxStarts
    /\ starts' = starts + 1
    /\ owner' = "idle"
    /\ running' = TRUE /\ listening' = TRUE /\ bound' = TRUE
    /\ worker' = "run"
    /\ UNCHANGED << qvars, client, buffered, newline, source, future, promise, netVars >>

\* Start: WSAStartup, socket, bind or listen fails; its own Stop() finds no
\* worker and no queue, so everything is as before.
StartFails ==
    /\ owner = "stopped" /\ starts < MaxStarts
    /\ starts' = starts + 1
    /\ UNCHANGED << qvars, owner, running, listening, bound, workerVars, promise, netVars >>

\* A tick enters Drain; its loop Pops until the queue is empty.
DrainBegin ==
    /\ owner = "idle" /\ bound
    /\ owner' = "draining"
    /\ UNCHANGED << qvars, starts, running, listening, bound, workerVars, promise, netVars >>

DrainPop ==
    /\ owner = "draining"
    /\ Pop
    /\ owner' = "evaluating"
    /\ UNCHANGED << starts, running, listening, bound, workerVars, promise, netVars >>

DrainReply ==
    /\ owner = "evaluating"
    /\ ReplyPopped
    /\ promise' = [promise EXCEPT ![Head(popped).id] = Value(Head(popped).source)]
    /\ owner' = "draining"
    /\ UNCHANGED << starts, running, listening, bound, workerVars, netVars >>

DrainEnd ==
    /\ owner = "draining" /\ requests = << >>
    /\ owner' = "idle"
    /\ UNCHANGED << qvars, starts, running, listening, bound, workerVars, promise, netVars >>

\* Stop: running = false ...
StopFlag ==
    /\ owner = "idle"
    /\ running' = FALSE
    /\ owner' = "closing"
    /\ UNCHANGED << qvars, starts, listening, bound, workerVars, promise, netVars >>

\* ... closesocket(listener), which drops the connections not accepted yet ...
StopListener ==
    /\ owner = "closing"
    /\ listening' = FALSE
    /\ owner' = "joining"
    /\ conn' = [c \in Client |-> IF conn[c] = "queued" THEN "closed" ELSE conn[c]]
    /\ backlog' = << >>
    /\ UNCHANGED << qvars, starts, running, bound, workerVars, promise,
                    gone, written, lines, got, sent, unread >>

\* Defects of Stop, for the mutants: it does not wait for the worker ...
StopJoinEarly ==
    /\ owner = "joining"
    /\ CancelAll \/ (requests = << >> /\ UNCHANGED qvars)
    /\ owner' = "cancelling"
    /\ UNCHANGED << starts, running, listening, bound, workerVars, promise, netVars >>

\* ... or it leaves the queue as it is.
StopJoinKeeps ==
    /\ owner = "joining"
    /\ worker = "returned"
    /\ worker' = "none"
    /\ owner' = "cancelling"
    /\ UNCHANGED << qvars, starts, running, listening, bound, client, buffered, newline,
                    source, future, promise, netVars >>

\* ... worker.join(), then CancelAll takes the queue ...
StopJoin ==
    /\ owner = "joining"
    /\ worker = "returned"
    /\ worker' = "none"
    /\ CancelAll \/ (requests = << >> /\ UNCHANGED qvars)
    /\ owner' = "cancelling"
    /\ UNCHANGED << starts, running, listening, bound, client, buffered, newline,
                    source, future, promise, netVars >>

\* ... and answers each request in it ...
StopCancel ==
    /\ owner = "cancelling"
    /\ ReplyCancelled
    /\ promise' = [promise EXCEPT ![Head(cancelled).id] = Ended]
    /\ UNCHANGED << ownerVars, workerVars, netVars >>

\* ... queue = nullptr, WSACleanup.
StopEnd ==
    /\ owner = "cancelling" /\ cancelled = << >>
    /\ bound' = FALSE
    /\ owner' = "stopped"
    /\ UNCHANGED << qvars, starts, running, listening, workerVars, promise, netVars >>

-----------------------------------------------------------------------------
(* The socket worker. *)

Goto(pc) == worker' = pc

\* Run: while (impl.running)
RunLoop ==
    /\ worker = "run"
    /\ Goto(IF running THEN "accept" ELSE "returned")
    /\ UNCHANGED << qvars, ownerVars, client, buffered, newline, source, future,
                    promise, netVars >>

\* accept gives the oldest connection to ServeClient, which returns at once
\* when setsockopt cannot arm the receive timeout.
Accept ==
    /\ worker = "accept" /\ listening /\ backlog # << >>
    /\ client' = Head(backlog)
    /\ backlog' = Tail(backlog)
    /\ conn' = [conn EXCEPT ![Head(backlog)] = "serving"]
    /\ buffered' = << >>
    /\ \E armed \in BOOLEAN : Goto(IF armed THEN "serve" ELSE "close")
    /\ UNCHANGED << qvars, ownerVars, newline, source, future, promise,
                    gone, written, lines, got, sent, unread >>

\* accept returns INVALID_SOCKET - the listener is closed, or the connection
\* it would return was reset by its client - and Run returns.
AcceptFails ==
    /\ worker = "accept"
    /\ \/ /\ ~listening
          /\ UNCHANGED << backlog, conn >>
       \/ /\ listening /\ backlog # << >> /\ gone[Head(backlog)]
          /\ backlog' = Tail(backlog)
          /\ conn' = [conn EXCEPT ![Head(backlog)] = "closed"]
    /\ Goto("returned")
    /\ UNCHANGED << qvars, ownerVars, client, buffered, newline, source, future, promise,
                    gone, written, lines, got, sent, unread >>

\* ServeClient: while (impl.running)
ServeLoop ==
    /\ worker = "serve"
    /\ Goto(IF running THEN "recv" ELSE "close")
    /\ UNCHANGED << qvars, ownerVars, client, buffered, newline, source, future,
                    promise, netVars >>

\* recv times out after 100 ms without a byte: continue.
RecvTimeout ==
    /\ worker = "recv"
    /\ got[client] = Len(written[client]) /\ ~gone[client]
    /\ Goto("serve")
    /\ UNCHANGED << qvars, ownerVars, client, buffered, newline, source, future,
                    promise, netVars >>

\* recv returns 0 or an error once the client is gone.
RecvEnd ==
    /\ worker = "recv" /\ gone[client]
    /\ Goto("close")
    /\ UNCHANGED << qvars, ownerVars, client, buffered, newline, source, future,
                    promise, netVars >>

\* recv returns some of the bytes in flight; they are appended, and either
\* the buffer is too long without a newline or the framing loop starts.
RecvData ==
    /\ worker = "recv"
    /\ \E n \in 1..(Len(written[client]) - got[client]) :
          LET bytes == buffered \o SubSeq(written[client], got[client] + 1, got[client] + n)
              tooLong == Len(bytes) > MaxRequestBytes /\ FindNewline(bytes) = 0
          IN  /\ got' = [got EXCEPT ![client] = @ + n]
              /\ buffered' = bytes
              /\ newline' = FindNewline(bytes)
              /\ Goto(IF tooLong THEN "refuse" ELSE "lines")
    /\ UNCHANGED << qvars, ownerVars, client, source, future, promise,
                    backlog, conn, gone, written, lines, sent, unread >>

\* The framing loop takes the line before `newline`.  A blank line goes round
\* again, and `newline` is not searched for anew.
TakeNext ==
    /\ worker = "lines" /\ newline # 0
    /\ source' = StripCR(TakeLine(buffered, newline))
    /\ buffered' = DropLine(buffered, newline)
    /\ Goto(IF source' = << >> THEN "lines" ELSE "push")
    /\ UNCHANGED << qvars, ownerVars, client, newline, future, promise, netVars >>

\* No newline left: back to recv.
LinesEnd ==
    /\ worker = "lines" /\ newline = 0
    /\ Goto("serve")
    /\ UNCHANGED << qvars, ownerVars, client, buffered, newline, source, future,
                    promise, netVars >>

\* queue->Push(source, reply)
PushLine ==
    /\ worker = "push"
    /\ Push(source)
    /\ IF PushAccepts(source)
       THEN future' = submitted' /\ Goto("wait")
       ELSE UNCHANGED future /\ Goto("reject")
    /\ UNCHANGED << ownerVars, client, buffered, newline, source, promise, netVars >>

\* Defects of the wait, for the mutants: one poll only ...
WaitOnce ==
    /\ worker = "wait"
    /\ Goto(IF running THEN "send" ELSE "close")
    /\ UNCHANGED << qvars, ownerVars, client, buffered, newline, source, future,
                    promise, netVars >>

\* ... or no look at running.
WaitForever ==
    /\ worker = "wait"
    /\ promise[future] # Unset
    /\ Goto(IF running THEN "send" ELSE "close")
    /\ UNCHANGED << qvars, ownerVars, client, buffered, newline, source, future,
                    promise, netVars >>

\* The 50 ms polls: leave on !running, else once the future is ready.
Wait ==
    /\ worker = "wait"
    /\ ~running \/ promise[future] # Unset
    /\ Goto(IF running THEN "send" ELSE "close")
    /\ UNCHANGED << qvars, ownerVars, client, buffered, newline, source, future,
                    promise, netVars >>

\* SendLine: blocks while the client leaves its replies unread, and gives up
\* without a word when the client is gone.
SendLine(line) ==
    \/ /\ ~gone[client] /\ unread[client] < SendWindow
       /\ sent' = [sent EXCEPT ![client] = Append(@, line)]
       /\ unread' = [unread EXCEPT ![client] = @ + 1]
    \/ /\ gone[client]
       /\ UNCHANGED << sent, unread >>

\* Defects of the step after a reply, for the mutants: the newline is not
\* searched for again, or the rest of the buffer is left for the next recv.
SendResultStale ==
    /\ worker = "send"
    /\ SendLine(promise[future])
    /\ Goto("lines")
    /\ UNCHANGED << qvars, ownerVars, client, buffered, newline, source, future, promise,
                    backlog, conn, gone, written, lines, got >>

SendResultOneLine ==
    /\ worker = "send"
    /\ SendLine(promise[future])
    /\ newline' = 0
    /\ Goto("lines")
    /\ UNCHANGED << qvars, ownerVars, client, buffered, source, future, promise,
                    backlog, conn, gone, written, lines, got >>

\* The result goes out and the framing loop searches for the next newline.
SendResult ==
    /\ worker = "send"
    /\ SendLine(promise[future])
    /\ newline' = FindNewline(buffered)
    /\ Goto("lines")
    /\ UNCHANGED << qvars, ownerVars, client, buffered, source, future, promise,
                    backlog, conn, gone, written, lines, got >>

\* The request was rejected: an error line, and `newline` stays as it is.
SendRejected ==
    /\ worker = "reject"
    /\ SendLine(Error)
    /\ Goto("lines")
    /\ UNCHANGED << qvars, ownerVars, client, buffered, newline, source, future, promise,
                    backlog, conn, gone, written, lines, got >>

\* Too many bytes without a newline: an error line, then the connection ends.
SendRefused ==
    /\ worker = "refuse"
    /\ SendLine(Error)
    /\ Goto("close")
    /\ UNCHANGED << qvars, ownerVars, client, buffered, newline, source, future, promise,
                    backlog, conn, gone, written, lines, got >>

\* ServeClient has returned: closesocket(client); its locals are gone.
CloseClient ==
    /\ worker = "close"
    /\ conn' = [conn EXCEPT ![client] = "closed"]
    /\ client' = None
    /\ buffered' = << >> /\ newline' = 0 /\ source' = << >> /\ future' = 0
    /\ Goto("run")
    /\ UNCHANGED << qvars, ownerVars, promise, backlog, gone, written, lines, got, sent, unread >>

-----------------------------------------------------------------------------
(* The clients (outside the repository). *)

Connect(c) ==
    /\ conn[c] = "new" /\ listening
    /\ conn' = [conn EXCEPT ![c] = "queued"]
    /\ backlog' = Append(backlog, c)
    /\ UNCHANGED << qvars, ownerVars, workerVars, promise, gone, written, lines, got, sent, unread >>

Write(c, line) ==
    /\ conn[c] \in {"queued", "serving"} /\ ~gone[c]
    /\ lines < MaxLines
    /\ lines' = lines + 1
    /\ written' = [written EXCEPT ![c] = @ \o line]
    /\ UNCHANGED << qvars, ownerVars, workerVars, promise, backlog, conn, gone, got, sent, unread >>

Read(c) ==
    /\ unread[c] > 0
    /\ unread' = [unread EXCEPT ![c] = @ - 1]
    /\ UNCHANGED << qvars, ownerVars, workerVars, promise, backlog, conn, gone, written, lines, got, sent >>

Leave(c) ==
    /\ conn[c] \in {"queued", "serving"} /\ ~gone[c]
    /\ gone' = [gone EXCEPT ![c] = TRUE]
    /\ UNCHANGED << qvars, ownerVars, workerVars, promise, backlog, conn, written, lines, got, sent, unread >>

-----------------------------------------------------------------------------
Draining == DrainBegin \/ DrainPop \/ DrainReply \/ DrainEnd
Stopping == StopListener \/ StopJoin \/ StopCancel \/ StopEnd
Owner == StartOk \/ StartFails \/ Draining \/ StopFlag \/ Stopping

Worker ==
    \/ RunLoop \/ Accept \/ AcceptFails
    \/ ServeLoop \/ RecvTimeout \/ RecvEnd \/ RecvData
    \/ TakeNext \/ LinesEnd \/ PushLine \/ Wait
    \/ SendResult \/ SendRejected \/ SendRefused \/ CloseClient

Clients ==
    \E c \in Client : Connect(c) \/ Read(c) \/ Leave(c) \/ \E l \in Line : Write(c, l)

Next == Owner \/ Worker \/ Clients

Spec == Init /\ [][Next]_vars

\* The owner keeps ticking and finishes a Stop it began, the worker thread is
\* scheduled, and clients read their replies; nobody has to connect, write,
\* leave, start or stop.
Fairness ==
    /\ WF_vars(Draining) /\ WF_vars(Stopping) /\ WF_vars(Worker)
    /\ \A c \in Client : WF_vars(Read(c))

FairSpec == Spec /\ Fairness

-----------------------------------------------------------------------------
(* What the protocol section of docs/repl-contract.md asks, as a reference: *)
(* split what the client wrote at newlines, drop blank lines, and answer    *)
(* each line in order - with an error when it is too large.                 *)

\* A line begins with the text or after a newline, and ends at the next one.
LinesOf(bytes) ==
    {l \in [after : 0..Len(bytes), end : 1..Len(bytes)] :
        /\ l.after < l.end /\ bytes[l.end] = "\n"
        /\ l.after = 0 \/ bytes[l.after] = "\n"
        /\ \A j \in (l.after + 1)..(l.end - 1) : bytes[j] # "\n"}

TextOf(bytes, l) == StripCR(SubSeq(bytes, l.after + 1, l.end - 1))

AnswerTo(text) == IF Len(text) > MaxRequestBytes THEN Error ELSE Value(text)

\* The lines that are not blank; those that end within n bytes; the i-th.
AskedIn(bytes) == {l \in LinesOf(bytes) : TextOf(bytes, l) # << >>}
Within(bytes, n) == {l \in AskedIn(bytes) : l.end <= n}
Nth(bytes, i) == CHOOSE l \in AskedIn(bytes) : Cardinality(Within(bytes, l.end)) = i

Answers(bytes) ==
    [i \in 1..Cardinality(AskedIn(bytes)) |-> AnswerTo(TextOf(bytes, Nth(bytes, i)))]

\* The client has written only non-blank lines that fit, a "\r" before the
\* newline counted: recv may cut a line right after it, and what is buffered
\* then is measured with the "\r", which TakeNext would have stripped.
Fits(bytes) ==
    \A i \in 1..Len(bytes) : i + MaxRequestBytes <= Len(bytes) =>
        \E j \in i..(i + MaxRequestBytes) : bytes[j] = "\n"

CleanText(bytes) == Fits(bytes) /\ AskedIn(bytes) = LinesOf(bytes)
Clean(c) == CleanText(written[c])

-----------------------------------------------------------------------------
WorkerPC == {"none", "run", "accept", "serve", "recv", "refuse", "lines", "push",
             "wait", "reject", "send", "close", "returned"}

\* Types; in particular only replies, never an unset promise, are sent.
TypeOK ==
    /\ QTypeOK
    /\ owner \in {"stopped", "idle", "draining", "evaluating", "closing", "joining", "cancelling"}
    /\ starts \in 0..MaxStarts /\ lines \in 0..MaxLines
    /\ running \in BOOLEAN /\ listening \in BOOLEAN /\ bound \in BOOLEAN
    /\ worker \in WorkerPC
    /\ client \in Client \cup {None}
    /\ buffered \in Seq(Byte) /\ source \in Seq(Byte)
    /\ newline \in Nat
    /\ future \in 0..MaxSubmissions
    /\ promise \in [1..MaxSubmissions -> Reply \cup {Unset}]
    /\ conn \in [Client -> {"new", "queued", "serving", "closed"}]
    /\ gone \in [Client -> BOOLEAN]
    /\ written \in [Client -> Seq(Byte)]
    /\ got \in [Client -> Nat] /\ unread \in [Client -> Nat]
    /\ sent \in [Client -> Seq(Reply)]
    /\ backlog \in Seq(Client)

WorkerGone == worker \in {"none", "returned"}

\* The queue pointer the worker dereferences (impl.queue->Push) is set for as
\* long as the worker thread runs, and the thread is joined by the time Stop
\* has returned: Stop nulls the pointer only after the join.
WorkerWithinLifetime ==
    /\ ~WorkerGone => bound
    /\ owner = "stopped" => worker = "none"

\* When Stop has returned - the session is freed next - no request is queued
\* or held and each one ever accepted has had its reply: nothing accepted in
\* one lifetime is left for the Drain of the next.
QuietWhenStopped ==
    owner = "stopped" => /\ requests = << >> /\ popped = << >> /\ cancelled = << >>
                         /\ Len(answered) = Len(accepted)

\* The worker waits for each reply before it frames another line, so at most
\* one request is outstanding, and while the worker waits it is the one waited
\* for: through the socket alone the queue can never be full.
OneOutstanding ==
    /\ Len(popped) + Len(cancelled) + Len(requests) <= 1
    /\ worker = "wait" /\ promise[future] = Unset =>
          \E q \in {popped, cancelled, requests} : q # << >> /\ q[1].id = future

\* Where the owner thread is fixes the server's flags and the life of the worker.
Phases ==
    /\ owner = "stopped" => ~running /\ ~bound /\ worker = "none"
    /\ owner \in {"idle", "draining", "evaluating"} => running /\ bound /\ worker # "none"
    /\ owner \in {"closing", "joining"} => ~running /\ bound /\ worker # "none"
    /\ owner = "cancelling" => ~running /\ bound /\ worker = "none"

\* ... and which part of the queue can hold anything.
Holding ==
    /\ popped # << >> <=> owner = "evaluating"
    /\ cancelled # << >> => owner = "cancelling"
    /\ owner \in {"stopped", "cancelling"} => requests = << >>

\* A request not answered yet is the only one, has no reply, and either is
\* what the worker waits for or was left behind by a worker on its way out.
Outstanding ==
    /\ Len(popped) + Len(cancelled) + Len(requests) <= 1
    /\ \A q \in {popped, cancelled, requests} :
          q # << >> => /\ promise[q[1].id] = Unset
                       /\ \/ worker = "wait" /\ q[1].id = future
                          \/ ~running /\ worker \in {"close", "run", "returned", "none"}

\* Requests not submitted yet have no reply; the worker waits for a request
\* that has a reply or is outstanding, and sends only a reply it has.
Promised ==
    /\ \A k \in 1..MaxSubmissions : k > submitted => promise[k] = Unset
    /\ worker \in {"wait", "send"} => future \in 1..MaxSubmissions
    /\ worker = "wait" /\ promise[future] = Unset =>
          popped # << >> \/ cancelled # << >> \/ requests # << >>
    /\ worker = "send" => promise[future] # Unset

\* ServeClient always has a connection.
Serving == worker \notin {"none", "run", "accept", "returned"} => client \in Client

SInv == TypeOK /\ QInv /\ Phases /\ Holding /\ Outstanding /\ Promised /\ Serving

\* Whenever a reply is called its std::promise is still unset, and every other
\* promise keeps its value: Drain and CancelAll never both fulfil one (a second
\* set_value throws on the owner thread).
PromiseSetOnce ==
    [][/\ \A i \in Len(answered) + 1..Len(answered') : promise[answered'[i].id] = Unset
       /\ \A r \in 1..MaxSubmissions :
             promise[r] # Unset => promise'[r] = promise[r]]_<< answered, promise >>

\* As long as a client writes only non-blank lines that fit, the replies it
\* is sent are the answers to its own lines, in order, however TCP cuts the
\* bytes and whatever the owner and the other clients do.
CleanClientFramed == \A c \in Client : Clean(c) => IsPrefix(sent[c], Answers(written[c]))

\* The same with no condition on what the client writes (repl-contract.md:
\* "Blank lines are ignored", "Reject a larger request ... with a textual error").
EveryClientFramed == \A c \in Client : IsPrefix(sent[c], Answers(written[c]))

\* A Stop that has begun returns, if clients write only clean lines.
StopCompletes ==
    []( \A c \in Client : Clean(c)) => ((owner \in {"closing", "joining"}) ~> (owner = "stopped"))

\* A connection being served is sent an answer to every line it writes, until
\* it leaves, is closed or the server stops - if it writes only clean lines.
Unserved(c) == conn[c] = "serving" /\ Len(sent[c]) < Len(Answers(written[c]))
Excused(c) == gone[c] \/ conn[c] = "closed" \/ ~running

CleanClientServed ==
    \A c \in Client : []Clean(c) => (Unserved(c) ~> (~Unserved(c) \/ Excused(c)))

\* The same for every client ("Blank lines are ignored").
EveryClientServed ==
    \A c \in Client : Unserved(c) ~> (~Unserved(c) \/ Excused(c))

\* While the server runs its worker goes on serving ("Networking errors close
\* only that client connection").
ServesWhileRunning == running => worker # "returned"
=============================================================================
