----------------------------- MODULE HttpServer -----------------------------
(* The HTTP server of the TADS 3 VM (tads3/vmnet.cpp, vmnet.h,             *)
(* vmhttpreq.cpp, vmhttpsrv.cpp, vmbifnet.cpp): a listener thread, a       *)
(* thread per connection, the threads that send replies in the background, *)
(* and the VM's own thread, which runs the program.  Requests go to the    *)
(* program through the message queue; the thread of the connection waits   *)
(* until the program has completed its request or the server shuts down.   *)
(*                                                                         *)
(* Events are used as EventSpec describes them (OsEvent implements it); a  *)
(* section under a mutex is a step.  Reference counts are kept as the code *)
(* keeps them, by adding and releasing.                                    *)
EXTENDS Integers, Sequences, SequencesExt, FiniteSets

CONSTANTS Conn,      \* the connections clients make, each with its thread
          MaxReq,    \* MaxReq[c]: how many requests a client sends on c
          Ways,      \* Ways[r]: the ways the program replies to request r
          MaxBackground, \* bound: background replies to a request, their results included
          NoReq, NoConn

Req == UNION {{<<c, n>> : n \in 1 .. MaxReq[c]} : c \in Conn}
Thread(r) == r[1]                            \* TadsHttpRequest::thread

ASSUME HttpAssumption ==
  /\ MaxReq \in [Conn -> Nat \ {0}]
  /\ Ways \in [Req -> SUBSET {"whole", "chunked", "background"}]
  /\ MaxBackground \in Nat
  /\ NoConn \notin Conn /\ NoReq \notin Conn \X Nat

\* The queue holds requests and the results of replies sent in the background.
Message == [type : {"request", "result"}, req : Req]

ListenerPhase == {"wait", "accept", "join", "joinwait", "done"}
ServerPhase == {"none", "launched", "read", "waiting", "release", "close", "cleanup",
                "done"}
SenderPhase == {"sending", "sent", "post"}
\* The VM's thread: in the program, or in getNetEvent, a reply, shutdown(true)
\* or the termination of the VM.
VmPhase == {"run", "wait", "get", "reply", "replied", "chunk", "chunked",
            "joining", "flush", "over"}

VARIABLES
  shutdown,   \* the listener's shutdown_evt, a manual-reset event
  pending,    \* connections not yet accepted
  lpc, joined,           \* the listener's phase, and the thread it waits for
  servers,               \* its list of active server threads, the last added first
  spc, asked,            \* each server thread's phase; requests read so far
  trefs,                 \* reference count of each server thread object
  queue, arrivals,       \* the message queue and the count of its event
  refs, signaled, completed,    \* each request: reference count, ev, completed
  sender,                \* each request: how many background senders are in each phase
  vpc, vreq,             \* the VM's phase and the request it is replying to
  objects,               \* the requests the program has an HTTPRequest object of
  server,                \* the HTTPServer object is there
  doubled                \* history: requests a reply to which was begun while the one
                         \* before was still being sent in the background

listenerVars == <<lpc, joined>>
serverVars == <<spc, asked>>
queueVars == <<queue, arrivals>>
eventVars == <<signaled, completed>>
vmVars == <<vpc, vreq, objects, server, doubled>>
vars == <<shutdown, pending, listenerVars, servers, serverVars, trefs, queueVars,
          refs, eventVars, sender, vmVars>>

Cur(c) == <<c, asked[c]>>

Init ==
  /\ shutdown = FALSE /\ pending = {}
  /\ lpc = "wait" /\ joined = NoConn
  /\ servers = <<>>
  /\ spc = [c \in Conn |-> "none"] /\ asked = [c \in Conn |-> 0]
  /\ trefs = [c \in Conn |-> 0]
  /\ queue = <<>> /\ arrivals = 0
  /\ refs = [r \in Req |-> 0]
  /\ signaled = [r \in Req |-> 0] /\ completed = [r \in Req |-> FALSE]
  /\ sender = [r \in Req |-> [p \in SenderPhase |-> 0]]
  /\ vpc = "run" /\ vreq = NoReq
  /\ objects = {} /\ server = TRUE /\ doubled = {}

-----------------------------------------------------------------------------
(* Reference counts and the queue                                          *)

AddThreadRef(c) == trefs' = [trefs EXCEPT ![c] = @ + 1]
ReleaseThread(c) == trefs' = [trefs EXCEPT ![c] = @ - 1]

\* release_ref on each request of R; one that is deleted lets go of its thread.
ReleaseReqs(R) ==
  /\ refs' = [r \in Req |-> IF r \in R THEN refs[r] - 1 ELSE refs[r]]
  /\ trefs' = [c \in Conn |->
       trefs[c] - Cardinality({r \in R : Thread(r) = c /\ refs[r] = 1})]

\* mutant of Post: the event is set only if the queue was empty.
PostIfEmpty(m) ==
  /\ queue' = Append(queue, m)
  /\ arrivals' = IF queue = <<>> THEN arrivals + 1 ELSE arrivals

\* post(): link the message and set the event, under the queue's mutex.
Post(m) ==
  /\ queue' = Append(queue, m)
  /\ arrivals' = arrivals + 1

Result(r) == [type |-> "result", req |-> r]

-----------------------------------------------------------------------------
(* The clients and the listener thread                                     *)

Connect(c) ==
  /\ spc[c] = "none" /\ c \notin pending
  /\ pending' = pending \cup {c}
  /\ UNCHANGED <<shutdown, listenerVars, servers, serverVars, trefs, queueVars, refs,
                 eventVars, sender, vmVars>>

\* The listener tests the shutdown event before each wait, and waits for it too.
ListenerWakes ==
  /\ lpc = "wait"
  /\ \/ pending # {} /\ lpc' = "accept"
     \/ shutdown /\ lpc' = "join"
  /\ UNCHANGED <<shutdown, pending, joined, servers, serverVars, trefs, queueVars, refs,
                 eventVars, sender, vmVars>>

\* A new server thread: launch() adds the reference of the thread itself, then
\* the listener lets go of its own.
Accept(c) ==
  /\ lpc = "accept" /\ c \in pending
  /\ pending' = pending \ {c}
  /\ spc' = [spc EXCEPT ![c] = "launched"]
  /\ AddThreadRef(c)
  /\ UNCHANGED <<shutdown, listenerVars, servers, asked, queueVars, refs, eventVars,
                 sender, vmVars>>

\* accept() fails, or the thread cannot be launched and is deleted.
AcceptFails ==
  /\ lpc = "accept"
  /\ \/ UNCHANGED <<pending, spc>>
     \/ \E c \in pending : /\ pending' = pending \ {c}
                           /\ spc' = [spc EXCEPT ![c] = "done"]
  /\ shutdown' = TRUE
  /\ lpc' = "join"
  /\ UNCHANGED <<joined, servers, asked, trefs, queueVars, refs, eventVars, sender, vmVars>>

AcceptEnds ==
  /\ lpc = "accept" /\ pending = {}
  /\ lpc' = IF shutdown THEN "join" ELSE "wait"
  /\ UNCHANGED <<shutdown, pending, joined, servers, serverVars, trefs, queueVars, refs,
                 eventVars, sender, vmVars>>

\* The first thread of the list is looked up under the mutex, then waited for.
ListenerJoin ==
  /\ lpc = "join"
  /\ IF servers = <<>>
     THEN lpc' = "done" /\ UNCHANGED <<joined, trefs>>
     ELSE /\ lpc' = "joinwait"
          /\ joined' = Head(servers)
          /\ AddThreadRef(Head(servers))
  /\ UNCHANGED <<shutdown, pending, servers, serverVars, queueVars, refs, eventVars,
                 sender, vmVars>>

ListenerJoined ==
  /\ lpc = "joinwait" /\ spc[joined] = "done"
  /\ lpc' = "join" /\ joined' = NoConn
  /\ ReleaseThread(joined)
  /\ UNCHANGED <<shutdown, pending, servers, serverVars, queueVars, refs, eventVars,
                 sender, vmVars>>

-----------------------------------------------------------------------------
(* The server threads                                                      *)

\* The thread tests the shutdown event before each request.
NextTurn(c) == spc' = [spc EXCEPT ![c] = IF shutdown THEN "close" ELSE "read"]

\* mutant of AddThread: the list takes no reference on the thread.
AddThreadNoRef(c) ==
  /\ spc[c] = "launched"
  /\ NextTurn(c)
  /\ servers' = <<c>> \o servers
  /\ UNCHANGED <<shutdown, pending, listenerVars, asked, trefs, queueVars, refs, eventVars,
                 sender, vmVars>>

\* A launched thread adds itself to the listener's list.
AddThread(c) ==
  /\ spc[c] = "launched"
  /\ NextTurn(c)
  /\ servers' = <<c>> \o servers
  /\ AddThreadRef(c)
  /\ UNCHANGED <<shutdown, pending, listenerVars, asked, queueVars, refs, eventVars,
                 sender, vmVars>>

\* A request has been read: its message is made, with a reference on the thread,
\* and sent - the queue gets the thread's reference, which has taken another.
SendRequest(c) ==
  /\ spc[c] = "read" /\ asked[c] < MaxReq[c]
  /\ LET r == <<c, asked[c] + 1>> IN
       /\ asked' = [asked EXCEPT ![c] = @ + 1]
       /\ refs' = [refs EXCEPT ![r] = 2]
       /\ Post([type |-> "request", req |-> r])
  /\ AddThreadRef(c)
  /\ spc' = [spc EXCEPT ![c] = "waiting"]
  /\ UNCHANGED <<shutdown, pending, listenerVars, servers, eventVars, sender, vmVars>>

\* The client has closed the connection or sent no proper request, or the
\* shutdown event has ended a wait for the socket.
ReadFails(c) ==
  /\ spc[c] = "read"
  /\ spc' = [spc EXCEPT ![c] = "close"]
  /\ UNCHANGED <<shutdown, pending, listenerVars, servers, asked, trefs, queueVars, refs,
                 eventVars, sender, vmVars>>

\* mutant of WaitForCompletion: the wait does not end on the shutdown event.
WaitForReplyOnly(c) ==
  /\ spc[c] = "waiting"
  /\ signaled[Cur(c)] > 0
  /\ signaled' = [signaled EXCEPT ![Cur(c)] = @ - 1]
  /\ spc' = [spc EXCEPT ![c] = "release"]
  /\ UNCHANGED <<shutdown, pending, listenerVars, servers, asked, trefs, queueVars, refs,
                 completed, sender, vmVars>>

\* The wait for the reply ends when the request is completed or the server shuts
\* down; if both have happened multi_wait may report either.  On a shutdown the
\* thread sends an error page and leaves the message where it is, in the queue or
\* with the VM.
WaitForCompletion(c) ==
  /\ spc[c] = "waiting"
  /\ spc' = [spc EXCEPT ![c] = "release"]
  /\ \/ /\ signaled[Cur(c)] > 0
        /\ signaled' = [signaled EXCEPT ![Cur(c)] = @ - 1]
     \/ shutdown /\ UNCHANGED signaled
  /\ UNCHANGED <<shutdown, pending, listenerVars, servers, asked, trefs, queueVars, refs,
                 completed, sender, vmVars>>

ReleaseRequest(c) ==
  /\ spc[c] = "release"
  /\ ReleaseReqs({Cur(c)})
  /\ NextTurn(c)
  /\ UNCHANGED <<shutdown, pending, listenerVars, servers, asked, queueVars, eventVars,
                 sender, vmVars>>

\* The socket is closed, and the thread takes itself off the list.
RemoveThread(c) ==
  /\ spc[c] = "close"
  /\ spc' = [spc EXCEPT ![c] = "cleanup"]
  /\ \E i \in DOMAIN servers : servers[i] = c /\ servers' = RemoveAt(servers, i)
  /\ ReleaseThread(c)
  /\ UNCHANGED <<shutdown, pending, listenerVars, asked, queueVars, refs, eventVars,
                 sender, vmVars>>

\* sys_thread_cleanup: the thread's own reference goes, then done_evt is set.
ThreadExits(c) ==
  /\ spc[c] = "cleanup"
  /\ spc' = [spc EXCEPT ![c] = "done"]
  /\ ReleaseThread(c)
  /\ UNCHANGED <<shutdown, pending, listenerVars, servers, asked, queueVars, refs,
                 eventVars, sender, vmVars>>

-----------------------------------------------------------------------------
(* The VM's thread: getNetEvent                                            *)

GetNetEvent ==
  /\ vpc = "run"
  /\ vpc' = "wait"
  /\ UNCHANGED <<shutdown, pending, listenerVars, servers, serverVars, trefs, queueVars,
                 refs, eventVars, sender, vreq, objects, server, doubled>>

\* The wait for the queue's event ends; the VM's queue has no quit event.
QueueEvent ==
  /\ vpc = "wait" /\ arrivals > 0
  /\ arrivals' = arrivals - 1
  /\ vpc' = "get"
  /\ UNCHANGED <<shutdown, pending, listenerVars, servers, serverVars, trefs, queue, refs,
                 eventVars, sender, vreq, objects, server, doubled>>

QueueTimeout ==
  /\ vpc = "wait"
  /\ vpc' = "run"
  /\ UNCHANGED <<shutdown, pending, listenerVars, servers, serverVars, trefs, queueVars,
                 refs, eventVars, sender, vreq, objects, server, doubled>>

\* The first message becomes an event object.  For a request that is a new
\* HTTPRequest object, with a reference on the request.  Then the message is
\* released: the queue's reference on a request, or the result and with it its
\* reference.
GetMessage ==
  /\ vpc = "get"
  /\ vpc' = "run"
  /\ IF queue = <<>> THEN UNCHANGED <<queue, refs, trefs, objects>>
     ELSE /\ queue' = Tail(queue)
          /\ LET m == Head(queue) IN
             IF m.type = "request"
             THEN /\ objects' = objects \cup {m.req}
                  /\ UNCHANGED <<refs, trefs>>     \* add_ref, release_ref
             ELSE ReleaseReqs({m.req}) /\ UNCHANGED objects
  /\ UNCHANGED <<shutdown, pending, listenerVars, servers, serverVars, arrivals,
                 eventVars, sender, vreq, server, doubled>>

-----------------------------------------------------------------------------
(* Replies                                                                 *)

\* How many threads there are, and how many have not completed the request yet, if
\* s[p] of them are in phase p.
Threads(s) == s["sending"] + s["sent"] + s["post"]
Unfinished(s) == s["sending"] + s["sent"]

\* Replies under way in the background, from sendReplyAsync until the result has
\* been delivered; a global variable (reqvar) keeps the HTTPRequest object meanwhile.
Background(r) == Threads(sender[r])
Results(r) == {i \in DOMAIN queue : queue[i] = Result(r)}
InBackground(r) == Background(r) > 0 \/ Results(r) # {}

\* mutant of MayReply: the request is not looked at.
MayReplyAlways(r, way) == vpc = "run" /\ r \in objects /\ way \in Ways[r]

\* What every reply method checks: completed, which a background sender sets at its
\* end.  That a reply to the request is being sent is not looked at.
MayReply(r, way) ==
  /\ vpc = "run" /\ r \in objects /\ way \in Ways[r]
  /\ ~completed[r]

\* A reply is begun.
NoteReply(r) ==
  doubled' = IF Unfinished(sender[r]) > 0 THEN doubled \cup {r} ELSE doubled

\* sendReply: the reply sender holds a reference on the request.
SendReply(r) ==
  /\ MayReply(r, "whole") /\ NoteReply(r)
  /\ vpc' = "reply" /\ vreq' = r
  /\ refs' = [refs EXCEPT ![r] = @ + 1]
  /\ UNCHANGED <<shutdown, pending, listenerVars, servers, serverVars, trefs, queueVars,
                 eventVars, sender, objects, server>>

\* complete(), in two steps, however the sending went: the event, then the flag.
ReplySent ==
  /\ vpc = "reply"
  /\ vpc' = "replied"
  /\ signaled' = [signaled EXCEPT ![vreq] = @ + 1]
  /\ UNCHANGED <<shutdown, pending, listenerVars, servers, serverVars, trefs, queueVars,
                 refs, completed, sender, vreq, objects, server, doubled>>

ReplyDone ==
  /\ vpc = "replied"
  /\ vpc' = "run" /\ vreq' = NoReq
  /\ completed' = [completed EXCEPT ![vreq] = TRUE]
  /\ ReleaseReqs({vreq})
  /\ UNCHANGED <<shutdown, pending, listenerVars, servers, serverVars, queueVars,
                 signaled, sender, objects, server, doubled>>

\* startChunkedReply, sendReplyChunk, endChunkedReply: one call writes one piece.
SendChunk(r) ==
  /\ MayReply(r, "chunked") /\ NoteReply(r)
  /\ vpc' = "chunk" /\ vreq' = r
  /\ UNCHANGED <<shutdown, pending, listenerVars, servers, serverVars, trefs, queueVars,
                 refs, eventVars, sender, objects, server>>

\* It was not the last piece, or sending it has failed and an error is thrown;
\* or it was the end of the reply, which completes the request.
ChunkSent ==
  /\ vpc = "chunk"
  /\ \/ vpc' = "run" /\ vreq' = NoReq /\ UNCHANGED signaled
     \/ /\ vpc' = "chunked"
        /\ signaled' = [signaled EXCEPT ![vreq] = @ + 1]
        /\ UNCHANGED vreq
  /\ UNCHANGED <<shutdown, pending, listenerVars, servers, serverVars, trefs, queueVars,
                 refs, completed, sender, objects, server, doubled>>

ChunkedDone ==
  /\ vpc = "chunked"
  /\ vpc' = "run" /\ vreq' = NoReq
  /\ completed' = [completed EXCEPT ![vreq] = TRUE]
  /\ UNCHANGED <<shutdown, pending, listenerVars, servers, serverVars, trefs, queueVars,
                 refs, signaled, sender, objects, server, doubled>>

\* A background sender of r goes from one phase to the next.
SenderGoes(r, from, to) ==
  /\ sender[r][from] > 0
  /\ sender' = [sender EXCEPT ![r][from] = @ - 1, ![r][to] = @ + 1]

\* sendReplyAsync: a thread that shares the sender - or, if it cannot be launched,
\* the result at once, without completing the request.
SendReplyAsync(r) ==
  /\ MayReply(r, "background")
  /\ Background(r) + Cardinality(Results(r)) < MaxBackground
  /\ refs' = [refs EXCEPT ![r] = @ + 1]
  /\ \/ /\ sender' = [sender EXCEPT ![r]["sending"] = @ + 1] /\ NoteReply(r)
        /\ UNCHANGED queueVars
     \/ Post(Result(r)) /\ UNCHANGED <<sender, doubled>>
  /\ UNCHANGED <<shutdown, pending, listenerVars, servers, serverVars, trefs, eventVars,
                 vpc, vreq, objects, server>>

SenderSends(r) ==
  /\ SenderGoes(r, "sending", "sent")
  /\ signaled' = [signaled EXCEPT ![r] = @ + 1]
  /\ UNCHANGED <<shutdown, pending, listenerVars, servers, serverVars, trefs, queueVars,
                 refs, completed, vmVars>>

SenderCompletes(r) ==
  /\ SenderGoes(r, "sent", "post")
  /\ completed' = [completed EXCEPT ![r] = TRUE]
  /\ UNCHANGED <<shutdown, pending, listenerVars, servers, serverVars, trefs, queueVars,
                 refs, signaled, vmVars>>

\* mutant of SenderPosts: the sender releases the request it has handed over.
SenderPostsReleasing(r) ==
  /\ sender[r]["post"] > 0
  /\ sender' = [sender EXCEPT ![r]["post"] = @ - 1]
  /\ Post(Result(r))
  /\ ReleaseReqs({r})
  /\ UNCHANGED <<shutdown, pending, listenerVars, servers, serverVars, eventVars, vmVars>>

\* post_done_event: the result takes over the sender's reference.
SenderPosts(r) ==
  /\ sender[r]["post"] > 0
  /\ sender' = [sender EXCEPT ![r]["post"] = @ - 1]
  /\ Post(Result(r))
  /\ UNCHANGED <<shutdown, pending, listenerVars, servers, serverVars, trefs, refs,
                 eventVars, vmVars>>

-----------------------------------------------------------------------------
(* Shutdown, the collector and the end of the VM                           *)

\* shutdown(wait?)
Shutdown(wait) ==
  /\ vpc = "run" /\ server
  /\ shutdown' = TRUE
  /\ vpc' = IF wait THEN "joining" ELSE "run"
  /\ UNCHANGED <<pending, listenerVars, servers, serverVars, trefs, queueVars, refs,
                 eventVars, sender, vreq, objects, server, doubled>>

ShutdownReturns ==
  /\ vpc = "joining" /\ lpc = "done"
  /\ vpc' = "run"
  /\ UNCHANGED <<shutdown, pending, listenerVars, servers, serverVars, trefs, queueVars,
                 refs, eventVars, sender, vreq, objects, server, doubled>>

\* The collector deletes an HTTPRequest object the program has dropped.
CollectRequest(r) ==
  /\ vpc = "run" /\ r \in objects /\ ~InBackground(r)
  /\ objects' = objects \ {r}
  /\ ReleaseReqs({r})
  /\ UNCHANGED <<shutdown, pending, listenerVars, servers, serverVars, queueVars,
                 eventVars, sender, vpc, vreq, server, doubled>>

\* ... and the HTTPServer object: notify_delete shuts the listener down and takes the
\* object from it.  HTTPRequest objects do not keep it: they are made as objects
\* without references (vmhttpreq.cpp:134), which the collector does not trace.
CollectServer ==
  /\ vpc = "run" /\ server
  /\ server' = FALSE
  /\ shutdown' = TRUE
  /\ UNCHANGED <<pending, listenerVars, servers, serverVars, trefs, queueVars, refs,
                 eventVars, sender, vpc, vreq, objects, doubled>>

\* The VM ends: clear_obj_table deletes every object, then the function set of
\* the network is detached and flushes the queue.
Terminate ==
  /\ vpc = "run"
  /\ vpc' = "flush"
  /\ ReleaseReqs(objects)
  /\ objects' = {} /\ server' = FALSE
  /\ shutdown' = TRUE
  /\ UNCHANGED <<pending, listenerVars, servers, serverVars, queueVars, eventVars,
                 sender, vreq, doubled>>

Flush ==
  /\ vpc = "flush"
  /\ IF queue = <<>> THEN vpc' = "over" /\ UNCHANGED <<queue, refs, trefs>>
                     ELSE /\ queue' = Tail(queue)
                          /\ ReleaseReqs({Head(queue).req})
                          /\ UNCHANGED vpc
  /\ UNCHANGED <<shutdown, pending, listenerVars, servers, serverVars, arrivals,
                 eventVars, sender, vreq, objects, server, doubled>>

-----------------------------------------------------------------------------
ListenerStep ==
  \/ ListenerWakes \/ AcceptFails \/ AcceptEnds
  \/ ListenerJoin \/ ListenerJoined
  \/ \E c \in Conn : Accept(c)

\* What a server thread does by itself, or when the shutdown event wakes it.
ServerStep(c) ==
  \/ AddThread(c) \/ (shutdown /\ ReadFails(c))
  \/ WaitForCompletion(c) \/ ReleaseRequest(c)
  \/ RemoveThread(c) \/ ThreadExits(c)

SenderStep(r) == SenderSends(r) \/ SenderCompletes(r) \/ SenderPosts(r)

\* What the VM's thread does inside a built-in.
VmStep ==
  \/ QueueEvent \/ GetMessage \/ ReplySent \/ ReplyDone \/ ChunkSent \/ ChunkedDone
  \/ ShutdownReturns \/ Flush

Program ==
  \/ GetNetEvent \/ QueueTimeout \/ CollectServer \/ Terminate
  \/ \E wait \in BOOLEAN : Shutdown(wait)
  \/ \E r \in Req : SendReply(r) \/ SendChunk(r) \/ SendReplyAsync(r) \/ CollectRequest(r)

Next ==
  \/ ListenerStep \/ VmStep \/ Program
  \/ \E c \in Conn : Connect(c) \/ SendRequest(c) \/ ReadFails(c) \/ ServerStep(c)
  \/ \E r \in Req : SenderStep(r)

Spec == Init /\ [][Next]_vars

\* The scheduler runs every thread that can run.  Nothing is assumed of the
\* clients, nor of the program between two calls of the VM; and nobody waits for
\* the background senders, which may take any time.
Fairness ==
  /\ WF_vars(ListenerStep) /\ WF_vars(VmStep)
  /\ \A c \in Conn : WF_vars(ServerStep(c))

FairSpec == Spec /\ Fairness

-----------------------------------------------------------------------------
\* The types of the variables.
TypeOK ==
  /\ shutdown \in BOOLEAN /\ pending \in SUBSET Conn
  /\ lpc \in ListenerPhase /\ joined \in Conn \cup {NoConn}
  /\ servers \in Seq(Conn) /\ IsInjective(servers)
  /\ spc \in [Conn -> ServerPhase] /\ asked \in [Conn -> Nat]
  /\ \A c \in Conn : asked[c] <= MaxReq[c]
  /\ trefs \in [Conn -> Nat] /\ refs \in [Req -> Nat]
  /\ queue \in Seq(Message) /\ arrivals \in Nat
  /\ signaled \in [Req -> Nat] /\ completed \in [Req -> BOOLEAN]
  /\ sender \in [Req -> [SenderPhase -> Nat]]
  /\ vpc \in VmPhase /\ vreq \in Req \cup {NoReq}
  /\ objects \in SUBSET Req
  /\ server \in BOOLEAN /\ doubled \in SUBSET Req

One(b) == IF b THEN 1 ELSE 0

\* Who holds a reference on a request: its server thread while it handles it,
\* messages in the queue, the HTTPRequest object, whoever is sending the reply.
HoldersOf(r) ==
  One(Cur(Thread(r)) = r /\ spc[Thread(r)] \in {"waiting", "release"})
  + Cardinality({i \in DOMAIN queue : queue[i].req = r})
  + One(r \in objects)
  + One(vreq = r /\ vpc \in {"reply", "replied"})
  + Background(r)

\* Who holds a reference on a server thread: itself, the listener's list, the
\* listener that waits for it, and every request that is not yet deleted.
ThreadHolders(c) ==
  One(spc[c] \notin {"none", "done"})
  + One(Contains(servers, c))
  + One(joined = c)
  + Cardinality({r \in Req : Thread(r) = c /\ refs[r] > 0})

\* Every reference count is the number of those who hold a reference: nothing is
\* deleted while another thread may still use it, and nothing leaks - although a
\* request is handed from the server thread to the queue, the VM, a sender and the
\* queue again, each of which lets go of it on its own (vmnet.h, vmhttpreq.cpp).
RefsExact ==
  /\ \A r \in Req : refs[r] = HoldersOf(r)
  /\ \A c \in Conn : trefs[c] = ThreadHolders(c)

\* The queue's event counts its messages, so that the VM neither sleeps on a
\* message nor looks for one in vain; flush, which leaves the event alone, runs
\* only when nobody waits any more (post, wait and get of TadsMessageQueue).
EventCountsMessages ==
  vpc \notin {"flush", "over"} => arrivals + One(vpc = "get") = Len(queue)

\* How many threads are writing a reply to r.
Writers(r) == One(vreq = r /\ vpc \in {"reply", "chunk"}) + sender[r]["sending"]

\* Until the server shuts down, a reply is written to a connection only while its
\* server thread waits for the reply to just that request, and by one writer: the
\* threads share the socket without a lock (completed, wait_for_completion).  A
\* request the program replies to again while a reply to it is still being sent is
\* excepted - the code does not prevent that - but it disturbs no other request's
\* reply by more than what it writes itself.
ReplyInTurn ==
  ~shutdown =>
    \A r \in Req \ doubled : Writers(r) > 0 =>
      /\ spc[Thread(r)] = "waiting" /\ Cur(Thread(r)) = r /\ signaled[r] = 0
      /\ Writers(r) = 1
      /\ \A q \in Req \ (doubled \cup {r}) : Writers(q) > 0 => Thread(q) # Thread(r)

\* Nobody waits for ever: after a shutdown the listener and every server thread end,
\* also those that were launched or still waited for a reply, and so does
\* shutdown(true), in which the VM waits for the listener, which waits for the server
\* threads, which wait for the VM.
EveryoneWakes ==
  shutdown ~> /\ lpc = "done" /\ vpc # "joining"
              /\ \A c \in Conn : spc[c] \in {"none", "done"}
=============================================================================
