------------------------------ MODULE Reactor ------------------------------
(***************************************************************************)
(* The connection engine of the API server: the single epoll thread of     *)
(* server.cpp (epoll_loop and every handler it calls), the table of        *)
(* requests it owns (buffers), the dispatch queue it fills, the worker     *)
(* threads that empty it and the ready queue through which answered        *)
(* requests come back.                                                     *)
(*                                                                         *)
(* The kernel (sockets, the descriptor table, the edge-triggered ready     *)
(* list of epoll) and the clients are the environment, modelled by what    *)
(* the code relies on.  The bytes of a request are counted in pieces, the  *)
(* answer is RespLen chunks, each as large as one send() takes.            *)
(***************************************************************************)
EXTENDS Integers, Sequences, FiniteSets, RequestShape

CONSTANTS
    Fds,          \* descriptors accept4 may return
    Conns,        \* client connections; each carries one request
    Workers,      \* threads of m_pool
    Shapes,       \* the requests a client may send
    Mixes,        \* which connection may send which of them
    RespLen,      \* chunks of an answer
    SndBuf,       \* chunks the kernel buffers for a client that does not read
    Extra,        \* pieces a client may send beyond its request
    MaxEvents,    \* MAXEVENTS of epoll_loop
    Errors,       \* TRUE: a socket may report an error without a hang-up
    Signals,      \* TRUE: SIGINT/SIGTERM/SIGQUIT may arrive
    NoConn, NoFd, NoReq

Statuses == {"none", "bad_request", "forbidden", "not_found", "ok",
             "options", "served"}

(* conn is history: which connection the bytes of the request came from.   *)
Request == [fd : Fds, conn : Conns, got : Nat, status : Statuses,
            pos : 0 .. RespLen]

ASSUME ShapesAssumption == /\ Shapes \subseteq Shape
                           /\ Mixes \subseteq [Conns -> Shapes]
ASSUME BoundsAssumption == /\ RespLen \in Nat \ {0}
                           /\ SndBuf \in Nat \ {0}
                           /\ Extra \in Nat
                           /\ MaxEvents \in Nat \ {0}
                           /\ Errors \in BOOLEAN
                           /\ Signals \in BOOLEAN
ASSUME NullAssumption == NoConn \notin Conns /\ NoFd \notin Fds /\ NoReq \notin Request
(* A process has a bounded descriptor table, m_pool a fixed size.          *)
ASSUME FiniteAssumption == IsFiniteSet(Fds) /\ IsFiniteSet(Workers)

VARIABLES
    \* clients and kernel
    peer,         \* peer[c]: how far the client is with connection c
    shape,        \* shape[c]: the request it sends
    sent,         \* sent[c]: pieces it has sent
    inq,          \* inq[c]: pieces in the receive queue
    wire,         \* wire[c]: chunks send() has accepted for c
    acked,        \* acked[c]: chunks the client has taken
    backlog,      \* connections waiting in the listen queue
    signalled,    \* a signal is pending on m_signal
    fdtab,        \* fdtab[f]: the connection descriptor f is open on
    interest,     \* interest[f]: events f is registered for ({}: not in epoll)
    ready,        \* the ready list of the epoll instance
    \* the epoll thread
    pc,           \* where it is in its loop
    cur,          \* the descriptor being read or written
    batch,        \* batch[f]: events of f returned by epoll_wait, not handled yet
    listenEv,     \* the batch holds an event of listen_fd
    signalEv,     \* the batch holds an event of m_signal
    buffers,      \* buffers[f], the map from a descriptor to its request
    connections,  \* m_metrics.connections
    \* shared with the workers
    queue,        \* m_queue
    working,      \* working[w]: the request worker w has taken
    exited,       \* workers whose thread has ended
    readyq        \* m_ready_queue

env    == <<peer, shape, sent, inq, acked, backlog, signalled>>
kernel == <<fdtab, interest, ready, wire>>
loop   == <<pc, cur, batch, listenEv, signalEv>>
pool   == <<queue, working, exited, readyq>>
vars   == <<env, kernel, loop, buffers, connections, pool>>

Events == {"IN", "OUT", "RDHUP", "HUP", "ERR"}
Peers  == {"idle", "open", "fin", "rst", "err"}
Pcs    == {"wait", "drain", "dispatch", "accept", "read", "write", "stopped"}

Need(c) == shape[c].head + shape[c].body
Room(c) == SndBuf - (Len(wire[c]) - acked[c])

Free(f)   == fdtab[f] = NoConn
Gone(c)   == peer[c] \in {"fin", "rst"}
Failed(c) == peer[c] \in {"rst", "err"}

-----------------------------------------------------------------------------
(* The kernel's side of epoll.                                             *)

(* What poll() reports of a TCP socket.                                    *)
Poll(c) == (IF inq[c] > 0 \/ Gone(c) THEN {"IN"} ELSE {})
      \cup (IF Room(c) > 0 \/ peer[c] = "rst" THEN {"OUT"} ELSE {})
      \cup (IF Gone(c) THEN {"RDHUP"} ELSE {})
      \cup (IF peer[c] = "rst" THEN {"HUP"} ELSE {})
      \cup (IF Failed(c) THEN {"ERR"} ELSE {})

(* ERR and HUP are reported whether or not they were asked for.            *)
Revents(f) == Poll(fdtab[f]) \cap (interest[f] \cup {"HUP", "ERR"})

(* An edge on connection c: the descriptor registered for one of the       *)
(* events joins the ready list.  Every registered descriptor asks for      *)
(* RDHUP, so an edge that carries it reaches whatever is registered.       *)
Edge(c, events) ==
    ready' = ready \cup {f \in Fds : fdtab[f] = c /\ interest[f] \cap events # {}}

(* EPOLL_CTL_ADD and EPOLL_CTL_MOD look at the descriptor afresh.  Joining *)
(* the ready list is not yet an event: epoll_wait polls again.             *)
Register(f, events) == /\ interest' = [interest EXCEPT ![f] = events]
                       /\ ready' = ready \cup {f}

\* Mutant of Deregister: EPOLL_CTL_DEL is forgotten.
DeregisterNothing(f) == UNCHANGED <<interest, ready>>

Deregister(f) == /\ interest' = [interest EXCEPT ![f] = {}]
                 /\ ready' = ready \ {f}

(* close(fd) also takes the descriptor out of the epoll instance.          *)
CloseFd(f) == fdtab' = [fdtab EXCEPT ![f] = NoConn] /\ Deregister(f)

-----------------------------------------------------------------------------
(* Clients and network.                                                    *)

Connect(c) ==
    /\ peer[c] = "idle"
    /\ peer' = [peer EXCEPT ![c] = "open"]
    /\ backlog' = backlog \cup {c}
    /\ UNCHANGED <<shape, sent, inq, acked, signalled>>
    /\ UNCHANGED <<kernel, loop, buffers, connections, pool>>

SendPiece(c) ==
    /\ peer[c] = "open" /\ sent[c] < Need(c) + Extra
    /\ sent' = [sent EXCEPT ![c] = @ + 1]
    /\ inq' = [inq EXCEPT ![c] = @ + 1]
    /\ Edge(c, {"IN"})
    /\ UNCHANGED <<peer, shape, acked, backlog, signalled>>
    /\ UNCHANGED <<fdtab, interest, wire, loop, buffers, connections, pool>>

Leave(c, how) ==
    /\ peer' = [peer EXCEPT ![c] = how]
    /\ Edge(c, Events)
    /\ UNCHANGED <<shape, sent, inq, acked, backlog, signalled>>
    /\ UNCHANGED <<fdtab, interest, wire, loop, buffers, connections, pool>>

Close(c)       == peer[c] = "open" /\ Leave(c, "fin")
Reset(c)       == peer[c] \in {"open", "fin"} /\ Leave(c, "rst")
SocketError(c) == Errors /\ peer[c] = "open" /\ Leave(c, "err")

(* The client reads a chunk: the send buffer has room again.               *)
Receive(c) ==
    /\ peer[c] \in {"open", "fin"} /\ acked[c] < Len(wire[c])
    /\ acked' = [acked EXCEPT ![c] = @ + 1]
    /\ Edge(c, {"OUT"})
    /\ UNCHANGED <<peer, shape, sent, inq, backlog, signalled>>
    /\ UNCHANGED <<fdtab, interest, wire, loop, buffers, connections, pool>>

Signal ==
    /\ Signals /\ ~signalled
    /\ signalled' = TRUE
    /\ UNCHANGED <<peer, shape, sent, inq, acked, backlog>>
    /\ UNCHANGED <<kernel, loop, buffers, connections, pool>>

-----------------------------------------------------------------------------
(* The epoll thread: epoll_wait, then the ready queue, then each event.    *)

(* The batch is what the ready list still reports when polled again; what  *)
(* does not fit in MaxEvents stays on the list.  With EPOLLET an event     *)
(* leaves the list when it is reported; the listening socket and the       *)
(* signal descriptor are level triggered.  A timeout is an empty batch.    *)
EpollWait ==
    /\ pc = "wait"
    /\ \E take \in SUBSET ready :
         /\ Cardinality(take) <= MaxEvents
         /\ ready \ take # {} => Cardinality(take) = MaxEvents
         /\ batch' = [f \in Fds |-> IF f \in take THEN Revents(f) ELSE {}]
         /\ ready' = ready \ take
    /\ listenEv' = (backlog # {})
    /\ signalEv' = signalled
    /\ pc' = "drain"
    /\ UNCHANGED <<env, fdtab, interest, wire, cur, buffers, connections, pool>>

(* try_emplace and insert_or_assign succeed as insertions.                 *)
\* Mutant of Fresh: the result of the insertion is not looked at.
AlwaysFresh(f) == TRUE

Fresh(f) == buffers[f] = NoReq

(* check_ready_queue, one request per step under m_ready_mutex: back into  *)
(* the map and, where the map had no such descriptor, back into epoll.     *)
DrainOne ==
    /\ pc = "drain" /\ readyq # <<>>
    /\ LET r == Head(readyq) IN
         /\ buffers' = [buffers EXCEPT ![r.fd] = r]
         /\ IF Fresh(r.fd)
              THEN Register(r.fd, {"OUT", "RDHUP"})
              ELSE UNCHANGED <<interest, ready>>
    /\ readyq' = Tail(readyq)
    /\ UNCHANGED <<env, fdtab, wire, loop, connections, queue, working, exited>>

DrainDone ==
    /\ pc = "drain" /\ readyq = <<>>
    /\ pc' = "dispatch"
    /\ UNCHANGED <<env, kernel, cur, batch, listenEv, signalEv>>
    /\ UNCHANGED <<buffers, connections, pool>>

HangUp(f) == batch[f] \cap {"RDHUP", "HUP"} # {}

(* epoll_handle_close and epoll_handle_error do the same to the state: the *)
(* counter goes down even when the descriptor has no request.              *)
Drop(f) ==
    /\ connections' = connections - 1
    /\ batch' = [batch EXCEPT ![f] = {}]
    /\ IF buffers[f] = NoReq
         THEN UNCHANGED <<fdtab, interest, ready, buffers>>
         ELSE CloseFd(buffers[f].fd) /\ buffers' = [buffers EXCEPT ![f] = NoReq]
    /\ UNCHANGED <<env, wire, pc, cur, listenEv, signalEv, pool>>

HandleClose(f) == pc = "dispatch" /\ HangUp(f) /\ Drop(f)

HandleError(f) ==
    /\ pc = "dispatch" /\ ~HangUp(f) /\ "ERR" \in batch[f]
    /\ Drop(f)

(* epoll_handle_IO picks the handler; an event without a request is logged *)
(* and forgotten.                                                          *)
\* Mutant of HandleIO: the event stays in the array and is handled again.
HandleIOTwice(f) ==
    /\ pc = "dispatch" /\ ~HangUp(f)
    /\ batch[f] # {} /\ "ERR" \notin batch[f] /\ buffers[f] # NoReq
    /\ pc' = IF "IN" \in batch[f] THEN "read" ELSE "write"
    /\ cur' = f
    /\ UNCHANGED <<env, kernel, batch, listenEv, signalEv, buffers, connections, pool>>

HandleIO(f) ==
    /\ pc = "dispatch" /\ ~HangUp(f)
    /\ batch[f] # {} /\ "ERR" \notin batch[f]
    /\ batch' = [batch EXCEPT ![f] = {}]
    /\ IF buffers[f] = NoReq
         THEN UNCHANGED <<pc, cur>>
         ELSE /\ pc' = IF "IN" \in batch[f] THEN "read" ELSE "write"
              /\ cur' = f
    /\ UNCHANGED <<env, kernel, listenEv, signalEv, buffers, connections, pool>>

HandleConnect ==
    /\ pc = "dispatch" /\ listenEv
    /\ listenEv' = FALSE
    /\ pc' = "accept"
    /\ UNCHANGED <<env, kernel, cur, batch, signalEv, buffers, connections, pool>>

(* A stop signal ends epoll_loop at once, whatever the batch still holds.  *)
HandleSignal ==
    /\ pc = "dispatch" /\ signalEv
    /\ signalEv' = FALSE
    /\ pc' = "stopped"
    /\ UNCHANGED <<env, kernel, cur, batch, listenEv, buffers, connections, pool>>

BatchDone ==
    /\ pc = "dispatch" /\ ~listenEv /\ ~signalEv
    /\ \A f \in Fds : batch[f] = {}
    /\ pc' = "wait"
    /\ UNCHANGED <<env, kernel, cur, batch, listenEv, signalEv>>
    /\ UNCHANGED <<buffers, connections, pool>>

(* One turn of the loop of epoll_handle_connect.  Descriptors are also     *)
(* opened and closed by other threads (databases, mail), so accept4 may    *)
(* return any free one.  try_emplace keeps an entry that is already there, *)
(* and then the new socket is left as it is: open, in no table.            *)
Accept ==
    /\ pc = "accept"
    /\ \E c \in backlog, f \in {g \in Fds : Free(g)} :
         /\ backlog' = backlog \ {c}
         /\ fdtab' = [fdtab EXCEPT ![f] = c]
         /\ IF Fresh(f)
              THEN /\ buffers' = [buffers EXCEPT ![f] =
                        [fd |-> f, conn |-> c, got |-> 0, status |-> "none", pos |-> 0]]
                   /\ Register(f, {"IN", "RDHUP"})
                   /\ pc' = "accept"
              ELSE /\ UNCHANGED <<buffers, interest, ready>>
                   /\ pc' = "dispatch"
    /\ connections' = connections + 1
    /\ UNCHANGED <<peer, shape, sent, inq, acked, signalled>>
    /\ UNCHANGED <<wire, cur, batch, listenEv, signalEv, pool>>

(* EAGAIN, or EMFILE.                                                      *)
AcceptFails ==
    /\ pc = "accept"
    /\ backlog = {} \/ \A f \in Fds : ~Free(f)
    /\ pc' = "dispatch"
    /\ UNCHANGED <<env, kernel, cur, batch, listenEv, signalEv>>
    /\ UNCHANGED <<buffers, connections, pool>>

-----------------------------------------------------------------------------
(* epoll_handle_read, one read() per step.                                 *)

(* read() returns any of the bytes that have arrived: the buffer always    *)
(* has space for some.  A request that is complete is answered on the spot *)
(* and registered for writing, or leaves epoll and the map for the queue.  *)
ReadData ==
    /\ pc = "read"
    /\ LET r == buffers[cur]
           c == fdtab[r.fd]
       IN \E n \in 1 .. inq[c] :
            LET after   == r.got + n
                verdict == Verdict(shape[c], r.got, after)
            IN /\ inq' = [inq EXCEPT ![c] = @ - n]
               /\ IF ~Complete(shape[c], r.got, after)
                    THEN /\ buffers' = [buffers EXCEPT ![cur].got = after]
                         /\ UNCHANGED <<interest, ready, queue, pc, cur>>
                    ELSE /\ pc' = "dispatch" /\ cur' = NoFd
                         /\ IF verdict = "service"
                              THEN /\ Deregister(r.fd)
                                   /\ buffers' = [buffers EXCEPT ![r.fd] = NoReq]
                                   /\ queue' = Append(queue, [r EXCEPT !.got = after])
                              ELSE /\ Register(r.fd, {"OUT", "RDHUP"})
                                   /\ buffers' = [buffers EXCEPT ![cur].got = after,
                                                                 ![cur].status = verdict]
                                   /\ UNCHANGED queue
    /\ UNCHANGED <<peer, shape, sent, acked, backlog, signalled>>
    /\ UNCHANGED <<fdtab, wire, batch, listenEv, signalEv, connections>>
    /\ UNCHANGED <<working, exited, readyq>>

\* Mutant of ReadNothing: one read() per event, bytes may be left behind.
ReadStopsEarly ==
    /\ pc = "read"
    /\ ~Failed(fdtab[buffers[cur].fd])
    /\ pc' = "dispatch" /\ cur' = NoFd
    /\ UNCHANGED <<env, kernel, batch, listenEv, signalEv>>
    /\ UNCHANGED <<buffers, connections, pool>>

(* End of input or EAGAIN: nothing more to read.                           *)
ReadNothing ==
    /\ pc = "read"
    /\ LET c == fdtab[buffers[cur].fd] IN inq[c] = 0 /\ ~Failed(c)
    /\ pc' = "dispatch" /\ cur' = NoFd
    /\ UNCHANGED <<env, kernel, batch, listenEv, signalEv>>
    /\ UNCHANGED <<buffers, connections, pool>>

\* Mutant of ReadFails: EAGAIN is taken for an error.
ReadFailsOnEagain ==
    /\ pc = "read"
    /\ inq[fdtab[buffers[cur].fd]] = 0
    /\ CloseFd(buffers[cur].fd)
    /\ pc' = "dispatch" /\ cur' = NoFd
    /\ UNCHANGED <<env, wire, batch, listenEv, signalEv>>
    /\ UNCHANGED <<buffers, connections, pool>>

(* Any other error closes the descriptor, and does only that: the request  *)
(* stays in the map and the counter where it was.                          *)
ReadFails ==
    /\ pc = "read"
    /\ LET c == fdtab[buffers[cur].fd] IN inq[c] = 0 /\ Failed(c)
    /\ CloseFd(buffers[cur].fd)
    /\ pc' = "dispatch" /\ cur' = NoFd
    /\ UNCHANGED <<env, wire, batch, listenEv, signalEv>>
    /\ UNCHANGED <<buffers, connections, pool>>

-----------------------------------------------------------------------------
(* epoll_handle_write and response_stream::write, one send() per step.     *)

\* Mutant of Chunk: _pos1 is not kept between two send() calls.
ChunkFromStart(r) == [conn |-> r.conn, status |-> r.status, index |-> 1]

Chunk(r) == [conn |-> r.conn, status |-> r.status, index |-> r.pos + 1]

\* Mutant of Rest: off by one at the end of the buffer.
RestPlusOne(r) == IF r.status = "none" THEN 0 ELSE RespLen + 1 - r.pos

Rest(r) == IF r.status = "none" THEN 0 ELSE RespLen - r.pos

WriteChunk ==
    /\ pc = "write"
    /\ LET r == buffers[cur]
           c == fdtab[r.fd]
       IN /\ Rest(r) > 0 /\ Room(c) > 0 /\ ~Failed(c)
          /\ wire' = [wire EXCEPT ![c] = Append(@, Chunk(r))]
          /\ buffers' = [buffers EXCEPT ![cur].pos = @ + 1]
    /\ UNCHANGED <<env, fdtab, interest, ready, loop, connections, pool>>

\* Mutant of WriteEnds: the descriptor leaves epoll once all is sent.
WriteEndsDeregistering ==
    /\ pc = "write"
    /\ LET r == buffers[cur] IN
         /\ Rest(r) = 0 \/ Failed(fdtab[r.fd])
         /\ Deregister(r.fd)
    /\ pc' = "dispatch" /\ cur' = NoFd
    /\ UNCHANGED <<env, fdtab, wire, batch, listenEv, signalEv>>
    /\ UNCHANGED <<buffers, connections, pool>>

(* All sent, or send() failed for good: from now on only the client's      *)
(* departure is of interest.                                               *)
WriteEnds ==
    /\ pc = "write"
    /\ LET r == buffers[cur] IN
         /\ Rest(r) = 0 \/ Failed(fdtab[r.fd])
         /\ Register(r.fd, {"RDHUP"})
    /\ pc' = "dispatch" /\ cur' = NoFd
    /\ UNCHANGED <<env, fdtab, wire, batch, listenEv, signalEv>>
    /\ UNCHANGED <<buffers, connections, pool>>

\* Mutant of WriteAgain: EAGAIN ends the answer as an error does.
WriteGivesUp ==
    /\ pc = "write"
    /\ LET r == buffers[cur] IN
         /\ Room(fdtab[r.fd]) <= 0
         /\ Register(r.fd, {"RDHUP"})
    /\ pc' = "dispatch" /\ cur' = NoFd
    /\ UNCHANGED <<env, fdtab, wire, batch, listenEv, signalEv>>
    /\ UNCHANGED <<buffers, connections, pool>>

(* EAGAIN: the rest is sent when the descriptor is writable again.         *)
WriteAgain ==
    /\ pc = "write"
    /\ LET r == buffers[cur]
           c == fdtab[r.fd]
       IN Rest(r) > 0 /\ Room(c) <= 0 /\ ~Failed(c)
    /\ pc' = "dispatch" /\ cur' = NoFd
    /\ UNCHANGED <<env, kernel, batch, listenEv, signalEv>>
    /\ UNCHANGED <<buffers, connections, pool>>

-----------------------------------------------------------------------------
(* The worker threads (consumer).                                          *)

Idle(w) == working[w] = NoReq /\ w \notin exited

\* Mutant of Take: front() without pop(), so two workers get the request.
TakeLeavesFront(w) ==
    /\ Idle(w) /\ queue # <<>>
    /\ working' = [working EXCEPT ![w] = Head(queue)]
    /\ UNCHANGED <<env, kernel, loop, buffers, connections, queue, exited, readyq>>

Take(w) ==
    /\ Idle(w) /\ queue # <<>>
    /\ working' = [working EXCEPT ![w] = Head(queue)]
    /\ queue' = Tail(queue)
    /\ UNCHANGED <<env, kernel, loop, buffers, connections, exited, readyq>>

(* http_server: whatever process_request catches, there is an answer.      *)
Serve(w) ==
    /\ working[w] # NoReq /\ working[w].status = "none"
    /\ working' = [working EXCEPT ![w].status =
          IF shape[working[w].conn].method = "OPTIONS" THEN "options" ELSE "served"]
    /\ UNCHANGED <<env, kernel, loop, buffers, connections, queue, exited, readyq>>

(* The push takes m_ready_mutex, which check_ready_queue holds throughout. *)
PushReady(w) ==
    /\ working[w] # NoReq /\ working[w].status # "none"
    /\ pc # "drain"
    /\ readyq' = Append(readyq, working[w])
    /\ working' = [working EXCEPT ![w] = NoReq]
    /\ UNCHANGED <<env, kernel, loop, buffers, connections, queue, exited>>

(* shutdown() asks the workers to stop one by one; a worker that has not   *)
(* been asked yet may still take a request.                                *)
Exit(w) ==
    /\ pc = "stopped" /\ Idle(w)
    /\ exited' = exited \cup {w}
    /\ UNCHANGED <<env, kernel, loop, buffers, connections, queue, working, readyq>>

-----------------------------------------------------------------------------
Init ==
    /\ peer = [c \in Conns |-> "idle"]
    /\ shape \in Mixes
    /\ sent = [c \in Conns |-> 0]
    /\ inq = [c \in Conns |-> 0]
    /\ acked = [c \in Conns |-> 0]
    /\ wire = [c \in Conns |-> <<>>]
    /\ backlog = {}
    /\ signalled = FALSE
    /\ fdtab = [f \in Fds |-> NoConn]
    /\ interest = [f \in Fds |-> {}]
    /\ ready = {}
    /\ pc = "wait"
    /\ cur = NoFd
    /\ batch = [f \in Fds |-> {}]
    /\ listenEv = FALSE
    /\ signalEv = FALSE
    /\ buffers = [f \in Fds |-> NoReq]
    /\ connections = 0
    /\ queue = <<>>
    /\ working = [w \in Workers |-> NoReq]
    /\ exited = {}
    /\ readyq = <<>>

Client(c) == \/ Connect(c) \/ SendPiece(c) \/ Close(c) \/ Reset(c)
             \/ SocketError(c) \/ Receive(c)

EpollThread ==
    \/ EpollWait \/ DrainOne \/ DrainDone
    \/ \E f \in Fds : HandleClose(f) \/ HandleError(f) \/ HandleIO(f)
    \/ HandleConnect \/ HandleSignal \/ BatchDone
    \/ Accept \/ AcceptFails
    \/ ReadData \/ ReadNothing \/ ReadFails
    \/ WriteChunk \/ WriteEnds \/ WriteAgain

Worker(w) == Take(w) \/ Serve(w) \/ PushReady(w) \/ Exit(w)

Next == \/ \E c \in Conns : Client(c)
        \/ Signal
        \/ EpollThread
        \/ \E w \in Workers : Worker(w)

Spec == Init /\ [][Next]_vars

(* Threads are scheduled; epoll_wait returns after 5 ms at the latest; the *)
(* epoll thread holds m_ready_mutex for a small part of its loop, so that  *)
(* a worker asking for it again and again gets it; and a client that is    *)
(* there reads what it is sent.                                            *)
Fairness == /\ WF_vars(EpollThread)
            /\ \A w \in Workers : WF_vars(Worker(w)) /\ SF_vars(PushReady(w))
            /\ \A c \in Conns : WF_vars(Receive(c))

FairSpec == Spec /\ Fairness
-----------------------------------------------------------------------------
(* Properties.                                                             *)

EnvType ==
    /\ peer \in [Conns -> Peers]
    /\ shape \in [Conns -> Shapes]
    /\ sent \in [Conns -> Nat]
    /\ inq \in [Conns -> Nat]
    /\ acked \in [Conns -> Nat]
    /\ backlog \subseteq Conns
    /\ signalled \in BOOLEAN

KernelType ==
    /\ fdtab \in [Fds -> Conns \cup {NoConn}]
    /\ interest \in [Fds -> SUBSET Events]
    /\ ready \subseteq Fds
    /\ wire \in [Conns -> Seq([conn : Conns, status : Statuses, index : Nat])]

LoopType ==
    /\ pc \in Pcs
    /\ cur \in Fds \cup {NoFd}
    /\ batch \in [Fds -> SUBSET Events]
    /\ listenEv \in BOOLEAN
    /\ signalEv \in BOOLEAN

PoolType ==
    /\ queue \in Seq(Request)
    /\ working \in [Workers -> Request \cup {NoReq}]
    /\ exited \subseteq Workers
    /\ readyq \in Seq(Request)

(* Every variable has its type.  connections is a size_t in the code;      *)
(* Accounting below shows that it never goes under zero.                   *)
TypeOK == /\ EnvType /\ KernelType /\ LoopType /\ PoolType
          /\ buffers \in [Fds -> Request \cup {NoReq}]
          /\ connections \in Int

(* The map holds, at f, the request of the connection f is open on.        *)
Owns(f) == buffers[f] # NoReq /\ buffers[f].fd = f /\ buffers[f].conn = fdtab[f]

(* A request away from the epoll thread has its descriptor still open on   *)
(* its own connection, out of epoll and out of the map.                    *)
Away(r) == /\ fdtab[r.fd] = r.conn
           /\ interest[r.fd] = {}
           /\ buffers[r.fd] = NoReq
           /\ r.pos = 0

Registered == \A f \in Fds : interest[f] # {} => Owns(f)

Detached ==
    /\ \A i \in 1 .. Len(queue)  : Away(queue[i]) /\ queue[i].status = "none"
    /\ \A i \in 1 .. Len(readyq) : Away(readyq[i]) /\ readyq[i].status # "none"
    /\ \A w \in Workers : working[w] # NoReq => Away(working[w])

Distinct ==
    /\ \A i, j \in 1 .. Len(queue)  : queue[i].fd = queue[j].fd => i = j
    /\ \A i, j \in 1 .. Len(readyq) : readyq[i].fd = readyq[j].fd => i = j
    /\ \A v, w \in Workers :
          working[v] # NoReq /\ working[w] # NoReq /\ working[v].fd = working[w].fd
              => v = w
    /\ \A i \in 1 .. Len(queue), j \in 1 .. Len(readyq) : queue[i].fd # readyq[j].fd
    /\ \A w \in Workers : working[w] # NoReq =>
          /\ \A i \in 1 .. Len(queue)  : queue[i].fd # working[w].fd
          /\ \A i \in 1 .. Len(readyq) : readyq[i].fd # working[w].fd

(* A request has one owner at a time - the epoll thread's map, the queue,  *)
(* one worker, the ready queue - and while it is away nobody can close or  *)
(* reuse its descriptor.  This is what lets run_async_task, the workers    *)
(* and check_ready_queue use request and descriptor without a lock.        *)
SingleOwner == Registered /\ Detached /\ Distinct

(* An event in the array returned by epoll_wait still belongs, when it is  *)
(* handled, to the request found under its descriptor, although the        *)
(* handlers run before it may have closed, accepted or queued.  It makes   *)
(* the "unable to retrieve request object" branches unreachable.           *)
EventsFindRequest ==
    /\ \A f \in Fds : batch[f] # {} => Owns(f)
    /\ pc \in {"read", "write"} => Owns(cur)

(* Edge triggering loses nothing: whatever a registered descriptor waits   *)
(* for and already has is on the ready list, in the batch, or being dealt  *)
(* with.  A missed edge would leave the connection silent for ever.        *)
NoMissedEdge ==
    \A f \in Fds : interest[f] # {} =>
        LET c == fdtab[f]
            busy(where) == f \in ready \/ batch[f] # {} \/ (pc = where /\ cur = f)
        IN /\ "IN" \in interest[f] /\ inq[c] > 0 => busy("read")
           /\ "OUT" \in interest[f] /\ Room(c) > 0 /\ Rest(buffers[f]) > 0 => busy("write")
           /\ Gone(c) => f \in ready \/ HangUp(f)

(* What a client receives is its own answer from the first chunk on, none  *)
(* lost, repeated or mixed with another connection's, whatever descriptor  *)
(* numbers were reused; and a service ran only for a request that arrived  *)
(* whole, with a body that parsed, from an origin that is allowed.         *)
WireIsOwnAnswer ==
    \A c \in Conns :
        /\ Len(wire[c]) <= RespLen
        /\ \A i \in 1 .. Len(wire[c]) :
             /\ wire[c][i].conn = c
             /\ wire[c][i].index = i
             /\ wire[c][i].status = wire[c][1].status
             /\ wire[c][i].status \in {"served", "options"} =>
                   /\ shape[c].headOk /\ shape[c].originOk /\ shape[c].path = "service"
                   /\ (wire[c][i].status = "options" <=> shape[c].method = "OPTIONS")
                   /\ shape[c].method = "POST" => shape[c].bodyOk /\ sent[c] >= Need(c)

(* The entries of the map that no descriptor answers to any more.          *)
Stale == {f \in Fds : buffers[f] # NoReq /\ ~Owns(f)}

(* What m_metrics.connections is, exactly.  It is called "Current client   *)
(* tcp-ip connections" (server.cpp:690), but it is the open sockets and    *)
(* one more for each entry that a failed read() has left in the map - and  *)
(* such an entry is always that of a connection whose socket failed.  So   *)
(* the counter never drifts in any other way, whoever closes a descriptor  *)
(* first, and never goes under zero.                                       *)
Accounting ==
    /\ connections = Cardinality({f \in Fds : ~Free(f)}) + Cardinality(Stale)
    /\ \A f \in Stale : Failed(buffers[f].conn)

(* The server closes the descriptor of a connection only once its client   *)
(* has left or its socket has failed, and never under another one.         *)
NoHangUpOnClient ==
    [][\A f \in Fds : ~Free(f) /\ fdtab'[f] # fdtab[f] =>
          fdtab'[f] = NoConn /\ peer[fdtab[f]] \in {"fin", "rst", "err"}]_vars

(* The request has arrived as far as it takes to answer it.                *)
Arrived(c) == IF shape[c].method = "POST" /\ shape[c].headOk
                THEN sent[c] = Need(c) ELSE sent[c] > 0

Accepted(c) == peer[c] # "idle" /\ c \notin backlog

(* The socket of c was accepted over an entry that a failed read() had     *)
(* left: it has no request, is not in epoll, and nothing will close it.    *)
Overlooked(c) ==
    \E f \in Fds : fdtab[f] = c /\ buffers[f] # NoReq /\ buffers[f].conn # c

(* A request that has arrived is answered in full - through epoll, queue,  *)
(* worker, ready queue and back - unless its client leaves, sends more     *)
(* than the request it announced, or the server is stopped.  The one       *)
(* accepted client that gets no answer is the overlooked one.              *)
Answered ==
    \A c \in Conns :
        Accepted(c) /\ ~Overlooked(c) /\ Arrived(c) ~>
            \/ Len(wire[c]) = RespLen
            \/ peer[c] # "open" \/ ~Arrived(c) \/ pc = "stopped"

(* The descriptor of an accepted client that has left is closed, wherever  *)
(* its request was at the time; only that of an overlooked client is not.  *)
Released ==
    \A c \in Conns :
        Accepted(c) /\ ~Overlooked(c) /\ peer[c] \in {"fin", "rst", "err"} ~>
            (\A f \in Fds : fdtab[f] # c) \/ pc = "stopped"
=============================================================================
