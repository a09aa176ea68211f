-------------------------- MODULE ReactorDataProofs --------------------------
(***************************************************************************)
(* What flows through the connection engine, for any number of             *)
(* descriptors, connections and workers: no readiness of a socket is lost, *)
(* every client is sent its own answer, and the connection counter counts  *)
(* what it counts.  The proofs rest on the ownership of ReactorProofs      *)
(* (Inv) and add one invariant each.                                       *)
(***************************************************************************)
EXTENDS ReactorExchange, ReactorProofs, FiniteSetTheorems

-----------------------------------------------------------------------------
(* What each action that moves a request or a descriptor does, given Inv.  *)

LEMMA DropEffect ==
    ASSUME Inv, NEW f \in Fds, HandleClose(f) \/ HandleError(f)
    PROVE  /\ pc = "dispatch" /\ interest[f] # {} /\ Owns(f) /\ fdtab[f] \in Conns
           /\ Gone(fdtab[f]) \/ Failed(fdtab[f])
           /\ fdtab' = [fdtab EXCEPT ![f] = NoConn]
           /\ interest' = [interest EXCEPT ![f] = {}]
           /\ ready' = ready \ {f}
           /\ buffers' = [buffers EXCEPT ![f] = NoReq]
           /\ batch' = [batch EXCEPT ![f] = {}]
           /\ connections' = connections - 1
           /\ UNCHANGED <<env, wire, pc, cur, listenEv, signalEv, pool>>
<1>1. pc = "dispatch" /\ batch[f] # {} /\ Drop(f)
  BY DEF HandleClose, HandleError, HangUp
<1>2. /\ interest[f] # {} /\ buffers[f] # NoReq /\ buffers[f].fd = f
      /\ Owns(f) /\ fdtab[f] \in Conns
  BY <1>1, BatchFacts, OwnerFacts DEF Inv, Owners, Registered
<1>3. Gone(fdtab[f]) \/ Failed(fdtab[f])
  BY DEF HandleClose, HandleError, Inv, Reported
<1>4. QED
  BY <1>1, <1>2, <1>3 DEF Drop, CloseFd, Deregister

LEMMA DrainOneEffect ==
    ASSUME Inv, DrainOne
    PROVE  LET r == readyq[1] IN
           /\ pc = "drain" /\ 1 \in 1 .. Len(readyq) /\ r \in Request /\ r.fd \in Fds
           /\ Away(r) /\ r.status # "none" /\ batch[r.fd] = {}
           /\ buffers' = [buffers EXCEPT ![r.fd] = r]
           /\ interest' = [interest EXCEPT ![r.fd] = {"OUT", "RDHUP"}]
           /\ ready' = ready \cup {r.fd}
           /\ readyq' = Tail(readyq)
           /\ \A i \in 1 .. Len(readyq') :
                 i + 1 \in 1 .. Len(readyq) /\ readyq'[i] = readyq[i + 1]
           /\ UNCHANGED <<env, fdtab, wire, loop, connections, queue, working, exited>>
<1> DEFINE r == readyq[1]
<1>1. /\ pc = "drain" /\ readyq # <<>> /\ readyq' = Tail(readyq) /\ Head(readyq) = r
      /\ 1 \in 1 .. Len(readyq) /\ r \in Request /\ r.fd \in Fds
      /\ UNCHANGED <<env, fdtab, wire, loop, connections, queue, working, exited>>
  BY PopFacts DEF DrainOne, Inv, TypeOK, PoolType, Request
<1>2. Away(r) /\ r.status # "none"
  BY <1>1 DEF Inv, Owners, Detached
<1>3. /\ buffers' = [buffers EXCEPT ![r.fd] = r]
      /\ interest' = [interest EXCEPT ![r.fd] = {"OUT", "RDHUP"}]
      /\ ready' = ready \cup {r.fd}
  BY <1>1, <1>2 DEF DrainOne, Fresh, Register, Away
<1>4. batch[r.fd] = {}
  BY <1>1, <1>2 DEF Inv, Watched, Away
<1>5. \A i \in 1 .. Len(readyq') : i + 1 \in 1 .. Len(readyq) /\ readyq'[i] = readyq[i + 1]
  BY <1>1, PopFacts DEF Inv, TypeOK, PoolType
<1> HIDE DEF r
<1>6. QED
  BY <1>1, <1>2, <1>3, <1>4, <1>5 DEF r

(* The new socket gets a request, or is forgotten over a stale one.        *)
LEMMA AcceptEffect ==
    ASSUME Inv, Accept
    PROVE  \E c \in backlog, f \in Fds :
           /\ pc = "accept" /\ c \in Conns
           /\ fdtab[f] = NoConn /\ interest[f] = {} /\ batch[f] = {} /\ f \notin ready
           /\ backlog' = backlog \ {c}
           /\ fdtab' = [fdtab EXCEPT ![f] = c]
           /\ connections' = connections + 1
           /\ \/ /\ buffers[f] = NoReq
                 /\ buffers' = [buffers EXCEPT ![f] =
                        [fd |-> f, conn |-> c, got |-> 0, status |-> "none", pos |-> 0]]
                 /\ interest' = [interest EXCEPT ![f] = {"IN", "RDHUP"}]
                 /\ ready' = ready \cup {f}
              \/ buffers[f] # NoReq /\ UNCHANGED <<buffers, interest, ready>>
           /\ UNCHANGED <<peer, shape, sent, inq, acked, signalled>>
           /\ UNCHANGED <<wire, cur, batch, listenEv, signalEv, pool>>
<1>1. PICK c \in backlog, f \in Fds :
        /\ fdtab[f] = NoConn
        /\ backlog' = backlog \ {c}
        /\ fdtab' = [fdtab EXCEPT ![f] = c]
        /\ \/ /\ buffers[f] = NoReq
              /\ buffers' = [buffers EXCEPT ![f] =
                        [fd |-> f, conn |-> c, got |-> 0, status |-> "none", pos |-> 0]]
              /\ interest' = [interest EXCEPT ![f] = {"IN", "RDHUP"}]
              /\ ready' = ready \cup {f}
           \/ buffers[f] # NoReq /\ UNCHANGED <<buffers, interest, ready>>
  BY DEF Accept, Free, Fresh, Register
<1>2. /\ pc = "accept" /\ connections' = connections + 1
      /\ UNCHANGED <<peer, shape, sent, inq, acked, signalled>>
      /\ UNCHANGED <<wire, cur, batch, listenEv, signalEv, pool>>
  BY DEF Accept
<1>3. c \in Conns
  BY DEF Inv, TypeOK, EnvType
<1>4. interest[f] = {} /\ batch[f] = {} /\ f \notin ready
  BY <1>1, OwnerFacts DEF Inv, Owners, Watched
<1>5. QED
  BY <1>1, <1>2, <1>3, <1>4

LEMMA HandleIOEffect ==
    ASSUME Inv, NEW f \in Fds, HandleIO(f)
    PROVE  /\ pc = "dispatch" /\ ~HangUp(f)
           /\ batch' = [batch EXCEPT ![f] = {}] /\ cur' = f
           /\ \/ pc' = "read" /\ "IN" \in batch[f]
              \/ pc' = "write" /\ "OUT" \in batch[f]
           /\ UNCHANGED <<env, kernel, listenEv, signalEv, buffers, connections, pool>>
<1>1. batch[f] # {} /\ buffers[f] # NoReq
  BY BatchFacts, OwnerFacts DEF HandleIO, Inv, Owners
<1>2. batch[f] \subseteq Events /\ ~HangUp(f) /\ "ERR" \notin batch[f]
  BY DEF HandleIO, Inv, TypeOK, LoopType
<1>3. "IN" \in batch[f] \/ "OUT" \in batch[f]
  BY <1>1, <1>2 DEF HangUp, Events
<1>4. QED
  BY <1>1, <1>2, <1>3 DEF HandleIO

(* The descriptor in hand is registered for what is done with it.          *)
LEMMA CurrentFacts ==
    ASSUME Inv, pc \in {"read", "write"}
    PROVE  /\ cur \in Fds /\ interest[cur] # {} /\ batch[cur] = {} /\ Owns(cur)
           /\ buffers[cur] \in Request /\ buffers[cur] # NoReq /\ buffers[cur].fd = cur
           /\ fdtab[cur] = buffers[cur].conn /\ fdtab[cur] \in Conns
           /\ pc = "read" => /\ "IN" \in interest[cur]
                             /\ buffers[cur].status = "none" /\ buffers[cur].pos = 0
           /\ pc = "write" => "OUT" \in interest[cur] /\ buffers[cur].status # "none"
<1>1. cur \in Fds /\ interest[cur] # {} /\ batch[cur] = {}
  BY DEF Inv, Watched
<1>2. Owns(cur)
  BY <1>1 DEF Inv, Owners, Registered
<1>3. QED
  BY <1>1, <1>2, OwnerFacts DEF Inv, Owners, Armed

(* The three outcomes of a read().                                         *)
ReadOn(n) ==
    LET r == buffers[cur] IN
    /\ ~Complete(shape[r.conn], r.got, r.got + n)
    /\ buffers' = [buffers EXCEPT ![cur] = [r EXCEPT !.got = r.got + n]]
    /\ UNCHANGED <<interest, ready, queue, pc, cur>>

ReadAway(n) ==
    LET r == buffers[cur] IN
    /\ Complete(shape[r.conn], r.got, r.got + n)
    /\ Verdict(shape[r.conn], r.got, r.got + n) = "service"
    /\ buffers' = [buffers EXCEPT ![cur] = NoReq]
    /\ interest' = [interest EXCEPT ![cur] = {}]
    /\ ready' = ready \ {cur}
    /\ queue' = Append(queue, [r EXCEPT !.got = r.got + n])
    /\ pc' = "dispatch" /\ cur' = NoFd

ReadAnswered(n) ==
    LET r       == buffers[cur]
        verdict == Verdict(shape[r.conn], r.got, r.got + n)
    IN
    /\ Complete(shape[r.conn], r.got, r.got + n)
    /\ verdict \in {"bad_request", "forbidden", "not_found", "ok"}
    /\ buffers' = [buffers EXCEPT ![cur] =
                      [r EXCEPT !.got = r.got + n, !.status = verdict]]
    /\ interest' = [interest EXCEPT ![cur] = {"OUT", "RDHUP"}]
    /\ ready' = ready \cup {cur}
    /\ pc' = "dispatch" /\ cur' = NoFd
    /\ UNCHANGED queue

LEMMA ReadDataEffect ==
    ASSUME Inv, ReadData
    PROVE  LET c == buffers[cur].conn IN
           \E n \in Nat :
           /\ pc = "read" /\ n > 0 /\ n <= inq[c]
           /\ inq' = [inq EXCEPT ![c] = inq[c] - n]
           /\ ReadOn(n) \/ ReadAway(n) \/ ReadAnswered(n)
           /\ UNCHANGED <<peer, shape, sent, acked, backlog, signalled>>
           /\ UNCHANGED <<fdtab, wire, batch, listenEv, signalEv, connections>>
           /\ UNCHANGED <<working, exited, readyq>>
<1> DEFINE r == buffers[cur]
           c == r.conn
<1>1. pc = "read"
  BY DEF ReadData
<1>2. /\ cur \in Fds /\ r \in Request /\ r.fd = cur /\ fdtab[cur] = c /\ c \in Conns
      /\ buffers \in [Fds -> Request \cup {NoReq}] /\ inq[c] \in Nat
  BY <1>1, CurrentFacts DEF Inv, TypeOK, EnvType
<1>3. PICK n \in 1 .. inq[c] :
        LET after   == r.got + n
            verdict == Verdict(shape[c], r.got, after)
        IN /\ inq' = [inq EXCEPT ![c] = @ - n]
           /\ IF ~Complete(shape[c], r.got, after)
                THEN /\ buffers' = [buffers EXCEPT ![cur].got = after]
                     /\ UNCHANGED <<interest, ready, queue, pc, cur>>
                ELSE /\ pc' = "dispatch" /\ cur' = NoFd
                     /\ IF verdict = "service"
                          THEN /\ Deregister(cur)
                               /\ buffers' = [buffers EXCEPT ![cur] = NoReq]
                               /\ queue' = Append(queue, [r EXCEPT !.got = after])
                          ELSE /\ Register(cur, {"OUT", "RDHUP"})
                               /\ buffers' = [buffers EXCEPT ![cur].got = after,
                                                             ![cur].status = verdict]
                               /\ UNCHANGED queue
  BY <1>2 DEF ReadData
<1>4. n \in Nat /\ n > 0 /\ n <= inq[c]
  BY <1>2, <1>3
<1>5. ASSUME ~Complete(shape[c], r.got, r.got + n)
      PROVE  ReadOn(n)
  BY <1>3, <1>5 DEF ReadOn
<1>6. ASSUME Complete(shape[c], r.got, r.got + n),
             Verdict(shape[c], r.got, r.got + n) = "service"
      PROVE  ReadAway(n)
  BY <1>3, <1>6 DEF ReadAway, Deregister
<1>7. ASSUME Complete(shape[c], r.got, r.got + n),
             Verdict(shape[c], r.got, r.got + n) # "service"
      PROVE  ReadAnswered(n)
  <2>1. Verdict(shape[c], r.got, r.got + n) \in {"bad_request", "forbidden", "not_found", "ok"}
    BY <1>7 DEF Verdict
  <2>2. /\ interest' = [interest EXCEPT ![cur] = {"OUT", "RDHUP"}]
        /\ ready' = ready \cup {cur} /\ pc' = "dispatch" /\ cur' = NoFd
        /\ UNCHANGED queue
        /\ buffers' = [buffers EXCEPT ![cur].got = r.got + n,
                                      ![cur].status = Verdict(shape[c], r.got, r.got + n)]
    BY <1>3, <1>7 DEF Register
  <2>3. buffers' = [buffers EXCEPT ![cur] =
            [r EXCEPT !.got = r.got + n, !.status = Verdict(shape[c], r.got, r.got + n)]]
    BY <1>2, <2>2
  <2>4. QED
    BY <1>7, <2>1, <2>2, <2>3 DEF ReadAnswered
<1>8. /\ UNCHANGED <<peer, shape, sent, acked, backlog, signalled>>
      /\ UNCHANGED <<fdtab, wire, batch, listenEv, signalEv, connections>>
      /\ UNCHANGED <<working, exited, readyq>>
  BY DEF ReadData
<1>9. ReadOn(n) \/ ReadAway(n) \/ ReadAnswered(n)
  BY <1>5, <1>6, <1>7
<1>10. QED
  BY <1>1, <1>3, <1>4, <1>8, <1>9

LEMMA ReadFailsEffect ==
    ASSUME Inv, ReadFails
    PROVE  /\ pc = "read" /\ Failed(fdtab[cur]) /\ inq[fdtab[cur]] = 0
           /\ fdtab' = [fdtab EXCEPT ![cur] = NoConn]
           /\ interest' = [interest EXCEPT ![cur] = {}]
           /\ ready' = ready \ {cur}
           /\ pc' = "dispatch" /\ cur' = NoFd
           /\ UNCHANGED <<env, wire, batch, listenEv, signalEv, buffers, connections, pool>>
BY CurrentFacts DEF ReadFails, CloseFd, Deregister

LEMMA WriteChunkEffect ==
    ASSUME Inv, WriteChunk
    PROVE  LET r == buffers[cur] IN
           /\ pc = "write" /\ r.pos < RespLen /\ ~Failed(r.conn) /\ Room(r.conn) > 0
           /\ wire' = [wire EXCEPT ![r.conn] = Append(wire[r.conn], Chunk(r))]
           /\ Chunk(r) = [conn |-> r.conn, status |-> r.status, index |-> r.pos + 1]
           /\ buffers' = [buffers EXCEPT ![cur] = [r EXCEPT !.pos = r.pos + 1]]
           /\ UNCHANGED <<env, fdtab, interest, ready, loop, connections, pool>>
<1> DEFINE r == buffers[cur]
<1>1. /\ pc = "write" /\ Rest(r) > 0 /\ Room(fdtab[r.fd]) > 0 /\ ~Failed(fdtab[r.fd])
      /\ wire' = [wire EXCEPT ![fdtab[r.fd]] = Append(@, Chunk(r))]
      /\ buffers' = [buffers EXCEPT ![cur].pos = @ + 1]
      /\ UNCHANGED <<env, fdtab, interest, ready, loop, connections, pool>>
  BY DEF WriteChunk
<1>2. fdtab[r.fd] = r.conn /\ r \in Request /\ r.status # "none"
  BY <1>1, CurrentFacts
<1>3. r.pos < RespLen
  BY <1>1, <1>2, BoundsAssumption DEF Rest, Request
<1>4. QED
  BY <1>1, <1>2, <1>3 DEF Chunk

LEMMA WriteEndsEffect ==
    ASSUME Inv, WriteEnds
    PROVE  /\ pc = "write"
           /\ interest' = [interest EXCEPT ![cur] = {"RDHUP"}]
           /\ ready' = ready \cup {cur}
           /\ pc' = "dispatch" /\ cur' = NoFd
           /\ UNCHANGED <<env, fdtab, wire, batch, listenEv, signalEv, buffers, connections, pool>>
BY CurrentFacts DEF WriteEnds, Register

LEMMA TakeEffect ==
    ASSUME Inv, NEW w \in Workers, Take(w)
    PROVE  /\ working[w] = NoReq /\ 1 \in 1 .. Len(queue) /\ queue[1] \in Request
           /\ queue[1] # NoReq
           /\ working' = [working EXCEPT ![w] = queue[1]]
           /\ queue' = Tail(queue)
           /\ \A i \in 1 .. Len(queue') :
                 i + 1 \in 1 .. Len(queue) /\ queue'[i] = queue[i + 1]
           /\ UNCHANGED <<env, kernel, loop, buffers, connections, exited, readyq>>
BY PopFacts, NullAssumption DEF Take, Idle, Inv, TypeOK, PoolType

LEMMA ServeEffect ==
    ASSUME Inv, NEW w \in Workers, Serve(w)
    PROVE  LET r      == working[w]
               status == IF shape[r.conn].method = "OPTIONS" THEN "options" ELSE "served"
               q      == [r EXCEPT !.status = status]
           IN
           /\ r \in Request /\ r # NoReq /\ r.status = "none"
           /\ q \in Request /\ q # NoReq
           /\ working' = [working EXCEPT ![w] = q]
           /\ UNCHANGED <<env, kernel, loop, buffers, connections, queue, exited, readyq>>
<1> DEFINE r      == working[w]
           status == IF shape[r.conn].method = "OPTIONS" THEN "options" ELSE "served"
           q      == [r EXCEPT !.status = status]
<1>1. r \in Request /\ r # NoReq /\ r.status = "none"
  BY DEF Serve, Inv, TypeOK, PoolType
<1>2. status \in Statuses
  BY DEF Statuses
<1>3. q \in Request /\ q # NoReq
  BY <1>1, <1>2, NullAssumption DEF Request
<1>4. QED
  BY <1>1, <1>3 DEF Serve

LEMMA PushReadyEffect ==
    ASSUME Inv, NEW w \in Workers, PushReady(w)
    PROVE  LET r == working[w] IN
           /\ r # NoReq /\ r.status # "none" /\ r \in Request
           /\ readyq' = Append(readyq, r)
           /\ working' = [working EXCEPT ![w] = NoReq]
           /\ \A i \in 1 .. Len(readyq') :
                 \/ i \in 1 .. Len(readyq) /\ readyq'[i] = readyq[i]
                 \/ i = Len(readyq) + 1 /\ readyq'[i] = r
           /\ UNCHANGED <<env, kernel, loop, buffers, connections, queue, exited>>
BY PushFacts DEF PushReady, Inv, TypeOK, PoolType

-----------------------------------------------------------------------------
(* Edge triggering.  A descriptor on the ready list is polled again, so    *)
(* that only a descriptor that leaves the list, or what becomes ready      *)
(* outside of it, needs an argument.                                       *)

Busy(f, where) == f \in ready \/ batch[f] # {} \/ (pc = where /\ cur = f)

EdgeAt(f) == interest[f] # {} =>
    /\ "IN" \in interest[f] /\ inq[fdtab[f]] > 0 => Busy(f, "read")
    /\ "OUT" \in interest[f] /\ Room(fdtab[f]) > 0 /\ Rest(buffers[f]) > 0 => Busy(f, "write")
    /\ Gone(fdtab[f]) => f \in ready \/ HangUp(f)

(* A descriptor waits for reading or for writing, and always for the       *)
(* client's departure; the thread waits when its batch is done with.       *)
Interests == \A f \in Fds :
    interest[f] \in {{}, {"IN", "RDHUP"}, {"OUT", "RDHUP"}, {"RDHUP"}}
Rested == pc = "wait" => \A f \in Fds : batch[f] = {}

Edges == Interests /\ Rested /\ \A f \in Fds : EdgeAt(f)

LEMMA EdgesMeaning == Edges => NoMissedEdge
BY DEF Edges, EdgeAt, Busy, NoMissedEdge

LEMMA EdgeReady == ASSUME NEW f \in Fds, f \in ready' PROVE EdgeAt(f)'
BY DEF EdgeAt, Busy

LEMMA EdgeNone == ASSUME NEW f \in Fds, interest'[f] = {} PROVE EdgeAt(f)'
BY DEF EdgeAt

LEMMA EdgeKept ==
    ASSUME NEW f \in Fds, EdgeAt(f), interest'[f] = interest[f],
           interest[f] # {} => /\ UNCHANGED <<fdtab[f], batch[f]>>
                               /\ f \in ready => f \in ready'
                               /\ Gone(fdtab[f])' => Gone(fdtab[f]),
           pc \in {"read", "write"} /\ cur = f => UNCHANGED <<pc, cur>>,
           "IN" \in interest[f] => (inq'[fdtab[f]] > 0 => inq[fdtab[f]] > 0),
           "OUT" \in interest[f] => /\ Room(fdtab[f])' > 0 => Room(fdtab[f]) > 0
                                    /\ Rest(buffers[f])' > 0 => Rest(buffers[f]) > 0
    PROVE  EdgeAt(f)'
<1> SUFFICES ASSUME interest'[f] # {} PROVE EdgeAt(f)'
  BY DEF EdgeAt
<1>1. CASE interest[f] = {}
  BY <1>1 DEF EdgeAt
<1>2. CASE interest[f] # {}
  <2>1. /\ UNCHANGED <<interest[f], fdtab[f], batch[f]>>
        /\ f \in ready => f \in ready'
        /\ Gone(fdtab[f])' => Gone(fdtab[f])
    BY <1>2
  <2>2. \A where \in {"read", "write"} : Busy(f, where) => Busy(f, where)'
    BY <2>1 DEF Busy
  <2>3. HangUp(f) => HangUp(f)'
    BY <2>1 DEF HangUp
  <2>4. "IN" \in interest'[f] /\ inq'[fdtab'[f]] > 0 => Busy(f, "read")'
    BY <1>2, <2>1, <2>2 DEF EdgeAt
  <2>5. "OUT" \in interest'[f] /\ Room(fdtab[f])' > 0 /\ Rest(buffers[f])' > 0 => Busy(f, "write")'
    BY <1>2, <2>1, <2>2 DEF EdgeAt
  <2>6. Gone(fdtab[f])' => f \in ready' \/ HangUp(f)'
    BY <1>2, <2>1, <2>3 DEF EdgeAt
  <2> QED
    BY <2>4, <2>5, <2>6 DEF EdgeAt
<1> QED
  BY <1>1, <1>2

LEMMA EdgesInit == Init => Edges
BY DEF Init, Edges, Interests, Rested, EdgeAt

LEMMA EdgesClient ==
    ASSUME Inv, Edges, NEW c \in Conns, Client(c)
    PROVE  Edges'
<1>1. UNCHANGED <<fdtab, interest, wire, batch, pc, cur, buffers>>
  BY DEF Client, Connect, SendPiece, Close, Reset, SocketError, Leave, Receive, kernel, loop
<1>2. Interests' /\ Rested'
  BY <1>1 DEF Edges, Interests, Rested
<1>3. ASSUME NEW f \in Fds PROVE EdgeAt(f)'
  <2>1. EdgeAt(f)
    BY DEF Edges
  <2>2. interest[f] # {} => fdtab[f] \in Conns /\ interest[f] \cap Events # {}
    BY OwnerFacts DEF Inv, Owners, TypeOK, KernelType
  <2>3. CASE Connect(c)
    <3>1. UNCHANGED <<ready, inq, acked>> /\ peer' = [peer EXCEPT ![c] = "open"]
      BY <2>3 DEF Connect, kernel
    <3>2. interest[f] # {} => (Gone(fdtab[f])' => Gone(fdtab[f]))
      BY <2>2, <3>1, <1>1 DEF Gone, Inv, TypeOK, EnvType
    <3> QED
      BY <2>1, <3>1, <3>2, <1>1, EdgeKept DEF Room
  <2>4. CASE SendPiece(c)
    <3>1. /\ UNCHANGED <<peer, acked>> /\ inq' = [inq EXCEPT ![c] = @ + 1]
          /\ Edge(c, {"IN"})
      BY <2>4 DEF SendPiece
    <3>2. CASE fdtab[f] = c /\ "IN" \in interest[f]
      BY <3>1, <3>2, EdgeReady DEF Edge
    <3>3. CASE ~(fdtab[f] = c /\ "IN" \in interest[f])
      <4>1. "IN" \in interest[f] => inq'[fdtab[f]] = inq[fdtab[f]]
        BY <2>2, <3>1, <3>3 DEF Inv, TypeOK, EnvType
      <4>2. f \in ready => f \in ready'
        BY <3>1 DEF Edge
      <4> QED
        BY <2>1, <3>1, <4>1, <4>2, <1>1, EdgeKept DEF Room, Gone
    <3> QED
      BY <3>2, <3>3
  <2>5. CASE Close(c) \/ Reset(c) \/ SocketError(c)
    <3>1. PICK how \in {"fin", "rst", "err"} : Leave(c, how)
      BY <2>5 DEF Close, Reset, SocketError
    <3>2. /\ peer' = [peer EXCEPT ![c] = how] /\ Edge(c, Events)
          /\ UNCHANGED <<inq, acked>>
      BY <3>1 DEF Leave
    <3>3. CASE fdtab[f] = c /\ interest[f] # {}
      BY <2>2, <3>2, <3>3, EdgeReady DEF Edge
    <3>4. CASE ~(fdtab[f] = c /\ interest[f] # {})
      <4>1. interest[f] # {} => (Gone(fdtab[f])' => Gone(fdtab[f]))
        BY <2>2, <3>2, <3>4, <1>1 DEF Gone, Inv, TypeOK, EnvType
      <4>2. f \in ready => f \in ready'
        BY <3>2 DEF Edge
      <4> QED
        BY <2>1, <3>2, <4>1, <4>2, <1>1, EdgeKept DEF Room
    <3> QED
      BY <3>3, <3>4
  <2>6. CASE Receive(c)
    <3>1. /\ UNCHANGED <<peer, inq>> /\ acked' = [acked EXCEPT ![c] = @ + 1]
          /\ Edge(c, {"OUT"})
      BY <2>6 DEF Receive
    <3>2. CASE fdtab[f] = c /\ "OUT" \in interest[f]
      BY <3>1, <3>2, EdgeReady DEF Edge
    <3>3. CASE ~(fdtab[f] = c /\ "OUT" \in interest[f])
      <4>1. "OUT" \in interest[f] => acked'[fdtab[f]] = acked[fdtab[f]]
        BY <2>2, <3>1, <3>3 DEF Inv, TypeOK, EnvType
      <4>2. f \in ready => f \in ready'
        BY <3>1 DEF Edge
      <4> QED
        BY <2>1, <3>1, <4>1, <4>2, <1>1, EdgeKept DEF Room, Gone
    <3> QED
      BY <3>2, <3>3
  <2> QED
    BY <2>3, <2>4, <2>5, <2>6 DEF Client
<1> QED
  BY <1>2, <1>3 DEF Edges

(* What epoll_wait does not report of a descriptor it takes off the list,  *)
(* or leaves off it, the descriptor does not have.                         *)
LEMMA EdgesEpollWait == ASSUME Inv, Edges, EpollWait PROVE Edges'
<1>1. PICK take \in SUBSET ready :
         /\ batch' = [f \in Fds |-> IF f \in take THEN Revents(f) ELSE {}]
         /\ ready' = ready \ take
  BY DEF EpollWait
<1>2. /\ pc = "wait" /\ pc' = "drain"
      /\ UNCHANGED <<env, fdtab, interest, wire, cur, buffers>>
  BY DEF EpollWait
<1>3. Interests' /\ Rested'
  BY <1>2 DEF Edges, Interests, Rested
<1>4. ASSUME NEW f \in Fds PROVE EdgeAt(f)'
  <2>1. CASE f \in ready'
    BY <2>1, EdgeReady
  <2>2. CASE f \in take
    <3> DEFINE c == fdtab[f]
    <3>1. batch'[f] = Poll(c) \cap (interest[f] \cup {"HUP", "ERR"})
      BY <1>1, <2>2 DEF Revents
    <3>2. interest[f] # {} => "RDHUP" \in interest[f]
      BY DEF Edges, Interests
    <3>3. /\ inq[c] > 0 => "IN" \in Poll(c)
          /\ Room(c) > 0 => "OUT" \in Poll(c)
          /\ Gone(c) => "RDHUP" \in Poll(c)
      BY DEF Poll
    <3>4. UNCHANGED <<interest, c, inq, Room(c), Gone(c)>>
      BY <1>2 DEF env, Room, Gone
    <3> HIDE DEF c
    <3>5. interest[f] # {} =>
            /\ "IN" \in interest[f] /\ inq[c] > 0 => batch'[f] # {}
            /\ "OUT" \in interest[f] /\ Room(c) > 0 => batch'[f] # {}
            /\ Gone(c) => "RDHUP" \in batch'[f]
      BY <3>1, <3>2, <3>3
    <3> QED
      BY <3>4, <3>5 DEF EdgeAt, Busy, HangUp, c
  <2>3. CASE f \notin ready
    <3>1. batch[f] = {} /\ batch'[f] = {}
      BY <1>1, <1>2, <2>3 DEF Edges, Rested
    <3>2. EdgeAt(f)
      BY DEF Edges
    <3> QED
      BY <1>2, <2>3, <3>1, <3>2, EdgeKept DEF env, Room, Gone
  <2> QED
    BY <1>1, <2>1, <2>2, <2>3
<1> QED
  BY <1>3, <1>4 DEF Edges

LEMMA EdgesEvent ==
    ASSUME Inv, Edges,
           \/ DrainOne \/ \E f \in Fds : HandleClose(f) \/ HandleError(f) \/ HandleIO(f)
    PROVE  Edges'
<1>1. CASE DrainOne
  <2> DEFINE g == readyq[1].fd
  <2>1. /\ pc = "drain" /\ g \in Fds
        /\ buffers' = [buffers EXCEPT ![g] = readyq[1]]
        /\ interest' = [interest EXCEPT ![g] = {"OUT", "RDHUP"}]
        /\ ready' = ready \cup {g}
        /\ UNCHANGED <<env, fdtab, wire, loop>>
    BY <1>1, DrainOneEffect
  <2> HIDE DEF g
  <2>2. \A f \in Fds : f # g => UNCHANGED <<interest[f], buffers[f]>>
    BY <2>1 DEF Inv, TypeOK, KernelType
  <2>3. Interests' /\ Rested'
    BY <2>1 DEF Edges, Interests, Rested, loop, Inv, TypeOK, KernelType
  <2>4. ASSUME NEW f \in Fds PROVE EdgeAt(f)'
    <3>1. CASE f = g
      BY <2>1, <3>1, EdgeReady
    <3>2. CASE f # g
      <4>1. UNCHANGED <<pc, cur, interest[f], buffers[f], fdtab[f], batch[f], inq, peer, wire, acked>>
        BY <2>1, <2>2, <3>2 DEF env, loop
      <4>2. EdgeAt(f) /\ (f \in ready => f \in ready')
        BY <2>1 DEF Edges
      <4> QED
        BY <4>1, <4>2, EdgeKept DEF Gone, Room, Rest
    <3> QED
      BY <3>1, <3>2
  <2> QED
    BY <2>3, <2>4 DEF Edges
<1>2. ASSUME NEW g \in Fds, HandleClose(g) \/ HandleError(g)
      PROVE  Edges'
  <2>1. /\ pc = "dispatch"
        /\ fdtab' = [fdtab EXCEPT ![g] = NoConn]
        /\ interest' = [interest EXCEPT ![g] = {}]
        /\ ready' = ready \ {g}
        /\ buffers' = [buffers EXCEPT ![g] = NoReq]
        /\ batch' = [batch EXCEPT ![g] = {}]
        /\ UNCHANGED <<env, wire, pc, cur>>
    BY <1>2, DropEffect
  <2>2. \A f \in Fds : f # g => UNCHANGED <<interest[f], buffers[f], fdtab[f], batch[f]>>
    BY <2>1 DEF Inv, TypeOK, KernelType, LoopType
  <2>3. Interests' /\ Rested'
    BY <2>1 DEF Edges, Interests, Rested, Inv, TypeOK, KernelType
  <2>4. ASSUME NEW f \in Fds PROVE EdgeAt(f)'
    <3>1. CASE f = g
      BY <2>1, <3>1, EdgeNone DEF Inv, TypeOK, KernelType
    <3>2. CASE f # g
      <4>1. UNCHANGED <<pc, cur, interest[f], buffers[f], fdtab[f], batch[f], inq, peer, wire, acked>>
        BY <2>1, <2>2, <3>2 DEF env
      <4>2. EdgeAt(f) /\ (f \in ready => f \in ready')
        BY <2>1, <3>2 DEF Edges
      <4> QED
        BY <4>1, <4>2, EdgeKept DEF Gone, Room, Rest
    <3> QED
      BY <3>1, <3>2
  <2> QED
    BY <2>3, <2>4 DEF Edges
<1>3. ASSUME NEW g \in Fds, HandleIO(g)
      PROVE  Edges'
  <2>1. /\ pc = "dispatch" /\ ~HangUp(g)
        /\ batch' = [batch EXCEPT ![g] = {}] /\ cur' = g
        /\ \/ pc' = "read" /\ "IN" \in batch[g]
           \/ pc' = "write" /\ "OUT" \in batch[g]
        /\ UNCHANGED <<fdtab, interest, ready, wire, buffers, peer, inq, acked>>
    BY <1>3, HandleIOEffect DEF env, kernel
  <2>2. \A f \in Fds : f # g => UNCHANGED batch[f]
    BY <2>1 DEF Inv, TypeOK, LoopType
  <2>3. Interests' /\ Rested'
    BY <2>1 DEF Edges, Interests, Rested
  <2>4. EdgeAt(g)'
    <3>1. /\ "IN" \in batch[g] => "IN" \in interest[g]
          /\ "OUT" \in batch[g] => "OUT" \in interest[g]
          /\ interest[g] \in {{}, {"IN", "RDHUP"}, {"OUT", "RDHUP"}, {"RDHUP"}}
      BY DEF Inv, Armed, Edges, Interests
    <3>2. /\ "IN" \in interest[g] => pc' = "read"
          /\ "OUT" \in interest[g] => pc' = "write"
      BY <2>1, <3>1
    <3>3. interest[g] # {} /\ Gone(fdtab[g])' => g \in ready'
      BY <2>1 DEF Edges, EdgeAt, Gone
    <3> QED
      BY <2>1, <3>2, <3>3 DEF EdgeAt, Busy
  <2>5. ASSUME NEW f \in Fds, f # g PROVE EdgeAt(f)'
    <3>1. EdgeAt(f) /\ UNCHANGED batch[f]
      BY <2>2, <2>5 DEF Edges
    <3> QED
      BY <2>1, <3>1, EdgeKept DEF Gone, Room, Rest
  <2> QED
    BY <2>3, <2>4, <2>5 DEF Edges
<1> QED
  BY <1>1, <1>2, <1>3

(* The thread goes on to something else once there is nothing to read, or  *)
(* no room to write.                                                       *)
LEMMA EdgesMoveOn ==
    ASSUME Inv, Edges, \/ DrainDone \/ HandleConnect \/ HandleSignal \/ BatchDone
                       \/ AcceptFails \/ ReadNothing \/ WriteAgain
    PROVE  Edges'
<1> USE DEF DrainDone, HandleConnect, HandleSignal, BatchDone, AcceptFails,
            ReadNothing, WriteAgain
<1>1. UNCHANGED <<fdtab, interest, ready, wire, batch, buffers, peer, inq, acked>>
  BY DEF env, kernel
<1>2. Interests' /\ Rested'
  BY <1>1 DEF Edges, Interests, Rested
<1>3. ASSUME NEW f \in Fds PROVE EdgeAt(f)'
  <2>1. EdgeAt(f)
    BY DEF Edges
  <2>2. CASE ~(pc \in {"read", "write"} /\ cur = f)
    BY <1>1, <2>1, <2>2, EdgeKept DEF Gone, Room, Rest
  <2>3. CASE pc = "read" /\ cur = f
    <3>1. fdtab[f] = fdtab[buffers[f].fd] /\ "IN" \in interest[f]
      BY <2>3, CurrentFacts
    <3>2. inq[fdtab[f]] = 0 /\ "OUT" \notin interest[f]
      BY <2>3, <3>1 DEF Edges, Interests
    <3> QED
      BY <1>1, <2>1, <3>2 DEF EdgeAt, Gone, HangUp
  <2>4. CASE pc = "write" /\ cur = f
    <3>1. fdtab[f] = fdtab[buffers[f].fd] /\ "OUT" \in interest[f] /\ fdtab[f] \in Conns
      BY <2>4, CurrentFacts
    <3>2. Room(fdtab[f]) <= 0 /\ "IN" \notin interest[f]
      BY <2>4, <3>1 DEF Edges, Interests
    <3>3. Room(fdtab[f]) \in Int
      BY <3>1, BoundsAssumption DEF Room, Inv, TypeOK, EnvType, KernelType
    <3>4. ~(Room(fdtab[f]) > 0)
      BY <3>2, <3>3
    <3>5. ~(Room(fdtab[f])' > 0)
      BY <1>1, <3>4 DEF Room
    <3> QED
      BY <1>1, <2>1, <3>2, <3>5 DEF EdgeAt, Gone, HangUp
  <2> QED
    BY <2>2, <2>3, <2>4
<1> QED
  BY <1>2, <1>3 DEF Edges

LEMMA EdgesAccept == ASSUME Inv, Edges, Accept PROVE Edges'
<1>1. PICK c \in backlog, g \in Fds :
        /\ pc = "accept" /\ interest[g] = {}
        /\ fdtab' = [fdtab EXCEPT ![g] = c]
        /\ \/ /\ interest' = [interest EXCEPT ![g] = {"IN", "RDHUP"}]
              /\ ready' = ready \cup {g}
              /\ \A f \in Fds : f # g => buffers'[f] = buffers[f]
           \/ UNCHANGED <<interest, ready, buffers>>
        /\ UNCHANGED <<peer, inq, acked, wire, batch, cur>>
  BY AcceptEffect DEF Inv, TypeOK
<1>2. pc' \in {"accept", "dispatch"}
  BY DEF Accept
<1>3. \A f \in Fds : f # g => UNCHANGED <<fdtab[f], interest[f], buffers[f]>>
  BY <1>1 DEF Inv, TypeOK, KernelType
<1>4. Interests' /\ Rested'
  BY <1>1, <1>2 DEF Edges, Interests, Rested, Inv, TypeOK, KernelType
<1>5. ASSUME NEW f \in Fds PROVE EdgeAt(f)'
  <2>1. CASE f # g
    <3>1. EdgeAt(f) /\ (f \in ready => f \in ready')
      BY <1>1 DEF Edges
    <3> QED
      BY <1>1, <1>3, <2>1, <3>1, EdgeKept DEF Gone, Room, Rest
  <2>2. CASE f = g
    BY <1>1, <2>2, EdgeReady, EdgeNone
  <2> QED
    BY <2>1, <2>2
<1> QED
  BY <1>4, <1>5 DEF Edges

(* A request that is read on, or written to, is the one in hand; one whose *)
(* registration changes is polled again, or leaves epoll.                  *)
LEMMA EdgesTransfer ==
    ASSUME Inv, Edges, ReadData \/ ReadFails \/ WriteChunk \/ WriteEnds
    PROVE  Edges'
<1> DEFINE c == buffers[cur].conn
<1>1. /\ cur \in Fds /\ interest[cur] # {} /\ fdtab[cur] = c /\ c \in Conns
      /\ pc \in {"read", "write"}
      /\ pc = "read" => "IN" \in interest[cur]
      /\ pc = "write" => "OUT" \in interest[cur]
  BY CurrentFacts DEF ReadData, ReadFails, WriteChunk, WriteEnds
<1>2. ~({"IN", "OUT"} \subseteq interest[cur])
  BY <1>1 DEF Edges, Interests
<1>3. /\ UNCHANGED <<peer, acked, batch>> /\ pc' \in {pc, "dispatch"}
      /\ interest' = interest \/ \E e \in {{}, {"OUT", "RDHUP"}, {"RDHUP"}} :
            interest' = [interest EXCEPT ![cur] = e]
      /\ \A f \in Fds : f # cur =>
            /\ UNCHANGED <<interest[f], fdtab[f], buffers[f]>>
            /\ f \in ready => f \in ready'
      /\ inq[c] \in Nat /\ \A d \in Conns : inq'[d] > 0 => inq[d] > 0
  <2>1. CASE ReadData
    <3>1. PICK n \in Nat :
            /\ n > 0 /\ n <= inq[c] /\ inq' = [inq EXCEPT ![c] = inq[c] - n]
            /\ ReadOn(n) \/ ReadAway(n) \/ ReadAnswered(n)
            /\ UNCHANGED <<peer, acked, batch, fdtab>>
      BY <2>1, ReadDataEffect
    <3>2. inq[c] \in Nat /\ \A d \in Conns : inq'[d] > 0 => inq[d] > 0
      BY <1>1, <3>1 DEF Inv, TypeOK, EnvType
    <3>3. CASE ReadOn(n)
      BY <3>1, <3>2, <3>3 DEF ReadOn, Inv, TypeOK
    <3>4. CASE ReadAway(n)
      BY <3>1, <3>2, <3>4 DEF ReadAway, Inv, TypeOK, KernelType
    <3>5. CASE ReadAnswered(n)
      BY <3>1, <3>2, <3>5 DEF ReadAnswered, Inv, TypeOK, KernelType
    <3> QED
      BY <3>1, <3>3, <3>4, <3>5
  <2>2. CASE ReadFails
    BY <1>1, <2>2, ReadFailsEffect DEF env, Inv, TypeOK, EnvType, KernelType
  <2>3. CASE WriteChunk
    BY <1>1, <2>3, WriteChunkEffect DEF env, loop, Inv, TypeOK, EnvType, KernelType
  <2>4. CASE WriteEnds
    BY <1>1, <2>4, WriteEndsEffect DEF env, Inv, TypeOK, EnvType, KernelType
  <2> QED
    BY <2>1, <2>2, <2>3, <2>4
<1>4. \A d \in Conns : Len(wire'[d]) >= Len(wire[d]) /\ Len(wire[d]) \in Nat
  <2>1. CASE wire' = wire
    BY <2>1 DEF Inv, TypeOK, KernelType
  <2>2. CASE WriteChunk
    <3> DEFINE x == Chunk(buffers[cur])
    <3>1. wire' = [wire EXCEPT ![c] = Append(wire[c], x)]
      BY <2>2, WriteChunkEffect
    <3>2. PICK S : wire \in [Conns -> Seq(S)]
      BY DEF Inv, TypeOK, KernelType
    <3> HIDE DEF x, c
    <3>3. Len(Append(wire[c], x)) = Len(wire[c]) + 1 /\ Len(wire[c]) \in Nat
      BY <1>1, <3>2
    <3> QED
      BY <3>1, <3>2, <3>3
  <2> QED
    BY <2>1, <2>2 DEF ReadData, ReadFails, WriteEnds
<1>5. \A d \in Conns : Room(d)' > 0 => Room(d) > 0
  BY <1>3, <1>4, BoundsAssumption, SMTT(30) DEF Room, Inv, TypeOK, EnvType
<1>6. Interests' /\ Rested'
  BY <1>1, <1>3 DEF Edges, Interests, Rested, Inv, TypeOK, KernelType
<1>7. ASSUME NEW f \in Fds, f # cur PROVE EdgeAt(f)'
  <2>1. interest[f] # {} => fdtab[f] \in Conns
    BY OwnerFacts DEF Inv, Owners
  <2>2. EdgeAt(f)
    BY DEF Edges
  <2>3. interest[f] # {} => (Gone(fdtab[f])' => Gone(fdtab[f]))
    BY <1>3, <1>7 DEF Gone
  <2>4. "IN" \in interest[f] => (inq'[fdtab[f]] > 0 => inq[fdtab[f]] > 0)
    BY <1>3, <2>1
  <2>5. "OUT" \in interest[f] => /\ Room(fdtab[f])' > 0 => Room(fdtab[f]) > 0
                                 /\ Rest(buffers[f])' > 0 => Rest(buffers[f]) > 0
    BY <1>3, <1>5, <1>7, <2>1 DEF Room, Rest
  <2> QED
    BY <1>3, <1>7, <2>2, <2>3, <2>4, <2>5, EdgeKept
<1>8. PICK g \in Fds : g = cur
  BY <1>1
<1>9. EdgeAt(g)'
  <2>1. CASE g \in ready'
    BY <2>1, EdgeReady
  <2>2. CASE interest'[g] = {}
    BY <2>2, EdgeNone
  <2>3. CASE UNCHANGED <<interest, ready, fdtab, pc, cur>>
    <3>1. EdgeAt(g)
      BY DEF Edges
    <3>2. Gone(fdtab[g])' => g \in ready' \/ HangUp(g)'
      BY <1>1, <1>8, <1>3, <2>3, <3>1 DEF EdgeAt, Gone, HangUp
    <3> QED
      BY <1>1, <1>2, <1>8, <2>3, <3>2 DEF EdgeAt, Busy
  <2>4. CASE ReadData
    <3>1. PICK n \in Nat : UNCHANGED fdtab /\ (ReadOn(n) \/ ReadAway(n) \/ ReadAnswered(n))
      BY <2>4, ReadDataEffect
    <3> QED
      BY <1>1, <1>8, <2>1, <2>2, <2>3, <3>1 DEF ReadOn, ReadAway, ReadAnswered, Inv, TypeOK, KernelType
  <2>5. CASE ReadFails
    <3>1. interest' = [interest EXCEPT ![cur] = {}]
      BY <2>5, ReadFailsEffect
    <3> QED
      BY <1>1, <1>8, <2>2, <3>1 DEF Inv, TypeOK, KernelType
  <2>6. CASE WriteChunk
    <3>1. UNCHANGED <<interest, ready, fdtab, pc, cur>>
      BY <2>6, WriteChunkEffect DEF loop
    <3> QED
      BY <2>3, <3>1
  <2>7. CASE WriteEnds
    BY <1>8, <2>1, <2>7, WriteEndsEffect
  <2> QED
    BY <2>4, <2>5, <2>6, <2>7
<1>10. \A f \in Fds : EdgeAt(f)'
  BY <1>7, <1>8, <1>9
<1> QED
  BY <1>6, <1>10 DEF Edges

LEMMA EdgesNext == Inv /\ Edges /\ [Next]_vars => Edges'
<1> SUFFICES ASSUME Inv, Edges, [Next]_vars PROVE Edges'
  OBVIOUS
<1>1. CASE UNCHANGED <<peer, inq, acked, kernel, batch, pc, cur, buffers>>
  <2>1. UNCHANGED <<interest, fdtab, ready, wire>>
    BY <1>1 DEF kernel
  <2>2. Interests' /\ Rested'
    BY <1>1, <2>1 DEF Edges, Interests, Rested
  <2>3. ASSUME NEW f \in Fds PROVE EdgeAt(f)'
    BY <1>1, <2>1, EdgeKept DEF Edges, Gone, Room, Rest
  <2> QED
    BY <2>2, <2>3 DEF Edges
<1>2. CASE \E c \in Conns : Client(c)
  BY <1>2, EdgesClient
<1>3. CASE EpollThread
  BY <1>3, EdgesEpollWait, EdgesEvent, EdgesMoveOn, EdgesAccept, EdgesTransfer DEF EpollThread
<1>4. CASE Signal \/ UNCHANGED vars
  BY <1>1, <1>4 DEF Signal, vars, env, loop
<1>5. CASE \E w \in Workers : Worker(w)
  BY <1>1, <1>5 DEF Worker, Take, Serve, PushReady, Exit, env, loop
<1>6. QED
  BY <1>2, <1>3, <1>4, <1>5 DEF Next

(* No readiness is lost: a registered descriptor that has what it waits    *)
(* for is on the ready list, in the batch or in hand (epoll_loop,          *)
(* epoll_handle_read, epoll_handle_write, epoll_add_event).                *)
THEOREM ReactorNoMissedEdge == Spec => []NoMissedEdge
<1>1. Spec => []Edges
  BY EdgesInit, EdgesNext, Invariance, PTL DEF Spec
<1>2. QED
  BY <1>1, EdgesMeaning, PTL

-----------------------------------------------------------------------------
(* Connections.  A connection is open on one descriptor at most, once in   *)
(* its life; until it is accepted no request is its; and an entry of the   *)
(* map that is not registered is stale.                                    *)

Unseen(c) == c \in backlog \/ peer[c] = "idle"

Lives ==
    /\ \A f, g \in Fds : fdtab[f] = fdtab[g] /\ fdtab[f] # NoConn => f = g
    /\ \A c \in Conns : Unseen(c) =>
          \A f \in Fds : fdtab[f] # c /\ (buffers[f] # NoReq => buffers[f].conn # c)
    /\ \A c \in backlog : peer[c] # "idle"
    /\ \A f \in Fds : Owns(f) => interest[f] # {}

LEMMA LivesInit == Init => Lives
BY NullAssumption DEF Init, Lives, Unseen, Owns

(* Every step but an accept opens no descriptor, and finds the requests of *)
(* its map in the map or away from it.                                     *)
LEMMA LivesKept ==
    ASSUME Inv, Lives,
           \A f \in Fds : fdtab'[f] \in {fdtab[f], NoConn},
           \A f \in Fds : \/ buffers'[f] = NoReq
                          \/ buffers[f] # NoReq /\ buffers'[f].conn = buffers[f].conn
                          \/ buffers'[f].conn = fdtab[f],
           \A f \in Fds : Owns(f)' => interest'[f] # {},
           \A c \in Conns : Unseen(c)' => Unseen(c),
           \A c \in backlog' : peer'[c] # "idle"
    PROVE  Lives'
<1>1. \A f, g \in Fds : fdtab'[f] = fdtab'[g] /\ fdtab'[f] # NoConn => f = g
  BY DEF Lives
<1>2. ASSUME NEW c \in Conns, Unseen(c)', NEW f \in Fds
      PROVE  fdtab'[f] # c /\ (buffers'[f] # NoReq => buffers'[f].conn # c)
  BY <1>2, NullAssumption DEF Lives
<1> QED
  BY <1>1, <1>2 DEF Lives

LEMMA LivesClient == ASSUME Inv, Lives, NEW c \in Conns, Client(c) PROVE Lives'
<1>1. UNCHANGED <<fdtab, interest, buffers>>
  BY DEF Client, Connect, SendPiece, Close, Reset, SocketError, Leave, Receive, kernel
<1>2. /\ \A d \in Conns : Unseen(d)' => Unseen(d)
      /\ \A d \in backlog' : peer'[d] # "idle"
  <2>1. CASE Connect(c)
    BY <2>1 DEF Connect, Unseen, Lives, Inv, TypeOK, EnvType
  <2>2. CASE SendPiece(c) \/ Receive(c)
    BY <2>2 DEF SendPiece, Receive, Unseen, Lives
  <2>3. CASE Close(c) \/ Reset(c) \/ SocketError(c)
    <3>1. PICK how \in {"fin", "rst", "err"} : Leave(c, how)
      BY <2>3 DEF Close, Reset, SocketError
    <3>2. peer' = [peer EXCEPT ![c] = how] /\ backlog' = backlog
      BY <3>1 DEF Leave
    <3> QED
      BY <3>2 DEF Unseen, Lives, Inv, TypeOK, EnvType
  <2> QED
    BY <2>1, <2>2, <2>3 DEF Client
<1> QED
  BY <1>1, <1>2, LivesKept DEF Lives, Owns

LEMMA LivesAccept == ASSUME Inv, Lives, Accept PROVE Lives'
<1>1. PICK c \in backlog, g \in Fds :
        /\ c \in Conns /\ fdtab[g] = NoConn /\ interest[g] = {}
        /\ backlog' = backlog \ {c}
        /\ fdtab' = [fdtab EXCEPT ![g] = c]
        /\ \/ /\ buffers[g] = NoReq
              /\ buffers' = [buffers EXCEPT ![g] =
                        [fd |-> g, conn |-> c, got |-> 0, status |-> "none", pos |-> 0]]
              /\ interest' = [interest EXCEPT ![g] = {"IN", "RDHUP"}]
           \/ buffers[g] # NoReq /\ UNCHANGED <<buffers, interest>>
        /\ UNCHANGED peer
  BY AcceptEffect
<1>2. /\ \A f \in Fds : f # g => UNCHANGED <<fdtab[f], interest[f], buffers[f]>>
      /\ fdtab'[g] = c
  BY <1>1 DEF Inv, TypeOK, KernelType
<1>3. Unseen(c) /\ c # NoConn
  BY <1>1, NullAssumption DEF Unseen
<1>4. \A f, h \in Fds : fdtab'[f] = fdtab'[h] /\ fdtab'[f] # NoConn => f = h
  BY <1>1, <1>2, <1>3 DEF Lives
<1>5. ASSUME NEW d \in Conns, Unseen(d)', NEW f \in Fds
      PROVE  fdtab'[f] # d /\ (buffers'[f] # NoReq => buffers'[f].conn # d)
  <2>1. Unseen(d) /\ d # c
    BY <1>1, <1>5 DEF Unseen, Lives
  <2>2. CASE f # g
    BY <1>2, <2>1, <2>2 DEF Lives
  <2>3. CASE f = g
    BY <1>1, <1>2, <2>1, <2>3 DEF Lives, Inv, TypeOK
  <2> QED
    BY <2>2, <2>3
<1>6. \A f \in Fds : Owns(f)' => interest'[f] # {}
  <2>1. ASSUME NEW f \in Fds, f # g, Owns(f)' PROVE interest'[f] # {}
    BY <1>2, <2>1 DEF Lives, Owns
  <2>2. Owns(g)' => interest'[g] # {}
    <3>1. CASE buffers[g] = NoReq
      BY <1>1, <3>1 DEF Inv, TypeOK, KernelType
    <3>2. CASE buffers[g] # NoReq
      <4>1. buffers[g].conn # c /\ buffers'[g] = buffers[g]
        BY <1>1, <1>3, <3>2 DEF Lives
      <4> QED
        BY <1>2, <4>1 DEF Owns
    <3> QED
      BY <3>1, <3>2
  <2> QED
    BY <2>1, <2>2
<1>7. \A d \in backlog' : peer'[d] # "idle"
  BY <1>1 DEF Lives
<1> QED
  BY <1>4, <1>5, <1>6, <1>7 DEF Lives

LEMMA LivesNext == Inv /\ Lives /\ [Next]_vars => Lives'
<1> SUFFICES ASSUME Inv, Lives, [Next]_vars PROVE Lives'
  OBVIOUS
<1>1. ASSUME UNCHANGED <<peer, backlog, fdtab, interest, buffers>> PROVE Lives'
  BY <1>1 DEF Lives, Unseen, Owns
<1>2. ASSUME UNCHANGED <<peer, backlog>>,
             \A f \in Fds : fdtab'[f] \in {fdtab[f], NoConn},
             \A f \in Fds : \/ buffers'[f] = NoReq
                            \/ buffers[f] # NoReq /\ buffers'[f].conn = buffers[f].conn
                            \/ buffers'[f].conn = fdtab[f],
             \A f \in Fds : Owns(f)' => interest'[f] # {}
      PROVE  Lives'
  BY <1>2, LivesKept DEF Lives, Unseen
<1>3. CASE \E c \in Conns : Client(c)
  BY <1>3, LivesClient
<1>4. CASE DrainOne
  <2> DEFINE r == readyq[1]
  <2>1. /\ r.fd \in Fds /\ fdtab[r.fd] = r.conn
        /\ buffers' = [buffers EXCEPT ![r.fd] = r]
        /\ interest' = [interest EXCEPT ![r.fd] = {"OUT", "RDHUP"}]
        /\ UNCHANGED <<peer, backlog, fdtab>>
    BY <1>4, DrainOneEffect DEF Away, env
  <2> HIDE DEF r
  <2> QED
    BY <1>2, <2>1 DEF Lives, Owns, Inv, TypeOK, KernelType
<1>5. ASSUME NEW g \in Fds, HandleClose(g) \/ HandleError(g) PROVE Lives'
  <2>1. /\ fdtab' = [fdtab EXCEPT ![g] = NoConn]
        /\ interest' = [interest EXCEPT ![g] = {}]
        /\ buffers' = [buffers EXCEPT ![g] = NoReq]
        /\ UNCHANGED <<peer, backlog>>
    BY <1>5, DropEffect DEF env
  <2> QED
    BY <1>2, <2>1 DEF Lives, Owns, Inv, TypeOK, KernelType
<1>6. CASE Accept
  BY <1>6, LivesAccept
<1>7. CASE ReadData
  <2>1. PICK n \in Nat : /\ ReadOn(n) \/ ReadAway(n) \/ ReadAnswered(n)
                         /\ UNCHANGED <<peer, backlog, fdtab>>
    BY <1>7, ReadDataEffect
  <2>2. /\ cur \in Fds /\ interest[cur] # {} /\ buffers[cur] # NoReq /\ buffers[cur] \in Request
    BY <1>7, CurrentFacts DEF ReadData
  <2>3. CASE ReadOn(n)
    BY <1>2, <2>1, <2>2, <2>3 DEF ReadOn, Lives, Owns, Inv, TypeOK, Request
  <2>4. CASE ReadAway(n)
    BY <1>2, <2>1, <2>2, <2>4 DEF ReadAway, Lives, Owns, Inv, TypeOK, KernelType
  <2>5. CASE ReadAnswered(n)
    BY <1>2, <2>1, <2>2, <2>5 DEF ReadAnswered, Lives, Owns, Inv, TypeOK, KernelType, Request
  <2> QED
    BY <2>1, <2>3, <2>4, <2>5
<1>8. CASE ReadFails
  <2>1. /\ cur \in Fds /\ buffers[cur].conn # NoConn
    BY <1>8, CurrentFacts, NullAssumption DEF ReadFails
  <2>2. /\ fdtab' = [fdtab EXCEPT ![cur] = NoConn]
        /\ interest' = [interest EXCEPT ![cur] = {}]
        /\ UNCHANGED <<peer, backlog, buffers>>
    BY <1>8, ReadFailsEffect DEF env
  <2> QED
    BY <1>2, <2>1, <2>2 DEF Lives, Owns, Inv, TypeOK, KernelType
<1>9. CASE WriteChunk
  <2>1. /\ buffers' = [buffers EXCEPT ![cur] = [buffers[cur] EXCEPT !.pos = buffers[cur].pos + 1]]
        /\ UNCHANGED <<peer, backlog, fdtab, interest>>
    BY <1>9, WriteChunkEffect DEF env
  <2>2. cur \in Fds /\ interest[cur] # {} /\ buffers[cur] # NoReq /\ buffers[cur] \in Request
    BY <1>9, CurrentFacts DEF WriteChunk
  <2> QED
    BY <1>2, <2>1, <2>2 DEF Lives, Owns, Inv, TypeOK, Request
<1>10. CASE WriteEnds
  <2>1. /\ interest' = [interest EXCEPT ![cur] = {"RDHUP"}]
        /\ UNCHANGED <<peer, backlog, fdtab, buffers>>
    BY <1>10, WriteEndsEffect DEF env
  <2> QED
    BY <1>2, <2>1 DEF Lives, Owns, Inv, TypeOK, KernelType
<1>11. CASE \/ Signal \/ EpollWait \/ DrainDone \/ \E f \in Fds : HandleIO(f)
            \/ HandleConnect \/ HandleSignal \/ BatchDone \/ AcceptFails
            \/ ReadNothing \/ WriteAgain \/ UNCHANGED vars
  BY <1>1, <1>11 DEF Signal, EpollWait, DrainDone, HandleIO, HandleConnect, HandleSignal,
      BatchDone, AcceptFails, ReadNothing, WriteAgain, vars, env, kernel
<1>12. CASE \E w \in Workers : Worker(w)
  BY <1>1, <1>12 DEF Worker, Take, Serve, PushReady, Exit, env, kernel
<1> QED
  BY <1>3, <1>4, <1>5, <1>6, <1>7, <1>8, <1>9, <1>10, <1>11, <1>12 DEF Next, EpollThread

LEMMA Connections == Spec => [](Inv /\ Lives)
BY LivesInit, LivesNext, Invariance, PTL DEF Spec

-----------------------------------------------------------------------------
(* Answers.  A request in the map has been sent as many chunks as its      *)
(* position says, all of its own answer; one that is away, none; and what  *)
(* a request has passed by the time it is away is still true of it.        *)

Serviceable(c) ==
    /\ shape[c].headOk /\ shape[c].originOk /\ shape[c].path = "service"
    /\ shape[c].method = "POST" => shape[c].bodyOk /\ sent[c] >= Need(c)

Truthful(c, status) ==
    status \in {"served", "options"} =>
        Serviceable(c) /\ (status = "options" <=> shape[c].method = "OPTIONS")

OwnAnswer(c) ==
    /\ Len(wire[c]) <= RespLen
    /\ \A i \in 1 .. Len(wire[c]) :
          /\ wire[c][i].conn = c /\ wire[c][i].index = i
          /\ wire[c][i].status = wire[c][1].status
          /\ Truthful(c, wire[c][i].status)

AnswerAt(f) == interest[f] # {} =>
    /\ Len(wire[fdtab[f]]) = buffers[f].pos
    /\ \A i \in 1 .. Len(wire[fdtab[f]]) : wire[fdtab[f]][i].status = buffers[f].status
    /\ Truthful(fdtab[f], buffers[f].status)
    /\ "IN" \in interest[f] =>
          /\ buffers[f].got + inq[fdtab[f]] = sent[fdtab[f]]
          /\ buffers[f].got > 0 =>
                shape[fdtab[f]].headOk /\ shape[fdtab[f]].method = "POST"

AnswerAway(r) == /\ wire[r.conn] = <<>>
                 /\ r.status \in {"none", "served", "options"}
                 /\ Serviceable(r.conn) /\ Truthful(r.conn, r.status)

Untouched(c) == Unseen(c) => wire[c] = <<>> /\ inq[c] = sent[c]

AwayAnswers ==
    /\ \A i \in 1 .. Len(queue) : AnswerAway(queue[i])
    /\ \A i \in 1 .. Len(readyq) : AnswerAway(readyq[i])
    /\ \A w \in Workers : working[w] # NoReq => AnswerAway(working[w])

Answers == /\ \A c \in Conns : OwnAnswer(c) /\ Untouched(c)
           /\ \A f \in Fds : AnswerAt(f)
           /\ AwayAnswers

LEMMA AnswersMeaning == Answers => WireIsOwnAnswer
BY DEF Answers, OwnAnswer, Truthful, Serviceable, WireIsOwnAnswer

LEMMA AnswersInit == Init => Answers
<1> SUFFICES ASSUME Init PROVE Answers
  OBVIOUS
<1>1. \A c \in Conns : OwnAnswer(c) /\ Untouched(c)
  BY BoundsAssumption DEF Init, OwnAnswer, Untouched
<1>2. (\A f \in Fds : AnswerAt(f)) /\ AwayAnswers
  BY DEF Init, AnswerAt, AwayAnswers
<1> QED
  BY <1>1, <1>2 DEF Answers

(* What a step must not do for the answers to stay as they are: change a   *)
(* request, what its connection was sent, or take back what it has sent.   *)
Progress == UNCHANGED shape /\ \A c \in Conns : sent'[c] >= sent[c]

LEMMA TruthfulKept ==
    ASSUME Inv, Inv', Progress, NEW c \in Conns, NEW status
    PROVE  /\ Serviceable(c) => Serviceable(c)'
           /\ Truthful(c, status) => Serviceable(c)' \/ status \notin {"served", "options"}
           /\ Truthful(c, status) =>
                 (status \in {"served", "options"} =>
                    (status = "options" <=> shape'[c].method = "OPTIONS"))
<1>1. sent[c] \in Nat /\ sent'[c] \in Nat /\ Need(c)' = Need(c) /\ Need(c) \in Nat
  BY ShapesAssumption DEF Progress, Inv, TypeOK, EnvType, Need, Shape
<1>2. sent'[c] >= sent[c] /\ UNCHANGED shape
  BY DEF Progress
<1>3. Serviceable(c) => Serviceable(c)'
  BY <1>1, <1>2 DEF Serviceable
<1> QED
  BY <1>2, <1>3 DEF Truthful

LEMMA OwnKept ==
    ASSUME Inv, Inv', Progress, NEW c \in Conns, OwnAnswer(c), UNCHANGED wire[c]
    PROVE  OwnAnswer(c)'
<1>1. ASSUME NEW status, Truthful(c, status), status \in {"served", "options"}
      PROVE  Serviceable(c)' /\ (status = "options" <=> shape'[c].method = "OPTIONS")
  BY <1>1, TruthfulKept
<1>2. ASSUME NEW i \in 1 .. Len(wire[c])
      PROVE  Truthful(c, wire[c][i].status)'
  <2>1. Truthful(c, wire[c][i].status)
    BY DEF OwnAnswer
  <2> QED
    BY <1>1, <2>1 DEF Truthful
<1> QED
  BY <1>2 DEF OwnAnswer

LEMMA AwayKept ==
    ASSUME Inv, Inv', Progress, NEW r \in Request, AnswerAway(r), UNCHANGED wire[r.conn]
    PROVE  AnswerAway(r)'
<1>1. r.conn \in Conns
  BY DEF Request
<1> QED
  BY <1>1, TruthfulKept DEF AnswerAway, Truthful

LEMMA AtKept ==
    ASSUME Inv, Inv', Progress, NEW f \in Fds, AnswerAt(f),
           interest'[f] # {} =>
             /\ UNCHANGED <<fdtab[f], buffers[f], wire[fdtab[f]]>>
             /\ interest[f] # {}
             /\ "IN" \in interest'[f] =>
                   /\ "IN" \in interest[f]
                   /\ sent'[fdtab[f]] - inq'[fdtab[f]] = sent[fdtab[f]] - inq[fdtab[f]]
    PROVE  AnswerAt(f)'
<1> SUFFICES ASSUME interest'[f] # {} PROVE AnswerAt(f)'
  BY DEF AnswerAt
<1>1. PICK c \in Conns : c = fdtab[f] /\ c = fdtab'[f]
  BY OwnerFacts DEF Inv, Owners
<1>2. UNCHANGED <<fdtab[f], buffers[f], wire[fdtab[f]], shape>> /\ interest[f] # {}
  BY DEF Progress
<1>3. Truthful(c, buffers[f].status)'
  BY <1>1, <1>2, TruthfulKept DEF AnswerAt, Truthful
<1>4. ASSUME "IN" \in interest'[f]
      PROVE  buffers'[f].got + inq'[c] = sent'[c]
  <2>1. /\ sent[c] \in Nat /\ inq[c] \in Nat /\ sent'[c] \in Nat /\ inq'[c] \in Nat
        /\ buffers[f].got \in Nat
    BY <1>1, <1>2, OwnerFacts DEF Inv, TypeOK, EnvType, Owners, Request
  <2>2. buffers[f].got + inq[c] = sent[c] /\ sent'[c] - inq'[c] = sent[c] - inq[c]
    BY <1>1, <1>2, <1>4 DEF AnswerAt
  <2> QED
    BY <1>2, <2>1, <2>2
<1> QED
  BY <1>1, <1>2, <1>3, <1>4 DEF AnswerAt

(* Requests that only change hands keep their answers.                     *)
LEMMA AnswersMoved ==
    ASSUME Inv, Inv', Answers, UNCHANGED <<wire, shape, sent, inq>>,
           \A c \in Conns : Unseen(c)' => Unseen(c),
           \A f \in Fds : interest'[f] # {} =>
               \/ AnswerAt(f)'
               \/ /\ UNCHANGED <<fdtab[f], buffers[f]>> /\ interest[f] # {}
                  /\ "IN" \in interest'[f] => "IN" \in interest[f],
           AwayAnswers'
    PROVE  Answers'
<1>1. Progress
  BY DEF Progress, Inv, TypeOK, EnvType
<1>2. \A c \in Conns : OwnAnswer(c)' /\ Untouched(c)'
  BY <1>1, OwnKept DEF Answers, Untouched
<1>3. ASSUME NEW f \in Fds PROVE AnswerAt(f)'
  <2>1. CASE /\ interest'[f] # {} /\ UNCHANGED <<fdtab[f], buffers[f]>>
             /\ interest[f] # {}
             /\ "IN" \in interest'[f] => "IN" \in interest[f]
    BY <1>1, <2>1, AtKept DEF Answers
  <2>2. CASE interest'[f] = {}
    BY <2>2 DEF AnswerAt
  <2> QED
    BY <2>1, <2>2
<1> QED
  BY <1>2, <1>3 DEF Answers

LEMMA AwayAnswersFrame ==
    ASSUME Inv, Inv', Progress, AwayAnswers,
           UNCHANGED <<queue, readyq, working>>,
           \A c \in Conns : wire[c] = <<>> =>
              \/ UNCHANGED wire[c]
              \/ \A f \in Fds : fdtab[f] = c => interest[f] # {}
    PROVE  AwayAnswers'
<1>1. ASSUME NEW r \in Request, AnswerAway(r), Away(r) PROVE AnswerAway(r)'
  <2>1. r.conn \in Conns /\ r.fd \in Fds /\ fdtab[r.fd] = r.conn /\ interest[r.fd] = {}
    BY <1>1 DEF Away, Request
  <2>2. UNCHANGED wire[r.conn]
    BY <1>1, <2>1 DEF AnswerAway
  <2> QED
    BY <1>1, <2>2, AwayKept
<1>2. \A i \in 1 .. Len(queue) : queue[i] \in Request /\ AnswerAway(queue[i]) /\ Away(queue[i])
  BY DEF AwayAnswers, Inv, TypeOK, PoolType, Owners, Detached
<1>3. \A i \in 1 .. Len(readyq) : readyq[i] \in Request /\ AnswerAway(readyq[i]) /\ Away(readyq[i])
  BY DEF AwayAnswers, Inv, TypeOK, PoolType, Owners, Detached
<1>4. \A w \in Workers : working[w] # NoReq =>
          working[w] \in Request /\ AnswerAway(working[w]) /\ Away(working[w])
  BY DEF AwayAnswers, Inv, TypeOK, PoolType, Owners, Detached
<1>5. /\ \A i \in 1 .. Len(queue) : AnswerAway(queue[i])'
      /\ \A i \in 1 .. Len(readyq) : AnswerAway(readyq[i])'
      /\ \A w \in Workers : working[w] # NoReq => AnswerAway(working[w])'
  BY <1>1, <1>2, <1>3, <1>4
<1> QED
  BY <1>5 DEF AwayAnswers

LEMMA AnswersClient ==
    ASSUME Inv, Inv', Answers, NEW c \in Conns, Client(c)
    PROVE  Answers'
<1>1. UNCHANGED <<shape, wire, fdtab, interest, buffers, queue, readyq, working>>
  BY DEF Client, Connect, SendPiece, Close, Reset, SocketError, Leave, Receive, kernel, pool
<1>2. CASE SendPiece(c)
  <2>1. /\ sent' = [sent EXCEPT ![c] = @ + 1] /\ inq' = [inq EXCEPT ![c] = @ + 1]
        /\ UNCHANGED <<peer, backlog>>
    BY <1>2 DEF SendPiece
  <2>2. \A d \in Conns : /\ sent[d] \in Nat /\ inq[d] \in Nat
                         /\ sent'[d] >= sent[d]
                         /\ sent'[d] - inq'[d] = sent[d] - inq[d]
                         /\ inq[d] = sent[d] => inq'[d] = sent'[d]
    BY <2>1 DEF Inv, TypeOK, EnvType
  <2>3. Progress
    BY <1>1, <2>2 DEF Progress
  <2>4. \A d \in Conns : OwnAnswer(d)' /\ Untouched(d)'
    BY <1>1, <2>1, <2>2, <2>3, OwnKept DEF Answers, Untouched, Unseen
  <2>5. ASSUME NEW f \in Fds PROVE AnswerAt(f)'
    <3>1. interest[f] # {} => fdtab[f] \in Conns
      BY OwnerFacts DEF Inv, Owners
    <3> QED
      BY <1>1, <2>2, <2>3, <3>1, AtKept DEF Answers
  <2>6. AwayAnswers'
    BY <1>1, <2>3, AwayAnswersFrame DEF Answers
  <2> QED
    BY <2>4, <2>5, <2>6 DEF Answers
<1>3. CASE ~SendPiece(c)
  <2>1. UNCHANGED <<sent, inq>>
    BY <1>3 DEF Client, Connect, Close, Reset, SocketError, Leave, Receive
  <2>2. \A d \in Conns : Unseen(d)' => Unseen(d)
    <3>1. CASE Connect(c)
      BY <3>1 DEF Connect, Unseen, Inv, TypeOK, EnvType
    <3>2. CASE Receive(c)
      BY <3>2 DEF Receive, Unseen
    <3>3. CASE Close(c) \/ Reset(c) \/ SocketError(c)
      <4>1. PICK how \in {"fin", "rst", "err"} : Leave(c, how)
        BY <3>3 DEF Close, Reset, SocketError
      <4>2. peer' = [peer EXCEPT ![c] = how] /\ backlog' = backlog
        BY <4>1 DEF Leave
      <4> QED
        BY <4>2 DEF Unseen, Inv, TypeOK, EnvType
    <3> QED
      BY <1>3, <3>1, <3>2, <3>3 DEF Client
  <2>3. Progress
    BY <1>1, <2>1 DEF Progress, Inv, TypeOK, EnvType
  <2>4. AwayAnswers'
    BY <1>1, <2>3, AwayAnswersFrame DEF Answers
  <2> QED
    BY <1>1, <2>1, <2>2, <2>4, AnswersMoved
<1> QED
  BY <1>2, <1>3

LEMMA AnswersDrain == ASSUME Inv, Inv', Answers, DrainOne PROVE Answers'
<1>0. PICK r \in Request : r = readyq[1]
  BY DrainOneEffect
<1>1. /\ 1 \in 1 .. Len(readyq) /\ r.fd \in Fds /\ Away(r)
      /\ buffers' = [buffers EXCEPT ![r.fd] = r]
      /\ interest' = [interest EXCEPT ![r.fd] = {"OUT", "RDHUP"}]
      /\ \A i \in 1 .. Len(readyq') :
            i + 1 \in 1 .. Len(readyq) /\ readyq'[i] = readyq[i + 1]
      /\ UNCHANGED <<peer, shape, sent, inq, backlog, fdtab, wire, queue, working>>
  BY <1>0, DrainOneEffect DEF env
<1>2. r.conn \in Conns /\ fdtab[r.fd] = r.conn /\ AnswerAway(r) /\ r.pos = 0
  BY <1>0, <1>1 DEF Away, Request, Answers, AwayAnswers
<1>3. Progress
  BY <1>1 DEF Progress, Inv, TypeOK, EnvType
<1>4. PICK f \in Fds : f = r.fd
  BY <1>1
<1>5. /\ buffers'[f] = r /\ interest'[f] = {"OUT", "RDHUP"}
      /\ \A g \in Fds : g # f => UNCHANGED <<buffers[g], interest[g], fdtab[g]>>
  BY <1>1, <1>4 DEF Inv, TypeOK, KernelType
<1>6. AnswerAt(f)'
  <2>1. wire'[fdtab'[f]] = <<>> /\ fdtab'[f] = r.conn
    BY <1>1, <1>2, <1>4 DEF AnswerAway
  <2>2. Truthful(r.conn, r.status)'
    BY <1>2, <1>3, TruthfulKept DEF AnswerAway, Truthful
  <2>3. "IN" \notin interest'[f]
    BY <1>5
  <2> QED
    BY <1>2, <1>5, <2>1, <2>2, <2>3 DEF AnswerAt
<1>7. AwayAnswers'
  <2>1. ASSUME NEW q \in Request, AnswerAway(q) PROVE AnswerAway(q)'
    BY <1>1, <1>3, <2>1, AwayKept
  <2>2. \A i \in 1 .. Len(queue) : queue[i] \in Request
    BY DEF Inv, TypeOK, PoolType
  <2>3. \A i \in 1 .. Len(readyq) : readyq[i] \in Request
    BY DEF Inv, TypeOK, PoolType
  <2>4. \A w \in Workers : working[w] # NoReq => working[w] \in Request
    BY DEF Inv, TypeOK, PoolType
  <2>5. \A i \in 1 .. Len(queue') : AnswerAway(queue[i])'
    BY <1>1, <2>1, <2>2 DEF Answers, AwayAnswers
  <2>6. \A i \in 1 .. Len(readyq') : AnswerAway(readyq'[i])
    BY <1>1, <2>3 DEF Answers, AwayAnswers
  <2>7. \A i \in 1 .. Len(readyq') : AnswerAway(readyq[i])'
    <3>1. ASSUME NEW q \in Request, AnswerAway(q), NEW i \in 1 .. Len(readyq'), readyq'[i] = q
          PROVE  AnswerAway(readyq[i])'
      BY <2>1, <3>1
    <3> QED
      BY <1>1, <2>3, <2>6, <3>1
  <2>8. \A w \in Workers : (working[w] # NoReq => AnswerAway(working[w]))'
    BY <1>1, <2>1, <2>4 DEF Answers, AwayAnswers
  <2> QED
    BY <2>5, <2>7, <2>8 DEF AwayAnswers
<1>8. \A c \in Conns : Unseen(c)' => Unseen(c)
  BY <1>1 DEF Unseen
<1>9. \A g \in Fds : interest'[g] # {} =>
         \/ AnswerAt(g)'
         \/ /\ UNCHANGED <<fdtab[g], buffers[g]>> /\ interest[g] # {}
            /\ "IN" \in interest'[g] => "IN" \in interest[g]
  BY <1>5, <1>6
<1> QED
  BY <1>1, <1>7, <1>8, <1>9, AnswersMoved

LEMMA AnswersAccept == ASSUME Inv, Inv', Lives, Answers, Accept PROVE Answers'
<1>1. PICK c \in backlog, f \in Fds :
        /\ c \in Conns /\ fdtab[f] = NoConn /\ interest[f] = {}
        /\ backlog' = backlog \ {c}
        /\ fdtab' = [fdtab EXCEPT ![f] = c]
        /\ \/ /\ buffers[f] = NoReq
              /\ buffers' = [buffers EXCEPT ![f] =
                        [fd |-> f, conn |-> c, got |-> 0, status |-> "none", pos |-> 0]]
              /\ interest' = [interest EXCEPT ![f] = {"IN", "RDHUP"}]
           \/ buffers[f] # NoReq /\ UNCHANGED <<buffers, interest>>
        /\ UNCHANGED <<peer, shape, sent, inq, wire, queue, working, readyq>>
  BY AcceptEffect DEF pool
<1>2. wire[c] = <<>> /\ inq[c] = sent[c] /\ inq[c] \in Nat
  BY <1>1 DEF Answers, Untouched, Unseen, Inv, TypeOK, EnvType
<1>3. /\ \A g \in Fds : g # f => UNCHANGED <<buffers[g], interest[g], fdtab[g]>>
      /\ fdtab'[f] = c
  BY <1>1 DEF Inv, TypeOK, KernelType
<1>4. interest'[f] # {} => AnswerAt(f)'
  <2> SUFFICES ASSUME interest'[f] # {} PROVE AnswerAt(f)'
    OBVIOUS
  <2>1. buffers'[f] = [fd |-> f, conn |-> c, got |-> 0, status |-> "none", pos |-> 0]
    BY <1>1 DEF Inv, TypeOK
  <2>2. wire'[fdtab'[f]] = <<>> /\ inq'[fdtab'[f]] = sent'[fdtab'[f]]
    BY <1>1, <1>2, <1>3
  <2>3. Truthful(fdtab[f], buffers[f].status)'
    BY <2>1 DEF Truthful
  <2> QED
    BY <1>1, <1>2, <1>3, <2>1, <2>2, <2>3 DEF AnswerAt
<1>5. Progress
  BY <1>1 DEF Progress, Inv, TypeOK, EnvType
<1>6. AwayAnswers'
  BY <1>1, <1>5, AwayAnswersFrame DEF Answers
<1>7. \A d \in Conns : Unseen(d)' => Unseen(d)
  BY <1>1 DEF Unseen
<1>8. \A g \in Fds : interest'[g] # {} =>
         \/ AnswerAt(g)'
         \/ /\ UNCHANGED <<fdtab[g], buffers[g]>> /\ interest[g] # {}
            /\ "IN" \in interest'[g] => "IN" \in interest[g]
  BY <1>3, <1>4
<1> QED
  BY <1>1, <1>6, <1>7, <1>8, AnswersMoved

(* Requests that are given up, and everything the thread does besides.     *)
LEMMA AnswersQuiet ==
    ASSUME Inv, Inv', Answers,
           \/ Signal \/ EpollWait \/ DrainDone
           \/ \E f \in Fds : HandleClose(f) \/ HandleError(f) \/ HandleIO(f)
           \/ HandleConnect \/ HandleSignal \/ BatchDone \/ AcceptFails
           \/ ReadNothing \/ ReadFails \/ WriteEnds \/ WriteAgain \/ UNCHANGED vars
    PROVE  Answers'
<1>1. /\ UNCHANGED <<peer, shape, sent, inq, backlog, wire, queue, working, readyq>>
      /\ \A f \in Fds : interest'[f] # {} =>
               /\ UNCHANGED <<fdtab[f], buffers[f]>> /\ interest[f] # {}
               /\ "IN" \in interest'[f] => "IN" \in interest[f]
  <2>1. ASSUME NEW g \in Fds, HandleClose(g) \/ HandleError(g)
        PROVE  /\ UNCHANGED <<peer, shape, sent, inq, backlog, wire, queue, working, readyq>>
               /\ \A f \in Fds : interest'[f] # {} =>
                    /\ UNCHANGED <<fdtab[f], buffers[f]>> /\ interest[f] # {}
                    /\ "IN" \in interest'[f] => "IN" \in interest[f]
    <3>1. /\ fdtab' = [fdtab EXCEPT ![g] = NoConn]
          /\ interest' = [interest EXCEPT ![g] = {}]
          /\ buffers' = [buffers EXCEPT ![g] = NoReq]
          /\ UNCHANGED <<env, wire, pool>>
      BY <2>1, DropEffect
    <3> QED
      BY <3>1 DEF env, pool, Inv, TypeOK, KernelType
  <2>2. CASE ReadFails
    <3>1. /\ fdtab' = [fdtab EXCEPT ![cur] = NoConn]
          /\ interest' = [interest EXCEPT ![cur] = {}]
          /\ UNCHANGED <<env, wire, buffers, pool>>
      BY <2>2, ReadFailsEffect
    <3> QED
      BY <3>1 DEF env, pool, Inv, TypeOK, KernelType
  <2>3. CASE WriteEnds
    <3>1. /\ interest' = [interest EXCEPT ![cur] = {"RDHUP"}]
          /\ cur \in Fds /\ interest[cur] # {}
          /\ UNCHANGED <<env, wire, buffers, fdtab, pool>>
      BY <2>3, WriteEndsEffect, CurrentFacts
    <3> QED
      BY <3>1 DEF env, pool, Inv, TypeOK, KernelType
  <2>4. CASE \/ Signal \/ EpollWait \/ DrainDone \/ \E f \in Fds : HandleIO(f)
             \/ HandleConnect \/ HandleSignal \/ BatchDone \/ AcceptFails
             \/ ReadNothing \/ WriteAgain \/ UNCHANGED vars
    BY <2>4 DEF Signal, EpollWait, DrainDone, HandleIO, HandleConnect, HandleSignal,
        BatchDone, AcceptFails, ReadNothing, WriteAgain, vars, env, kernel, pool
  <2> QED
    BY <2>1, <2>2, <2>3, <2>4
<1>2. Progress
  BY <1>1 DEF Progress, Inv, TypeOK, EnvType
<1>3. AwayAnswers'
  BY <1>1, <1>2, AwayAnswersFrame DEF Answers
<1>4. \A c \in Conns : Unseen(c)' => Unseen(c)
  BY <1>1 DEF Unseen
<1> QED
  BY <1>1, <1>3, <1>4, AnswersMoved

(* What the checks of a read say of the request.                           *)
LEMMA ReadVerdict ==
    ASSUME NEW s \in Shape, NEW before \in Nat, NEW after \in Nat
    PROVE  /\ ~Complete(s, before, after) /\ before = 0 => s.headOk /\ s.method = "POST"
           /\ Complete(s, before, after) /\ Verdict(s, before, after) = "service" =>
                 /\ before = 0 => s.headOk
                 /\ s.originOk /\ s.path = "service"
                 /\ s.method = "POST" => s.bodyOk /\ after = s.head + s.body
<1>1. s.path \in Paths
  BY DEF Shape
<1>2. ~Complete(s, before, after) /\ before = 0 => s.headOk /\ s.method = "POST"
  BY DEF Complete, HeadParses
<1>3. ASSUME Complete(s, before, after), Verdict(s, before, after) = "service"
      PROVE  /\ before = 0 => s.headOk
             /\ s.originOk /\ s.path = "service"
             /\ s.method = "POST" => s.bodyOk /\ after = s.head + s.body
  BY <1>1, <1>3 DEF Complete, Verdict, HeadParses, Paths
<1> QED
  BY <1>2, <1>3

LEMMA AnswersReadData == ASSUME Inv, Inv', Lives, Answers, ReadData PROVE Answers'
<1>0. pc = "read"
  BY DEF ReadData
<1>1. PICK f \in Fds : f = cur
  BY <1>0, CurrentFacts
<1>2. PICK r \in Request : r = buffers[f]
  BY <1>0, <1>1, CurrentFacts
<1>3. PICK c \in Conns : c = r.conn
  BY DEF Request
<1>4. /\ fdtab[f] = c /\ r.fd = f /\ r.status = "none" /\ r.pos = 0
      /\ "IN" \in interest[f]
  BY <1>0, <1>1, <1>2, <1>3, CurrentFacts
<1>5. PICK n \in Nat :
        /\ n > 0 /\ n <= inq[c]
        /\ inq' = [inq EXCEPT ![c] = inq[c] - n]
        /\ ReadOn(n) \/ ReadAway(n) \/ ReadAnswered(n)
        /\ UNCHANGED <<peer, shape, sent, backlog, fdtab, wire, working, readyq>>
  BY <1>1, <1>2, <1>3, ReadDataEffect
<1>6. /\ inq[c] \in Nat /\ sent[c] \in Nat /\ r.got \in Nat /\ r.got + n \in Nat
      /\ shape[c] \in Shape /\ buffers \in [Fds -> Request \cup {NoReq}]
      /\ interest \in [Fds -> SUBSET Events] /\ inq \in [Conns -> Nat]
  <2>1. r.got \in Nat /\ r.got + n \in Nat
    BY DEF Request
  <2>2. inq \in [Conns -> Nat] /\ sent \in [Conns -> Nat] /\ shape \in [Conns -> Shapes]
    BY DEF Inv, TypeOK, EnvType
  <2>3. shape[c] \in Shape
    BY <2>2, ShapesAssumption
  <2>4. buffers \in [Fds -> Request \cup {NoReq}] /\ interest \in [Fds -> SUBSET Events]
    BY DEF Inv, TypeOK, KernelType
  <2> QED
    BY <2>1, <2>2, <2>3, <2>4
<1>7. /\ wire[c] = <<>>
      /\ r.got + inq[c] = sent[c]
      /\ r.got > 0 => shape[c].headOk /\ shape[c].method = "POST"
  <2>1. AnswerAt(f)
    BY DEF Answers
  <2>2. Len(wire[c]) = 0 /\ wire[c] \in Seq([conn : Conns, status : Statuses, index : Nat])
    BY <1>2, <1>4, <2>1 DEF AnswerAt, Inv, TypeOK, KernelType
  <2> QED
    BY <1>2, <1>4, <2>1, <2>2 DEF AnswerAt
<1>8. Progress
  BY <1>5 DEF Progress, Inv, TypeOK, EnvType
<1>9. \A d \in Conns : OwnAnswer(d)' /\ Untouched(d)'
  <2>1. ~Unseen(c)
    BY <1>4 DEF Lives
  <2>2. \A d \in Conns : d # c => UNCHANGED inq[d]
    BY <1>5, <1>6
  <2> QED
    BY <1>5, <1>8, <2>1, <2>2, OwnKept DEF Answers, Untouched, Unseen
<1>10. ASSUME NEW g \in Fds, g # f, UNCHANGED <<interest[g], buffers[g]>>
       PROVE  AnswerAt(g)'
  <2>1. interest[g] # {} => fdtab[g] # c /\ fdtab[g] \in Conns
    <3>1. interest[g] # {} => fdtab[g] \in Conns
      BY OwnerFacts DEF Inv, Owners
    <3>2. fdtab[g] # c
      BY <1>4, <1>10, NullAssumption DEF Lives
    <3> QED
      BY <3>1, <3>2
  <2>2. interest[g] # {} => UNCHANGED inq[fdtab[g]]
    BY <1>5, <1>6, <2>1
  <2>3. AnswerAt(g)
    BY DEF Answers
  <2> QED
    BY <1>5, <1>8, <1>10, <2>2, <2>3, AtKept
<1>11. \A d \in Conns : wire'[d] = wire[d]
  BY <1>5
<1>12. inq'[c] = inq[c] - n
  BY <1>5, <1>6
<1>13. CASE ReadOn(n)
  <2> DEFINE q == [r EXCEPT !.got = r.got + n]
  <2>1. /\ ~Complete(shape[c], r.got, r.got + n)
        /\ buffers' = [buffers EXCEPT ![f] = q]
        /\ UNCHANGED <<interest, queue>>
    BY <1>1, <1>2, <1>3, <1>13 DEF ReadOn
  <2>2. q.got = r.got + n /\ q.pos = 0 /\ q.status = "none"
    BY <1>4 DEF Request
  <2> HIDE DEF q
  <2>3. buffers'[f] = q /\ \A g \in Fds : g # f => UNCHANGED buffers[g]
    BY <2>1, <1>6
  <2>4. shape[c].headOk /\ shape[c].method = "POST"
    BY <1>6, <1>7, <2>1, ReadVerdict
  <2>5. r.got + n + (inq[c] - n) = sent[c]
    BY <1>6, <1>7
  <2>6. AnswerAt(f)'
    BY <1>4, <1>5, <1>7, <1>12, <2>2, <2>3, <2>4, <2>5 DEF AnswerAt, Truthful
  <2>7. AwayAnswers'
    BY <1>5, <1>8, <2>1, AwayAnswersFrame DEF Answers
  <2> QED
    BY <1>9, <1>10, <2>1, <2>3, <2>6, <2>7 DEF Answers
<1>14. CASE ReadAway(n)
  <2> DEFINE q == [r EXCEPT !.got = r.got + n]
  <2>1. /\ Complete(shape[c], r.got, r.got + n)
        /\ Verdict(shape[c], r.got, r.got + n) = "service"
        /\ buffers' = [buffers EXCEPT ![f] = NoReq]
        /\ interest' = [interest EXCEPT ![f] = {}]
        /\ queue' = Append(queue, q)
    BY <1>1, <1>2, <1>3, <1>14 DEF ReadAway
  <2>2. q \in Request /\ q.conn = c /\ q.status = "none"
    BY <1>3, <1>4, <1>6 DEF Request
  <2>3. Serviceable(c)
    <3>1. shape[c].headOk
      BY <1>6, <1>7, <2>1, ReadVerdict
    <3>2. shape[c].originOk /\ shape[c].path = "service"
      BY <1>6, <2>1, ReadVerdict
    <3>3. shape[c].method = "POST" => shape[c].bodyOk /\ r.got + n = Need(c)
      BY <1>6, <2>1, ReadVerdict DEF Need
    <3>4. sent[c] >= r.got + n
      BY <1>5, <1>6, <1>7
    <3> QED
      BY <3>1, <3>2, <3>3, <3>4 DEF Serviceable
  <2>4. AnswerAway(q)
    BY <1>7, <2>2, <2>3 DEF AnswerAway, Truthful
  <2> HIDE DEF q
  <2>5. /\ interest'[f] = {}
        /\ \A g \in Fds : g # f => UNCHANGED <<interest[g], buffers[g]>>
    BY <2>1, <1>6
  <2>6. AnswerAt(f)'
    BY <2>5 DEF AnswerAt
  <2>7. AwayAnswers'
    <3>1. ASSUME NEW p \in Request, AnswerAway(p) PROVE AnswerAway(p)'
      <4>1. p.conn \in Conns
        BY DEF Request
      <4> QED
        BY <1>8, <1>11, <3>1, <4>1, AwayKept
    <3>2. queue \in Seq(Request) /\ \A i \in 1 .. Len(queue) : queue[i] \in Request
      BY DEF Inv, TypeOK, PoolType
    <3>3. \A i \in 1 .. Len(queue') : queue'[i] \in Request /\ AnswerAway(queue'[i])
      BY <2>1, <2>2, <2>4, <3>2, PushFacts DEF Answers, AwayAnswers
    <3>4. \A i \in 1 .. Len(queue') : AnswerAway(queue[i])'
      <4>1. ASSUME NEW p \in Request, AnswerAway(p), NEW i \in 1 .. Len(queue'), queue'[i] = p
            PROVE  AnswerAway(queue[i])'
        BY <3>1, <4>1
      <4> QED
        BY <3>3, <4>1
    <3>5. /\ \A i \in 1 .. Len(readyq) : readyq[i] \in Request
          /\ \A w \in Workers : working[w] # NoReq => working[w] \in Request
      BY DEF Inv, TypeOK, PoolType
    <3>6. \A i \in 1 .. Len(readyq') : AnswerAway(readyq[i])'
      BY <1>5, <3>1, <3>5 DEF Answers, AwayAnswers
    <3>7. \A w \in Workers : (working[w] # NoReq => AnswerAway(working[w]))'
      BY <1>5, <3>1, <3>5 DEF Answers, AwayAnswers
    <3> QED
      BY <3>4, <3>6, <3>7 DEF AwayAnswers
  <2> QED
    BY <1>9, <1>10, <2>5, <2>6, <2>7 DEF Answers
<1>15. CASE ReadAnswered(n)
  <2>0. PICK verdict \in {"bad_request", "forbidden", "not_found", "ok"} :
        /\ buffers' = [buffers EXCEPT ![f] = [r EXCEPT !.got = r.got + n, !.status = verdict]]
        /\ interest' = [interest EXCEPT ![f] = {"OUT", "RDHUP"}]
        /\ UNCHANGED queue
    BY <1>1, <1>2, <1>3, <1>15 DEF ReadAnswered
  <2>1. PICK q : /\ q = [r EXCEPT !.got = r.got + n, !.status = verdict]
                 /\ buffers' = [buffers EXCEPT ![f] = q]
                 /\ interest' = [interest EXCEPT ![f] = {"OUT", "RDHUP"}]
                 /\ UNCHANGED queue
    BY <2>0
  <2>2. q.pos = 0 /\ q.status = verdict
    BY <1>4, <2>1 DEF Request
  <2>3. /\ buffers'[f] = q /\ interest'[f] = {"OUT", "RDHUP"}
        /\ \A g \in Fds : g # f => UNCHANGED <<interest[g], buffers[g]>>
    BY <2>1, <1>6
  <2>4. AnswerAt(f)'
    <3>1. Truthful(c, q.status)'
      BY <2>1, <2>2 DEF Truthful
    <3> QED
      BY <1>4, <1>5, <1>7, <2>2, <2>3, <3>1 DEF AnswerAt, Truthful
  <2>5. AwayAnswers'
    BY <1>5, <1>8, <2>1, AwayAnswersFrame DEF Answers
  <2> QED
    BY <1>9, <1>10, <2>3, <2>4, <2>5 DEF Answers
<1> QED
  BY <1>5, <1>13, <1>14, <1>15

LEMMA AnswersWriteChunk == ASSUME Inv, Inv', Lives, Answers, WriteChunk PROVE Answers'
<1>0. pc = "write"
  BY DEF WriteChunk
<1>1. PICK f \in Fds : f = cur
  BY <1>0, CurrentFacts
<1>2. PICK r \in Request : r = buffers[f]
  BY <1>0, <1>1, CurrentFacts
<1>3. PICK c \in Conns : c = r.conn
  BY DEF Request
<1>4. fdtab[f] = c /\ r.fd = f /\ interest[f] # {}
  BY <1>0, <1>1, <1>2, <1>3, CurrentFacts
<1>5. PICK chunk \in [conn : Conns, status : Statuses, index : Nat] :
        chunk.conn = c /\ chunk.status = r.status /\ chunk.index = r.pos + 1
        /\ chunk = [conn |-> r.conn, status |-> r.status, index |-> r.pos + 1]
  <2>1. r.pos + 1 \in Nat /\ r.status \in Statuses
    BY BoundsAssumption DEF Request
  <2> QED
    BY <1>3, <2>1
<1>6. PICK q \in Request : /\ q = [r EXCEPT !.pos = r.pos + 1]
                           /\ q.pos = r.pos + 1 /\ q.status = r.status /\ q.got = r.got
  <2>1. r.pos < RespLen
    BY <1>1, <1>2, WriteChunkEffect
  <2>2. r.pos + 1 \in 0 .. RespLen
    BY <2>1, BoundsAssumption DEF Request
  <2>3. r \in [fd : Fds, conn : Conns, got : Nat, status : Statuses, pos : 0 .. RespLen]
    BY DEF Request
  <2> DEFINE q == [r EXCEPT !.pos = r.pos + 1]
  <2>4. /\ q \in [fd : Fds, conn : Conns, got : Nat, status : Statuses, pos : 0 .. RespLen]
        /\ q.pos = r.pos + 1 /\ q.status = r.status /\ q.got = r.got
    BY <2>2, <2>3
  <2> HIDE DEF q
  <2>5. q \in Request /\ q = [r EXCEPT !.pos = r.pos + 1]
    BY <2>4 DEF Request, q
  <2> QED
    BY <2>4, <2>5
<1>7. /\ r.pos < RespLen
      /\ wire' = [wire EXCEPT ![c] = Append(wire[c], chunk)]
      /\ buffers' = [buffers EXCEPT ![f] = q]
      /\ UNCHANGED <<peer, shape, sent, inq, backlog, fdtab, interest, queue, working, readyq>>
  BY <1>1, <1>2, <1>3, <1>5, <1>6, WriteChunkEffect DEF env, pool
<1>8. /\ wire'[c] = Append(wire[c], chunk) /\ buffers'[f] = q
      /\ \A d \in Conns : d # c => UNCHANGED wire[d]
      /\ \A g \in Fds : g # f => UNCHANGED buffers[g]
  BY <1>7 DEF Inv, TypeOK, KernelType
<1>9. /\ Len(wire[c]) = r.pos /\ r.pos \in Nat
      /\ \A i \in 1 .. Len(wire[c]) : wire[c][i].status = r.status
      /\ Truthful(c, r.status) /\ OwnAnswer(c)
  BY <1>2, <1>4, BoundsAssumption DEF Answers, AnswerAt, Request
<1>10. /\ wire[c] \in Seq([conn : Conns, status : Statuses, index : Nat])
       /\ Len(wire'[c]) = r.pos + 1
       /\ \A i \in 1 .. Len(wire'[c]) : \/ i \in 1 .. Len(wire[c]) /\ wire'[c][i] = wire[c][i]
                                        \/ i = r.pos + 1 /\ wire'[c][i] = chunk
  <2>1. wire[c] \in Seq([conn : Conns, status : Statuses, index : Nat])
    BY DEF Inv, TypeOK, KernelType
  <2> QED
    BY <2>1, <1>8, <1>9
<1>11. Progress
  BY <1>7 DEF Progress, Inv, TypeOK, EnvType
<1>12. Truthful(c, r.status)'
  BY <1>9, <1>11, TruthfulKept DEF Truthful
<1>13. /\ \A i \in 1 .. Len(wire'[c]) :
            wire'[c][i].status = r.status /\ wire'[c][i].conn = c /\ wire'[c][i].index = i
       /\ 1 \in 1 .. Len(wire'[c])
  <2>1. ASSUME NEW i \in 1 .. Len(wire'[c])
        PROVE  wire'[c][i].status = r.status /\ wire'[c][i].conn = c /\ wire'[c][i].index = i
    <3>1. CASE i \in 1 .. Len(wire[c]) /\ wire'[c][i] = wire[c][i]
      BY <1>9, <3>1 DEF OwnAnswer
    <3>2. CASE i = r.pos + 1 /\ wire'[c][i] = chunk
      BY <1>5, <3>2
    <3> QED
      BY <1>10, <3>1, <3>2
  <2>2. 1 \in 1 .. Len(wire'[c])
    BY <1>9, <1>10
  <2> QED
    BY <2>1, <2>2
<1>14. OwnAnswer(c)'
  BY <1>7, <1>9, <1>10, <1>12, <1>13, BoundsAssumption DEF OwnAnswer
<1>15. \A d \in Conns : OwnAnswer(d)' /\ Untouched(d)'
  <2>1. ~Unseen(c)
    BY <1>4 DEF Lives
  <2> QED
    BY <1>7, <1>8, <1>11, <1>14, <2>1, OwnKept DEF Answers, Untouched, Unseen
<1>16. AnswerAt(f)'
  <2>1. "IN" \notin interest'[f] /\ fdtab'[f] = c
    BY <1>0, <1>1, <1>4, <1>7, CurrentFacts DEF Inv, Armed
  <2>2. /\ buffers'[f].pos = r.pos + 1 /\ buffers'[f].status = r.status
    BY <1>6, <1>8
  <2>3. \A i \in 1 .. Len(wire'[c]) : wire'[c][i].status = r.status
    BY <1>13
  <2>4. Truthful(fdtab[f], buffers[f].status)'
    BY <1>12, <2>1, <2>2 DEF Truthful
  <2> QED
    BY <1>10, <2>1, <2>2, <2>3, <2>4 DEF AnswerAt
<1>17. ASSUME NEW g \in Fds, g # f PROVE AnswerAt(g)'
  <2>1. interest[g] # {} => fdtab[g] # c /\ fdtab[g] \in Conns
    <3>1. interest[g] # {} => fdtab[g] \in Conns
      BY OwnerFacts DEF Inv, Owners
    <3>2. fdtab[g] # c
      BY <1>4, <1>17, NullAssumption DEF Lives
    <3> QED
      BY <3>1, <3>2
  <2>2. AnswerAt(g)
    BY DEF Answers
  <2> QED
    BY <1>7, <1>8, <1>11, <1>17, <2>1, <2>2, AtKept
<1>18. AwayAnswers'
  <2>1. \A d \in Conns : \/ UNCHANGED wire[d]
                         \/ \A g \in Fds : fdtab[g] = d => interest[g] # {}
    BY <1>4, <1>8, NullAssumption DEF Lives
  <2> QED
    BY <1>7, <1>11, <2>1, AwayAnswersFrame DEF Answers
<1> QED
  BY <1>15, <1>16, <1>17, <1>18 DEF Answers

(* A worker takes a request, answers it, or hands it back.                 *)
LEMMA AnswersWorker ==
    ASSUME Inv, Inv', Answers, NEW w \in Workers, Worker(w)
    PROVE  Answers'
<1>1. UNCHANGED <<env, kernel, loop, buffers>>
  BY DEF Worker, Take, Serve, PushReady, Exit
<1>2. /\ UNCHANGED <<wire, shape, sent, inq, fdtab, interest, buffers>>
      /\ \A r : AnswerAway(r)' = AnswerAway(r)
      /\ \A c \in Conns : Unseen(c)' = Unseen(c)
  BY <1>1 DEF env, kernel, AnswerAway, Serviceable, Truthful, Need, Unseen
<1>3. AwayAnswers'
  <2>1. /\ \A i \in 1 .. Len(queue) : AnswerAway(queue[i])
        /\ \A i \in 1 .. Len(readyq) : AnswerAway(readyq[i])
        /\ \A v \in Workers : working[v] # NoReq => AnswerAway(working[v])
        /\ working \in [Workers -> Request \cup {NoReq}]
    BY DEF Answers, AwayAnswers, Inv, TypeOK, PoolType
  <2>2. SUFFICES /\ \A i \in 1 .. Len(queue') : AnswerAway(queue'[i])
                 /\ \A i \in 1 .. Len(readyq') : AnswerAway(readyq'[i])
                 /\ \A v \in Workers : working'[v] # NoReq => AnswerAway(working'[v])
    <3>1. /\ \A i \in 1 .. Len(queue') : AnswerAway(queue[i])' = AnswerAway(queue'[i])
          /\ \A i \in 1 .. Len(readyq') : AnswerAway(readyq[i])' = AnswerAway(readyq'[i])
          /\ \A v \in Workers : AnswerAway(working[v])' = AnswerAway(working'[v])
      BY <1>1 DEF env, kernel, AnswerAway, Serviceable, Truthful, Need
    <3> QED
      BY <2>2, <3>1 DEF AwayAnswers
  <2>3. CASE Take(w)
    BY <2>1, <2>3, TakeEffect
  <2>4. CASE Serve(w)
    <3>1. PICK q \in Request :
            /\ q.conn = working[w].conn
            /\ q.status = IF shape[working[w].conn].method = "OPTIONS"
                            THEN "options" ELSE "served"
            /\ working' = [working EXCEPT ![w] = q]
            /\ UNCHANGED <<queue, readyq>>
      <4> DEFINE status == IF shape[working[w].conn].method = "OPTIONS"
                             THEN "options" ELSE "served"
                 q      == [working[w] EXCEPT !.status = status]
      <4>1. /\ q \in Request /\ working[w] \in Request
            /\ working' = [working EXCEPT ![w] = q]
            /\ UNCHANGED <<queue, readyq>>
        BY <2>4, ServeEffect
      <4>2. q.conn = working[w].conn /\ q.status = status
        BY <4>1 DEF Request
      <4> HIDE DEF q
      <4> QED
        BY <4>1, <4>2
    <3>2. AnswerAway(working[w])
      BY <2>1, <2>4 DEF Serve
    <3>3. AnswerAway(q)
      BY <3>1, <3>2 DEF AnswerAway, Truthful
    <3> QED
      BY <2>1, <3>1, <3>3
  <2>5. CASE PushReady(w)
    BY <2>1, <2>5, PushReadyEffect
  <2>6. CASE Exit(w)
    BY <2>1, <2>6 DEF Exit
  <2> QED
    BY <2>3, <2>4, <2>5, <2>6 DEF Worker
<1> QED
  BY <1>2, <1>3, AnswersMoved

LEMMA AnswersNext == Inv /\ Lives /\ Answers /\ [Next]_vars => Answers'
<1> SUFFICES ASSUME Inv, Lives, Answers, [Next]_vars PROVE Answers'
  OBVIOUS
<1>1. Inv'
  BY NextInv
<1> QED
  BY <1>1, AnswersClient, AnswersDrain, AnswersAccept, AnswersQuiet, AnswersReadData,
     AnswersWriteChunk, AnswersWorker DEF Next, EpollThread

(* What a client has been sent is the beginning of the answer to its own   *)
(* request, chunk by chunk and from one response, and a service's answer   *)
(* only if its request had arrived and was one for a service               *)
(* (epoll_handle_read, run_async_task, epoll_handle_write), whatever       *)
(* descriptor numbers accept4 hands out again.                             *)
THEOREM ReactorWireIsOwnAnswer == Spec => []WireIsOwnAnswer
<1>1. Spec => [](Inv /\ Lives)
  BY Connections
<1>2. Inv /\ Lives /\ Answers /\ [Next]_vars => Answers'
  BY AnswersNext
<1>3. Init => Answers
  BY AnswersInit
<1>4. Answers => WireIsOwnAnswer
  BY AnswersMeaning
<1> QED
  BY <1>1, <1>2, <1>3, <1>4, PTL DEF Spec

-----------------------------------------------------------------------------
(* The connection counter.  Since a connection is open on one descriptor   *)
(* only, the sockets that leaked can be told by descriptor: open, with no  *)
(* request in the map or away that has them.                               *)

RangeFact(s) == \A q : q \in Range(s) <=> \E i \in 1 .. Len(s) : s[i] = q

LEMMA RangeIs == ASSUME NEW s \in Seq(Request) PROVE RangeFact(s)
BY DEF Range, RangeFact

LEMMA RangePop ==
    ASSUME NEW s \in Seq(Request), s # <<>>
    PROVE  Range(s) = Range(Tail(s)) \cup {s[1]}
<1>1. \A q : q \in Range(s) <=> \E i \in 1 .. Len(s) : s[i] = q
  BY DEF Range
<1>2. /\ Tail(s) \in Seq(Request) /\ Len(s) \in Nat /\ Len(s) > 0
      /\ Len(Tail(s)) = Len(s) - 1
      /\ \A i \in 1 .. Len(Tail(s)) : Tail(s)[i] = s[i + 1]
  OBVIOUS
<1>3. \A q : q \in Range(Tail(s)) <=> \E i \in 1 .. Len(Tail(s)) : Tail(s)[i] = q
  BY <1>2, RangeIs DEF RangeFact
<1>4. ASSUME NEW q \in Range(s) PROVE q \in Range(Tail(s)) \cup {s[1]}
  <2>1. PICK i \in 1 .. Len(s) : s[i] = q
    BY <1>1
  <2>2. CASE i = 1
    BY <2>1, <2>2
  <2>3. CASE i # 1
    <3>1. i - 1 \in 1 .. Len(Tail(s)) /\ Tail(s)[i - 1] = s[(i - 1) + 1] /\ (i - 1) + 1 = i
      BY <1>2, <2>1, <2>3
    <3> QED
      BY <1>3, <2>1, <3>1
  <2> QED
    BY <2>2, <2>3
<1>5. ASSUME NEW q \in Range(Tail(s)) \cup {s[1]} PROVE q \in Range(s)
  <2>1. CASE q = s[1]
    BY <1>1, <1>2, <2>1
  <2>2. CASE q \in Range(Tail(s))
    <3>1. PICK i \in 1 .. Len(Tail(s)) : Tail(s)[i] = q
      BY <1>3, <2>2
    <3>2. i + 1 \in 1 .. Len(s) /\ s[i + 1] = q
      BY <1>2, <3>1
    <3> QED
      BY <1>1, <3>2
  <2> QED
    BY <2>1, <2>2
<1> QED
  BY <1>4, <1>5

LEMMA RangePush ==
    ASSUME NEW s \in Seq(Request), NEW r \in Request
    PROVE  Range(Append(s, r)) = Range(s) \cup {r}
<1>1. /\ Len(s) \in Nat /\ Len(Append(s, r)) = Len(s) + 1
      /\ Append(s, r)[Len(s) + 1] = r
      /\ \A i \in 1 .. Len(s) : Append(s, r)[i] = s[i]
  OBVIOUS
<1>2. \A q : q \in Range(s) <=> \E i \in 1 .. Len(s) : s[i] = q
  BY DEF Range
<1>3. \A q : q \in Range(Append(s, r)) <=>
                \E i \in 1 .. Len(Append(s, r)) : Append(s, r)[i] = q
  BY DEF Range
<1>4. ASSUME NEW q \in Range(Append(s, r)) PROVE q \in Range(s) \cup {r}
  <2>1. PICK i \in 1 .. Len(s) + 1 : Append(s, r)[i] = q
    BY <1>1, <1>3
  <2>2. i \in 1 .. Len(s) \/ i = Len(s) + 1
    BY <1>1
  <2> QED
    BY <1>1, <1>2, <2>1, <2>2
<1>5. ASSUME NEW q \in Range(s) \cup {r} PROVE q \in Range(Append(s, r))
  <2>1. CASE q = r
    <3>1. Len(s) + 1 \in 1 .. Len(Append(s, r))
      BY <1>1
    <3> QED
      BY <1>1, <1>3, <2>1, <3>1
  <2>2. CASE q \in Range(s)
    <3>1. PICK i \in 1 .. Len(s) : s[i] = q
      BY <1>2, <2>2
    <3>2. i \in 1 .. Len(Append(s, r)) /\ Append(s, r)[i] = q
      BY <1>1, <3>1
    <3> QED
      BY <1>3, <3>2
  <2> QED
    BY <2>1, <2>2
<1> QED
  BY <1>4, <1>5

Engaged == {w \in Workers : working[w] # NoReq}

AwayOn(f) == \/ \E q \in Range(queue) \cup Range(readyq) : q.fd = f
             \/ \E w \in Engaged : working[w].fd = f

Open    == {f \in Fds : ~Free(f)}
Counted == connections = Cardinality(Open) + Cardinality(Stale)
Broken  == \A f \in Stale : Failed(buffers[f].conn)

LEMMA AccountingParts == Accounting <=> Counted /\ Broken
BY DEF Accounting, Counted, Broken, Open

LEMMA Finite ==
    /\ IsFiniteSet(Open) /\ IsFiniteSet(Stale)
    /\ Cardinality(Open) \in Nat /\ Cardinality(Stale) \in Nat
<1>1. Open \in SUBSET Fds /\ Stale \in SUBSET Fds
  BY DEF Open, Stale
<1>2. IsFiniteSet(Open) /\ IsFiniteSet(Stale)
  BY <1>1, FS_Subset, FiniteAssumption
<1> QED
  BY <1>2, FS_CardinalityType

(* A socket that failed stays failed.                                      *)
LEMMA FailedStays ==
    ASSUME Inv, [Next]_vars, NEW c \in Conns, Failed(c)
    PROVE  Failed(c)'
<1>1. CASE \E d \in Conns : Client(d)
  <2>1. PICK d \in Conns : Client(d)
    BY <1>1
  <2>2. CASE Connect(d) \/ Close(d) \/ Reset(d) \/ SocketError(d)
    BY <2>2 DEF Connect, Close, Reset, SocketError, Leave, Failed, Inv, TypeOK, EnvType
  <2>3. CASE SendPiece(d) \/ Receive(d)
    BY <2>3 DEF SendPiece, Receive, Failed
  <2> QED
    BY <2>1, <2>2, <2>3 DEF Client
<1>2. CASE ~\E d \in Conns : Client(d)
  <2>1. UNCHANGED peer
    BY <1>2 DEF Next, EpollThread, Worker, vars, env, Signal, EpollWait, DrainOne,
        DrainDone, HandleClose, HandleError, Drop, HandleIO, HandleConnect,
        HandleSignal, BatchDone, Accept, AcceptFails, ReadData, ReadNothing, ReadFails,
        WriteChunk, WriteEnds, WriteAgain, Take, Serve, PushReady, Exit
  <2> QED
    BY <2>1 DEF Failed
<1> QED
  BY <1>1, <1>2

(* The step is about descriptor g, and not about any other.                *)
Only(g) == \A f \in Fds : f # g => UNCHANGED <<fdtab[f], buffers[f]>>

LEMMA OthersKept ==
    ASSUME NEW g \in Fds, Only(g)
    PROVE  Open' \ {g} = Open \ {g} /\ Stale' \ {g} = Stale \ {g}
BY DEF Only, Open, Stale, Free, Owns

(* The second part of the equation needs a look at g alone.                *)
LEMMA FailedOthers ==
    ASSUME Inv, Broken, NEW g \in Fds, Only(g),
           \A c \in Conns : Failed(c) => Failed(c)',
           g \in Stale' => Failed(buffers[g].conn)'
    PROVE  Broken'
<1>1. ASSUME NEW f \in Stale', f # g PROVE Failed(buffers[f].conn)'
  <2>1. f \in Stale /\ f \in Fds /\ buffers'[f] = buffers[f]
    BY <1>1, OthersKept DEF Only, Stale
  <2>2. buffers[f].conn \in Conns /\ Failed(buffers[f].conn)
    BY <2>1 DEF Stale, Inv, TypeOK, Request, Broken
  <2>3. Failed(buffers[f].conn)' <=> peer'[buffers[f].conn] \in {"rst", "err"}
    BY <2>1 DEF Failed
  <2> QED
    BY <2>2, <2>3 DEF Failed
<1> QED
  BY <1>1 DEF Broken

LEMMA CountDrain == ASSUME Inv, Inv', Counted, Broken, DrainOne PROVE Counted' /\ Broken'
<1>1. PICK r \in Request : r = readyq[1]
  BY DrainOneEffect
<1>2. PICK g \in Fds : g = r.fd
  BY DEF Request
<1>3. /\ Away(r) /\ buffers' = [buffers EXCEPT ![g] = r]
      /\ UNCHANGED <<fdtab, connections, peer>>
  BY <1>1, <1>2, DrainOneEffect DEF env
<1>4. /\ buffers \in [Fds -> Request \cup {NoReq}] /\ fdtab \in [Fds -> Conns \cup {NoConn}]
      /\ buffers[g] = NoReq /\ fdtab[g] = r.conn
  BY <1>2, <1>3 DEF Inv, TypeOK, KernelType, Away
<1>5. Only(g) /\ Open' = Open
  BY <1>3, <1>4 DEF Only, Open, Free
<1>6. g \notin Stale /\ g \notin Stale'
  BY <1>2, <1>3, <1>4 DEF Stale, Owns
<1>7. Stale' = Stale
  BY <1>5, <1>6, OthersKept
<1>8. Broken'
  BY <1>3, <1>5, <1>6, FailedOthers DEF Failed
<1> QED
  BY <1>3, <1>5, <1>7, <1>8 DEF Counted

LEMMA CountDrop ==
    ASSUME Inv, Inv', Counted, Broken, NEW g \in Fds, HandleClose(g) \/ HandleError(g)
    PROVE  Counted' /\ Broken'
<1>1. /\ Owns(g) /\ fdtab[g] \in Conns /\ connections' = connections - 1
      /\ fdtab' = [fdtab EXCEPT ![g] = NoConn]
      /\ buffers' = [buffers EXCEPT ![g] = NoReq]
      /\ UNCHANGED peer
  BY DropEffect DEF env
<1>2. /\ buffers \in [Fds -> Request \cup {NoReq}] /\ fdtab \in [Fds -> Conns \cup {NoConn}]
      /\ connections \in Int
  BY DEF Inv, TypeOK, KernelType
<1>3. Only(g)
  BY <1>1, <1>2 DEF Only
<1>4. g \in Open /\ g \notin Open' /\ g \notin Stale /\ g \notin Stale'
  BY <1>1, <1>2, NullAssumption DEF Open, Free, Stale
<1>5. Open' = Open \ {g} /\ Stale' = Stale
  BY <1>3, <1>4, OthersKept
<1>6. Cardinality(Open') = Cardinality(Open) - 1
  BY <1>4, <1>5, Finite, FS_RemoveElement
<1>7. Broken'
  BY <1>1, <1>3, <1>4, FailedOthers DEF Failed
<1> QED
  BY <1>1, <1>2, <1>5, <1>6, <1>7, Finite DEF Counted

(* Over a stale entry too, the new socket is counted once.                 *)
LEMMA CountAccept == ASSUME Inv, Inv', Lives, Counted, Broken, Accept PROVE Counted' /\ Broken'
<1>1. PICK c \in backlog, g \in Fds :
        /\ c \in Conns /\ fdtab[g] = NoConn /\ connections' = connections + 1
        /\ fdtab' = [fdtab EXCEPT ![g] = c]
        /\ \/ /\ buffers[g] = NoReq
              /\ buffers' = [buffers EXCEPT ![g] =
                        [fd |-> g, conn |-> c, got |-> 0, status |-> "none", pos |-> 0]]
           \/ buffers[g] # NoReq /\ UNCHANGED buffers
        /\ UNCHANGED peer
  BY AcceptEffect
<1>2. /\ buffers \in [Fds -> Request \cup {NoReq}] /\ fdtab \in [Fds -> Conns \cup {NoConn}]
      /\ connections \in Int
  BY DEF Inv, TypeOK, KernelType
<1>3. Only(g)
  BY <1>1, <1>2 DEF Only
<1>4. g \notin Open /\ g \in Open'
  BY <1>1, <1>2, NullAssumption DEF Open, Free
<1>5. Open' = Open \cup {g}
  BY <1>3, <1>4, OthersKept
<1>6. Cardinality(Open') = Cardinality(Open) + 1
  BY <1>4, <1>5, Finite, FS_AddElement
<1>7. Stale' = Stale /\ (g \in Stale' => buffers'[g] = buffers[g])
  <2>1. CASE buffers[g] = NoReq
    <3>1. PICK r : /\ r = [fd |-> g, conn |-> c, got |-> 0, status |-> "none", pos |-> 0]
                   /\ buffers' = [buffers EXCEPT ![g] = r]
      BY <1>1, <2>1
    <3>2. g \notin Stale /\ g \notin Stale'
      BY <1>1, <1>2, <2>1, <3>1 DEF Stale, Owns
    <3> QED
      BY <1>3, <3>2, OthersKept
  <2>2. CASE buffers[g] # NoReq
    <3>1. UNCHANGED buffers /\ buffers[g].conn # c /\ buffers[g].conn # NoConn
      BY <1>1, <1>2, <2>2, NullAssumption DEF Lives, Unseen, Request
    <3>2. g \in Stale /\ g \in Stale'
      BY <1>1, <1>2, <2>2, <3>1 DEF Stale, Owns
    <3> QED
      BY <1>3, <3>1, <3>2, OthersKept
  <2> QED
    BY <2>1, <2>2
<1>8. Broken'
  <2>1. g \in Stale' => Failed(buffers[g].conn)'
    BY <1>1, <1>7 DEF Broken, Failed
  <2> QED
    BY <1>1, <1>3, <1>7, <2>1, FailedOthers DEF Failed
<1> QED
  BY <1>1, <1>2, <1>6, <1>7, <1>8, Finite DEF Counted

(* What the thread does to the descriptor in hand.                         *)
LEMMA CountCurrent ==
    ASSUME Inv, Inv', Counted, Broken, ReadData \/ ReadFails \/ WriteChunk
    PROVE  Counted' /\ Broken'
<1>1. PICK g \in Fds : g = cur
  BY CurrentFacts DEF ReadData, ReadFails, WriteChunk
<1>2. PICK r \in Request : r = buffers[g]
  BY <1>1, CurrentFacts DEF ReadData, ReadFails, WriteChunk
<1>3. Owns(g) /\ r.fd = g /\ r # NoReq /\ fdtab[g] = r.conn /\ r.conn \in Conns
  BY <1>1, <1>2, CurrentFacts DEF ReadData, ReadFails, WriteChunk
<1>4. /\ buffers \in [Fds -> Request \cup {NoReq}] /\ fdtab \in [Fds -> Conns \cup {NoConn}]
      /\ connections \in Int
  BY DEF Inv, TypeOK, KernelType
<1>5. UNCHANGED <<connections, peer>>
  BY DEF ReadData, ReadFails, WriteChunk, env
<1>6. g \in Open /\ g \notin Stale
  BY <1>3, NullAssumption DEF Open, Free, Stale
<1>7. CASE ReadFails
  <2>1. /\ UNCHANGED buffers /\ fdtab' = [fdtab EXCEPT ![g] = NoConn]
        /\ Failed(fdtab[g])
    BY <1>1, <1>7, ReadFailsEffect DEF pool
  <2>2. Only(g)
    BY <1>4, <2>1 DEF Only
  <2>3. g \notin Open' /\ g \in Stale'
    BY <1>2, <1>3, <1>4, <2>1, NullAssumption DEF Open, Free, Stale, Owns
  <2>4. Open' = Open \ {g} /\ Stale' = Stale \cup {g}
    BY <1>6, <2>2, <2>3, OthersKept
  <2>5. /\ Cardinality(Open') = Cardinality(Open) - 1
        /\ Cardinality(Stale') = Cardinality(Stale) + 1
    BY <1>6, <2>4, Finite, FS_AddElement, FS_RemoveElement
  <2>6. Broken'
    <3>1. Failed(buffers[g].conn)' /\ buffers'[g] = buffers[g]
      BY <1>2, <1>3, <1>5, <2>1 DEF Failed
    <3> QED
      BY <1>5, <2>2, <3>1, FailedOthers DEF Failed
  <2> QED
    BY <1>4, <1>5, <2>5, <2>6, Finite DEF Counted
<1>8. ASSUME NEW q, q = NoReq \/ (q.fd = g /\ q.conn = r.conn),
             buffers' = [buffers EXCEPT ![g] = q], UNCHANGED fdtab
      PROVE  Counted' /\ Broken'
  <2>1. Only(g) /\ Open' = Open
    BY <1>4, <1>8 DEF Only, Open, Free
  <2>2. g \notin Stale'
    BY <1>3, <1>4, <1>8 DEF Stale, Owns
  <2>3. Stale' = Stale
    BY <1>6, <2>1, <2>2, OthersKept
  <2>4. Broken'
    BY <1>5, <2>1, <2>2, FailedOthers DEF Failed
  <2> QED
    BY <1>5, <2>1, <2>3, <2>4 DEF Counted
<1>9. CASE WriteChunk
  <2>1. /\ buffers' = [buffers EXCEPT ![g] = [r EXCEPT !.pos = r.pos + 1]]
        /\ UNCHANGED fdtab
    BY <1>1, <1>2, <1>9, WriteChunkEffect
  <2>2. /\ [r EXCEPT !.pos = r.pos + 1].fd = g
        /\ [r EXCEPT !.pos = r.pos + 1].conn = r.conn
    BY <1>3 DEF Request
  <2> QED
    BY <1>8, <2>1, <2>2
<1>10. CASE ReadData
  <2>1. PICK n \in Nat : (ReadOn(n) \/ ReadAway(n) \/ ReadAnswered(n)) /\ UNCHANGED fdtab
    BY <1>10, ReadDataEffect
  <2>2. CASE ReadOn(n)
    <3>1. buffers' = [buffers EXCEPT ![g] = [r EXCEPT !.got = r.got + n]]
      BY <1>1, <1>2, <2>2 DEF ReadOn
    <3>2. /\ [r EXCEPT !.got = r.got + n].fd = g
          /\ [r EXCEPT !.got = r.got + n].conn = r.conn
      BY <1>3 DEF Request
    <3> QED
      BY <1>8, <2>1, <3>1, <3>2
  <2>3. CASE ReadAnswered(n)
    <3>1. PICK verdict :
            buffers' = [buffers EXCEPT ![g] =
                            [r EXCEPT !.got = r.got + n, !.status = verdict]]
      BY <1>1, <1>2, <2>3 DEF ReadAnswered
    <3>2. /\ [r EXCEPT !.got = r.got + n, !.status = verdict].fd = g
          /\ [r EXCEPT !.got = r.got + n, !.status = verdict].conn = r.conn
      BY <1>3 DEF Request
    <3> QED
      BY <1>8, <2>1, <3>1, <3>2
  <2>4. CASE ReadAway(n)
    BY <1>1, <1>8, <2>1, <2>4 DEF ReadAway
  <2> QED
    BY <2>1, <2>2, <2>3, <2>4
<1> QED
  BY <1>7, <1>9, <1>10

LEMMA CountNext == Inv /\ Lives /\ Counted /\ Broken /\ [Next]_vars => Counted' /\ Broken'
<1> SUFFICES ASSUME Inv, Lives, Counted, Broken, [Next]_vars PROVE Counted' /\ Broken'
  OBVIOUS
<1>1. Inv'
  BY NextInv
<1>2. ASSUME UNCHANGED <<connections, fdtab, buffers>>
      PROVE  Counted' /\ Broken'
  <2>1. Stale' = Stale /\ Open' = Open
    BY <1>2 DEF Stale, Owns, Open, Free
  <2>2. ASSUME NEW f \in Stale PROVE Failed(buffers[f].conn)'
    <3>1. f \in Fds /\ buffers[f].conn \in Conns /\ Failed(buffers[f].conn)
      BY <2>2 DEF Stale, Inv, TypeOK, Request, Broken
    <3>2. PICK c \in Conns : c = buffers[f].conn
      BY <3>1
    <3>3. Failed(c)'
      BY <3>1, <3>2, FailedStays
    <3> QED
      BY <1>2, <3>2, <3>3 DEF Failed
  <2> QED
    BY <1>2, <2>1, <2>2 DEF Counted, Broken
<1>3. CASE \/ \E c \in Conns : Client(c)
           \/ Signal \/ EpollWait \/ DrainDone \/ \E f \in Fds : HandleIO(f)
           \/ HandleConnect \/ HandleSignal \/ BatchDone \/ AcceptFails
           \/ ReadNothing \/ WriteEnds \/ WriteAgain \/ UNCHANGED vars
           \/ \E w \in Workers : Worker(w)
  <2>1. UNCHANGED <<connections, fdtab, buffers>>
    BY <1>3 DEF Client, Connect, SendPiece, Close, Reset, SocketError, Leave, Receive,
        Signal, EpollWait, DrainDone, HandleIO, HandleConnect, HandleSignal,
        BatchDone, AcceptFails, ReadNothing, WriteEnds, WriteAgain, vars, kernel,
        Worker, Take, Serve, PushReady, Exit
  <2> QED
    BY <1>2, <2>1
<1> QED
  BY <1>1, <1>3, CountDrain, CountDrop, CountAccept, CountCurrent
     DEF Next, EpollThread

LEMMA CountInit == Init => Counted /\ Broken
<1> SUFFICES ASSUME Init PROVE Counted /\ Broken
  OBVIOUS
<1>1. Open = {} /\ Stale = {}
  BY DEF Init, Open, Free, Stale
<1>2. Cardinality({}) = 0
  BY FS_EmptySet
<1> QED
  BY <1>1, <1>2 DEF Init, Counted, Broken

(* m_metrics.connections, across every way a connection can come and go    *)
(* (epoll_handle_connect, epoll_handle_close, the failed read that leaves  *)
(* the entry), is the number of open sockets and of the entries that       *)
(* failed reads have left, so that it never goes under zero.               *)
THEOREM ReactorAccounting == Spec => []Accounting
<1>1. Spec => [](Inv /\ Lives)
  BY Connections
<1>2. Inv /\ Lives /\ Counted /\ Broken /\ [Next]_vars => Counted' /\ Broken'
  BY CountNext
<1>3. Init => Counted /\ Broken
  BY CountInit
<1>4. Counted /\ Broken => Accounting
  BY AccountingParts
<1> QED
  BY <1>1, <1>2, <1>3, <1>4, PTL DEF Spec

-----------------------------------------------------------------------------
(* The refinement of Exchange.  A connection is open on one descriptor at  *)
(* most (Lives), so that its stage can be told from that descriptor; a     *)
(* step of the engine touches one descriptor, and the stage of its         *)
(* connection moves as Exchange allows while the others stay.              *)

(* The stage of an open descriptor.                                        *)

Waiting(f)       == \E q \in Range(queue)  : q.fd = f
Returning(f)     == \E q \in Range(readyq) : q.fd = f
With(f, answers) == \E w \in Engaged : working[w].fd = f /\ working[w].status \in answers

FdStage(f) ==
    IF Waiting(f) \/ With(f, None) THEN "serving"
    ELSE IF Returning(f) \/ With(f, Decided) THEN "answering"
    ELSE IF Owns(f) THEN IF buffers[f].status = "none" THEN "held" ELSE "answering"
    ELSE "lost"

(* Who has the request tells the stage.                                    *)
Holders ==
    \A f \in Fds :
        /\ Owns(f) => FdStage(f) = IF buffers[f].status = "none" THEN "held" ELSE "answering"
        /\ Waiting(f) => FdStage(f) = "serving"
        /\ Returning(f) => FdStage(f) = "answering"
        /\ \A w \in Engaged : working[w].fd = f =>
              FdStage(f) = IF working[w].status = "none" THEN "serving" ELSE "answering"
        /\ ~Owns(f) /\ ~AwayOn(f) => FdStage(f) = "lost"

(* A connection has the stage of its descriptor, once it is accepted.      *)
Stages ==
    /\ \A c \in Conns : Unseen(c) => StageOf(c) = "absent"
    /\ \A c \in Conns : ~Unseen(c) /\ (\A f \in Fds : fdtab[f] # c) => StageOf(c) = "closed"
    /\ \A f \in Fds, c \in Conns : fdtab[f] = c => ~Unseen(c) /\ StageOf(c) = FdStage(f)

LEMMA HoldersHold == Inv /\ Lives => Holders
<1> SUFFICES ASSUME Inv, Lives, NEW f \in Fds
             PROVE  /\ Owns(f) => FdStage(f) = IF buffers[f].status = "none"
                                                 THEN "held" ELSE "answering"
                    /\ Waiting(f) => FdStage(f) = "serving"
                    /\ Returning(f) => FdStage(f) = "answering"
                    /\ \A w \in Engaged : working[w].fd = f =>
                          FdStage(f) = IF working[w].status = "none"
                                         THEN "serving" ELSE "answering"
                    /\ ~Owns(f) /\ ~AwayOn(f) => FdStage(f) = "lost"
  BY DEF Holders
<1>1. RangeFact(queue) /\ RangeFact(readyq)
  BY RangeIs DEF Inv, TypeOK, PoolType
<1>2. /\ Waiting(f) <=> \E i \in 1 .. Len(queue) : queue[i].fd = f
      /\ Returning(f) <=> \E i \in 1 .. Len(readyq) : readyq[i].fd = f
  BY <1>1 DEF RangeFact, Waiting, Returning
<1>3. Owns(f) => ~Waiting(f) /\ ~Returning(f) /\ \A answers : ~With(f, answers)
  <2>1. Owns(f) => interest[f] # {}
    BY DEF Lives
  <2> QED
    BY <1>2, <2>1, AwayElsewhere DEF With, Engaged
<1>4. ASSUME Waiting(f) PROVE FdStage(f) = "serving"
  BY <1>4 DEF FdStage
<1>5. ASSUME Returning(f) PROVE FdStage(f) = "answering"
  <2>1. ~Waiting(f) /\ ~With(f, None)
    BY <1>2, <1>5 DEF With, Engaged, Inv, Owners, Distinct
  <2> QED
    BY <1>5, <2>1 DEF FdStage
<1>6. ASSUME NEW w \in Engaged, working[w].fd = f
      PROVE  FdStage(f) = IF working[w].status = "none" THEN "serving" ELSE "answering"
  <2>1. ~Waiting(f) /\ \A v \in Engaged : working[v].fd = f => v = w
    BY <1>2, <1>6 DEF Engaged, Inv, Owners, Distinct
  <2>2. working[w].status \in Statuses
    BY DEF Engaged, Inv, TypeOK, PoolType, Request
  <2>3. CASE working[w].status = "none"
    BY <1>6, <2>3 DEF FdStage, With, None
  <2>4. CASE working[w].status # "none"
    <3>1. ~With(f, None) /\ With(f, Decided)
      BY <1>6, <2>1, <2>2, <2>4 DEF With, None, Decided
    <3> QED
      BY <2>1, <2>4, <3>1 DEF FdStage
  <2> QED
    BY <2>3, <2>4
<1>7. ~AwayOn(f) => ~Waiting(f) /\ ~Returning(f) /\ \A answers : ~With(f, answers)
  BY DEF AwayOn, Waiting, Returning, With
<1>8. Owns(f) => FdStage(f) = IF buffers[f].status = "none" THEN "held" ELSE "answering"
  BY <1>3 DEF FdStage
<1>9. ~Owns(f) /\ ~AwayOn(f) => FdStage(f) = "lost"
  BY <1>7 DEF FdStage
<1> QED
  BY <1>4, <1>5, <1>6, <1>8, <1>9

LEMMA StagesHold == Inv /\ Lives => Stages
<1> SUFFICES ASSUME Inv, Lives PROVE Stages
  OBVIOUS
<1>1. RangeFact(queue) /\ RangeFact(readyq)
  BY RangeIs DEF Inv, TypeOK, PoolType
<1>2. /\ \A i \in 1 .. Len(queue) : queue[i] \in Request /\ Away(queue[i])
      /\ \A i \in 1 .. Len(readyq) : readyq[i] \in Request /\ Away(readyq[i])
      /\ \A w \in Engaged : working[w] \in Request /\ Away(working[w])
  BY DEF Engaged, Inv, TypeOK, PoolType, Owners, Detached
<1>3. ASSUME NEW c \in Conns, Unseen(c) PROVE StageOf(c) = "absent"
  BY <1>3 DEF Unseen, StageOf
<1>4. ASSUME NEW c \in Conns, ~Unseen(c), \A f \in Fds : fdtab[f] # c
      PROVE  StageOf(c) = "closed"
  <2>1. ASSUME NEW q \in Request, Away(q) PROVE q.conn # c
    BY <1>4, <2>1 DEF Away, Request
  <2>2. ~Queued(c) /\ ~Served(c) /\ \A answers : ~Taken(c, answers) /\ ~Held(c, answers)
    BY <1>2, <1>4, <2>1 DEF Queued, Served, Taken, Held, Engaged
  <2> QED
    BY <1>4, <2>2 DEF StageOf, Unseen
<1>5. ASSUME NEW f \in Fds, NEW c \in Conns, fdtab[f] = c
      PROVE  ~Unseen(c) /\ StageOf(c) = FdStage(f)
  <2>1. ~Unseen(c)
    BY <1>5 DEF Lives
  <2>2. \A g \in Fds : fdtab[g] = c <=> g = f
    BY <1>5, NullAssumption DEF Lives
  <2>3. ASSUME NEW q \in Request, Away(q) PROVE q.conn = c <=> q.fd = f
    BY <2>2, <2>3 DEF Away, Request
  <2>4. /\ Queued(c) <=> Waiting(f)
        /\ Served(c) <=> Returning(f)
        /\ \A answers : Taken(c, answers) <=> With(f, answers)
        /\ \A answers : Held(c, answers) <=> Owns(f) /\ buffers[f].status \in answers
    <3>1. Queued(c) <=> Waiting(f)
      BY <1>1, <1>2, <2>3 DEF Queued, Waiting, RangeFact
    <3>2. Served(c) <=> Returning(f)
      BY <1>1, <1>2, <2>3 DEF Served, Returning, RangeFact
    <3>3. ASSUME NEW answers PROVE Taken(c, answers) <=> With(f, answers)
      BY <1>2, <2>3 DEF Taken, With, Engaged
    <3>4. ASSUME NEW answers
          PROVE  Held(c, answers) <=> Owns(f) /\ buffers[f].status \in answers
      BY <1>5, <2>2 DEF Held
    <3> QED
      BY <3>1, <3>2, <3>3, <3>4
  <2>5. Owns(f) => buffers[f].status \in Statuses
    BY DEF Owns, Inv, TypeOK, Request
  <2>6. /\ Owns(f) => (Held(c, None) <=> buffers[f].status = "none")
        /\ Owns(f) => (Held(c, Decided) <=> buffers[f].status # "none")
        /\ ~Owns(f) => ~Held(c, None) /\ ~Held(c, Decided)
    BY <2>4, <2>5 DEF None, Decided
  <2>7. StageOf(c) = IF Waiting(f) \/ With(f, None) THEN "serving"
                     ELSE IF Returning(f) \/ With(f, Decided) \/ Held(c, Decided)
                       THEN "answering"
                     ELSE IF Held(c, None) THEN "held" ELSE "lost"
    BY <1>5, <2>1, <2>4 DEF StageOf, Unseen
  <2> QED
    BY <2>1, <2>6, <2>7 DEF FdStage
<1> QED
  BY <1>3, <1>4, <1>5 DEF Stages

-----------------------------------------------------------------------------
(* Steps.  A step keeps every connection but one as it is, and moves that  *)
(* one from a stage to a stage.                                            *)

Stays(c) == StageOf(c)' = StageOf(c)

Moves(c, from, to) == /\ StageOf(c) \in from /\ StageOf(c)' = to
                      /\ \A d \in Conns : d # c => Stays(d)
                      /\ UNCHANGED wire

LEMMA MovesStep ==
    ASSUME NEW c \in Conns, NEW from, NEW to, Moves(c, from, to)
    PROVE  Promise!Step(c, from, to)
BY DEF Moves, Stays, Promise!Step

LEMMA StaysStep ==
    ASSUME \A c \in Conns : Stays(c), UNCHANGED wire
    PROVE  UNCHANGED Promise!exchangeVars
BY DEF Stays, Promise!exchangeVars

LEMMA FdStageKept ==
    ASSUME NEW f \in Fds, UNCHANGED <<buffers[f], Owns(f), Waiting(f), Returning(f)>>,
           UNCHANGED <<With(f, None), With(f, Decided)>>
    PROVE  FdStage(f)' = FdStage(f)
BY DEF FdStage

LEMMA OthersStay ==
    ASSUME Stages, Stages', NEW c \in Conns, NEW g \in Fds,
           \A d \in Conns : d # c => Unseen(d)' = Unseen(d),
           fdtab[g] \in {c, NoConn}, fdtab'[g] \in {c, NoConn},
           \A f \in Fds : f # g => UNCHANGED <<fdtab[f], FdStage(f)>>
    PROVE  \A d \in Conns : d # c => Stays(d)
<1> SUFFICES ASSUME NEW d \in Conns, d # c PROVE StageOf(d)' = StageOf(d)
  BY DEF Stays
<1>1. fdtab[g] # d /\ fdtab'[g] # d
  BY NullAssumption
<1>2. CASE Unseen(d)
  BY <1>2 DEF Stages
<1>3. CASE ~Unseen(d) /\ \A f \in Fds : fdtab[f] # d
  <2>1. ~Unseen(d)' /\ \A f \in Fds : fdtab'[f] # d
    BY <1>1, <1>3
  <2> QED
    BY <1>3, <2>1 DEF Stages
<1>4. ASSUME NEW f \in Fds, fdtab[f] = d PROVE StageOf(d)' = StageOf(d)
  <2>1. f # g /\ fdtab'[f] = d /\ FdStage(f)' = FdStage(f)
    BY <1>1, <1>4
  <2> QED
    BY <1>4, <2>1 DEF Stages
<1> QED
  BY <1>2, <1>3, <1>4

LEMMA QuietStep ==
    ASSUME UNCHANGED <<fdtab, buffers, queue, readyq, working, wire>>,
           \A c \in Conns : Unseen(c)' = Unseen(c)
    PROVE  UNCHANGED Promise!exchangeVars
<1>1. \A c \in Conns : Stays(c)
  BY DEF Stays, StageOf, Unseen, Queued, Served, Taken, Held, Owns
<1> QED
  BY <1>1, StaysStep

(* What clients do alone: a connection in the listen queue is absent.      *)
LEMMA ClientStep ==
    ASSUME Inv, NEW c \in Conns, Client(c)
    PROVE  UNCHANGED Promise!exchangeVars
<1>1. UNCHANGED <<fdtab, buffers, queue, readyq, working, wire>>
  BY DEF Client, Connect, SendPiece, Close, Reset, SocketError, Leave, Receive, kernel, pool
<1>2. peer \in [Conns -> Peers]
  BY DEF Inv, TypeOK, EnvType
<1>3. \A d \in Conns : Unseen(d)' = Unseen(d)
  <2>1. CASE Connect(c)
    BY <1>2, <2>1 DEF Connect, Unseen
  <2>2. CASE SendPiece(c) \/ Receive(c)
    BY <2>2 DEF SendPiece, Receive, Unseen
  <2>3. CASE Close(c) \/ Reset(c) \/ SocketError(c)
    <3>1. PICK how \in {"fin", "rst", "err"} : Leave(c, how) /\ peer[c] # "idle"
      BY <2>3 DEF Close, Reset, SocketError
    <3> QED
      BY <1>2, <3>1 DEF Leave, Unseen
  <2> QED
    BY <2>1, <2>2, <2>3 DEF Client
<1> QED
  BY <1>1, <1>3, QuietStep

(* An answered request is back in the map: its answer is as decided.       *)
LEMMA DrainStep ==
    ASSUME Inv, Inv', Holders, Holders', Stages, Stages', DrainOne
    PROVE  UNCHANGED Promise!exchangeVars
<1>1. PICK r \in Request : r = readyq[1]
  BY DrainOneEffect
<1>2. PICK g \in Fds : g = r.fd
  BY DEF Request
<1>3. PICK c \in Conns : c = r.conn
  BY DEF Request
<1>4. /\ Away(r) /\ r.status # "none"
      /\ buffers' = [buffers EXCEPT ![g] = r]
      /\ readyq' = Tail(readyq) /\ readyq # <<>>
      /\ UNCHANGED <<fdtab, queue, working, wire, peer, backlog>>
  BY <1>1, <1>2, DrainOneEffect DEF DrainOne, env
<1>5. fdtab[g] = c /\ r # NoReq
  BY <1>2, <1>3, <1>4, NullAssumption DEF Away
<1>6. Range(readyq) = Range(readyq') \cup {r}
  BY <1>1, <1>4, RangePop DEF Inv, TypeOK, PoolType
<1>7. buffers'[g] = r /\ \A f \in Fds : f # g => UNCHANGED buffers[f]
  BY <1>4 DEF Inv, TypeOK
<1>8. FdStage(g) = "answering"
  BY <1>2, <1>6 DEF Holders, Returning
<1>9. FdStage(g)' = "answering"
  BY <1>2, <1>3, <1>4, <1>5, <1>7 DEF Holders, Owns
<1>10. \A f \in Fds : f # g => UNCHANGED <<fdtab[f], FdStage(f)>>
  <2>1. ASSUME NEW f \in Fds, f # g PROVE FdStage(f)' = FdStage(f)
    <3>1. UNCHANGED <<buffers[f], Owns(f), Waiting(f)>>
      BY <1>4, <1>7, <2>1 DEF Owns, Waiting
    <3>2. Returning(f)' = Returning(f)
      BY <1>2, <1>6, <2>1 DEF Returning
    <3>3. UNCHANGED <<With(f, None), With(f, Decided)>>
      BY <1>4 DEF With, Engaged
    <3> QED
      BY <3>1, <3>2, <3>3, FdStageKept
  <2> QED
    BY <1>4, <2>1
<1>11. \A d \in Conns : d # c => Stays(d)
  BY <1>4, <1>5, <1>10, OthersStay DEF Unseen
<1>12. Stays(c)
  BY <1>4, <1>5, <1>8, <1>9 DEF Stays, Stages
<1> QED
  BY <1>4, <1>11, <1>12, StaysStep

(* Its client has left, or its socket has failed.                          *)
LEMMA ShutStep ==
    ASSUME Inv, Lives, Lives', Holders, Stages, Stages',
           ReadFails \/ \E f \in Fds : HandleClose(f) \/ HandleError(f)
    PROVE  \E c \in Conns : Promise!Shut(c)
<1>1. PICK g \in Fds :
        /\ Owns(g) /\ fdtab[g] \in Conns
        /\ fdtab' = [fdtab EXCEPT ![g] = NoConn]
        /\ \A f \in Fds : f # g => UNCHANGED buffers[f]
        /\ UNCHANGED <<queue, readyq, working, wire, peer, backlog>>
  <2>1. CASE ReadFails
    <3>1. cur \in Fds /\ Owns(cur) /\ fdtab[cur] \in Conns
      BY <2>1, CurrentFacts DEF ReadFails
    <3> QED
      BY <2>1, <3>1, ReadFailsEffect DEF env, pool
  <2>2. ASSUME NEW f \in Fds, HandleClose(f) \/ HandleError(f)
        PROVE  /\ Owns(f) /\ fdtab[f] \in Conns
               /\ fdtab' = [fdtab EXCEPT ![f] = NoConn]
               /\ \A h \in Fds : h # f => UNCHANGED buffers[h]
               /\ UNCHANGED <<queue, readyq, working, wire, peer, backlog>>
    BY <2>2, DropEffect DEF env, pool, Inv, TypeOK
  <2> QED
    BY <2>1, <2>2
<1>2. PICK c \in Conns : c = fdtab[g]
  BY <1>1
<1>3. /\ fdtab'[g] = NoConn /\ \A f \in Fds : f # g => UNCHANGED fdtab[f]
  BY <1>1 DEF Inv, TypeOK, KernelType
<1>4. \A f \in Fds : f # g => UNCHANGED <<fdtab[f], FdStage(f)>>
  <2>1. ASSUME NEW f \in Fds, f # g PROVE FdStage(f)' = FdStage(f)
    <3>1. UNCHANGED <<buffers[f], Owns(f), Waiting(f), Returning(f)>>
      BY <1>1, <1>3, <2>1 DEF Owns, Waiting, Returning
    <3>2. UNCHANGED <<With(f, None), With(f, Decided)>>
      BY <1>1 DEF With, Engaged
    <3> QED
      BY <3>1, <3>2, FdStageKept
  <2> QED
    BY <1>3, <2>1
<1>5. \A d \in Conns : d # c => Stays(d)
  BY <1>1, <1>2, <1>3, <1>4, OthersStay DEF Unseen
<1>6. StageOf(c) \in {"held", "answering"}
  BY <1>1, <1>2 DEF Stages, Holders
<1>7. StageOf(c)' = "closed"
  <2>1. \A f \in Fds : fdtab'[f] # c
    BY <1>2, <1>3, NullAssumption DEF Lives
  <2>2. ~Unseen(c)'
    BY <1>1, <1>2 DEF Stages, Unseen
  <2> QED
    BY <2>1, <2>2 DEF Stages
<1>8. Moves(c, {"held", "answering"}, "closed")
  BY <1>1, <1>5, <1>6, <1>7 DEF Moves
<1> QED
  BY <1>8, MovesStep DEF Promise!Shut

(* A connection is accepted, with a request of its own or over a stale     *)
(* entry.                                                                  *)
LEMMA AcceptStep ==
    ASSUME Inv, Lives, Lives', Holders', Stages, Stages', Accept
    PROVE  \E c \in Conns : Promise!Admit(c) \/ Promise!Lose(c)
<1>1. PICK c \in backlog, g \in Fds :
        /\ c \in Conns /\ fdtab[g] = NoConn /\ backlog' = backlog \ {c}
        /\ fdtab' = [fdtab EXCEPT ![g] = c]
        /\ \/ /\ buffers[g] = NoReq
              /\ buffers' = [buffers EXCEPT ![g] =
                        [fd |-> g, conn |-> c, got |-> 0, status |-> "none", pos |-> 0]]
           \/ buffers[g] # NoReq /\ UNCHANGED buffers
        /\ UNCHANGED <<queue, readyq, working, wire, peer>>
  BY AcceptEffect DEF pool
<1>2. /\ fdtab'[g] = c /\ \A f \in Fds : f # g => UNCHANGED <<fdtab[f], buffers[f]>>
  BY <1>1 DEF Inv, TypeOK, KernelType
<1>3. \A f \in Fds : f # g => UNCHANGED <<fdtab[f], FdStage(f)>>
  <2>1. ASSUME NEW f \in Fds, f # g PROVE FdStage(f)' = FdStage(f)
    <3>1. UNCHANGED <<buffers[f], Owns(f), Waiting(f), Returning(f)>>
      BY <1>1, <1>2, <2>1 DEF Owns, Waiting, Returning
    <3>2. UNCHANGED <<With(f, None), With(f, Decided)>>
      BY <1>1 DEF With, Engaged
    <3> QED
      BY <3>1, <3>2, FdStageKept
  <2> QED
    BY <1>2, <2>1
<1>4. \A d \in Conns : d # c => Stays(d)
  BY <1>1, <1>2, <1>3, OthersStay DEF Unseen
<1>5. StageOf(c) \in {"absent"}
  BY <1>1 DEF Stages, Unseen
<1>6. StageOf(c)' = FdStage(g)'
  BY <1>1, <1>2 DEF Stages
<1>7. CASE buffers[g] = NoReq
  <2>1. PICK r : /\ r = [fd |-> g, conn |-> c, got |-> 0, status |-> "none", pos |-> 0]
                 /\ buffers' = [buffers EXCEPT ![g] = r]
    BY <1>1, <1>7
  <2>2. r # NoReq /\ r.fd = g /\ r.conn = c /\ r.status = "none"
    BY <1>1, <2>1, BoundsAssumption, NullAssumption DEF Request, Statuses
  <2>3. buffers'[g] = r
    BY <2>1 DEF Inv, TypeOK
  <2>4. FdStage(g)' = "held"
    BY <1>2, <2>2, <2>3 DEF Holders, Owns
  <2>5. Moves(c, {"absent"}, "held")
    BY <1>1, <1>4, <1>5, <1>6, <2>4 DEF Moves
  <2> QED
    BY <1>1, <2>5, MovesStep DEF Promise!Admit
<1>8. CASE buffers[g] # NoReq
  <2>1. UNCHANGED buffers
    BY <1>1, <1>8
  <2>2. ~AwayOn(g)'
    <3>1. ~AwayOn(g)
      BY <1>1, RangeIs, AwayElsewhere, SMTT(30)
         DEF AwayOn, RangeFact, Engaged, Inv, TypeOK, PoolType
    <3> QED
      BY <1>1, <3>1 DEF AwayOn, Engaged
  <2>3. ~Owns(g)'
    <3>1. buffers[g].conn # c
      BY <1>1, <1>8 DEF Lives, Unseen
    <3> QED
      BY <1>2, <2>1, <3>1 DEF Owns
  <2>4. FdStage(g)' = "lost"
    BY <2>2, <2>3 DEF Holders
  <2>5. Moves(c, {"absent"}, "lost")
    BY <1>1, <1>4, <1>5, <1>6, <2>4 DEF Moves
  <2> QED
    BY <1>1, <2>5, MovesStep DEF Promise!Lose
<1> QED
  BY <1>7, <1>8

(* A read holds the request, hands it over, or decides its answer.         *)
LEMMA ReadDataStep ==
    ASSUME Inv, Lives, Lives', Holders, Holders', Stages, Stages', ReadData
    PROVE  \/ UNCHANGED Promise!exchangeVars
           \/ \E c \in Conns : Promise!Dispatch(c) \/ Promise!Decide(c)
<1>1. PICK g \in Fds : g = cur
  BY CurrentFacts DEF ReadData
<1>2. PICK r \in Request : r = buffers[g]
  BY <1>1, CurrentFacts DEF ReadData
<1>3. PICK c \in Conns : c = r.conn
  BY DEF Request
<1>4. Owns(g) /\ fdtab[g] = c /\ r.fd = g /\ r.status = "none" /\ r # NoReq
  BY <1>1, <1>2, <1>3, CurrentFacts DEF ReadData
<1>5. PICK n \in Nat : /\ ReadOn(n) \/ ReadAway(n) \/ ReadAnswered(n)
                       /\ UNCHANGED <<fdtab, wire, working, readyq, peer, backlog>>
  BY ReadDataEffect
<1>6. buffers \in [Fds -> Request \cup {NoReq}] /\ queue \in Seq(Request)
  BY DEF Inv, TypeOK, PoolType
<1>7. StageOf(c) \in {"held"}
  BY <1>2, <1>4 DEF Stages, Holders
<1>8. StageOf(c)' = FdStage(g)'
  BY <1>4, <1>5 DEF Stages
<1>9. ASSUME \A f \in Fds : f # g => UNCHANGED <<buffers[f], Waiting(f)>>
      PROVE  \A d \in Conns : d # c => Stays(d)
  <2>1. ASSUME NEW f \in Fds, f # g PROVE FdStage(f)' = FdStage(f)
    <3>1. UNCHANGED <<buffers[f], Owns(f), Waiting(f), Returning(f)>>
      BY <1>5, <1>9, <2>1 DEF Owns, Returning
    <3>2. UNCHANGED <<With(f, None), With(f, Decided)>>
      BY <1>5 DEF With, Engaged
    <3> QED
      BY <3>1, <3>2, FdStageKept
  <2> QED
    BY <1>4, <1>5, <2>1, OthersStay DEF Unseen
<1>10. ASSUME NEW q \in Request, q.fd = g, q.conn = c,
              buffers' = [buffers EXCEPT ![g] = q], UNCHANGED queue
       PROVE  /\ StageOf(c)' = IF q.status = "none" THEN "held" ELSE "answering"
              /\ \A d \in Conns : d # c => Stays(d)
  <2>1. buffers'[g] = q /\ \A f \in Fds : f # g => UNCHANGED buffers[f]
    BY <1>6, <1>10
  <2>2. Owns(g)'
    BY <1>4, <1>5, <1>10, <2>1, NullAssumption DEF Owns
  <2>3. \A f \in Fds : Waiting(f)' = Waiting(f)
    BY <1>10 DEF Waiting
  <2>4. FdStage(g)' = IF q.status = "none" THEN "held" ELSE "answering"
    BY <2>1, <2>2 DEF Holders
  <2> QED
    BY <1>8, <1>9, <2>1, <2>3, <2>4
<1>11. CASE ReadOn(n)
  <2>1. buffers' = [buffers EXCEPT ![g] = [r EXCEPT !.got = r.got + n]] /\ UNCHANGED queue
    BY <1>1, <1>2, <1>11 DEF ReadOn
  <2>2. /\ [r EXCEPT !.got = r.got + n] \in Request
        /\ [r EXCEPT !.got = r.got + n].fd = g
        /\ [r EXCEPT !.got = r.got + n].conn = c
        /\ [r EXCEPT !.got = r.got + n].status = "none"
    BY <1>3, <1>4 DEF Request
  <2>3. StageOf(c)' = "held" /\ \A d \in Conns : d # c => Stays(d)
    BY <1>10, <2>1, <2>2
  <2>4. Stays(c)
    BY <1>7, <2>3 DEF Stays
  <2> QED
    BY <1>5, <2>3, <2>4, StaysStep
<1>12. CASE ReadAnswered(n)
  <2>1. PICK verdict \in Decided :
            /\ buffers' = [buffers EXCEPT ![g] =
                              [r EXCEPT !.got = r.got + n, !.status = verdict]]
            /\ UNCHANGED queue
    BY <1>1, <1>2, <1>12 DEF ReadAnswered, Decided, None, Statuses
  <2>2. PICK q : q = [r EXCEPT !.got = r.got + n, !.status = verdict]
    OBVIOUS
  <2>3. q \in Request /\ q.fd = g /\ q.conn = c /\ q.status # "none"
    <3>1. r.got + n \in Nat /\ verdict \in Statuses /\ verdict # "none"
      BY DEF Request, Decided, None
    <3> QED
      BY <1>3, <1>4, <2>2, <3>1 DEF Request
  <2>4. StageOf(c)' = "answering" /\ \A d \in Conns : d # c => Stays(d)
    BY <1>10, <2>1, <2>2, <2>3
  <2>5. Moves(c, {"held", "serving"}, "answering")
    BY <1>5, <1>7, <2>4 DEF Moves
  <2> QED
    BY <2>5, MovesStep DEF Promise!Decide
<1>13. CASE ReadAway(n)
  <2>1. PICK q \in Request : /\ q.fd = g
                             /\ buffers' = [buffers EXCEPT ![g] = NoReq]
                             /\ queue' = Append(queue, q)
    <3>1. /\ [r EXCEPT !.got = r.got + n] \in Request
          /\ [r EXCEPT !.got = r.got + n].fd = g
      BY <1>4 DEF Request
    <3> QED
      BY <1>1, <1>2, <1>13, <3>1 DEF ReadAway
  <2>2. Range(queue') = Range(queue) \cup {q}
    BY <1>6, <2>1, RangePush
  <2>3. FdStage(g)' = "serving"
    BY <2>1, <2>2 DEF Holders, Waiting
  <2>4. \A f \in Fds : f # g => UNCHANGED <<buffers[f], Waiting(f)>>
    BY <1>6, <2>1, <2>2 DEF Waiting
  <2>5. Moves(c, {"held"}, "serving")
    BY <1>5, <1>7, <1>8, <1>9, <2>3, <2>4 DEF Moves
  <2> QED
    BY <2>5, MovesStep DEF Promise!Dispatch
<1> QED
  BY <1>5, <1>11, <1>12, <1>13

(* A chunk leaves, of an answer that is not sent yet.                      *)
LEMMA WriteChunkStep ==
    ASSUME Inv, Inv', Answers, Holders, Holders', Stages, Stages', WriteChunk
    PROVE  \E c \in Conns : Promise!Emit(c)
<1>1. PICK g \in Fds : g = cur
  BY CurrentFacts DEF WriteChunk
<1>2. PICK r \in Request : r = buffers[g]
  BY <1>1, CurrentFacts DEF WriteChunk
<1>3. PICK c \in Conns : c = r.conn
  BY DEF Request
<1>4. /\ Owns(g) /\ fdtab[g] = c /\ r.fd = g /\ r.status # "none" /\ r # NoReq
      /\ interest[g] # {}
  BY <1>1, <1>2, <1>3, CurrentFacts DEF WriteChunk
<1>5. PICK q \in Request :
        /\ buffers' = [buffers EXCEPT ![g] = q]
        /\ q.status = r.status /\ q.fd = g /\ q.conn = c
  <2>1. buffers' = [buffers EXCEPT ![g] = [r EXCEPT !.pos = r.pos + 1]] /\ r.pos < RespLen
    BY <1>1, <1>2, WriteChunkEffect
  <2>2. r.pos + 1 \in 0 .. RespLen
    BY <2>1, BoundsAssumption DEF Request
  <2>3. PICK q : q = [r EXCEPT !.pos = r.pos + 1]
    OBVIOUS
  <2>4. q \in Request /\ q.status = r.status /\ q.fd = g /\ q.conn = c
    BY <1>3, <1>4, <2>2, <2>3 DEF Request
  <2> QED
    BY <2>1, <2>3, <2>4
<1>6. /\ wire' = [wire EXCEPT ![c] = Append(wire[c], Chunk(r))] /\ r.pos < RespLen
      /\ UNCHANGED <<fdtab, queue, working, readyq, peer, backlog>>
  BY <1>1, <1>2, <1>3, WriteChunkEffect DEF env, pool
<1>7. buffers'[g] = q /\ \A f \in Fds : f # g => UNCHANGED buffers[f]
  BY <1>5 DEF Inv, TypeOK
<1>8. StageOf(c) = "answering" /\ StageOf(c)' = "answering"
  <2>1. FdStage(g) = "answering"
    BY <1>2, <1>4 DEF Holders
  <2>2. Owns(g)'
    BY <1>4, <1>5, <1>6, <1>7, NullAssumption DEF Owns
  <2>3. FdStage(g)' = "answering"
    BY <1>4, <1>5, <1>7, <2>2 DEF Holders
  <2> QED
    BY <1>4, <1>6, <2>1, <2>3 DEF Stages
<1>9. \A d \in Conns : d # c => Stays(d)
  <2>1. ASSUME NEW f \in Fds, f # g PROVE FdStage(f)' = FdStage(f)
    <3>1. UNCHANGED <<buffers[f], Owns(f), Waiting(f), Returning(f)>>
      BY <1>6, <1>7, <2>1 DEF Owns, Waiting, Returning
    <3>2. UNCHANGED <<With(f, None), With(f, Decided)>>
      BY <1>6 DEF With, Engaged
    <3> QED
      BY <3>1, <3>2, FdStageKept
  <2> QED
    BY <1>4, <1>6, <2>1, OthersStay DEF Unseen
<1>10. /\ Len(wire[c]) < RespLen /\ Len(wire[c])' = Len(wire[c]) + 1
       /\ \A d \in Conns : d # c => UNCHANGED wire[d]
  <2>1. Len(wire[c]) = r.pos
    BY <1>2, <1>4 DEF Answers, AnswerAt
  <2>2. /\ wire \in [Conns -> Seq([conn : Conns, status : Statuses, index : Nat])]
        /\ Chunk(r) \in [conn : Conns, status : Statuses, index : Nat]
    <3>1. wire \in [Conns -> Seq([conn : Conns, status : Statuses, index : Nat])]
      BY DEF Inv, TypeOK, KernelType
    <3>2. r.conn \in Conns /\ r.status \in Statuses /\ r.pos + 1 \in Nat
      BY BoundsAssumption DEF Request
    <3> QED
      BY <3>1, <3>2 DEF Chunk
  <2>3. wire'[c] = Append(wire[c], Chunk(r))
    BY <1>6, <2>2
  <2> QED
    BY <1>6, <2>1, <2>2, <2>3
<1>11. Promise!Emit(c)
  BY <1>8, <1>9, <1>10 DEF Promise!Emit, Stays
<1> QED
  BY <1>11

(* A worker takes a request, answers it, or hands it back: only the answer *)
(* moves its exchange.                                                     *)
LEMMA WorkerStep ==
    ASSUME Inv, Lives, Holders, Holders', Stages, Stages', NEW w \in Workers, Worker(w)
    PROVE  UNCHANGED Promise!exchangeVars \/ \E c \in Conns : Promise!Decide(c)
<1>1. UNCHANGED <<fdtab, buffers, wire, peer, backlog>>
  BY DEF Worker, Take, Serve, PushReady, Exit, kernel, env
<1>2. /\ queue \in Seq(Request) /\ readyq \in Seq(Request)
      /\ working \in [Workers -> Request \cup {NoReq}]
  BY DEF Inv, TypeOK, PoolType
<1>3. /\ \A q \in Range(queue) : q \in Request /\ Away(q)
      /\ \A v \in Engaged : working[v] \in Request /\ Away(working[v])
  <2>1. \A i \in 1 .. Len(queue) : queue[i] \in Request /\ Away(queue[i])
    BY <1>2 DEF Inv, Owners, Detached
  <2>2. RangeFact(queue)
    BY <1>2, RangeIs
  <2> QED
    BY <1>2, <2>1, <2>2 DEF RangeFact, Engaged, Inv, Owners, Detached
<1>4. ASSUME NEW g \in Fds, NEW c \in Conns, fdtab[g] = c,
             \A f \in Fds : f # g =>
                /\ UNCHANGED <<Waiting(f), Returning(f)>>
                /\ UNCHANGED <<With(f, None), With(f, Decided)>>
      PROVE  \A d \in Conns : d # c => Stays(d)
  <2>1. ASSUME NEW f \in Fds, f # g PROVE FdStage(f)' = FdStage(f)
    <3>1. UNCHANGED <<buffers[f], Owns(f)>>
      BY <1>1 DEF Owns
    <3> QED
      BY <1>4, <2>1, <3>1, FdStageKept
  <2> QED
    BY <1>1, <1>4, <2>1, OthersStay DEF Unseen
<1>5. CASE Take(w)
  <2>1. PICK r \in Request :
          /\ r = queue[1] /\ r # NoReq /\ working[w] = NoReq /\ queue # <<>>
          /\ working' = [working EXCEPT ![w] = r]
          /\ queue' = Tail(queue) /\ UNCHANGED readyq
    BY <1>5, TakeEffect DEF Take
  <2>2. Range(queue) = Range(queue') \cup {r}
    BY <1>2, <2>1, RangePop
  <2>3. r.status = "none" /\ Away(r) /\ r.fd \in Fds /\ r.conn \in Conns
    <3>1. 1 \in 1 .. Len(queue)
      BY <1>2, <2>1
    <3> QED
      BY <2>1, <3>1 DEF Inv, Owners, Detached, Request
  <2>4. PICK g \in Fds, c \in Conns : g = r.fd /\ c = r.conn /\ fdtab[g] = c
    BY <2>3 DEF Away
  <2>5. Engaged' = Engaged \cup {w} /\ w \notin Engaged /\ working'[w] = r
        /\ \A v \in Engaged : working'[v] = working[v]
    BY <1>2, <2>1 DEF Engaged
  <2>6. \A d \in Conns : d # c => Stays(d)
    <3>1. ASSUME NEW f \in Fds, f # g
          PROVE  /\ UNCHANGED <<Waiting(f), Returning(f)>>
                 /\ UNCHANGED <<With(f, None), With(f, Decided)>>
      <4>1. UNCHANGED <<Waiting(f), Returning(f)>>
        BY <2>1, <2>2, <2>4, <3>1 DEF Waiting, Returning
      <4>2. UNCHANGED <<With(f, None), With(f, Decided)>>
        BY <2>4, <2>5, <3>1 DEF With
      <4> QED
        BY <4>1, <4>2
    <3> QED
      BY <1>4, <2>4, <3>1
  <2>7. FdStage(g) = "serving"
    BY <2>2, <2>4 DEF Holders, Waiting
  <2>8. FdStage(g)' = "serving"
    BY <2>3, <2>4, <2>5 DEF Holders
  <2>9. Stays(c)
    BY <1>1, <2>4, <2>7, <2>8 DEF Stages, Stays
  <2> QED
    BY <1>1, <2>6, <2>9, StaysStep
<1>6. CASE Serve(w)
  <2>1. PICK q \in Request :
          /\ q # NoReq /\ working[w] # NoReq /\ q.fd = working[w].fd
          /\ q.status # "none" /\ working[w].status = "none"
          /\ working' = [working EXCEPT ![w] = q]
          /\ UNCHANGED <<queue, readyq>>
    <3> DEFINE status == IF shape[working[w].conn].method = "OPTIONS"
                           THEN "options" ELSE "served"
               q      == [working[w] EXCEPT !.status = status]
    <3>1. /\ q \in Request /\ q # NoReq /\ working[w] \in Request /\ working[w] # NoReq
          /\ working[w].status = "none"
          /\ working' = [working EXCEPT ![w] = q]
          /\ UNCHANGED <<queue, readyq>>
      BY <1>6, ServeEffect
    <3>2. q.fd = working[w].fd /\ q.status = status /\ status # "none"
      BY <3>1 DEF Request
    <3> HIDE DEF q
    <3> QED
      BY <3>1, <3>2
  <2>2. PICK r \in Request : r = working[w] /\ Away(r)
    BY <1>3, <2>1 DEF Engaged
  <2>3. PICK g \in Fds, c \in Conns : g = r.fd /\ c = r.conn /\ fdtab[g] = c
    BY <2>2 DEF Away, Request
  <2>4. /\ Engaged' = Engaged /\ w \in Engaged /\ working'[w] = q
        /\ \A v \in Engaged : v # w => working'[v] = working[v]
    BY <1>2, <2>1 DEF Engaged
  <2>5. \A d \in Conns : d # c => Stays(d)
    <3>1. ASSUME NEW f \in Fds, f # g
          PROVE  /\ UNCHANGED <<Waiting(f), Returning(f)>>
                 /\ UNCHANGED <<With(f, None), With(f, Decided)>>
      <4>1. UNCHANGED <<Waiting(f), Returning(f)>>
        BY <2>1 DEF Waiting, Returning
      <4>2. UNCHANGED <<With(f, None), With(f, Decided)>>
        BY <2>1, <2>2, <2>3, <2>4, <3>1 DEF With
      <4> QED
        BY <4>1, <4>2
    <3> QED
      BY <1>4, <2>3, <3>1
  <2>6. FdStage(g) = "serving"
    BY <2>1, <2>2, <2>3, <2>4 DEF Holders
  <2>7. FdStage(g)' = "answering"
    BY <2>1, <2>2, <2>3, <2>4 DEF Holders
  <2>8. StageOf(c) \in {"held", "serving"} /\ StageOf(c)' = "answering"
    BY <1>1, <2>3, <2>6, <2>7 DEF Stages
  <2>9. Moves(c, {"held", "serving"}, "answering")
    BY <1>1, <2>5, <2>8 DEF Moves
  <2> QED
    BY <2>9, MovesStep DEF Promise!Decide
<1>7. CASE PushReady(w)
  <2>1. PICK r \in Request :
          /\ r = working[w] /\ r # NoReq /\ r.status # "none"
          /\ readyq' = Append(readyq, r)
          /\ working' = [working EXCEPT ![w] = NoReq] /\ UNCHANGED queue
    BY <1>7, PushReadyEffect
  <2>2. Range(readyq') = Range(readyq) \cup {r}
    BY <1>2, <2>1, RangePush
  <2>3. /\ Engaged' = Engaged \ {w} /\ w \in Engaged
        /\ \A v \in Engaged' : working'[v] = working[v]
    BY <1>2, <2>1 DEF Engaged
  <2>4. PICK g \in Fds, c \in Conns : g = r.fd /\ c = r.conn /\ fdtab[g] = c
    BY <1>3, <2>1, <2>3 DEF Away, Request
  <2>5. \A d \in Conns : d # c => Stays(d)
    <3>1. ASSUME NEW f \in Fds, f # g
          PROVE  /\ UNCHANGED <<Waiting(f), Returning(f)>>
                 /\ UNCHANGED <<With(f, None), With(f, Decided)>>
      <4>1. UNCHANGED <<Waiting(f), Returning(f)>>
        BY <2>1, <2>2, <2>4, <3>1 DEF Waiting, Returning
      <4>2. UNCHANGED <<With(f, None), With(f, Decided)>>
        BY <2>1, <2>3, <2>4, <3>1 DEF With
      <4> QED
        BY <4>1, <4>2
    <3> QED
      BY <1>4, <2>4, <3>1
  <2>6. FdStage(g) = "answering"
    BY <2>1, <2>3, <2>4 DEF Holders
  <2>7. FdStage(g)' = "answering"
    BY <2>2, <2>4 DEF Holders, Returning
  <2>8. Stays(c)
    BY <1>1, <2>4, <2>6, <2>7 DEF Stages, Stays
  <2> QED
    BY <1>1, <2>5, <2>8, StaysStep
<1>8. CASE Exit(w)
  BY <1>1, <1>8, QuietStep DEF Exit, Unseen
<1> QED
  BY <1>5, <1>6, <1>7, <1>8 DEF Worker

-----------------------------------------------------------------------------
LEMMA ExchangeStep ==
    ASSUME Inv, Inv', Lives, Lives', Answers, Holders, Holders', Stages, Stages',
           [Next]_vars
    PROVE  [Promise!ExchangeNext]_(Promise!exchangeVars)
<1>1. CASE \/ \E c \in Conns : Client(c)
           \/ Signal \/ EpollWait \/ DrainDone \/ \E f \in Fds : HandleIO(f)
           \/ HandleConnect \/ HandleSignal \/ BatchDone \/ AcceptFails
           \/ ReadNothing \/ WriteEnds \/ WriteAgain \/ UNCHANGED vars
  <2>1. CASE \E c \in Conns : Client(c)
    BY <2>1, ClientStep
  <2>2. CASE ~\E c \in Conns : Client(c)
    <3>1. UNCHANGED <<fdtab, buffers, queue, readyq, working, wire, peer, backlog>>
      BY <1>1, <2>2 DEF Signal, EpollWait, DrainDone, HandleIO, HandleConnect,
          HandleSignal, BatchDone, AcceptFails, ReadNothing, WriteEnds, WriteAgain,
          vars, kernel, pool, env
    <3> QED
      BY <3>1, QuietStep DEF Unseen
  <2> QED
    BY <2>1, <2>2
<1>2. CASE DrainOne
  BY <1>2, DrainStep
<1>3. CASE ReadFails \/ \E f \in Fds : HandleClose(f) \/ HandleError(f)
  BY <1>3, ShutStep DEF Promise!ExchangeNext
<1>4. CASE Accept
  BY <1>4, AcceptStep DEF Promise!ExchangeNext
<1>5. CASE ReadData
  BY <1>5, ReadDataStep DEF Promise!ExchangeNext
<1>6. CASE WriteChunk
  BY <1>6, WriteChunkStep DEF Promise!ExchangeNext
<1>7. CASE \E w \in Workers : Worker(w)
  BY <1>7, WorkerStep DEF Promise!ExchangeNext
<1> QED
  BY <1>1, <1>2, <1>3, <1>4, <1>5, <1>6, <1>7 DEF Next, EpollThread

(* The connection engine implements Exchange: whatever epoll_loop, the     *)
(* workers and the clients do, each connection's request is served at most *)
(* once, answered once and chunk by chunk, and its descriptor is not       *)
(* closed under a running service.                                         *)
THEOREM ReactorImplements == Spec => ImplementsExchange
<1>1. Init => Promise!ExchangeInit
  BY DEF Init, Promise!ExchangeInit, StageOf
<1>2. Spec => [](Inv /\ Lives)
  BY Connections
<1>3. Init => Answers
  BY AnswersInit
<1>4. Inv /\ Lives /\ Answers /\ [Next]_vars => Answers'
  BY AnswersNext
<1>5. Inv /\ Lives => Holders /\ Stages
  BY HoldersHold, StagesHold
<1>6. Inv /\ Inv' /\ Lives /\ Lives' /\ Answers /\ Holders /\ Holders' /\ Stages /\ Stages'
        /\ [Next]_vars => [Promise!ExchangeNext]_(Promise!exchangeVars)
  BY ExchangeStep
<1> QED
  BY <1>1, <1>2, <1>3, <1>4, <1>5, <1>6, PTL
     DEF Spec, ImplementsExchange, Promise!ExchangeSpec
=============================================================================
