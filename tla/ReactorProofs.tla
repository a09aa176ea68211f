---------------------------- MODULE ReactorProofs ----------------------------
(***************************************************************************)
(* Ownership in the connection engine, for any number of descriptors,      *)
(* connections and workers: the inductive invariant Inv, and the theorems  *)
(* that follow from it.  One lemma per action (or per group of actions     *)
(* that leave the same variables alone) shows that it preserves Inv.       *)
(***************************************************************************)
EXTENDS Reactor, TLAPS

-----------------------------------------------------------------------------
(* The invariant, in parts that depend on few variables.                   *)

(* Who owns each request.                                                  *)
Owners == Registered /\ Detached /\ Distinct

(* The batch and the descriptor in hand are registered, and the descriptor *)
(* in hand has no further event in the batch.                              *)
Watched ==
    /\ \A f \in Fds : batch[f] # {} => interest[f] # {}
    /\ pc \in {"read", "write"} => cur \in Fds /\ interest[cur] # {} /\ batch[cur] = {}
    /\ \A f \in ready : interest[f] # {}

(* What epoll_wait reported of a client that left stays true.              *)
Reported == \A f \in Fds : /\ HangUp(f) => Gone(fdtab[f])
                           /\ "ERR" \in batch[f] => Failed(fdtab[f])

(* A descriptor is registered for reading until its request is answered,   *)
(* for writing after that, and handled accordingly.                        *)
Armed ==
    /\ \A f \in Fds :
          /\ "IN" \in interest[f] => buffers[f].status = "none" /\ buffers[f].pos = 0
          /\ "OUT" \in interest[f] => buffers[f].status # "none"
          /\ batch[f] \cap {"IN", "OUT"} \subseteq interest[f]
    /\ pc = "read" => "IN" \in interest[cur]
    /\ pc = "write" => "OUT" \in interest[cur]

Inv == TypeOK /\ Owners /\ Watched /\ Reported /\ Armed

owners  == <<fdtab, interest, buffers, queue, working, readyq>>
watched == <<batch, pc, cur, interest, ready>>

LEMMA OwnersFrame == Owners /\ UNCHANGED owners => Owners'
BY DEF owners, Owners, Registered, Detached, Distinct, Owns, Away

LEMMA WatchedFrame == Watched /\ UNCHANGED watched => Watched'
BY DEF watched, Watched

LEMMA ReportedFrame == Reported /\ UNCHANGED <<batch, fdtab, peer>> => Reported'
BY DEF Reported, HangUp, Gone, Failed

LEMMA ArmedFrame == Armed /\ UNCHANGED <<interest, buffers, batch, pc, cur>> => Armed'
BY DEF Armed

LEMMA EnvFrame == EnvType /\ UNCHANGED env => EnvType'
BY DEF EnvType, env

LEMMA KernelFrame == KernelType /\ UNCHANGED kernel => KernelType'
BY DEF KernelType, kernel

LEMMA LoopFrame == LoopType /\ UNCHANGED loop => LoopType'
BY DEF LoopType, loop

LEMMA PoolFrame == PoolType /\ UNCHANGED pool => PoolType'
BY DEF PoolType, pool

-----------------------------------------------------------------------------
(* Facts about single operators.                                           *)

LEMMA PollEvents == \A c : Poll(c) \subseteq Events
BY DEF Poll, Events

LEMMA PopFacts ==
    ASSUME NEW s \in Seq(Request), s # <<>>
    PROVE  /\ Head(s) \in Request /\ Head(s) = s[1] /\ 1 \in 1 .. Len(s)
           /\ Tail(s) \in Seq(Request)
           /\ \A i \in 1 .. Len(Tail(s)) : i + 1 \in 1 .. Len(s) /\ Tail(s)[i] = s[i + 1]
OBVIOUS

LEMMA PushFacts ==
    ASSUME NEW s \in Seq(Request), NEW r \in Request
    PROVE  /\ Append(s, r) \in Seq(Request)
           /\ Len(s) \in Nat
           /\ \A i \in 1 .. Len(Append(s, r)) :
                 \/ i \in 1 .. Len(s) /\ Append(s, r)[i] = s[i]
                 \/ i = Len(s) + 1 /\ Append(s, r)[i] = r
OBVIOUS

LEMMA OwnerFacts ==
    ASSUME TypeOK, Registered, NEW f \in Fds, interest[f] # {}
    PROVE  /\ buffers[f] \in Request /\ buffers[f] # NoReq
           /\ buffers[f].fd = f
           /\ fdtab[f] = buffers[f].conn /\ fdtab[f] \in Conns /\ fdtab[f] # NoConn
BY NullAssumption DEF TypeOK, KernelType, Registered, Owns, Request

LEMMA BatchFacts ==
    ASSUME Inv, NEW f \in Fds
    PROVE  /\ batch[f] # {} => interest[f] # {} /\ fdtab[f] \in Conns
           /\ HangUp(f) => batch[f] # {}
           /\ "ERR" \in batch[f] => batch[f] # {}
<1>1. batch[f] # {} => interest[f] # {} /\ fdtab[f] \in Conns
  BY OwnerFacts DEF Inv, Watched, Owners
<1>2. QED
  BY <1>1 DEF HangUp

(* No request that is away uses a descriptor that is registered or free.   *)
LEMMA AwayElsewhere ==
    ASSUME Inv, NEW g \in Fds, interest[g] # {} \/ fdtab[g] = NoConn
    PROVE  /\ \A i \in 1 .. Len(queue) : queue[i] \in Request /\ queue[i].fd # g
           /\ \A i \in 1 .. Len(readyq) : readyq[i] \in Request /\ readyq[i].fd # g
           /\ \A w \in Workers : working[w] # NoReq =>
                 working[w] \in Request /\ working[w].fd # g
<1>1. ASSUME NEW q \in Request, Away(q) PROVE q.fd # g
  BY <1>1, NullAssumption DEF Away, Request
<1>2. QED
  BY <1>1 DEF Inv, TypeOK, PoolType, Owners, Detached

(* So the handlers may do with it what they like.                          *)
LEMMA AwayFrame ==
    ASSUME Inv, NEW g \in Fds, interest[g] # {} \/ fdtab[g] = NoConn,
           UNCHANGED <<queue, working, readyq>>,
           \A f \in Fds : f # g => UNCHANGED <<fdtab[f], interest[f], buffers[f]>>
    PROVE  Detached' /\ Distinct'
<1>1. ASSUME NEW q \in Request, q.fd # g, Away(q) PROVE Away(q)'
  BY <1>1 DEF Away, Request
<1>2. Detached'
  BY <1>1, AwayElsewhere DEF Inv, Owners, Detached
<1>3. Distinct'
  BY DEF Inv, Owners, Distinct
<1>4. QED
  BY <1>2, <1>3

(* An edge makes only registered descriptors ready.                        *)
LEMMA EdgeWatched ==
    ASSUME Watched, NEW c, NEW events, Edge(c, events), UNCHANGED <<batch, pc, cur, interest>>
    PROVE  Watched'
BY DEF Watched, Edge

LEMMA EdgeType ==
    ASSUME TypeOK, NEW c, NEW events, Edge(c, events)
    PROVE  ready' \subseteq Fds
BY DEF TypeOK, KernelType, Edge

-----------------------------------------------------------------------------
LEMMA InitInv == Init => Inv
<1> SUFFICES ASSUME Init PROVE Inv
  OBVIOUS
<1>1. TypeOK
  <2>1. queue \in Seq(Request) /\ readyq \in Seq(Request)
    BY DEF Init
  <2>2. wire \in [Conns -> Seq([conn : Conns, status : Statuses, index : Nat])]
    BY DEF Init
  <2>3. /\ peer \in [Conns -> Peers] /\ shape \in [Conns -> Shapes]
        /\ sent \in [Conns -> Nat] /\ inq \in [Conns -> Nat] /\ acked \in [Conns -> Nat]
        /\ backlog \subseteq Conns /\ signalled \in BOOLEAN
    BY ShapesAssumption DEF Init, Peers
  <2>4. /\ fdtab \in [Fds -> Conns \cup {NoConn}]
        /\ interest \in [Fds -> SUBSET Events] /\ ready \subseteq Fds
        /\ batch \in [Fds -> SUBSET Events]
        /\ buffers \in [Fds -> Request \cup {NoReq}]
    BY DEF Init
  <2>5. /\ pc \in Pcs /\ cur \in Fds \cup {NoFd}
        /\ connections \in Int /\ exited \subseteq Workers
        /\ working \in [Workers -> Request \cup {NoReq}]
        /\ listenEv \in BOOLEAN /\ signalEv \in BOOLEAN
    <3>1. listenEv \in BOOLEAN /\ signalEv \in BOOLEAN
      BY Zenon DEF Init
    <3>2. working \in [Workers -> Request \cup {NoReq}]
      BY DEF Init
    <3>3. pc \in Pcs /\ cur \in Fds \cup {NoFd} /\ connections \in Int /\ exited \subseteq Workers
      BY DEF Init, Pcs
    <3>4. QED
      BY <3>1, <3>2, <3>3
  <2>6. QED
    BY <2>1, <2>2, <2>3, <2>4, <2>5 DEF TypeOK, EnvType, KernelType, LoopType, PoolType
<1>2. Watched /\ Reported /\ Armed
  BY DEF Init, Watched, Reported, Armed, HangUp
<1>3. Owners
  BY DEF Init, Owners, Registered, Detached, Distinct
<1>4. QED
  BY <1>1, <1>2, <1>3 DEF Inv

-----------------------------------------------------------------------------
(* Clients: what they do touches neither owners nor registrations.         *)

LEMMA ConnectInv == ASSUME Inv, NEW c \in Conns, Connect(c) PROVE Inv'
<1> USE DEF Connect, kernel, loop, pool
<1>1. TypeOK'
  <2>1. EnvType'
    BY DEF Inv, TypeOK, EnvType, Peers
  <2>2. QED
    BY <2>1, KernelFrame, LoopFrame, PoolFrame DEF Inv, TypeOK
<1>2. Owners' /\ Watched' /\ Armed'
  BY OwnersFrame, WatchedFrame, ArmedFrame DEF Inv, owners, watched
<1>3. Reported'
  <2>1. ASSUME NEW f \in Fds, batch[f] # {}
        PROVE  /\ Gone(fdtab[f]) => Gone(fdtab[f])'
               /\ Failed(fdtab[f]) => Failed(fdtab[f])'
    BY <2>1, BatchFacts DEF Inv, TypeOK, EnvType, Gone, Failed
  <2>2. QED
    BY <2>1, BatchFacts DEF Inv, Reported, HangUp
<1>4. QED
  BY <1>1, <1>2, <1>3 DEF Inv

LEMMA SendPieceInv == ASSUME Inv, NEW c \in Conns, SendPiece(c) PROVE Inv'
<1> USE DEF SendPiece, loop, pool
<1>1. TypeOK'
  <2>1. EnvType'
    BY DEF Inv, TypeOK, EnvType
  <2>2. KernelType'
    BY EdgeType DEF Inv, TypeOK, KernelType
  <2>3. QED
    BY <2>1, <2>2, LoopFrame, PoolFrame DEF Inv, TypeOK
<1>2. Owners' /\ Reported' /\ Armed'
  BY OwnersFrame, ReportedFrame, ArmedFrame DEF Inv, owners
<1>3. Watched'
  BY EdgeWatched DEF Inv
<1>4. QED
  BY <1>1, <1>2, <1>3 DEF Inv

LEMMA LeaveInv ==
    ASSUME Inv, NEW c \in Conns, Close(c) \/ Reset(c) \/ SocketError(c)
    PROVE  Inv'
<1>1. PICK how \in {"fin", "rst", "err"} :
         Leave(c, how) /\ (peer[c] = "open" \/ (peer[c] = "fin" /\ how = "rst"))
  BY DEF Close, Reset, SocketError
<1> USE DEF Leave, loop, pool
<1>2. TypeOK'
  <2>1. EnvType'
    BY <1>1 DEF Inv, TypeOK, EnvType, Peers
  <2>2. KernelType'
    BY <1>1, EdgeType DEF Inv, TypeOK, KernelType
  <2>3. QED
    BY <1>1, <2>1, <2>2, LoopFrame, PoolFrame DEF Inv, TypeOK
<1>3. Owners' /\ Armed'
  BY <1>1, OwnersFrame, ArmedFrame DEF Inv, owners
<1>4. Watched'
  BY <1>1, EdgeWatched DEF Inv
<1>5. Reported'
  <2>1. ASSUME NEW f \in Fds, batch[f] # {}
        PROVE  /\ Gone(fdtab[f]) => Gone(fdtab[f])'
               /\ Failed(fdtab[f]) => Failed(fdtab[f])'
    BY <1>1, <2>1, BatchFacts DEF Inv, TypeOK, EnvType, Gone, Failed
  <2>2. QED
    BY <1>1, <2>1, BatchFacts DEF Inv, Reported, HangUp
<1>6. QED
  BY <1>2, <1>3, <1>4, <1>5 DEF Inv

LEMMA ReceiveInv == ASSUME Inv, NEW c \in Conns, Receive(c) PROVE Inv'
<1> USE DEF Receive, loop, pool
<1>1. TypeOK'
  <2>1. EnvType'
    BY DEF Inv, TypeOK, EnvType
  <2>2. KernelType'
    BY EdgeType DEF Inv, TypeOK, KernelType
  <2>3. QED
    BY <2>1, <2>2, LoopFrame, PoolFrame DEF Inv, TypeOK
<1>2. Owners' /\ Reported' /\ Armed'
  BY OwnersFrame, ReportedFrame, ArmedFrame DEF Inv, owners
<1>3. Watched'
  BY EdgeWatched DEF Inv
<1>4. QED
  BY <1>1, <1>2, <1>3 DEF Inv

LEMMA SignalInv == ASSUME Inv, Signal PROVE Inv'
<1> USE DEF Signal, kernel, loop, pool
<1>1. TypeOK'
  <2>1. EnvType'
    BY DEF Inv, TypeOK, EnvType
  <2>2. QED
    BY <2>1, KernelFrame, LoopFrame, PoolFrame DEF Inv, TypeOK
<1>2. Owners' /\ Watched' /\ Reported' /\ Armed'
  BY OwnersFrame, WatchedFrame, ReportedFrame, ArmedFrame DEF Inv, owners, watched
<1>3. QED
  BY <1>1, <1>2 DEF Inv

-----------------------------------------------------------------------------
(* The epoll thread.                                                       *)

LEMMA EpollWaitInv == ASSUME Inv, EpollWait PROVE Inv'
<1>1. PICK take \in SUBSET ready :
         /\ batch' = [f \in Fds |-> IF f \in take THEN Revents(f) ELSE {}]
         /\ ready' = ready \ take
  BY DEF EpollWait
<1>2. pc' = "drain" /\ UNCHANGED <<env, fdtab, interest, wire, cur, buffers, connections, pool>>
  BY DEF EpollWait
<1>3. TypeOK'
  <2>1. listenEv' \in BOOLEAN /\ signalEv' \in BOOLEAN
    BY Zenon DEF EpollWait, Inv, TypeOK, EnvType
  <2>2. batch' \in [Fds -> SUBSET Events]
    BY <1>1, PollEvents DEF Revents
  <2>3. LoopType'
    BY <1>2, <2>1, <2>2 DEF Inv, TypeOK, LoopType, Pcs
  <2>4. KernelType'
    BY <1>1, <1>2 DEF Inv, TypeOK, KernelType
  <2>5. QED
    BY <1>2, <2>3, <2>4, EnvFrame, PoolFrame DEF Inv, TypeOK
<1>4. Owners'
  BY <1>2, OwnersFrame DEF Inv, owners, pool
<1>5. Watched' /\ Armed'
  <2>1. Watched'
    BY <1>1, <1>2 DEF Inv, Watched
  <2>2. Armed'
    BY <1>1, <1>2 DEF Inv, Armed, Revents
  <2>3. QED
    BY <2>1, <2>2
<1>6. Reported'
  <2>1. ASSUME NEW f \in Fds PROVE (HangUp(f) => Gone(fdtab[f]))'
    BY <1>1, <1>2 DEF HangUp, Revents, Poll, Gone, Failed, env
  <2>2. ASSUME NEW f \in Fds, "ERR" \in batch'[f] PROVE Failed(fdtab[f])'
    BY <1>1, <1>2, <2>2 DEF Revents, Poll, Gone, Failed, env
  <2>3. QED
    BY <2>1, <2>2 DEF Reported
<1>7. QED
  BY <1>3, <1>4, <1>5, <1>6 DEF Inv

(* The returned request goes where there was none.                         *)
LEMMA DrainOneInv == ASSUME Inv, DrainOne PROVE Inv'
<1> DEFINE r == Head(readyq)
<1>1. /\ readyq # <<>> /\ readyq' = Tail(readyq)
      /\ buffers' = [buffers EXCEPT ![r.fd] = r]
      /\ UNCHANGED <<env, fdtab, wire, loop, connections, queue, working, exited>>
  BY DEF DrainOne
<1>2. /\ r \in Request /\ r.fd \in Fds /\ r = readyq[1] /\ Away(r)
      /\ buffers \in [Fds -> Request \cup {NoReq}]
  BY <1>1, PopFacts DEF Inv, TypeOK, PoolType, Owners, Detached, Request
<1>3. /\ interest' = [interest EXCEPT ![r.fd] = {"OUT", "RDHUP"}]
      /\ ready' = ready \cup {r.fd}
  BY <1>2 DEF DrainOne, Fresh, Register, Away
<1>4. TypeOK'
  <2>1. KernelType'
    BY <1>1, <1>2, <1>3 DEF Inv, TypeOK, KernelType, Events
  <2>2. PoolType'
    BY <1>1, PopFacts DEF Inv, TypeOK, PoolType
  <2>3. QED
    BY <1>1, <1>2, <2>1, <2>2, EnvFrame, LoopFrame DEF Inv, TypeOK
<1>5. Owners'
  <2>1. /\ \A i \in 1 .. Len(queue) : queue[i].fd # r.fd
        /\ \A i \in 1 .. Len(readyq') :
              i + 1 \in 1 .. Len(readyq) /\ readyq'[i] = readyq[i + 1] /\ readyq'[i].fd # r.fd
        /\ \A w \in Workers : working[w] # NoReq => working[w].fd # r.fd
    BY <1>1, <1>2, PopFacts DEF Inv, TypeOK, PoolType, Owners, Distinct
  <2>2. \A f \in Fds : f # r.fd => UNCHANGED <<fdtab[f], interest[f], buffers[f]>>
    BY <1>1, <1>2, <1>3 DEF Inv, TypeOK, KernelType
  <2>3. Registered'
    BY <1>1, <1>2, <1>3, <2>2, NullAssumption DEF Inv, TypeOK, KernelType, Owners, Registered, Owns, Away
  <2>4. Detached'
    <3>1. ASSUME NEW q \in Request, q.fd # r.fd, Away(q) PROVE Away(q)'
      BY <2>2, <3>1 DEF Away, Request
    <3>2. \A i \in 1 .. Len(queue)' : (Away(queue[i]) /\ queue[i].status = "none")'
      BY <1>1, <2>1, <3>1 DEF Inv, TypeOK, PoolType, Owners, Detached
    <3>3. \A i \in 1 .. Len(readyq)' : (Away(readyq[i]) /\ readyq[i].status # "none")'
      BY <2>1, <3>1 DEF Inv, TypeOK, PoolType, Owners, Detached
    <3>4. \A w \in Workers : (working[w] # NoReq => Away(working[w]))'
      BY <1>1, <2>1, <3>1 DEF Inv, TypeOK, PoolType, Owners, Detached
    <3>5. QED
      BY <3>2, <3>3, <3>4 DEF Detached
  <2>5. Distinct'
    <3>1. UNCHANGED <<queue, working>>
      BY <1>1
    <3>2. \A i, j \in 1 .. Len(readyq') : readyq'[i].fd = readyq'[j].fd => i = j
      BY <2>1 DEF Inv, Owners, Distinct
    <3>3. /\ \A i \in 1 .. Len(queue), j \in 1 .. Len(readyq') : queue[i].fd # readyq'[j].fd
          /\ \A w \in Workers : working[w] # NoReq =>
                \A i \in 1 .. Len(readyq') : readyq'[i].fd # working[w].fd
      BY <2>1 DEF Inv, Owners, Distinct
    <3>4. QED
      BY <3>1, <3>2, <3>3 DEF Inv, Owners, Distinct
  <2>6. QED
    BY <2>3, <2>4, <2>5 DEF Owners
<1>6. Watched'
  BY <1>1, <1>2, <1>3 DEF loop, Inv, TypeOK, KernelType, Watched
<1>7. Reported'
  BY <1>1, ReportedFrame DEF Inv, loop, env
<1>8. Armed'
  <2>1. batch[r.fd] = {} /\ r.status # "none"
    <3>1. batch[r.fd] = {}
      BY <1>2 DEF Inv, Watched, Away
    <3>2. 1 \in 1 .. Len(readyq)
      BY <1>1, PopFacts DEF Inv, TypeOK, PoolType
    <3>3. QED
      BY <1>2, <3>1, <3>2 DEF Inv, Owners, Detached
  <2>2. pc = "drain"
    BY DEF DrainOne
  <2>3. QED
    BY <1>1, <1>2, <1>3, <2>1, <2>2 DEF loop, Inv, TypeOK, KernelType, Armed
<1>9. QED
  BY <1>4, <1>5, <1>6, <1>7, <1>8 DEF Inv

LEMMA DropInv == ASSUME Inv, NEW f \in Fds, HandleClose(f) \/ HandleError(f) PROVE Inv'
<1>1. /\ pc = "dispatch" /\ batch[f] # {} /\ Drop(f)
  BY DEF HandleClose, HandleError, HangUp
<1>2. /\ interest[f] # {} /\ buffers[f] # NoReq /\ buffers[f].fd = f
  BY <1>1, BatchFacts, OwnerFacts DEF Inv, Owners
<1>3. /\ fdtab' = [fdtab EXCEPT ![f] = NoConn]
      /\ interest' = [interest EXCEPT ![f] = {}]
      /\ ready' = ready \ {f}
      /\ buffers' = [buffers EXCEPT ![f] = NoReq]
      /\ batch' = [batch EXCEPT ![f] = {}]
      /\ connections' = connections - 1
      /\ UNCHANGED <<env, wire, pc, cur, listenEv, signalEv, pool>>
  BY <1>1, <1>2 DEF Drop, CloseFd, Deregister
<1>4. TypeOK'
  <2>1. KernelType'
    BY <1>3 DEF Inv, TypeOK, KernelType
  <2>2. LoopType'
    BY <1>3 DEF Inv, TypeOK, LoopType
  <2>3. QED
    BY <1>3, <2>1, <2>2, EnvFrame, PoolFrame DEF Inv, TypeOK
<1>5. Owners'
  <2>1. \A g \in Fds : g # f => UNCHANGED <<fdtab[g], interest[g], buffers[g]>>
    BY <1>3 DEF Inv, TypeOK, KernelType
  <2>2. Registered'
    BY <1>3, <2>1 DEF Inv, TypeOK, KernelType, Owners, Registered, Owns
  <2>3. QED
    BY <1>2, <1>3, <2>1, <2>2, AwayFrame DEF Owners, pool
<1>6. Watched'
  BY <1>1, <1>3 DEF Inv, TypeOK, KernelType, LoopType, Watched
<1>7. Reported'
  BY <1>3 DEF Inv, TypeOK, KernelType, LoopType, Reported, HangUp, Gone, Failed, env
<1>8. Armed'
  BY <1>1, <1>3 DEF Inv, TypeOK, KernelType, LoopType, Armed
<1>9. QED
  BY <1>4, <1>5, <1>6, <1>7, <1>8 DEF Inv

LEMMA HandleIOInv == ASSUME Inv, NEW f \in Fds, HandleIO(f) PROVE Inv'
<1>1. /\ pc = "dispatch" /\ batch[f] # {}
      /\ batch' = [batch EXCEPT ![f] = {}]
      /\ pc' \in {"read", "write"} /\ cur' = f
      /\ UNCHANGED <<env, kernel, listenEv, signalEv, buffers, connections, pool>>
  <2>1. batch[f] # {} /\ buffers[f] # NoReq
    BY BatchFacts, OwnerFacts DEF HandleIO, Inv, Owners
  <2>2. QED
    BY <2>1 DEF HandleIO
<1>2. TypeOK'
  <2>1. LoopType'
    BY <1>1 DEF Inv, TypeOK, LoopType, Pcs
  <2>2. QED
    BY <1>1, <2>1, EnvFrame, KernelFrame, PoolFrame DEF Inv, TypeOK
<1>3. Owners'
  BY <1>1, OwnersFrame DEF Inv, owners, kernel, pool
<1>4. Watched'
  BY <1>1, BatchFacts DEF Inv, TypeOK, LoopType, Watched, kernel
<1>5. Reported'
  BY <1>1 DEF Inv, TypeOK, LoopType, Reported, HangUp, Gone, Failed, env, kernel
<1>6. Armed'
  <2>1. IF "IN" \in batch[f] THEN pc' = "read" ELSE pc' = "write" /\ "OUT" \in batch[f]
    <3>1. batch[f] \subseteq Events /\ ~HangUp(f) /\ "ERR" \notin batch[f]
      BY DEF HandleIO, Inv, TypeOK, LoopType
    <3>2. "IN" \in batch[f] \/ "OUT" \in batch[f]
      BY <1>1, <3>1 DEF HangUp, Events
    <3>3. QED
      BY <1>1, <3>2, BatchFacts, OwnerFacts DEF HandleIO, Inv, Owners
  <2>2. UNCHANGED <<interest, buffers>> /\ cur' = f /\ pc' \in {"read", "write"}
    BY <1>1 DEF kernel
  <2>3. /\ pc' = "read" => "IN" \in interest[f]
        /\ pc' = "write" => "OUT" \in interest[f]
    <3>1. /\ "IN" \in batch[f] => "IN" \in interest[f]
          /\ "OUT" \in batch[f] => "OUT" \in interest[f]
      BY DEF Inv, Armed
    <3>2. QED
      BY <2>1, <3>1
  <2>4. \A g \in Fds : batch'[g] \subseteq batch[g]
    BY <1>1 DEF Inv, TypeOK, LoopType
  <2>5. QED
    BY <2>2, <2>3, <2>4 DEF Inv, Armed
<1>7. QED
  BY <1>2, <1>3, <1>4, <1>5, <1>6 DEF Inv

(* The actions that only move the epoll thread on.                         *)
LEMMA MoveOnInv ==
    ASSUME Inv, \/ DrainDone \/ HandleConnect \/ HandleSignal \/ BatchDone
                \/ AcceptFails \/ ReadNothing \/ WriteAgain
    PROVE  Inv'
<1> USE DEF DrainDone, HandleConnect, HandleSignal, BatchDone, AcceptFails,
            ReadNothing, WriteAgain
<1>1. /\ pc' \in Pcs /\ pc' \notin {"read", "write"} /\ cur' \in {cur, NoFd}
      /\ UNCHANGED <<env, kernel, batch, buffers, connections, pool>>
  BY DEF Pcs
<1>2. listenEv' \in BOOLEAN /\ signalEv' \in BOOLEAN
  BY Zenon DEF Inv, TypeOK, LoopType
<1>3. TypeOK'
  <2>1. LoopType'
    BY <1>1, <1>2 DEF Inv, TypeOK, LoopType
  <2>2. QED
    BY <1>1, <2>1, EnvFrame, KernelFrame, PoolFrame DEF Inv, TypeOK
<1>4. Owners' /\ Reported'
  BY <1>1, OwnersFrame, ReportedFrame DEF Inv, owners, kernel, pool, env
<1>5. Watched' /\ Armed'
  BY <1>1 DEF Inv, Watched, Armed, kernel
<1>6. QED
  BY <1>3, <1>4, <1>5 DEF Inv

(* A descriptor that was free belongs to no request that is away, and no   *)
(* event of the batch is its.                                              *)
LEMMA AcceptInv == ASSUME Inv, Accept PROVE Inv'
<1>1. PICK c \in backlog, f \in Fds :
        /\ fdtab[f] = NoConn
        /\ backlog' = backlog \ {c}
        /\ fdtab' = [fdtab EXCEPT ![f] = c]
        /\ IF buffers[f] = NoReq
             THEN /\ buffers' = [buffers EXCEPT ![f] =
                       [fd |-> f, conn |-> c, got |-> 0, status |-> "none", pos |-> 0]]
                  /\ Register(f, {"IN", "RDHUP"})
                  /\ pc' = "accept"
             ELSE /\ UNCHANGED <<buffers, interest, ready>>
                  /\ pc' = "dispatch"
  BY DEF Accept, Free, Fresh
<1>2. /\ pc = "accept" /\ pc' \in {"accept", "dispatch"} /\ connections' = connections + 1
      /\ UNCHANGED <<peer, shape, sent, inq, acked, signalled>>
      /\ UNCHANGED <<wire, cur, batch, listenEv, signalEv, pool>>
  BY DEF Accept
<1>3. c \in Conns /\ interest[f] = {} /\ batch[f] = {} /\ f \notin ready
  <2>1. c \in Conns
    BY DEF Inv, TypeOK, EnvType
  <2>2. interest[f] = {}
    BY <1>1, OwnerFacts DEF Inv, Owners
  <2>3. QED
    BY <2>1, <2>2 DEF Inv, Watched
<1>4. /\ buffers' \in [Fds -> Request \cup {NoReq}]
      /\ interest' \in [Fds -> SUBSET Events] /\ ready' \subseteq Fds
  <2>1. [fd |-> f, conn |-> c, got |-> 0, status |-> "none", pos |-> 0] \in Request
    BY <1>3, BoundsAssumption DEF Request, Statuses
  <2>2. buffers' \in [Fds -> Request \cup {NoReq}]
    BY <1>1, <2>1 DEF Inv, TypeOK
  <2>3. CASE interest' = [interest EXCEPT ![f] = {"IN", "RDHUP"}] /\ ready' = ready \cup {f}
    BY <2>2, <2>3 DEF Inv, TypeOK, KernelType, Events
  <2>4. CASE UNCHANGED <<interest, ready>>
    BY <2>2, <2>4 DEF Inv, TypeOK, KernelType
  <2>5. QED
    BY <1>1, <2>3, <2>4 DEF Register
<1>5. TypeOK'
  <2>1. EnvType'
    BY <1>1, <1>2 DEF Inv, TypeOK, EnvType
  <2>2. KernelType'
    BY <1>1, <1>2, <1>3, <1>4 DEF Inv, TypeOK, KernelType
  <2>3. LoopType'
    BY <1>2 DEF Inv, TypeOK, LoopType, Pcs
  <2>4. QED
    BY <1>2, <1>4, <2>1, <2>2, <2>3, PoolFrame DEF Inv, TypeOK
<1>6. Owners'
  <2>1. \A g \in Fds : g # f => UNCHANGED <<fdtab[g], interest[g], buffers[g]>>
    BY <1>1, <1>2 DEF Register, Inv, TypeOK, KernelType
  <2>2. interest'[f] # {} => buffers[f] = NoReq
    BY <1>1, <1>3
  <2>3. Owns(f)' \/ interest'[f] = {}
    <3>1. CASE buffers[f] = NoReq
      <4> DEFINE r == [fd |-> f, conn |-> c, got |-> 0, status |-> "none", pos |-> 0]
      <4>1. buffers'[f] = r /\ fdtab'[f] = c
        BY <1>1, <3>1 DEF Inv, TypeOK, KernelType
      <4>2. r \in Request
        BY <1>3, BoundsAssumption DEF Request, Statuses
      <4>3. r # NoReq
        BY <4>2, NullAssumption
      <4>4. QED
        BY <4>1, <4>3 DEF Owns
    <3>2. CASE buffers[f] # NoReq
      BY <1>1, <1>3, <3>2
    <3>3. QED
      BY <3>1, <3>2
  <2>4. Registered'
    BY <2>1, <2>3 DEF Inv, Owners, Registered, Owns
  <2>5. QED
    BY <1>1, <1>2, <2>1, <2>4, AwayFrame DEF Owners, pool
<1>7. Watched'
  <2>1. /\ \A g \in Fds : interest[g] # {} => interest'[g] # {}
        /\ \A g \in ready' : g \in ready \/ (g = f /\ interest'[f] # {})
    <3>1. CASE interest' = [interest EXCEPT ![f] = {"IN", "RDHUP"}] /\ ready' = ready \cup {f}
      BY <3>1 DEF Inv, TypeOK, KernelType
    <3>2. CASE UNCHANGED <<interest, ready>>
      BY <3>2
    <3>3. QED
      BY <1>1, <3>1, <3>2 DEF Register
  <2>2. ready' \subseteq Fds
    BY <1>4
  <2>3. \A g \in ready' : interest'[g] # {}
    BY <2>1, <2>2 DEF Inv, Watched
  <2>4. QED
    BY <1>2, <2>1, <2>3 DEF Inv, Watched
<1>8. Reported'
  BY <1>1, <1>2, <1>3 DEF Inv, TypeOK, KernelType, Reported, HangUp, Gone, Failed
<1>9. Armed'
  <2>1. \A g \in Fds : g # f => UNCHANGED <<interest[g], buffers[g]>>
    BY <1>1, <1>2 DEF Register, Inv, TypeOK, KernelType
  <2>2. \/ buffers'[f].status = "none" /\ buffers'[f].pos = 0 /\ interest'[f] = {"IN", "RDHUP"}
        \/ interest'[f] = {}
    BY <1>1, <1>3 DEF Register, Inv, TypeOK, KernelType
  <2>3. QED
    BY <1>2, <1>3, <2>1, <2>2 DEF Inv, Armed
<1>10. QED
  BY <1>5, <1>6, <1>7, <1>8, <1>9 DEF Inv

LEMMA ReadFailsInv == ASSUME Inv, ReadFails PROVE Inv'
<1>1. /\ pc = "read" /\ cur \in Fds /\ interest[cur] # {} /\ batch[cur] = {}
      /\ buffers[cur].fd = cur
  BY OwnerFacts DEF ReadFails, Inv, Watched, Owners
<1>2. /\ fdtab' = [fdtab EXCEPT ![cur] = NoConn]
      /\ interest' = [interest EXCEPT ![cur] = {}]
      /\ ready' = ready \ {cur}
      /\ pc' = "dispatch" /\ cur' = NoFd
      /\ UNCHANGED <<env, wire, batch, listenEv, signalEv, buffers, connections, pool>>
  BY <1>1 DEF ReadFails, CloseFd, Deregister
<1>3. TypeOK'
  <2>1. KernelType'
    BY <1>1, <1>2 DEF Inv, TypeOK, KernelType
  <2>2. LoopType'
    BY <1>2 DEF Inv, TypeOK, LoopType, Pcs
  <2>3. QED
    BY <1>2, <2>1, <2>2, EnvFrame, PoolFrame DEF Inv, TypeOK
<1>4. Owners'
  <2>1. \A g \in Fds : g # cur => UNCHANGED <<fdtab[g], interest[g], buffers[g]>>
    BY <1>2 DEF Inv, TypeOK, KernelType
  <2>2. Registered'
    BY <1>1, <1>2, <2>1 DEF Inv, TypeOK, KernelType, Owners, Registered, Owns
  <2>3. QED
    BY <1>1, <1>2, <2>1, <2>2, AwayFrame DEF Owners, pool
<1>5. Watched'
  BY <1>1, <1>2 DEF Inv, TypeOK, KernelType, Watched
<1>6. Reported'
  BY <1>1, <1>2 DEF Inv, TypeOK, KernelType, Reported, HangUp, Gone, Failed, env
<1>7. Armed'
  BY <1>1, <1>2 DEF Inv, TypeOK, KernelType, Armed
<1>8. QED
  BY <1>3, <1>4, <1>5, <1>6, <1>7 DEF Inv

(* One read(): part of the request, or all of it; then the request leaves  *)
(* for the queue, or stays and is registered for writing.                  *)
LEMMA ReadDataInv == ASSUME Inv, ReadData PROVE Inv'
<1> DEFINE r == buffers[cur]
           c == fdtab[r.fd]
<1>1. PICK n \in 1 .. inq[c] :
        LET after   == r.got + n
            verdict == Verdict(shape[c], r.got, after)
        IN /\ inq' = [inq EXCEPT ![c] = @ - n]
           /\ IF ~Complete(shape[c], r.got, after)
                THEN /\ buffers' = [buffers EXCEPT ![cur].got = after]
                     /\ UNCHANGED <<interest, ready, queue, pc, cur>>
                ELSE /\ pc' = "dispatch" /\ cur' = NoFd
                     /\ IF verdict = "service"
                          THEN /\ Deregister(r.fd)
                               /\ buffers' = [buffers EXCEPT ![r.fd] = NoReq]
                               /\ queue' = Append(queue, [r EXCEPT !.got = after])
                          ELSE /\ Register(r.fd, {"OUT", "RDHUP"})
                               /\ buffers' = [buffers EXCEPT ![cur].got = after,
                                                             ![cur].status = verdict]
                               /\ UNCHANGED queue
  BY DEF ReadData
<1>2. /\ pc = "read"
      /\ UNCHANGED <<peer, shape, sent, acked, backlog, signalled>>
      /\ UNCHANGED <<fdtab, wire, batch, listenEv, signalEv, connections>>
      /\ UNCHANGED <<working, exited, readyq>>
  BY DEF ReadData
<1>3. /\ cur \in Fds /\ interest[cur] # {} /\ batch[cur] = {} /\ "IN" \in interest[cur]
      /\ r \in Request /\ r # NoReq /\ r.fd = cur
      /\ c = r.conn /\ c \in Conns /\ fdtab[cur] = c
      /\ r.status = "none" /\ r.pos = 0
  <2>1. cur \in Fds /\ interest[cur] # {} /\ batch[cur] = {} /\ "IN" \in interest[cur]
    BY <1>2 DEF Inv, Watched, Armed
  <2>2. r.status = "none" /\ r.pos = 0
    BY <2>1 DEF Inv, Armed
  <2>3. QED
    BY <2>1, <2>2, OwnerFacts DEF Inv, Owners
<1>4. n \in Nat /\ r.got + n \in Nat /\ inq[c] \in Nat /\ n <= inq[c]
  BY <1>1, <1>3 DEF Inv, TypeOK, EnvType, Request
<1>5. EnvType'
  <2>1. inq' \in [Conns -> Nat]
    BY <1>1, <1>3, <1>4 DEF Inv, TypeOK, EnvType
  <2>2. QED
    BY <1>2, <2>1 DEF Inv, TypeOK, EnvType
<1>6. Reported'
  BY <1>2, ReportedFrame DEF Inv
<1>7. CASE ~Complete(shape[c], r.got, r.got + n)
  <2>1. /\ buffers' = [buffers EXCEPT ![cur] = [r EXCEPT !.got = r.got + n]]
        /\ UNCHANGED <<interest, ready, queue, pc, cur>>
    BY <1>1, <1>7
  <2> DEFINE q == [r EXCEPT !.got = r.got + n]
  <2>2. /\ q \in Request /\ q # NoReq /\ q.fd = r.fd /\ q.conn = r.conn
        /\ q.status = r.status /\ q.pos = r.pos
    BY <1>3, <1>4, NullAssumption DEF Request
  <2> HIDE DEF q
  <2>3. /\ buffers' = [buffers EXCEPT ![cur] = q]
        /\ buffers'[cur] = q /\ \A g \in Fds : g # cur => buffers'[g] = buffers[g]
    BY <1>3, <2>1 DEF q, Inv, TypeOK
  <2>4. TypeOK'
    <3>1. buffers' \in [Fds -> Request \cup {NoReq}]
      BY <2>2, <2>3 DEF Inv, TypeOK
    <3>2. KernelType' /\ LoopType' /\ PoolType'
      BY <1>2, <2>1, KernelFrame, LoopFrame, PoolFrame DEF Inv, TypeOK, kernel, loop, pool
    <3>3. QED
      BY <1>2, <1>5, <3>1, <3>2 DEF Inv, TypeOK
  <2>5. Owners'
    <3>1. Registered'
      BY <1>2, <1>3, <2>1, <2>2, <2>3 DEF Inv, Owners, Registered, Owns
    <3>2. QED
      BY <1>2, <1>3, <2>1, <2>3, <3>1, AwayFrame DEF Owners
  <2>6. Watched'
    BY <1>2, <2>1, WatchedFrame DEF Inv, watched
  <2>7. Armed'
    BY <1>2, <1>3, <2>1, <2>2, <2>3 DEF Inv, Armed
  <2>8. QED
    BY <1>6, <2>4, <2>5, <2>6, <2>7 DEF Inv
<1>8. CASE /\ Complete(shape[c], r.got, r.got + n)
           /\ Verdict(shape[c], r.got, r.got + n) = "service"
  <2> DEFINE q == [r EXCEPT !.got = r.got + n]
  <2>1. /\ interest' = [interest EXCEPT ![cur] = {}]
        /\ ready' = ready \ {cur}
        /\ buffers' = [buffers EXCEPT ![cur] = NoReq]
        /\ queue' = Append(queue, q)
        /\ pc' = "dispatch" /\ cur' = NoFd
    BY <1>1, <1>3, <1>8 DEF Deregister
  <2>2. /\ q \in Request /\ q.fd = cur /\ q.conn = c /\ q.status = "none" /\ q.pos = 0
    BY <1>3, <1>4 DEF Request
  <2> HIDE DEF q
  <2>3. \A g \in Fds : g # cur => UNCHANGED <<fdtab[g], interest[g], buffers[g]>>
    BY <1>2, <2>1 DEF Inv, TypeOK, KernelType
  <2>4. interest'[cur] = {} /\ buffers'[cur] = NoReq
    BY <1>3, <2>1 DEF Inv, TypeOK, KernelType
  <2>5. TypeOK'
    <3>1. KernelType'
      BY <1>2, <2>1 DEF Inv, TypeOK, KernelType
    <3>2. LoopType'
      BY <1>2, <2>1 DEF Inv, TypeOK, LoopType, Pcs
    <3>3. PoolType'
      BY <1>2, <2>1, <2>2, PushFacts DEF Inv, TypeOK, PoolType
    <3>4. QED
      BY <1>2, <1>5, <2>1, <3>1, <3>2, <3>3 DEF Inv, TypeOK
  <2>6. Owners'
    <3>1. Registered'
      BY <2>3, <2>4 DEF Inv, Owners, Registered, Owns
    <3>2. \A i \in 1 .. Len(queue') :
             \/ i \in 1 .. Len(queue) /\ queue'[i] = queue[i]
             \/ i = Len(queue) + 1 /\ queue'[i] = q
      BY <2>1, <2>2, PushFacts DEF Inv, TypeOK, PoolType
    <3>3. /\ \A i \in 1 .. Len(queue) : queue[i] \in Request /\ queue[i].fd # cur
          /\ \A i \in 1 .. Len(readyq) : readyq[i] \in Request /\ readyq[i].fd # cur
          /\ \A w \in Workers : working[w] # NoReq =>
                working[w] \in Request /\ working[w].fd # cur
      BY <1>3, AwayElsewhere
    <3>4. ASSUME NEW p \in Request, p.fd # cur, Away(p) PROVE Away(p)'
      BY <2>3, <3>4 DEF Away, Request
    <3>5. PICK p \in Request : p = q /\ Away(p)'
      BY <1>2, <1>3, <2>2, <2>4 DEF Away
    <3>6. Detached'
      <4>1. \A i \in 1 .. Len(queue') : (Away(queue[i]) /\ queue[i].status = "none")'
        BY <2>2, <3>2, <3>3, <3>4, <3>5 DEF Inv, Owners, Detached
      <4>2. \A i \in 1 .. Len(readyq') : (Away(readyq[i]) /\ readyq[i].status # "none")'
        BY <1>2, <3>3, <3>4 DEF Inv, Owners, Detached
      <4>3. \A w \in Workers : (working[w] # NoReq => Away(working[w]))'
        BY <1>2, <3>3, <3>4 DEF Inv, Owners, Detached
      <4>4. QED
        BY <4>1, <4>2, <4>3 DEF Detached
    <3>7. Distinct'
      <4>1. \A i, j \in 1 .. Len(queue') : queue'[i].fd = queue'[j].fd => i = j
        BY <2>2, <3>2, <3>3 DEF Inv, Owners, Distinct
      <4>2. /\ \A i \in 1 .. Len(queue'), j \in 1 .. Len(readyq) : queue'[i].fd # readyq[j].fd
            /\ \A w \in Workers : working[w] # NoReq =>
                  \A i \in 1 .. Len(queue')  : queue'[i].fd # working[w].fd
        <5>1. Distinct
          BY DEF Inv, Owners
        <5>2. \A j \in 1 .. Len(readyq) : q.fd # readyq[j].fd
          BY <2>2, <3>3
        <5>3. \A w \in Workers : working[w] # NoReq => q.fd # working[w].fd
          BY <2>2, <3>3
        <5>4. \A i \in 1 .. Len(queue'), j \in 1 .. Len(readyq) : queue'[i].fd # readyq[j].fd
          BY <3>2, <5>1, <5>2 DEF Distinct
        <5>5. \A w \in Workers : working[w] # NoReq =>
                 \A i \in 1 .. Len(queue')  : queue'[i].fd # working[w].fd
          BY <3>2, <5>1, <5>3 DEF Distinct
        <5> QED
          BY <5>4, <5>5
      <4>3. UNCHANGED <<working, readyq>>
        BY <1>2
      <4>4. QED
        BY <4>1, <4>2, <4>3 DEF Inv, Owners, Distinct
    <3>8. QED
      BY <3>1, <3>6, <3>7 DEF Owners
  <2>7. Watched'
    BY <1>2, <1>3, <2>1, <2>3 DEF Inv, TypeOK, KernelType, Watched
  <2>8. Armed'
    BY <1>2, <1>3, <2>1, <2>3, <2>4 DEF Inv, Armed
  <2>9. QED
    BY <1>6, <2>5, <2>6, <2>7, <2>8 DEF Inv
<1>9. CASE /\ Complete(shape[c], r.got, r.got + n)
           /\ Verdict(shape[c], r.got, r.got + n) # "service"
  <2> DEFINE q == [[r EXCEPT !.got = r.got + n] EXCEPT
                      !.status = Verdict(shape[c], r.got, r.got + n)]
  <2>1. /\ interest' = [interest EXCEPT ![cur] = {"OUT", "RDHUP"}]
        /\ ready' = ready \cup {cur}
        /\ buffers' = [buffers EXCEPT ![cur] = q]
        /\ pc' = "dispatch" /\ cur' = NoFd
        /\ UNCHANGED queue
    BY <1>1, <1>3, <1>9 DEF Register, Inv, TypeOK
  <2>2. Verdict(shape[c], r.got, r.got + n) \in Statuses \ {"none"}
    BY <1>9 DEF Verdict, Statuses
  <2>3. /\ q \in Request /\ q # NoReq /\ q.fd = cur /\ q.conn = c /\ q.status # "none"
    BY <1>3, <1>4, <2>2, NullAssumption DEF Request
  <2> HIDE DEF q
  <2>4. /\ buffers'[cur] = q /\ interest'[cur] = {"OUT", "RDHUP"}
        /\ \A g \in Fds : g # cur => UNCHANGED <<fdtab[g], interest[g], buffers[g]>>
    BY <1>2, <1>3, <2>1 DEF Inv, TypeOK, KernelType
  <2>5. TypeOK'
    <3>1. KernelType'
      BY <1>2, <1>3, <2>1 DEF Inv, TypeOK, KernelType, Events
    <3>2. LoopType'
      BY <1>2, <2>1 DEF Inv, TypeOK, LoopType, Pcs
    <3>3. buffers' \in [Fds -> Request \cup {NoReq}]
      BY <1>3, <2>1, <2>3 DEF Inv, TypeOK
    <3>4. PoolType'
      BY <1>2, <2>1, PoolFrame DEF Inv, TypeOK, pool
    <3>5. QED
      BY <1>2, <1>5, <3>1, <3>2, <3>3, <3>4 DEF Inv, TypeOK
  <2>6. Owners'
    <3>1. Registered'
      BY <1>2, <1>3, <2>3, <2>4 DEF Inv, Owners, Registered, Owns
    <3>2. QED
      BY <1>2, <1>3, <2>1, <2>4, <3>1, AwayFrame DEF Owners
  <2>7. Watched'
    BY <1>2, <1>3, <2>1, <2>4 DEF Inv, TypeOK, KernelType, Watched
  <2>8. Armed'
    BY <1>2, <1>3, <2>1, <2>3, <2>4 DEF Inv, Armed
  <2>9. QED
    BY <1>6, <2>5, <2>6, <2>7, <2>8 DEF Inv
<1>10. QED
  BY <1>7, <1>8, <1>9

LEMMA WriteChunkInv == ASSUME Inv, WriteChunk PROVE Inv'
<1> DEFINE r == buffers[cur]
           c == fdtab[r.fd]
           q == [r EXCEPT !.pos = @ + 1]
<1>1. /\ pc = "write" /\ Rest(r) > 0
      /\ wire' = [wire EXCEPT ![c] = Append(@, Chunk(r))]
      /\ buffers' = [buffers EXCEPT ![cur].pos = @ + 1]
      /\ UNCHANGED <<env, fdtab, interest, ready, loop, connections, pool>>
  BY DEF WriteChunk
<1>2. /\ cur \in Fds /\ interest[cur] # {} /\ "OUT" \in interest[cur]
      /\ r \in Request /\ r # NoReq /\ r.fd = cur
      /\ c = r.conn /\ c \in Conns /\ fdtab[cur] = c /\ r.status # "none"
  <2>1. cur \in Fds /\ interest[cur] # {} /\ "OUT" \in interest[cur]
    BY <1>1 DEF Inv, Watched, Armed
  <2>2. r.status # "none"
    BY <2>1 DEF Inv, Armed
  <2>3. QED
    BY <2>1, <2>2, OwnerFacts DEF Inv, Owners
<1>3. /\ q \in Request /\ q # NoReq
      /\ q.fd = cur /\ q.conn = c /\ q.status = r.status
      /\ Chunk(r) \in [conn : Conns, status : Statuses, index : Nat]
  <2>1. r.pos \in 0 .. RespLen /\ RespLen - r.pos > 0 /\ RespLen \in Nat
    BY <1>1, <1>2, BoundsAssumption DEF Rest, Request
  <2>2. q \in Request
    BY <1>2, <2>1 DEF Request
  <2>3. q # NoReq
    BY <2>2, NullAssumption
  <2>4. q.fd = cur /\ q.conn = c /\ q.status = r.status
    BY <1>2 DEF Request
  <2>5. Chunk(r) \in [conn : Conns, status : Statuses, index : Nat]
    BY <1>2, <2>1 DEF Request, Chunk
  <2>6. QED
    BY <2>2, <2>3, <2>4, <2>5
<1>4. buffers' = [buffers EXCEPT ![cur] = q]
  BY <1>1
<1> HIDE DEF q
<1>5. buffers'[cur] = q /\ \A g \in Fds : g # cur => buffers'[g] = buffers[g]
  BY <1>2, <1>4 DEF Inv, TypeOK
<1>6. TypeOK'
  <2>1. KernelType'
    <3> DEFINE Chunks == [conn : Conns, status : Statuses, index : Nat]
               x      == Chunk(r)
    <3>1. wire \in [Conns -> Seq(Chunks)] /\ x \in Chunks
      BY <1>3 DEF Inv, TypeOK, KernelType
    <3>2. wire' = [wire EXCEPT ![c] = Append(wire[c], x)]
      BY <1>1
    <3> HIDE DEF Chunks, x
    <3>3. Append(wire[c], x) \in Seq(Chunks)
      BY <1>2, <3>1
    <3>4. wire' \in [Conns -> Seq(Chunks)]
      BY <3>1, <3>2, <3>3
    <3>5. QED
      BY <1>1, <3>4 DEF Inv, TypeOK, KernelType, Chunks
  <2>2. buffers' \in [Fds -> Request \cup {NoReq}]
    BY <1>2, <1>3, <1>4 DEF Inv, TypeOK
  <2>3. QED
    BY <1>1, <2>1, <2>2, EnvFrame, LoopFrame, PoolFrame DEF Inv, TypeOK
<1>7. Owners'
  <2>1. Registered'
    BY <1>1, <1>2, <1>3, <1>5 DEF Inv, Owners, Registered, Owns
  <2>2. QED
    BY <1>1, <1>2, <1>5, <2>1, AwayFrame DEF Owners, pool
<1>8. Watched' /\ Reported'
  BY <1>1, WatchedFrame, ReportedFrame DEF Inv, watched, loop, env
<1>9. Armed'
  <2>1. \A g \in Fds : "IN" \in interest[g] => g # cur
    BY <1>2 DEF Inv, Armed
  <2>2. UNCHANGED <<interest, batch, pc, cur>>
    BY <1>1 DEF loop
  <2>3. QED
    BY <1>2, <1>3, <1>5, <2>1, <2>2 DEF Inv, Armed
<1>10. QED
  BY <1>6, <1>7, <1>8, <1>9 DEF Inv

LEMMA WriteEndsInv == ASSUME Inv, WriteEnds PROVE Inv'
<1>1. /\ pc = "write" /\ cur \in Fds /\ interest[cur] # {} /\ batch[cur] = {}
      /\ buffers[cur].fd = cur
  BY OwnerFacts DEF WriteEnds, Inv, Watched, Owners
<1>2. /\ interest' = [interest EXCEPT ![cur] = {"RDHUP"}]
      /\ ready' = ready \cup {cur}
      /\ pc' = "dispatch" /\ cur' = NoFd
      /\ UNCHANGED <<env, fdtab, wire, batch, listenEv, signalEv, buffers, connections, pool>>
  BY <1>1 DEF WriteEnds, Register
<1>3. /\ interest'[cur] = {"RDHUP"}
      /\ \A g \in Fds : g # cur => interest'[g] = interest[g]
  BY <1>1, <1>2 DEF Inv, TypeOK, KernelType
<1>4. TypeOK'
  <2>1. KernelType'
    BY <1>1, <1>2 DEF Inv, TypeOK, KernelType, Events
  <2>2. LoopType'
    BY <1>2 DEF Inv, TypeOK, LoopType, Pcs
  <2>3. QED
    BY <1>2, <2>1, <2>2, EnvFrame, PoolFrame DEF Inv, TypeOK
<1>5. Owners'
  <2>1. Registered'
    BY <1>1, <1>2, <1>3 DEF Inv, Owners, Registered, Owns
  <2>2. QED
    BY <1>1, <1>2, <1>3, <2>1, AwayFrame DEF Owners, pool
<1>6. Watched'
  BY <1>1, <1>2, <1>3 DEF Inv, TypeOK, KernelType, Watched
<1>7. Reported'
  BY <1>2, ReportedFrame DEF Inv, env
<1>8. Armed'
  BY <1>1, <1>2, <1>3 DEF Inv, Armed
<1>9. QED
  BY <1>4, <1>5, <1>6, <1>7, <1>8 DEF Inv

-----------------------------------------------------------------------------
(* The workers: a request moves from the queue to the worker to the ready  *)
(* queue, and its descriptor with it.                                      *)

LEMMA TakeInv == ASSUME Inv, NEW w \in Workers, Take(w) PROVE Inv'
<1>1. /\ working[w] = NoReq /\ queue # <<>>
      /\ working' = [working EXCEPT ![w] = queue[1]]
      /\ queue' = Tail(queue) /\ 1 \in 1 .. Len(queue) /\ queue[1] \in Request
      /\ UNCHANGED <<env, kernel, loop, buffers, connections, exited, readyq>>
  BY PopFacts DEF Take, Idle, Inv, TypeOK, PoolType
<1>2. /\ \A i \in 1 .. Len(queue') : i + 1 \in 1 .. Len(queue) /\ queue'[i] = queue[i + 1]
      /\ queue' \in Seq(Request)
  BY <1>1, PopFacts DEF Inv, TypeOK, PoolType
<1>3. /\ working'[w] = queue[1]
      /\ \A v \in Workers : v # w => working'[v] = working[v]
  BY <1>1 DEF Inv, TypeOK, PoolType
<1>4. TypeOK'
  <2>1. PoolType'
    BY <1>1, <1>2 DEF Inv, TypeOK, PoolType
  <2>2. QED
    BY <1>1, <2>1, EnvFrame, KernelFrame, LoopFrame DEF Inv, TypeOK
<1>5. Owners'
  <2>1. Registered' /\ UNCHANGED <<fdtab, interest, buffers>>
    BY <1>1 DEF Inv, Owners, Registered, Owns, kernel
  <2>2. \A r : Away(r) => Away(r)'
    BY <2>1 DEF Away
  <2>3. Detached'
    <3>1. \A i \in 1 .. Len(queue') : (Away(queue[i]) /\ queue[i].status = "none")'
      BY <1>2, <2>2 DEF Inv, Owners, Detached
    <3>2. \A i \in 1 .. Len(readyq') : (Away(readyq[i]) /\ readyq[i].status # "none")'
      BY <1>1, <2>2 DEF Inv, Owners, Detached
    <3>3. \A v \in Workers : (working[v] # NoReq => Away(working[v]))'
      BY <1>1, <1>3, <2>2 DEF Inv, Owners, Detached
    <3>4. QED
      BY <3>1, <3>2, <3>3 DEF Detached
  <2>4. Distinct'
    <3>1. \A i, j \in 1 .. Len(queue') : queue'[i].fd = queue'[j].fd => i = j
      <4>1. ASSUME NEW i \in 1 .. Len(queue'), NEW j \in 1 .. Len(queue'),
                   queue'[i].fd = queue'[j].fd
            PROVE  i + 1 = j + 1
        <5>1. /\ i + 1 \in 1 .. Len(queue) /\ j + 1 \in 1 .. Len(queue)
              /\ queue[i + 1].fd = queue[j + 1].fd
          BY <1>2, <4>1
        <5>2. \A k, m \in 1 .. Len(queue) : queue[k].fd = queue[m].fd => k = m
          BY DEF Inv, Owners, Distinct
        <5> QED
          BY <5>1, <5>2
      <4>2. QED
        BY <4>1
    <3>2. \A i \in 1 .. Len(queue') : queue'[i].fd # queue[1].fd
      BY <1>1, <1>2 DEF Inv, Owners, Distinct
    <3>3. \A v, u \in Workers :
             working'[v] # NoReq /\ working'[u] # NoReq /\ working'[v].fd = working'[u].fd => v = u
      BY <1>1, <1>3 DEF Inv, Owners, Distinct
    <3>4. \A i \in 1 .. Len(queue'), j \in 1 .. Len(readyq) : queue'[i].fd # readyq[j].fd
      BY <1>2, SMTT(30) DEF Inv, Owners, Distinct
    <3>5. \A v \in Workers : working'[v] # NoReq =>
             /\ \A i \in 1 .. Len(queue')  : queue'[i].fd # working'[v].fd
             /\ \A i \in 1 .. Len(readyq) : readyq[i].fd # working'[v].fd
      <4>1. Distinct
        BY DEF Inv, Owners
      <4>2. \A j \in 1 .. Len(readyq) : readyq[j].fd # queue[1].fd
        BY <1>1, <4>1 DEF Distinct
      <4>3. ASSUME NEW v \in Workers, working'[v] # NoReq, v # w
            PROVE  /\ \A i \in 1 .. Len(queue')  : queue'[i].fd # working'[v].fd
                   /\ \A i \in 1 .. Len(readyq) : readyq[i].fd # working'[v].fd
        BY <1>2, <1>3, <4>1, <4>3 DEF Distinct
      <4> QED
        BY <1>3, <3>2, <4>2, <4>3
    <3>6. UNCHANGED readyq
      BY <1>1
    <3>7. QED
      BY <3>1, <3>3, <3>4, <3>5, <3>6 DEF Inv, Owners, Distinct
  <2>5. QED
    BY <2>1, <2>3, <2>4 DEF Owners
<1>6. Watched' /\ Reported' /\ Armed'
  BY <1>1, WatchedFrame, ReportedFrame, ArmedFrame DEF Inv, watched, kernel, loop, env
<1>7. QED
  BY <1>4, <1>5, <1>6 DEF Inv

LEMMA ServeInv == ASSUME Inv, NEW w \in Workers, Serve(w) PROVE Inv'
<1>1. PICK status \in Statuses :
        /\ working[w] # NoReq
        /\ working' = [working EXCEPT ![w].status = status]
        /\ UNCHANGED <<env, kernel, loop, buffers, connections, queue, exited, readyq>>
  BY DEF Serve, Statuses
<1> DEFINE r == working[w]
           q == [r EXCEPT !.status = status]
<1>2. /\ r \in Request /\ q \in Request /\ q # NoReq
      /\ q.fd = r.fd /\ q.conn = r.conn /\ q.pos = r.pos
  BY <1>1, NullAssumption DEF Inv, TypeOK, PoolType, Request
<1>3. working' = [working EXCEPT ![w] = q]
  BY <1>1
<1> HIDE DEF q
<1>4. /\ working'[w] = q
      /\ \A v \in Workers : v # w => working'[v] = working[v]
      /\ \A v \in Workers : /\ (working'[v] # NoReq) <=> (working[v] # NoReq)
                            /\ working'[v].fd = working[v].fd
  BY <1>1, <1>2, <1>3 DEF Inv, TypeOK, PoolType
<1>5. TypeOK'
  <2>1. PoolType'
    BY <1>1, <1>2, <1>3 DEF Inv, TypeOK, PoolType
  <2>2. QED
    BY <1>1, <2>1, EnvFrame, KernelFrame, LoopFrame DEF Inv, TypeOK
<1>6. Owners'
  <2>1. Registered' /\ UNCHANGED <<fdtab, interest, buffers, queue, readyq>>
    BY <1>1 DEF Inv, Owners, Registered, Owns, kernel
  <2>2. \A v \in Workers : (working[v] # NoReq => Away(working[v]))'
    BY <1>1, <1>2, <1>4, <2>1 DEF Inv, Owners, Detached, Away
  <2>3. Detached'
    BY <2>1, <2>2 DEF Inv, Owners, Detached, Away
  <2>4. Distinct'
    BY <1>4, <2>1 DEF Inv, Owners, Distinct
  <2>5. QED
    BY <2>1, <2>3, <2>4 DEF Owners
<1>7. Watched' /\ Reported' /\ Armed'
  BY <1>1, WatchedFrame, ReportedFrame, ArmedFrame DEF Inv, watched, kernel, loop, env
<1>8. QED
  BY <1>5, <1>6, <1>7 DEF Inv

LEMMA PushReadyInv == ASSUME Inv, NEW w \in Workers, PushReady(w) PROVE Inv'
<1> DEFINE r == working[w]
<1>1. /\ r # NoReq /\ r.status # "none" /\ r \in Request
      /\ readyq' = Append(readyq, r)
      /\ working' = [working EXCEPT ![w] = NoReq]
      /\ UNCHANGED <<env, kernel, loop, buffers, connections, queue, exited>>
  BY DEF PushReady, Inv, TypeOK, PoolType
<1>2. /\ \A i \in 1 .. Len(readyq') :
            \/ i \in 1 .. Len(readyq) /\ readyq'[i] = readyq[i]
            \/ i = Len(readyq) + 1 /\ readyq'[i] = r
      /\ readyq' \in Seq(Request)
  BY <1>1, PushFacts DEF Inv, TypeOK, PoolType
<1>3. /\ working'[w] = NoReq
      /\ \A v \in Workers : v # w => working'[v] = working[v]
  BY <1>1 DEF Inv, TypeOK, PoolType
<1>4. TypeOK'
  <2>1. PoolType'
    BY <1>1, <1>2 DEF Inv, TypeOK, PoolType
  <2>2. QED
    BY <1>1, <2>1, EnvFrame, KernelFrame, LoopFrame DEF Inv, TypeOK
<1>5. Owners'
  <2>1. Registered' /\ UNCHANGED <<fdtab, interest, buffers, queue>>
    BY <1>1 DEF Inv, Owners, Registered, Owns, kernel
  <2>2. \A q : Away(q) => Away(q)'
    BY <2>1 DEF Away
  <2>3. Detached'
    <3>1. \A i \in 1 .. Len(queue') : (Away(queue[i]) /\ queue[i].status = "none")'
      BY <2>1, <2>2 DEF Inv, Owners, Detached
    <3>2. PICK q \in Request : q = r /\ Away(q)' /\ q.status # "none"
      BY <1>1, <2>2 DEF Inv, Owners, Detached
    <3>3. \A i \in 1 .. Len(readyq') : (Away(readyq[i]) /\ readyq[i].status # "none")'
      BY <1>2, <2>2, <3>2 DEF Inv, Owners, Detached
    <3>4. \A v \in Workers : (working[v] # NoReq => Away(working[v]))'
      BY <1>3, <2>2 DEF Inv, Owners, Detached
    <3>5. QED
      BY <3>1, <3>3, <3>4 DEF Detached
  <2>4. Distinct'
    <3>1. \A i, j \in 1 .. Len(readyq') : readyq'[i].fd = readyq'[j].fd => i = j
      BY <1>1, <1>2 DEF Inv, Owners, Distinct
    <3>2. \A v, u \in Workers :
             working'[v] # NoReq /\ working'[u] # NoReq /\ working'[v].fd = working'[u].fd => v = u
      BY <1>3 DEF Inv, Owners, Distinct
    <3>3. \A i \in 1 .. Len(queue), j \in 1 .. Len(readyq') : queue[i].fd # readyq'[j].fd
      BY <1>1, <1>2 DEF Inv, Owners, Distinct
    <3>4. \A v \in Workers : working'[v] # NoReq =>
             /\ \A i \in 1 .. Len(queue)  : queue[i].fd # working'[v].fd
             /\ \A i \in 1 .. Len(readyq') : readyq'[i].fd # working'[v].fd
      BY <1>1, <1>2, <1>3 DEF Inv, Owners, Distinct
    <3>5. QED
      BY <2>1, <3>1, <3>2, <3>3, <3>4 DEF Inv, Owners, Distinct
  <2>5. QED
    BY <2>1, <2>3, <2>4 DEF Owners
<1>6. Watched' /\ Reported' /\ Armed'
  BY <1>1, WatchedFrame, ReportedFrame, ArmedFrame DEF Inv, watched, kernel, loop, env
<1>7. QED
  BY <1>4, <1>5, <1>6 DEF Inv

LEMMA ExitInv == ASSUME Inv, NEW w \in Workers, Exit(w) PROVE Inv'
<1>1. /\ exited' = exited \cup {w}
      /\ UNCHANGED <<env, kernel, loop, buffers, connections, queue, working, readyq>>
  BY DEF Exit
<1>2. TypeOK'
  BY <1>1, EnvFrame, KernelFrame, LoopFrame DEF Inv, TypeOK, PoolType
<1>3. Owners' /\ Watched' /\ Reported' /\ Armed'
  BY <1>1, OwnersFrame, WatchedFrame, ReportedFrame, ArmedFrame
     DEF Inv, owners, watched, kernel, loop, env
<1>4. QED
  BY <1>2, <1>3 DEF Inv

LEMMA StutterInv == Inv /\ UNCHANGED vars => Inv'
<1> SUFFICES ASSUME Inv, UNCHANGED vars PROVE Inv'
  OBVIOUS
<1>1. UNCHANGED <<env, kernel, loop, buffers, connections, pool>>
  BY DEF vars
<1>2. TypeOK'
  BY <1>1, EnvFrame, KernelFrame, LoopFrame, PoolFrame DEF Inv, TypeOK
<1>3. Owners' /\ Watched' /\ Reported' /\ Armed'
  BY <1>1, OwnersFrame, WatchedFrame, ReportedFrame, ArmedFrame
     DEF Inv, owners, watched, kernel, loop, env, pool
<1>4. QED
  BY <1>2, <1>3 DEF Inv

-----------------------------------------------------------------------------
LEMMA NextInv == Inv /\ [Next]_vars => Inv'
<1> SUFFICES ASSUME Inv, [Next]_vars PROVE Inv'
  OBVIOUS
<1>1. CASE \E c \in Conns : Client(c)
  BY <1>1, ConnectInv, SendPieceInv, LeaveInv, ReceiveInv DEF Client
<1>2. CASE Signal
  BY <1>2, SignalInv
<1>3. CASE EpollThread
  BY <1>3, EpollWaitInv, DrainOneInv, DropInv, HandleIOInv, MoveOnInv, AcceptInv,
     ReadDataInv, ReadFailsInv, WriteChunkInv, WriteEndsInv DEF EpollThread
<1>4. CASE \E w \in Workers : Worker(w)
  BY <1>4, TakeInv, ServeInv, PushReadyInv, ExitInv DEF Worker
<1>5. CASE UNCHANGED vars
  BY <1>5, StutterInv
<1>6. QED
  BY <1>1, <1>2, <1>3, <1>4, <1>5 DEF Next

LEMMA Invariance == Spec => []Inv
BY InitInv, NextInv, PTL DEF Spec

(* Every variable has its type: in particular no chunk index or position   *)
(* leaves its buffer (response_stream::write).                             *)
THEOREM ReactorTypeOK == Spec => []TypeOK
<1>1. Inv => TypeOK
  BY DEF Inv
<1>2. QED
  BY <1>1, Invariance, PTL

(* A request has one owner at a time: the map of the epoll thread, the     *)
(* queue, one worker or the ready queue (run_async_task, consumer,         *)
(* check_ready_queue).                                                     *)
THEOREM ReactorSingleOwner == Spec => []SingleOwner
<1>1. Inv => SingleOwner
  BY DEF Inv, Owners, SingleOwner
<1>2. QED
  BY <1>1, Invariance, PTL

(* No event of a batch is stale when its handler runs: the lookups of      *)
(* epoll_handle_close, epoll_handle_error and epoll_handle_IO succeed.     *)
THEOREM ReactorEventsFindRequest == Spec => []EventsFindRequest
<1>1. Inv => EventsFindRequest
  BY DEF Inv, Watched, Owners, Registered, EventsFindRequest
<1>2. QED
  BY <1>1, Invariance, PTL

(* A step changes the descriptor table at f only to open a free descriptor *)
(* or to close one whose client has left or whose socket has failed.       *)
LEMMA StepClosesGone ==
    ASSUME Inv, [Next]_vars, NEW f \in Fds, ~Free(f), fdtab'[f] # fdtab[f]
    PROVE  fdtab'[f] = NoConn /\ peer[fdtab[f]] \in {"fin", "rst", "err"}
<1>1. CASE \E g \in Fds : HandleClose(g) \/ HandleError(g)
  <2>1. PICK g \in Fds : HandleClose(g) \/ HandleError(g)
    BY <1>1
  <2>2. /\ Gone(fdtab[g]) \/ Failed(fdtab[g])
        /\ batch[g] # {} /\ Drop(g)
    BY <2>1 DEF HandleClose, HandleError, HangUp, Inv, Reported
  <2>3. buffers[g] # NoReq /\ buffers[g].fd = g
    BY <2>2, BatchFacts, OwnerFacts DEF Inv, Owners
  <2>4. fdtab' = [fdtab EXCEPT ![g] = NoConn]
    BY <2>2, <2>3 DEF Drop, CloseFd
  <2>5. QED
    BY <2>2, <2>4 DEF Inv, TypeOK, KernelType, Gone, Failed
<1>2. CASE ReadFails
  <2>1. /\ cur \in Fds /\ buffers[cur].fd = cur
    BY <1>2, OwnerFacts DEF ReadFails, Inv, Watched, Owners
  <2>2. fdtab' = [fdtab EXCEPT ![cur] = NoConn] /\ Failed(fdtab[cur])
    BY <1>2, <2>1 DEF ReadFails, CloseFd
  <2>3. QED
    BY <2>2 DEF Inv, TypeOK, KernelType, Failed
<1>3. CASE Accept
  <2>1. PICK c \in backlog, g \in Fds : Free(g) /\ fdtab' = [fdtab EXCEPT ![g] = c]
    BY <1>3 DEF Accept
  <2>2. QED
    BY <2>1 DEF Free, Inv, TypeOK, KernelType
<1>4. CASE \E c \in Conns : Client(c)
  BY <1>4 DEF Client, Connect, SendPiece, Close, Reset, SocketError, Leave, Receive, kernel
<1>5. CASE Signal
  BY <1>5 DEF Signal, kernel
<1>6. CASE \/ EpollWait \/ DrainOne \/ DrainDone \/ \E g \in Fds : HandleIO(g)
           \/ HandleConnect \/ HandleSignal \/ BatchDone \/ AcceptFails
           \/ ReadData \/ ReadNothing \/ WriteChunk \/ WriteEnds \/ WriteAgain
  BY <1>6 DEF EpollWait, DrainOne, DrainDone, HandleIO, HandleConnect, HandleSignal,
              BatchDone, AcceptFails, ReadData, ReadNothing, WriteChunk, WriteEnds,
              WriteAgain, kernel
<1>7. CASE \E w \in Workers : Worker(w)
  BY <1>7 DEF Worker, Take, Serve, PushReady, Exit, kernel
<1>8. CASE UNCHANGED vars
  BY <1>8 DEF vars, kernel
<1>9. QED
  BY <1>1, <1>2, <1>3, <1>4, <1>5, <1>6, <1>7, <1>8 DEF Next, EpollThread

(* The server never closes the connection of a client that is still there, *)
(* whatever events were pending when its descriptor number was reused.     *)
THEOREM ReactorNoHangUp == Spec => NoHangUpOnClient
<1>1. ASSUME Inv, [Next]_vars
      PROVE  [\A f \in Fds : ~Free(f) /\ fdtab'[f] # fdtab[f] =>
                  fdtab'[f] = NoConn /\ peer[fdtab[f]] \in {"fin", "rst", "err"}]_vars
  BY <1>1, StepClosesGone
<1>2. QED
  BY <1>1, Invariance, PTL DEF Spec, NoHangUpOnClient

=============================================================================
