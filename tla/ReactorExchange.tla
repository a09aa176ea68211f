--------------------------- MODULE ReactorExchange ---------------------------
(* Reactor implements Exchange: where each connection's request is to be   *)
(* found in the server's data structures tells how far its exchange is.    *)
EXTENDS Reactor

Queued(c)    == \E i \in 1 .. Len(queue) : queue[i].conn = c
Served(c)    == \E i \in 1 .. Len(readyq) : readyq[i].conn = c

Taken(c, answers) == \E w \in Workers : /\ working[w] # NoReq
                                       /\ working[w].conn = c
                                       /\ working[w].status \in answers

Held(c, answers) == \E f \in Fds : /\ Owns(f) /\ fdtab[f] = c
                                  /\ buffers[f].status \in answers

None    == {"none"}
Decided == Statuses \ None

StageOf(c) ==
    IF peer[c] = "idle" \/ c \in backlog                THEN "absent"
    ELSE IF Queued(c) \/ Taken(c, None)           THEN "serving"
    ELSE IF Served(c) \/ Taken(c, Decided) \/ Held(c, Decided) THEN "answering"
    ELSE IF Held(c, None)                         THEN "held"
    ELSE IF \E f \in Fds : fdtab[f] = c                 THEN "lost"
    ELSE "closed"

Promise == INSTANCE Exchange WITH
    stage <- [c \in Conns |-> StageOf(c)],
    out   <- [c \in Conns |-> Len(wire[c])]

(* Each step of the epoll thread, of a worker, or of a client is a step of *)
(* the exchange of one connection, or none.                                *)
ImplementsExchange == Promise!ExchangeSpec
=============================================================================
