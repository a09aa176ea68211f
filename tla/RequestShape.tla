---------------------------- MODULE RequestShape ----------------------------
(***************************************************************************)
(* What the epoll thread can tell apart in a request, when it takes one    *)
(* for complete and how it decides on it.  Reactor uses these as its view  *)
(* of the requests clients send; Request shows that the parser and the     *)
(* receive buffer arrive at the same, piece by piece.                      *)
(***************************************************************************)
EXTENDS Naturals

Methods == {"GET", "POST", "OPTIONS"}
Paths   == {"ping", "sysinfo", "service", "other"}

(* A request's method, the pieces its head and its body fill, whether its  *)
(* head parses, whether its body does, whether its origin is allowed, and  *)
(* its path.                                                               *)
Shape == [method : Methods, head : Nat \ {0}, body : Nat,
          headOk : BOOLEAN, bodyOk : BOOLEAN, originOk : BOOLEAN, path : Paths]

(* read_request, given the bytes held before and after the read: the head  *)
(* is parsed once, when the first bytes arrive, and must be all there.     *)
HeadParses(s, n) == s.headOk /\ s.head <= n

\* Mutant of Complete: a request without a Content-Length check.
CompleteAtOnce(s, before, after) == TRUE

Complete(s, before, after) ==
    \/ before = 0 /\ (~HeadParses(s, after) \/ s.method # "POST")
    \/ after = s.head + s.body

(* The first check of run_async_task that the request fails, or "service". *)
Verdict(s, before, after) ==
    IF \/ before = 0 /\ ~HeadParses(s, after)
       \/ s.method = "POST" /\ ~s.bodyOk THEN "bad_request"
    ELSE IF ~s.originOk                  THEN "forbidden"
    ELSE IF s.path \in {"ping", "sysinfo"} THEN "ok"
    ELSE IF s.path = "other"             THEN "not_found"
    ELSE "service"
=============================================================================
