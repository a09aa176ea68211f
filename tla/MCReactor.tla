----------------------------- MODULE MCReactor -----------------------------
(* Instances of Reactor for TLC.                                           *)
EXTENDS ReactorExchange, TLC

S(method, head, body, headOk, bodyOk, originOk, path) ==
    [method |-> method, head |-> head, body |-> body, headOk |-> headOk,
     bodyOk |-> bodyOk, originOk |-> originOk, path |-> path]

\* A request for a service, and one answered by the epoll thread.
GetService  == S("GET", 1, 0, TRUE, TRUE, TRUE, "service")
PostService == S("POST", 1, 1, TRUE, TRUE, TRUE, "service")
GetPing     == S("GET", 1, 0, TRUE, TRUE, TRUE, "ping")

\* The requests that stop at each check of read_request and run_async_task,
\* every one of them wrong in the later checks as well.
BadHead   == S("GET", 1, 0, FALSE, TRUE, FALSE, "other")
BadBody   == S("POST", 1, 1, TRUE, FALSE, FALSE, "ping")
BadOrigin == S("POST", 2, 1, TRUE, TRUE, FALSE, "service")
NotFound  == S("GET", 1, 0, TRUE, TRUE, TRUE, "other")
Preflight == S("OPTIONS", 1, 0, TRUE, TRUE, TRUE, "service")

PostOnly  == {PostService}
AllShapes == {BadHead, BadBody, BadOrigin, NotFound, Preflight, GetPing, PostService}

\* Any requests; and pairs in which every kind of request comes first on the
\* descriptor, and comes second.
AnyMix == [Conns -> Shapes]
Pairs  == {{GetPing, PostService}, {GetPing, BadOrigin},
           {BadHead, Preflight}, {BadBody, NotFound}}
Paired == {g \in [Conns -> Shapes] : {g[c] : c \in Conns} \in Pairs}

Symmetry == Permutations(Fds) \cup Permutations(Conns) \cup Permutations(Workers)
=============================================================================
