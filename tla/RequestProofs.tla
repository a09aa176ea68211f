---------------------------- MODULE RequestProofs ----------------------------
(***************************************************************************)
(* Proofs about Request, for any block size, any clients and any cut of    *)
(* their requests into packets: the receive buffer always has room for the *)
(* next read() and never grows before it must; every variable has its      *)
(* type; a request is dispatched by the packet and with the decision       *)
(* Reactor has for its shape; its service finds the parameters and files   *)
(* its client put into it; and a secure service runs for the user the      *)
(* client's token was issued to, while it is valid.                        *)
(***************************************************************************)
EXTENDS Request, JwtProofs

(* Both numbers are natural, and the buffer never shrinks below a block.   *)
BufferType == pos \in Nat /\ size \in Nat /\ size >= Block

Inv == BufferType /\ RoomToRead

(* update_pos with n units in a buffer of s: there is room afterwards,     *)
(* wherever n fits, and a buffer that grew was more than three quarters    *)
(* full.                                                                   *)
LEMMA GrownHasRoom ==
    ASSUME NEW s \in Nat, NEW n \in Nat, s > 0, n <= s
    PROVE  /\ Grown(s, n) \in {s, s + Block}
           /\ n < Grown(s, n)
           /\ Grown(s, n) # s => 3 * s < 4 * n
  <1> DEFINE q == (3 * s) \div 4
  <1>1. q \in Nat /\ 4 * q <= 3 * s /\ 3 * s < 4 * q + 4
    OBVIOUS
  <1>2. Block \in Nat /\ Block > 0
    BY RequestAssumption
  <1> HIDE DEF q
  <1>3. CASE n > q
    <2>1. Grown(s, n) = s + Block
      BY <1>3 DEF Grown, q
    <2>2. 3 * s < 4 * n
      BY <1>1, <1>3
    <2> QED
      BY <1>2, <2>1, <2>2
  <1>4. CASE ~(n > q)
    <2>1. Grown(s, n) = s
      BY <1>4 DEF Grown, q
    <2>2. n < s
      BY <1>1, <1>4
    <2> QED
      BY <2>1, <2>2
  <1> QED
    BY <1>3, <1>4

LEMMA InitInv == Init => Inv
  BY RequestAssumption DEF Init, Inv, BufferType, RoomToRead

(* What one read() does to the buffer.                                     *)
LEMMA ReadBuffer ==
    ASSUME Read
    PROVE  \E n \in 1 .. size - pos : pos' = pos + n /\ size' = Grown(size, pos + n)
  BY DEF Read

LEMMA ReadInv ==
    ASSUME Inv, Read
    PROVE  Inv'
  <1>1. PICK n \in 1 .. size - pos : pos' = pos + n /\ size' = Grown(size, pos + n)
    BY ReadBuffer
  <1>2. /\ pos \in Nat /\ size \in Nat /\ size >= Block /\ Block \in Nat /\ Block > 0
        /\ size > Block => 3 * (size - Block) < 4 * pos
    BY RequestAssumption DEF Inv, BufferType, RoomToRead
  <1>3. pos + n \in Nat /\ pos + n <= size /\ pos' > pos
    BY <1>1, <1>2
  <1>4. /\ size' \in {size, size + Block} /\ pos' < size'
        /\ size' # size => 3 * size < 4 * pos'
    BY <1>1, <1>2, <1>3, GrownHasRoom
  <1>5. CASE size' = size
    BY <1>1, <1>2, <1>3, <1>4, <1>5 DEF Inv, BufferType, RoomToRead
  <1>6. CASE size' # size
    BY <1>1, <1>2, <1>3, <1>4, <1>6 DEF Inv, BufferType, RoomToRead
  <1> QED
    BY <1>5, <1>6

LEMMA NextInv == Inv /\ [Next]_vars => Inv'
  <1> SUFFICES ASSUME Inv, [Next]_vars PROVE Inv'
    OBVIOUS
  <1>1. CASE Read
    BY <1>1, ReadInv
  <1>2. CASE UNCHANGED <<pos, size>>
    BY <1>2 DEF Inv, BufferType, RoomToRead
  <1>3. Execute \/ Tick \/ UNCHANGED vars => UNCHANGED <<pos, size>>
    BY DEF Execute, Tick, vars
  <1> QED
    BY <1>1, <1>2, <1>3 DEF Next

(* However requests are cut into packets and whatever the block size,      *)
(* read() is called with room to read into.                                *)
THEOREM RequestRoomToRead == Spec => []RoomToRead
  <1>1. Inv => RoomToRead
    BY DEF Inv
  <1> QED
    BY <1>1, InitInv, NextInv, PTL DEF Spec

-----------------------------------------------------------------------------
(* parse_headers: what the lines of a head make of it.                     *)

(* What parse_headers makes of h, whose fields have values in these sets.  *)
Headings(h, N, V, K) ==
    [err : BOOLEAN, method : {h.method}, target : {h.target}, path : {h.path},
     start : {h.start}, headers : SUBSET (h.headers \cup N), length : {h.length} \cup V,
     type : {h.type} \cup K, boundary : {h.boundary} \cup K,
     token : {h.token} \cup {v.token : v \in V}, origin : {h.origin} \cup V]

(* Whatever the header, the head stays such a head.                        *)
LEMMA HeaderStep ==
    ASSUME NEW h, NEW N, NEW V, NEW K, NEW g \in Headings(h, N, V, K),
           NEW u, u.name \in N, u.value \in V, u.value.type \in K, u.value.boundary \in K
    PROVE  ParseHeader(g, u) \in Headings(h, N, V, K)
  <1> DEFINE T == Headings(h, N, V, K)
             f == [g EXCEPT !.headers = @ \cup {u.name}]
  <1>1. \A x \in T : Failing(x) \in T
    BY DEF Failing, Headings
  <1>2. f \in T
    BY DEF Headings
  <1> HIDE DEF f
  <1>3. CASE g.err
    BY <1>3 DEF ParseHeader
  <1>4. CASE ~g.err /\ (u.kind # "header" \/ u.name \in g.headers)
    BY <1>1, <1>4 DEF ParseHeader
  <1>5. CASE ~g.err /\ ~(u.kind # "header" \/ u.name \in g.headers)
    <2>1. ASSUME u.name = "content-length" PROVE ParseHeader(g, u) \in T
      <3>1. ParseHeader(g, u) = SetContentLength(f, u.value)
        BY <1>5, <2>1 DEF ParseHeader, f
      <3>2. [f EXCEPT !.length = u.value] \in T
        BY <1>2 DEF Headings
      <3> QED
        BY <1>1, <1>2, <1>5, <2>1, <3>1, <3>2 DEF SetContentLength
    <2>2. ASSUME u.name = "content-type" PROVE ParseHeader(g, u) \in T
      <3>1. ParseHeader(g, u) = SetContentType(f, u.value)
        BY <1>5, <2>2 DEF ParseHeader, f
      <3> DEFINE e == [f EXCEPT !.type = u.value.type]
                 d == [e EXCEPT !.boundary = u.value.boundary]
      <3>2. e \in T
        BY <1>2 DEF Headings
      <3>3. d \in T
        <4> HIDE DEF e
        <4> QED
          BY <3>2 DEF Headings
      <3>4. [f EXCEPT !.type = u.value.type, !.boundary = u.value.boundary] = d
        BY <1>2 DEF Headings
      <3> HIDE DEF e, d
      <3> QED
        BY <1>1, <1>2, <1>5, <2>2, <3>1, <3>2, <3>3, <3>4 DEF SetContentType
    <2>3. ASSUME u.name = "authorization" PROVE ParseHeader(g, u) \in T
      <3>1. ParseHeader(g, u) = SetToken(f, u.value)
        BY <1>5, <2>3 DEF ParseHeader, f
      <3>2. [f EXCEPT !.token = u.value.token] \in T
        BY <1>2 DEF Headings
      <3> QED
        BY <1>2, <1>5, <2>3, <3>1, <3>2 DEF SetToken
    <2>4. ASSUME u.name = "origin" PROVE ParseHeader(g, u) \in T
      <3>1. ParseHeader(g, u) = [f EXCEPT !.origin = u.value]
        BY <1>5, <2>4 DEF ParseHeader, f
      <3>2. [f EXCEPT !.origin = u.value] \in T
        BY <1>2 DEF Headings
      <3> QED
        BY <1>2, <1>5, <2>4, <3>1, <3>2
    <2>5. ASSUME u.name \notin {"content-length", "content-type", "authorization", "origin"}
          PROVE  ParseHeader(g, u) \in T
      <3>1. ParseHeader(g, u) = f
        BY <1>5, <2>5 DEF ParseHeader, f
      <3> QED
        BY <1>2, <1>5, <2>5, <3>1
    <2> QED
      BY <2>1, <2>2, <2>3, <2>4, <2>5
  <1> QED
    BY <1>3, <1>4, <1>5

(* The units of s are headers, or not, with fields in these sets.          *)
Units(s, N, V, K) ==
    \A i \in DOMAIN s : /\ s[i].name \in N /\ s[i].value \in V
                        /\ s[i].value.type \in K /\ s[i].value.boundary \in K

(* g holds the heads parse_headers goes through.                           *)
IsReading(g, n, t, h, T) ==
    /\ g \in [0 .. n -> T]
    /\ g[0] = h
    /\ \A i \in 1 .. n : g[i] = ParseHeader(g[i - 1], t[i])
    /\ FoldLeft(ParseHeader, h, t) = g[n]

(* FoldLeft of ParseHeader goes through a head for each line.              *)
LEMMA HeaderSteps ==
    ASSUME NEW n \in Nat, NEW t, DOMAIN t = 1 .. n,
           NEW h, NEW N, NEW V, NEW K, Units(t, N, V, K), h \in Headings(h, N, V, K)
    PROVE  \E g : IsReading(g, n, t, h, Headings(h, N, V, K))
  <1> DEFINE T == Headings(h, N, V, K)
             O == [p \in T \X (1 .. n) |-> ParseHeader(p[1], t[p[2]])]
             Is(f) == f = [s \in SUBSET (DOMAIN t) |->
                             IF s = {} THEN h
                             ELSE ParseHeader(f[s \ {Max(s)}], t[Max(s)])]
             iter == CHOOSE f : Is(f)
             g == [i \in 0 .. n |-> iter[1 .. i]]
  <1>1. ASSUME NEW x \in T, NEW i \in 1 .. n PROVE ParseHeader(x, t[i]) \in T
    <2>1. /\ t[i].name \in N /\ t[i].value \in V
          /\ t[i].value.type \in K /\ t[i].value.boundary \in K
      BY DEF Units
    <2> HIDE DEF Units
    <2> QED
      BY <2>1, HeaderStep
  <1> HIDE DEF T
  <1>2. h \in T
    BY DEF T
  <1>3. O \in [T \X (1 .. n) -> T]
    BY <1>1
  <1>4. PICK f : IsFold(f, n, T, h, O)
    <2> HIDE DEF O
    <2> QED
      BY <1>2, <1>3, FoldExists
  <1>5. ASSUME NEW s \in SUBSET (1 .. n), s # {}
        PROVE  f[s] = ParseHeader(f[s \ {Max(s)}], t[Max(s)])
    <2>1. Max(s) \in 1 .. n
      BY <1>5, LargestOf
    <2>2. <<f[s \ {Max(s)}], Max(s)>> \in T \X (1 .. n)
      <3>1. f[s \ {Max(s)}] \in T
        BY <1>4, <1>5 DEF IsFold
      <3> QED
        BY <2>1, <3>1
    <2> QED
      BY <1>4, <1>5, <2>2 DEF IsFold
  <1>6. Is(f)
    BY <1>4, <1>5 DEF IsFold
  <1>7. Is(iter)
    <2> HIDE DEF Is
    <2> QED
      BY <1>6
  <1>8. FoldLeft(ParseHeader, h, t) = iter[DOMAIN t]
    BY DEF FoldLeft, MapThenFoldSet
  <1> HIDE DEF iter
  <1>9. g[0] = h
    <2>1. 1 .. 0 = {} /\ {} \in SUBSET (DOMAIN t)
      OBVIOUS
    <2> QED
      BY <1>7, <2>1
  <1>10. ASSUME NEW i \in 1 .. n PROVE g[i] = ParseHeader(g[i - 1], t[i])
    <2>1. iter[1 .. i] = ParseHeader(iter[(1 .. i) \ {Max(1 .. i)}], t[Max(1 .. i)])
      BY <1>7, Segments
    <2>2. iter[1 .. i] = ParseHeader(iter[1 .. (i - 1)], t[i])
      BY <2>1, Segments
    <2> QED
      BY <2>2
  <1>11. g[n] = FoldLeft(ParseHeader, h, t)
    BY <1>8
  <1> HIDE DEF g
  <1>12. \A i \in Nat : i <= n => g[i] \in T
    <2> DEFINE Good == {k \in Nat : k <= n => g[k] \in T}
    <2>1. 0 \in Good
      BY <1>2, <1>9
    <2>2. ASSUME NEW k \in Nat, k \in Good PROVE k + 1 \in Good
      <3>1. CASE k + 1 <= n
        <4>1. g[k] \in T /\ k + 1 \in 1 .. n /\ k + 1 - 1 = k
          BY <2>2, <3>1
        <4>2. g[k + 1] = ParseHeader(g[k], t[k + 1])
          BY <1>10, <4>1
        <4>4. ParseHeader(g[k], t[k + 1]) \in T
          BY <1>1, <4>1
        <4> QED
          BY <4>2, <4>4
      <3> QED
        BY <3>1
    <2> HIDE DEF Good
    <2> QED
      <3>1. \A i \in Nat : i \in Good
        BY <2>1, <2>2, Induction
      <3> QED
        BY <3>1 DEF Good
  <1>13. g \in [0 .. n -> T]
    <2>1. \A i \in 0 .. n : i \in Nat /\ i <= n
      OBVIOUS
    <2>2. \A i \in 0 .. n : g[i] \in T
      BY <1>12, <2>1
    <2> QED
      BY <2>2 DEF g
  <1>14. IsReading(g, n, t, h, T)
    BY <1>9, <1>10, <1>11, <1>13 DEF IsReading
  <1> QED
    BY <1>14 DEF T

(* parse_uri and the end of the head leave the token empty.                *)
LEMMA UriRead ==
    ASSUME NEW u, NEW end, NEW h, h = [ParseUri(NoHead, u) EXCEPT !.start = end],
           NEW N, NEW V, NEW K
    PROVE  h \in Headings(h, N, V, K) /\ h.token = <<>>
  <1> DEFINE T == [err : BOOLEAN, method : {NoHead.method, u.method},
                   target : {NoHead.target, TargetIn(u.rest)},
                   path : {NoHead.path, UpTo(TargetIn(u.rest), <<"?">>)},
                   start : {0, end}, headers : {{}}, length : {0}, type : {"none"},
                   boundary : {"none"}, token : {<<>>}, origin : {"none"}]
  <1>1. NoHead \in T
    BY DEF NoHead
  <1>2. Failing(NoHead) \in T
    BY <1>1 DEF Failing
  <1> DEFINE p == UpTo(TargetIn(u.rest), <<"?">>)
             a == [NoHead EXCEPT !.method = u.method]
             b == [a EXCEPT !.target = TargetIn(u.rest)]
             c == [b EXCEPT !.path = p]
  <1>3. a \in T
    BY <1>1
  <1>4. b \in T
    <2> HIDE DEF a
    <2> QED
      BY <1>3
  <1>5. c \in T
    <2> HIDE DEF b
    <2>1. p \in {NoHead.path, UpTo(TargetIn(u.rest), <<"?">>)}
      OBVIOUS
    <2> HIDE DEF p
    <2> QED
      BY <1>4, <2>1
  <1>6. [NoHead EXCEPT !.method = u.method, !.target = TargetIn(u.rest), !.path = p] = c
    BY DEF NoHead
  <1> HIDE DEF c
  <1>7. ParseUri(NoHead, u) \in T
    BY <1>2, <1>5, <1>6 DEF ParseUri
  <1> HIDE DEF p
  <1>8. h \in T
    BY <1>7
  <1> QED
    BY <1>8 DEF Headings

(* w begins with a head of e units, the last of which ends it.             *)

(* What parse_uri takes for the target.                                    *)
SeenTarget(c) == TargetIn(LineOf(c))

(* The token the client has sent as one.                                   *)
TokenOf(c) == IF c.user = Nobody \/ c.defect = "scheme" THEN <<>>
              ELSE GetToken(LoginOf(c.user), c.issued)

(* parse_headers has nothing to do without lines, and takes them in order. *)
LEMMA HeadersAppend ==
    ASSUME NEW U, NEW t \in Seq(U), NEW u \in U, NEW h, h \in Headings(h, {}, {}, {})
    PROVE  /\ FoldLeft(ParseHeader, h, <<>>) = h
           /\ FoldLeft(ParseHeader, h, Append(t, u)) =
                 ParseHeader(FoldLeft(ParseHeader, h, t), u)
  <1>1. PICK n \in Nat : n = Len(t) /\ n + 1 \in Nat
    BY LenProperties
  <1>2. PICK s : s = Append(t, u)
    OBVIOUS
  <1>3. /\ DOMAIN s = 1 .. n + 1 /\ s[n + 1] = u /\ DOMAIN t = 1 .. n
        /\ \A i \in 1 .. n : s[i] = t[i]
    <2>1. /\ Append(t, u) \in Seq(U) /\ Len(Append(t, u)) = Len(t) + 1
          /\ \A i \in 1 .. Len(t) : Append(t, u)[i] = t[i]
          /\ Append(t, u)[Len(t) + 1] = u
      BY AppendProperties
    <2>2. DOMAIN s = 1 .. Len(s) /\ DOMAIN t = 1 .. Len(t)
      BY <1>2, <2>1, LenProperties
    <2> QED
      BY <1>1, <1>2, <2>1, <2>2
  <1> DEFINE N == {s[i].name : i \in 1 .. n + 1}
             V == {s[i].value : i \in 1 .. n + 1}
             K == {s[i].value.type : i \in 1 .. n + 1} \cup
                  {s[i].value.boundary : i \in 1 .. n + 1}
  <1>4. Units(s, N, V, K)
    BY <1>3 DEF Units
  <1>5. Units(t, N, V, K)
    <2>1. \A i \in 1 .. n : i \in 1 .. n + 1
      BY <1>1
    <2>2. \A i \in 1 .. n : /\ t[i].name \in N /\ t[i].value \in V
                            /\ t[i].value.type \in K /\ t[i].value.boundary \in K
      BY <1>3, <2>1
    <2> QED
      BY <1>3, <2>2 DEF Units
  <1> HIDE DEF N, V, K
  <1>6. h \in Headings(h, N, V, K)
    BY DEF Headings
  <1>7. PICK f : IsReading(f, n + 1, s, h, Headings(h, N, V, K))
    BY <1>1, <1>3, <1>4, <1>6, HeaderSteps
  <1>8. PICK g : IsReading(g, n, t, h, Headings(h, N, V, K))
    BY <1>1, <1>3, <1>5, <1>6, HeaderSteps
  <1>9. /\ f[0] = h /\ g[0] = h
        /\ \A i \in 1 .. n + 1 : f[i] = ParseHeader(f[i - 1], s[i])
        /\ \A i \in 1 .. n : g[i] = ParseHeader(g[i - 1], t[i])
    BY <1>7, <1>8, Zenon DEF IsReading
  <1> DEFINE Good == {k \in Nat : k <= n => f[k] = g[k]}
  <1>10. 0 \in Good
    BY <1>9
  <1>11. ASSUME NEW k \in Nat, k \in Good PROVE k + 1 \in Good
    <2> SUFFICES ASSUME k + 1 <= n PROVE f[k + 1] = g[k + 1]
      OBVIOUS
    <2>1. k + 1 \in 1 .. n /\ k + 1 \in 1 .. n + 1 /\ (k + 1) - 1 = k /\ k <= n
      OBVIOUS
    <2>2. f[k + 1] = ParseHeader(f[k], s[k + 1]) /\ g[k + 1] = ParseHeader(g[k], t[k + 1])
      BY <1>9, <2>1
    <2> QED
      BY <1>3, <1>11, <2>1, <2>2
  <1>12. n \in Good
    <2> HIDE DEF Good
    <2> QED
      BY <1>10, <1>11, Induction
  <1>13. n + 1 \in 1 .. n + 1 /\ (n + 1) - 1 = n /\ n <= n
    OBVIOUS
  <1>14. f[n + 1] = ParseHeader(g[n], u)
    BY <1>3, <1>9, <1>12, <1>13
  <1>15. FoldLeft(ParseHeader, h, s) = f[n + 1] /\ FoldLeft(ParseHeader, h, t) = g[n]
    BY <1>7, <1>8, Zenon DEF IsReading
  <1>16. FoldLeft(ParseHeader, h, <<>>) = h
    <2>1. DOMAIN <<>> = 1 .. 0 /\ Units(<<>>, N, V, K)
      BY DEF Units
    <2>2. PICK e : IsReading(e, 0, <<>>, h, Headings(h, N, V, K))
      BY <1>6, <2>1, HeaderSteps
    <2> QED
      BY <2>2 DEF IsReading
  <1> QED
    BY <1>2, <1>14, <1>15, <1>16

-----------------------------------------------------------------------------
(* The lines of a head, one by one.                                        *)

(* The heads of c without errors so far: its lines H have been read, with  *)
(* these values.                                                           *)
Heading(c, e, H, length, type, boundary, token, origin) ==
    [err : {FALSE}, method : {c.method}, target : {SeenTarget(c)}, path : {PathSeen(c)},
     start : {e}, headers : {H}, length : {length}, type : {type},
     boundary : {boundary}, token : {token}, origin : {origin}]

(* What has been made of a head: this, or an error if there is a bad line. *)
Made(f, bad, e, R) == /\ f.err <=> bad
                      /\ ~bad => f \in R
                      /\ f.length \in Nat /\ f.start = e

(* The length of a body.                                                   *)
LEMMA LengthLine ==
    ASSUME NEW c, NEW e, NEW H, NEW l \in Nat, NEW k, NEW b, NEW t, NEW o, NEW f, NEW bad,
           Made(f, bad, e, Heading(c, e, H, l, k, b, t, o)),
           "content-length" \notin H,
           NEW m \in Nat, NEW v, v = m \/ v = NotANumber,
           NEW u, u = [kind |-> "header", name |-> "content-length", value |-> v]
    PROVE  Made(ParseHeader(f, u), bad \/ v = NotANumber, e,
                Heading(c, e, H \cup {"content-length"}, m, k, b, t, o))
  <1>1. CASE bad
    BY <1>1 DEF Made, ParseHeader
  <1>2. CASE ~bad
    <2>1. f \in Heading(c, e, H, l, k, b, t, o) /\ ~f.err /\ f.headers = H
      <3>1. f \in Heading(c, e, H, l, k, b, t, o)
        BY <1>2 DEF Made
      <3> QED
        BY <3>1 DEF Heading
    <2>2. PICK g : g = [f EXCEPT !.headers = @ \cup {"content-length"}]
      OBVIOUS
    <2>3. g \in Heading(c, e, H \cup {"content-length"}, l, k, b, t, o)
      BY <2>1, <2>2 DEF Heading
    <2>4. u.kind = "header" /\ u.name = "content-length"
      OBVIOUS
    <2>5. ParseHeader(f, u) = SetContentLength(g, v)
      BY <2>1, <2>2, <2>4 DEF ParseHeader
    <2>6. CASE v = NotANumber
      BY <1>2, <2>3, <2>5, <2>6 DEF Heading, Failing, Made, SetContentLength
    <2>7. CASE v # NotANumber
      <3>1. [g EXCEPT !.length = m] \in Heading(c, e, H \cup {"content-length"}, m, k, b, t, o)
        BY <2>3 DEF Heading
      <3>2. v \in Nat /\ v = m
        BY <2>7
      <3> QED
        BY <1>2, <2>5, <2>7, <3>1, <3>2 DEF Heading, SetContentLength, Made
    <2> QED
      BY <2>6, <2>7
  <1> QED
    BY <1>1, <1>2

(* Its type.                                                               *)
LEMMA TypeLine ==
    ASSUME NEW c, NEW e, NEW H, NEW l \in Nat, NEW k, NEW b, NEW t, NEW o, NEW f, NEW bad,
           Made(f, bad, e, Heading(c, e, H, l, k, b, t, o)),
           "content-type" \notin H, NEW type, NEW boundary,
           NEW u, u = [kind |-> "header", name |-> "content-type",
                       value |-> [type |-> type, boundary |-> boundary]]
    PROVE  Made(ParseHeader(f, u), bad \/ (type = "multipart" /\ boundary = "none"), e,
                Heading(c, e, H \cup {"content-type"}, l, type, boundary, t, o))
  <1>1. CASE bad
    BY <1>1 DEF Made, ParseHeader
  <1>2. CASE ~bad
    <2>1. f \in Heading(c, e, H, l, k, b, t, o) /\ ~f.err /\ f.headers = H
      <3>1. f \in Heading(c, e, H, l, k, b, t, o)
        BY <1>2 DEF Made
      <3> QED
        BY <3>1 DEF Heading
    <2>2. PICK g : g = [f EXCEPT !.headers = @ \cup {"content-type"}]
      OBVIOUS
    <2>3. g \in Heading(c, e, H \cup {"content-type"}, l, k, b, t, o)
      BY <2>1, <2>2 DEF Heading
    <2>4. u.kind = "header" /\ u.name = "content-type"
      OBVIOUS
    <2>5. ParseHeader(f, u) = SetContentType(g, u.value)
      BY <2>1, <2>2, <2>4 DEF ParseHeader
    <2>6. CASE type = "multipart" /\ boundary = "none"
      BY <1>2, <2>3, <2>5, <2>6 DEF Heading, Failing, Made, SetContentType
    <2>7. CASE ~(type = "multipart" /\ boundary = "none")
      <3>1. PICK d : d = [g EXCEPT !.type = type]
        OBVIOUS
      <3>2. d \in Heading(c, e, H \cup {"content-type"}, l, type, b, t, o)
        BY <2>3, <3>1 DEF Heading
      <3>3. [d EXCEPT !.boundary = boundary] \in
               Heading(c, e, H \cup {"content-type"}, l, type, boundary, t, o)
        BY <3>2 DEF Heading
      <3>4. [g EXCEPT !.type = type, !.boundary = boundary] = [d EXCEPT !.boundary = boundary]
        BY <3>1
      <3> QED
        BY <1>2, <2>5, <2>7, <3>3, <3>4, ZenonT(60) DEF Heading, SetContentType, Made
    <2> QED
      BY <2>6, <2>7
  <1> QED
    BY <1>1, <1>2

(* A token.                                                                *)
LEMMA TokenLine ==
    ASSUME NEW c, NEW e, NEW H, NEW l \in Nat, NEW k, NEW b, NEW t, NEW o, NEW f, NEW bad,
           Made(f, bad, e, Heading(c, e, H, l, k, b, t, o)),
           "authorization" \notin H, NEW w, t = <<>>, NEW v,
           v = IF w.scheme = "Bearer" THEN w.token ELSE <<>>,
           NEW u, u = [kind |-> "header", name |-> "authorization", value |-> w]
    PROVE  Made(ParseHeader(f, u), bad, e,
                Heading(c, e, H \cup {"authorization"}, l, k, b, v, o))
  <1>1. CASE bad
    BY <1>1 DEF Made, ParseHeader
  <1>2. CASE ~bad
    <2>1. f \in Heading(c, e, H, l, k, b, t, o) /\ ~f.err /\ f.headers = H
      <3>1. f \in Heading(c, e, H, l, k, b, t, o)
        BY <1>2 DEF Made
      <3> QED
        BY <3>1 DEF Heading
    <2>2. PICK g : g = [f EXCEPT !.headers = @ \cup {"authorization"}]
      OBVIOUS
    <2>3. g \in Heading(c, e, H \cup {"authorization"}, l, k, b, t, o)
      BY <2>1, <2>2 DEF Heading
    <2>4. u.kind = "header" /\ u.name = "authorization"
      OBVIOUS
    <2>5. ParseHeader(f, u) = SetToken(g, w)
      BY <2>1, <2>2, <2>4 DEF ParseHeader
    <2>6. SetToken(g, w) \in Heading(c, e, H \cup {"authorization"}, l, k, b, v, o)
      <3>1. CASE w.scheme = "Bearer"
        BY <2>3, <3>1 DEF Heading, SetToken
      <3>2. CASE w.scheme # "Bearer"
        BY <2>3, <3>2 DEF SetToken
      <3> QED
        BY <3>1, <3>2
    <2> QED
      BY <1>2, <2>5, <2>6 DEF Heading, Made
  <1> QED
    BY <1>1, <1>2

(* An origin, for the first time or again.                                 *)
LEMMA OriginLine ==
    ASSUME NEW c, NEW e, NEW H, NEW l \in Nat, NEW k, NEW b, NEW t, NEW o, NEW f, NEW bad,
           Made(f, bad, e, Heading(c, e, H, l, k, b, t, o)),
           NEW v,
           NEW u, u = [kind |-> "header", name |-> "origin", value |-> v]
    PROVE  Made(ParseHeader(f, u), bad \/ "origin" \in H, e,
                Heading(c, e, H \cup {"origin"}, l, k, b, t, v))
  <1>1. CASE bad
    BY <1>1 DEF Made, ParseHeader
  <1>2. CASE ~bad
    <2>1. f \in Heading(c, e, H, l, k, b, t, o) /\ ~f.err /\ f.headers = H
      <3>1. f \in Heading(c, e, H, l, k, b, t, o)
        BY <1>2 DEF Made
      <3> QED
        BY <3>1 DEF Heading
    <2>2. PICK g : g = [f EXCEPT !.headers = @ \cup {"origin"}]
      OBVIOUS
    <2>3. g \in Heading(c, e, H \cup {"origin"}, l, k, b, t, o)
      BY <2>1, <2>2 DEF Heading
    <2>4. u.kind = "header" /\ u.name = "origin"
      OBVIOUS
    <2>5. CASE "origin" \in H
      BY <1>2, <2>1, <2>4, <2>5 DEF Heading, Failing, Made, ParseHeader
    <2>6. CASE "origin" \notin H
      <3>1. ParseHeader(f, u) = [g EXCEPT !.origin = v]
        BY <2>1, <2>2, <2>4, <2>6 DEF ParseHeader
      <3>2. [g EXCEPT !.origin = v] \in Heading(c, e, H \cup {"origin"}, l, k, b, t, v)
        BY <2>3 DEF Heading
      <3> QED
        BY <1>2, <2>6, <3>1, <3>2 DEF Heading, Made
    <2> QED
      BY <2>5, <2>6
  <1> QED
    BY <1>1, <1>2

(* A line that is no header.                                               *)
LEMMA BrokenLine ==
    ASSUME NEW c, NEW e, NEW H, NEW l \in Nat, NEW k, NEW b, NEW t, NEW o, NEW f, NEW bad,
           Made(f, bad, e, Heading(c, e, H, l, k, b, t, o)),
           NEW u, u = [kind |-> "broken"]
    PROVE  Made(ParseHeader(f, u), TRUE, e,
                Heading(c, e, H, l, k, b, t, o))
  <1>1. CASE bad
    BY <1>1 DEF Made, ParseHeader
  <1>2. CASE ~bad
    <2>1. f \in Heading(c, e, H, l, k, b, t, o) /\ ~f.err /\ f.headers = H
      <3>1. f \in Heading(c, e, H, l, k, b, t, o)
        BY <1>2 DEF Made
      <3> QED
        BY <3>1 DEF Heading
    <2>2. ParseHeader(f, u) = Failing(f)
      BY <2>1 DEF ParseHeader
    <2> QED
      BY <2>1, <2>2 DEF Heading, Failing, Made
  <1> QED
    BY <1>1, <1>2

-----------------------------------------------------------------------------
(* From and up to a symbol.                                                *)

(* Where a symbol occurs first.                                            *)
LEMMA FirstAt ==
    ASSUME NEW S, NEW t \in Seq(S), NEW c, NEW k \in 1 .. Len(t), t[k] = c,
           \A i \in 1 .. Len(t) : i < k => t[i] # c
    PROVE  Occurs(t, <<c>>) # {} /\ First(t, <<c>>) = k
  <1>1. PICK n \in Nat : n = Len(t)
    BY LenProperties
  <1>2. PICK I : I = Occurs(t, <<c>>)
    OBVIOUS
  <1>3. \A i : i \in I <=> i \in 1 .. n /\ t[i] = c
    BY <1>1, <1>2, OccursOne DEF Occurs
  <1>4. k \in I /\ \A i \in I : k <= i
    BY <1>1, <1>3
  <1>5. \A i \in I : i \in Int
    BY <1>3
  <1>6. \A x \in I : (\A y \in I : x <= y) => x = k
    BY <1>4, <1>5
  <1>7. Min(I) = k
    BY <1>4, <1>6, Zenon DEF Min
  <1> QED
    BY <1>2, <1>4, <1>7 DEF First

(* What begins with a symbol of p, and is otherwise of p too.              *)
Begins(x, c, p) == /\ Len(x) > 0 /\ x[1] = c
                   /\ \A i \in 1 .. Len(x) : \E j \in 1 .. Len(p) : x[i] = p[j]

(* From a symbol on, whatever follows the text.                            *)
LEMMA FromThen ==
    ASSUME NEW S, NEW p \in Seq(S), NEW r \in Seq(S), NEW c, \E i \in 1 .. Len(p) : p[i] = c
    PROVE  /\ Occurs(Then(p, r), <<c>>) # {}
           /\ From(p, <<c>>) \in Seq(S) /\ Begins(From(p, <<c>>), c, p)
           /\ From(Then(p, r), <<c>>) = Then(From(p, <<c>>), r)
  <1>1. PICK n \in Nat : n = Len(p)
    BY LenProperties
  <1>2. PICK m \in Nat : m = Len(r)
    BY LenProperties
  <1>3. PICK I : I = {i \in 1 .. n : p[i] = c}
    OBVIOUS
  <1>17. I \in SUBSET Nat /\ I # {}
    BY <1>1, <1>3
  <1>18. PICK k \in I : \A i \in I : k <= i
    BY <1>17, LeastOf
  <1>4. k \in 1 .. n /\ p[k] = c /\ \A i \in 1 .. n : i < k => p[i] # c
    BY <1>3, <1>17, <1>18
  <1>5. PICK t \in Seq(S) : /\ t = Then(p, r) /\ Len(t) = n + m
                            /\ \A i \in 1 .. n + m : t[i] = IF i <= n THEN p[i] ELSE r[i - n]
    <2>1. /\ Then(p, r) \in Seq(S) /\ Len(Then(p, r)) = Len(p) + Len(r)
          /\ \A i \in 1 .. Len(p) + Len(r) :
                Then(p, r)[i] = IF i <= Len(p) THEN p[i] ELSE r[i - Len(p)]
      BY ThenType
    <2> QED
      BY <1>1, <1>2, <2>1, Zenon
  <1>6. k \in 1 .. n + m /\ t[k] = c /\ \A i \in 1 .. n + m : i < k => t[i] # c
    <2>1. k \in 1 .. n + m /\ k <= n
      BY <1>4
    <2>2. \A i \in 1 .. n + m : i < k => i \in 1 .. n /\ i <= n
      BY <1>4
    <2> QED
      BY <1>4, <1>5, <2>1, <2>2
  <1>7. Occurs(p, <<c>>) # {} /\ First(p, <<c>>) = k
    <2>1. k \in 1 .. Len(p) /\ \A i \in 1 .. Len(p) : i < k => p[i] # c
      BY <1>1, <1>4
    <2>2. p[k] = c
      BY <1>4
    <2> QED
      BY <2>1, <2>2, FirstAt, Zenon
  <1>8. Occurs(t, <<c>>) # {} /\ First(t, <<c>>) = k
    <2>1. k \in 1 .. Len(t) /\ \A i \in 1 .. Len(t) : i < k => t[i] # c
      BY <1>5, <1>6
    <2>2. t[k] = c
      BY <1>6
    <2> QED
      BY <2>1, <2>2, FirstAt, Zenon
  <1>9. PICK x, y : x = SubSeq(p, k, n) /\ y = SubSeq(t, k, n + m)
    OBVIOUS
  <1>10. From(p, <<c>>) = x /\ From(t, <<c>>) = y
    BY <1>1, <1>5, <1>7, <1>8, <1>9 DEF From
  <1>11. /\ x \in Seq(S) /\ Len(x) = n + 1 - k
         /\ \A i \in 1 .. n + 1 - k : x[i] = p[i + k - 1]
    <2>1. k \in Nat /\ 0 < k /\ k <= n + 1 /\ n <= Len(p)
      BY <1>1, <1>4
    <2>2. /\ SubSeq(p, k, n) \in Seq(S) /\ Len(SubSeq(p, k, n)) = n + 1 - k
          /\ \A i \in 1 .. n + 1 - k : SubSeq(p, k, n)[i] = p[i + k - 1]
      BY <2>1, Piece
    <2> QED
      BY <1>9, <2>2
  <1>12. /\ y \in Seq(S) /\ Len(y) = n + m + 1 - k
         /\ \A i \in 1 .. n + m + 1 - k : y[i] = t[i + k - 1]
    <2>1. PICK l \in Nat : l = n + m
      OBVIOUS
    <2>2. k \in Nat /\ 0 < k /\ k <= l + 1 /\ l <= Len(t)
      BY <1>4, <1>5, <2>1
    <2>3. /\ SubSeq(t, k, l) \in Seq(S) /\ Len(SubSeq(t, k, l)) = l + 1 - k
          /\ \A i \in 1 .. l + 1 - k : SubSeq(t, k, l)[i] = t[i + k - 1]
      BY <2>2, Piece
    <2> QED
      BY <1>9, <2>1, <2>3
  <1>13. PICK z \in Seq(S) : /\ z = Then(x, r) /\ Len(z) = n + 1 - k + m
                             /\ \A i \in 1 .. n + 1 - k + m :
                                   z[i] = IF i <= n + 1 - k THEN x[i] ELSE r[i - (n + 1 - k)]
    <2>1. PICK z : z = Then(x, r)
      OBVIOUS
    <2>2. /\ z \in Seq(S) /\ Len(z) = Len(x) + Len(r)
          /\ \A i \in 1 .. Len(x) + Len(r) : z[i] = IF i <= Len(x) THEN x[i] ELSE r[i - Len(x)]
      BY <1>11, <2>1, ThenType
    <2> QED
      BY <1>2, <1>11, <2>1, <2>2
  <1>14. ASSUME NEW i \in 1 .. n + m + 1 - k PROVE y[i] = z[i]
    <2>1. i + k - 1 \in 1 .. n + m /\ i \in 1 .. n + 1 - k + m
      BY <1>4
    <2>2. CASE i <= n + 1 - k
      <3>1. i + k - 1 <= n /\ i \in 1 .. n + 1 - k
        BY <1>4, <2>2
      <3>2. y[i] = t[i + k - 1] /\ x[i] = p[i + k - 1]
        BY <1>11, <1>12, <3>1
      <3>3. t[i + k - 1] = p[i + k - 1]
        BY <1>5, <2>1, <3>1, Zenon
      <3>4. z[i] = x[i]
        BY <1>13, <2>1, <2>2, Zenon
      <3> QED
        BY <3>2, <3>3, <3>4
    <2>3. CASE ~(i <= n + 1 - k)
      <3>1. PICK j \in 1 .. n + m : j = i + k - 1 /\ ~(j <= n) /\ j - n = i - (n + 1 - k)
        BY <1>4, <2>1, <2>3
      <3>2. y[i] = t[j]
        BY <1>12, <3>1
      <3>3. t[j] = r[j - n]
        BY <1>5, <3>1, Zenon
      <3>4. z[i] = r[i - (n + 1 - k)]
        BY <1>13, <2>1, <2>3, Zenon
      <3> QED
        BY <3>1, <3>2, <3>3, <3>4
    <2> QED
      BY <2>2, <2>3
  <1>15. y = z
    <2>1. Len(y) = Len(z) /\ \A i \in 1 .. Len(y) : y[i] = z[i]
      BY <1>4, <1>12, <1>13, <1>14
    <2> QED
      BY <1>12, <2>1, SeqEqual
  <1>16. Begins(x, c, p)
    <2>1. 1 \in 1 .. n + 1 - k /\ 1 + k - 1 = k
      BY <1>4
    <2>2. x[1] = c
      BY <1>4, <1>11, <2>1
    <2>3. \A i \in 1 .. n + 1 - k : i + k - 1 \in 1 .. n
      BY <1>4
    <2>4. \A i \in 1 .. Len(x) : \E j \in 1 .. Len(p) : x[i] = p[j]
      BY <1>1, <1>11, <2>3
    <2>5. Len(x) > 0
      BY <1>4, <1>11
    <2> QED
      BY <2>2, <2>4, <2>5, Zenon DEF Begins
  <1> QED
    BY <1>5, <1>8, <1>10, <1>11, <1>13, <1>15, <1>16

(* Up to a symbol, which comes first in what follows the text.             *)
LEMMA UpToThen ==
    ASSUME NEW S, NEW y \in Seq(S), NEW v \in Seq(S), NEW c,
           RunFree(y, c, Len(y)), Len(v) > 0, v[1] = c
    PROVE  UpTo(Then(y, v), <<c>>) = y
  <1>1. PICK n \in Nat : n = Len(y)
    BY LenProperties
  <1>2. PICK m \in Nat : m = Len(v) /\ m > 0
    BY LenProperties
  <1>3. PICK t \in Seq(S) : /\ t = Then(y, v) /\ Len(t) = n + m
                            /\ \A i \in 1 .. n + m : t[i] = IF i <= n THEN y[i] ELSE v[i - n]
    <2>1. /\ Then(y, v) \in Seq(S) /\ Len(Then(y, v)) = Len(y) + Len(v)
          /\ \A i \in 1 .. Len(y) + Len(v) :
                Then(y, v)[i] = IF i <= Len(y) THEN y[i] ELSE v[i - Len(y)]
      BY ThenType
    <2> QED
      BY <1>1, <1>2, <2>1, Zenon
  <1>4. PICK k \in Nat : k = n + 1
    OBVIOUS
  <1>5. k \in 1 .. n + m /\ t[k] = c
    <2>1. k \in 1 .. n + m /\ ~(k <= n) /\ k - n = 1
      BY <1>2, <1>4
    <2> QED
      BY <1>3, <2>1
  <1>6. \A i \in 1 .. n : i \in 1 .. n + m /\ t[i] = y[i]
    BY <1>3
  <1>7. \A i \in 1 .. n + m : i < k => t[i] # c
    <2>1. \A i \in 1 .. n + m : i < k => i \in 1 .. n
      BY <1>4
    <2> QED
      BY <1>1, <1>6, <2>1 DEF RunFree
  <1>8. Occurs(t, <<c>>) # {} /\ First(t, <<c>>) = k
    <2>1. k \in 1 .. Len(t) /\ \A i \in 1 .. Len(t) : i < k => t[i] # c
      BY <1>3, <1>5, <1>7
    <2> QED
      BY <1>5, <2>1, FirstAt
  <1>9. PICK x : x = SubSeq(t, 1, n)
    OBVIOUS
  <1>10. UpTo(t, <<c>>) = x
    <2>1. k - 1 = n
      BY <1>4
    <2> QED
      BY <1>8, <1>9, <2>1 DEF UpTo, Before
  <1>11. x \in Seq(S) /\ Len(x) = n /\ \A i \in 1 .. n : x[i] = t[i]
    <2>1. 1 \in Nat /\ 0 < 1 /\ 1 <= n + 1 /\ n <= Len(t)
      BY <1>3
    <2>2. /\ SubSeq(t, 1, n) \in Seq(S) /\ Len(SubSeq(t, 1, n)) = n + 1 - 1
          /\ \A i \in 1 .. n + 1 - 1 : SubSeq(t, 1, n)[i] = t[i + 1 - 1]
      BY <2>1, Piece
    <2>3. \A i \in 1 .. n : i \in 1 .. n + 1 - 1 /\ i + 1 - 1 = i
      OBVIOUS
    <2> QED
      BY <1>9, <2>2, <2>3
  <1>12. x = y
    BY <1>1, <1>6, <1>11, SeqEqual
  <1> QED
    BY <1>3, <1>10, <1>12

(* Where there is no such symbol, up to it is everything.                  *)
LEMMA UpToNone ==
    ASSUME NEW S, NEW t \in Seq(S), NEW c, RunFree(t, c, Len(t))
    PROVE  UpTo(t, <<c>>) = t /\ Occurs(t, <<c>>) = {}
  BY NoOccurrence DEF UpTo

(* The blank is none of the symbols a target is made of.                   *)
LEMMA BlankApart ==
    /\ Blank \notin {"HTTP", "1.1", "/", "?", "%", "=", "&", "2", "5", "6", "3", "D", "0", "7"}
    /\ Blank # "'"
    /\ Blank \in DOMAIN Hex
  <1>1. Blank \notin {"HTTP", "1.1", "/", "?", "%", "=", "&", "2", "5", "6", "3", "D", "0", "7"}
    BY Zenon DEF Blank
  <1>3. Blank # "'"
    BY Zenon DEF Blank
  <1>2. Blank \in DOMAIN Hex
    BY DEF Hex
  <1> QED
    BY <1>1, <1>2, <1>3

(* The slash of the version is the first of a line without another.        *)
LEMMA FromVersion ==
    ASSUME NEW S, NEW p \in Seq(S), {Blank, "HTTP", "/", "1.1"} \subseteq S,
           RunFree(p, "/", Len(p))
    PROVE  /\ Occurs(Then(p, Version), <<"/">>) # {}
           /\ From(Then(p, Version), <<"/">>) = <<"/", "1.1">>
  <1>1. PICK n \in Nat : n = Len(p)
    BY LenProperties
  <1>2. PICK v \in Seq(S) : /\ v = Version /\ Len(v) = 4 /\ v[1] = Blank /\ v[2] = "HTTP"
                            /\ v[3] = "/" /\ v[4] = "1.1"
    <2>1. << Blank, "HTTP", "/", "1.1" >> \in Seq(S)
      OBVIOUS
    <2> QED
      BY <2>1 DEF Version
  <1>3. PICK t \in Seq(S) : /\ t = Then(p, v) /\ Len(t) = n + 4
                            /\ \A i \in 1 .. n + 4 : t[i] = IF i <= n THEN p[i] ELSE v[i - n]
    <2>1. /\ Then(p, v) \in Seq(S) /\ Len(Then(p, v)) = Len(p) + Len(v)
          /\ \A i \in 1 .. Len(p) + Len(v) :
                Then(p, v)[i] = IF i <= Len(p) THEN p[i] ELSE v[i - Len(p)]
      BY ThenType
    <2> QED
      BY <1>1, <1>2, <2>1, Zenon
  <1>4. PICK k \in Nat : k = n + 3
    OBVIOUS
  <1>5. t[n + 1] = Blank /\ t[n + 2] = "HTTP" /\ t[k] = "/" /\ t[k + 1] = "1.1"
    <2>1. /\ n + 1 \in 1 .. n + 4 /\ ~(n + 1 <= n) /\ n + 1 - n = 1
          /\ n + 2 \in 1 .. n + 4 /\ ~(n + 2 <= n) /\ n + 2 - n = 2
          /\ k \in 1 .. n + 4 /\ ~(k <= n) /\ k - n = 3
          /\ k + 1 \in 1 .. n + 4 /\ ~(k + 1 <= n) /\ k + 1 - n = 4
      BY <1>4
    <2> QED
      BY <1>2, <1>3, <2>1
  <1>6. \A i \in 1 .. n + 4 : i < k => t[i] # "/"
    <2> SUFFICES ASSUME NEW i \in 1 .. n + 4, i < k PROVE t[i] # "/"
      OBVIOUS
    <2>1. i \in 1 .. n \/ i = n + 1 \/ i = n + 2
      BY <1>4
    <2>2. CASE i \in 1 .. n
      BY <1>1, <1>3, <2>2 DEF RunFree
    <2>3. CASE i = n + 1 \/ i = n + 2
      <3>1. Blank # "/" /\ "HTTP" # "/"
        BY BlankApart
      <3> QED
        BY <1>5, <2>3, <3>1
    <2> QED
      BY <2>1, <2>2, <2>3
  <1>7. k \in 1 .. n + 4
    BY <1>4
  <1>8. Occurs(t, <<"/">>) # {} /\ First(t, <<"/">>) = k
    <2>1. PICK c : c = "/"
      OBVIOUS
    <2>2. /\ t \in Seq(S) /\ k \in 1 .. Len(t) /\ t[k] = c
          /\ \A i \in 1 .. Len(t) : i < k => t[i] # c
      BY <1>3, <1>5, <1>6, <1>7, <2>1, Zenon
    <2>3. Occurs(t, <<c>>) # {} /\ First(t, <<c>>) = k
      BY <2>2, FirstAt
    <2> QED
      BY <2>1, <2>3
  <1>9. PICK x : x = SubSeq(t, k, n + 4)
    OBVIOUS
  <1>10. From(t, <<"/">>) = x
    BY <1>3, <1>8, <1>9 DEF From
  <1>11. x \in Seq(S) /\ Len(x) = 2 /\ x[1] = t[k] /\ x[2] = t[k + 1]
    <2>1. PICK l \in Nat : l = n + 4
      OBVIOUS
    <2>2. 0 < k /\ k <= l + 1 /\ l <= Len(t)
      BY <1>3, <1>4, <2>1
    <2>3. /\ SubSeq(t, k, l) \in Seq(S) /\ Len(SubSeq(t, k, l)) = l + 1 - k
          /\ \A i \in 1 .. l + 1 - k : SubSeq(t, k, l)[i] = t[i + k - 1]
      BY <2>2, Piece
    <2>4. l + 1 - k = 2 /\ 1 \in 1 .. 2 /\ 2 \in 1 .. 2 /\ 1 + k - 1 = k /\ 2 + k - 1 = k + 1
      BY <1>4, <2>1
    <2> QED
      BY <1>9, <2>1, <2>3, <2>4
  <1>12. x = <<"/", "1.1">>
    BY <1>5, <1>11
  <1> QED
    BY <1>2, <1>3, <1>8, <1>10, <1>12

-----------------------------------------------------------------------------
(* The texts clients write.                                                *)

(* The symbols of what c writes.                                           *)
Alphabet(c) ==
    {Blank, "HTTP", "1.1", "/", "?", "%", "=", "&", "2", "5", "6", "3", "D", "0", "7", "--",
     Boundary, Crlf, Quote, "form-data", "name=", "filename=", "Content-Type: ", "text"}
       \cup ToSet(c.path)
       \cup UNION {ToSet(f.name) \cup ToSet(f.value) \cup ToSet(f.filename) :
                      f \in ToSet(c.fields)}

LEMMA FieldTexts ==
    ASSUME NEW c \in Clients
    PROVE  /\ c.path \in Seq(Alphabet(c)) /\ c.fields \in Seq(ToSet(c.fields))
           /\ \A i \in 1 .. Len(c.fields) :
                 /\ c.fields[i] \in ToSet(c.fields)
                 /\ c.fields[i].name \in Seq(Alphabet(c))
                 /\ c.fields[i].value \in Seq(Alphabet(c))
                 /\ c.fields[i].filename \in Seq(Alphabet(c))
  <1>1. IsText(c.path) /\ FieldsWritten(c)
    BY ClientsAssumption
  <1>2. c.path \in Seq(Alphabet(c))
    <2>1. ToSet(c.path) \subseteq Alphabet(c)
      BY DEF Alphabet
    <2>2. c.path \in Seq(ToSet(c.path))
      BY <1>1 DEF IsText
    <2> QED
      BY <2>1, <2>2, WiderSeq
  <1>3. c.fields \in Seq(ToSet(c.fields))
    BY <1>1 DEF FieldsWritten, IsText
  <1>4. ASSUME NEW i \in 1 .. Len(c.fields)
        PROVE  /\ c.fields[i] \in ToSet(c.fields)
               /\ c.fields[i].name \in Seq(Alphabet(c))
               /\ c.fields[i].value \in Seq(Alphabet(c))
               /\ c.fields[i].filename \in Seq(Alphabet(c))
    <2>1. PICK f : f = c.fields[i]
      OBVIOUS
    <2>2. f \in ToSet(c.fields)
      BY <1>3, <2>1, ElementOfSeq
    <2>3. IsText(f.name) /\ IsText(f.value) /\ IsText(f.filename)
      BY <1>1, <2>2 DEF FieldsWritten
    <2>4. /\ ToSet(f.name) \subseteq Alphabet(c)
          /\ ToSet(f.value) \subseteq Alphabet(c)
          /\ ToSet(f.filename) \subseteq Alphabet(c)
      <3>1. PICK T : T = ToSet(f.name) \cup ToSet(f.value) \cup ToSet(f.filename)
        OBVIOUS
      <3>2. T \in {ToSet(g.name) \cup ToSet(g.value) \cup ToSet(g.filename) :
                      g \in ToSet(c.fields)}
        BY <2>2, <3>1
      <3>3. T \subseteq Alphabet(c)
        BY <3>2, Zenon DEF Alphabet
      <3> QED
        BY <3>1, <3>3
    <2>5. \A t : IsText(t) /\ ToSet(t) \subseteq Alphabet(c) => t \in Seq(Alphabet(c))
      BY WiderSeq DEF IsText
    <2> QED
      BY <2>1, <2>2, <2>3, <2>4, <2>5
  <1> QED
    BY <1>2, <1>3, <1>4

LEMMA HexTexts ==
    ASSUME NEW x \in DOMAIN Hex
    PROVE  \E p, q \in {"2", "5", "6", "3", "D", "0", "7"} : Hex[x] = <<p, q>>
  BY BlankApart DEF Hex

(* How a symbol of a query is written.                                     *)
Encoded(x) == IF x \in DOMAIN Hex THEN <<"%">> \o Hex[x] ELSE <<x>>

LEMMA QueryText ==
    ASSUME NEW c \in Clients
    PROVE  /\ c.encoding = "query" => QueryOf(c) \in Seq(Alphabet(c) \ {Blank})
           /\ \A t \in Seq(Alphabet(c)) : Percent(t) \in Seq(Alphabet(c) \ {Blank})
  <1> DEFINE A == Alphabet(c)
             S == Alphabet(c) \ {Blank}
             digits == {"2", "5", "6", "3", "D", "0", "7"}
  <1>1. /\ digits \subseteq S /\ "%" \in S /\ "=" \in S /\ "&" \in S
        /\ \A x \in A : x \in S \/ x = Blank
    BY BlankApart DEF Alphabet
  <1> HIDE DEF S, A
  <1>2. ASSUME NEW x \in A PROVE Encoded(x) \in Seq(S)
    <2>1. CASE x \in DOMAIN Hex
      <3>1. PICK p, q \in digits : Hex[x] = <<p, q>>
        BY <2>1, HexTexts
      <3>2. p \in S /\ q \in S
        BY <1>1
      <3>3. Encoded(x) = <<"%">> \o <<p, q>>
        BY <2>1, <3>1 DEF Encoded
      <3>4. <<"%">> \in Seq(S) /\ <<p, q>> \in Seq(S)
        BY <1>1, <3>2
      <3> QED
        BY <3>3, <3>4, ConcatProperties
    <2>2. CASE x \notin DOMAIN Hex
      <3>1. x \in S
        BY <1>1, <2>2, BlankApart
      <3> QED
        BY <2>2, <3>1 DEF Encoded
    <2> QED
      BY <2>1, <2>2
  <1>3. ASSUME NEW t \in Seq(A) PROVE Percent(t) \in Seq(S)
    <2>1. PICK n \in Nat : n = Len(t) /\ DOMAIN t = 1 .. n
      BY LenProperties
    <2>2. PICK s : s = [i \in DOMAIN t |-> Encoded(t[i])]
      OBVIOUS
    <2>3. s \in [1 .. n -> Seq(S)]
      <3>1. \A i \in 1 .. n : t[i] \in A
        BY <2>1, ElementOfSeq
      <3> QED
        BY <1>2, <2>1, <2>2, <3>1
    <2>4. Percent(t) = FlattenSeq(s)
      BY <2>2 DEF Percent, Encoded
    <2> QED
      BY <2>3, <2>4, FlatText
  <1>4. ASSUME c.encoding = "query" PROVE QueryOf(c) \in Seq(S)
    <2>1. PICK n \in Nat : n = Len(c.fields) /\ DOMAIN c.fields = 1 .. n
      BY FieldTexts, LenProperties
    <2>2. PICK w : w = [i \in DOMAIN c.fields |->
                          c.fields[i].name \o <<"=">> \o Percent(c.fields[i].value)]
      OBVIOUS
    <2>3. \A i \in 1 .. n : w[i] \in Seq(S)
      <3> SUFFICES ASSUME NEW i \in 1 .. n PROVE w[i] \in Seq(S)
        OBVIOUS
      <3>6. c.fields[i] \in ToSet(c.fields) /\ c.fields[i].value \in Seq(A)
        BY <2>1, FieldTexts DEF A
      <3>7. IsText(c.fields[i].name) /\ Blank \notin ToSet(c.fields[i].name)
        BY <1>4, <3>6, ClientsAssumption DEF FieldsWritten
      <3>8. c.fields[i].name \in Seq(S)
        <4>1. ToSet(c.fields[i].name) \subseteq Alphabet(c)
          <5>1. PICK f : f = c.fields[i]
            OBVIOUS
          <5>2. ToSet(f.name) \cup ToSet(f.value) \cup ToSet(f.filename) \in
                   {ToSet(g.name) \cup ToSet(g.value) \cup ToSet(g.filename) :
                       g \in ToSet(c.fields)}
            BY <3>6, <5>1
          <5>3. ToSet(f.name) \cup ToSet(f.value) \cup ToSet(f.filename) \subseteq Alphabet(c)
            BY <5>2, Zenon DEF Alphabet
          <5> QED
            BY <5>1, <5>3
        <4>2. ToSet(c.fields[i].name) \subseteq S
          BY <3>7, <4>1 DEF S
        <4> QED
          BY <3>7, <4>2, WiderSeq DEF IsText
      <3>1. c.fields[i].name \in Seq(S) /\ c.fields[i].value \in Seq(A)
        BY <3>6, <3>8
      <3>2. PICK p \in Seq(S) : p = Percent(c.fields[i].value)
        BY <1>3, <3>1
      <3>3. w[i] = Cat(c.fields[i].name, "=", p)
        BY <2>1, <2>2, <3>2 DEF Cat
      <3>4. PICK x \in Seq(S) : x = c.fields[i].name
        BY <3>1
      <3>5. Cat(x, "=", p) \in Seq(S)
        BY <1>1, CatType
      <3> QED
        BY <3>3, <3>4, <3>5
    <2>4. w \in [1 .. n -> Seq(S)]
      BY <2>1, <2>2, <2>3
    <2>5. QueryOf(c) = Join(w, <<"&">>)
      BY <2>2 DEF QueryOf
    <2>6. CASE w = <<>>
      BY <2>5, <2>6 DEF Join
    <2>7. CASE w # <<>>
      <3>1. PICK s : s = [i \in DOMAIN w |-> (IF i = 1 THEN <<>> ELSE <<"&">>) \o w[i]]
        OBVIOUS
      <3>2. \A i \in 1 .. n : s[i] \in Seq(S)
        <4> SUFFICES ASSUME NEW i \in 1 .. n PROVE s[i] \in Seq(S)
          OBVIOUS
        <4>1. PICK d \in Seq(S) : d = IF i = 1 THEN <<>> ELSE <<"&">>
          <5>1. <<>> \in Seq(S) /\ <<"&">> \in Seq(S)
            BY <1>1
          <5> QED
            BY <5>1, Zenon
        <4>2. s[i] = d \o w[i]
          BY <2>4, <3>1, <4>1
        <4> QED
          BY <2>3, <4>2, ConcatProperties
      <3>3. s \in [1 .. n -> Seq(S)]
        BY <2>4, <3>1, <3>2
      <3>4. QueryOf(c) = FlattenSeq(s)
        BY <2>5, <2>7, <3>1 DEF Join
      <3> QED
        BY <3>3, <3>4, FlatText
    <2> QED
      BY <2>6, <2>7
  <1> QED
    BY <1>3, <1>4 DEF S, A

RequestLine(c) == [kind |-> "request", rest |-> LineOf(c),
                   method |-> IF c.defect = "method" THEN "PUT" ELSE c.method]

(* The path of c, the query behind it and the version.                     *)
LEMMA LineMade ==
    ASSUME NEW c \in Clients, c.defect # "line", NEW S, S = Alphabet(c) \ {Blank}
    PROVE  /\ c.path \in Seq(S)
           /\ \E q \in Seq(S) : /\ LineOf(c) = Then(Then(c.path, q), Version)
                                /\ c.encoding = "query" => q = <<"?">> \o QueryOf(c)
                                /\ c.encoding # "query" => q = <<>>
  <1>1. c.path \in Seq(S)
    <2>1. IsText(c.path) /\ Blank \notin ToSet(c.path)
      BY ClientsAssumption
    <2>2. c.path \in Seq(ToSet(c.path))
      BY <2>1 DEF IsText
    <2>3. ToSet(c.path) \subseteq S
      BY <2>1 DEF Alphabet
    <2> QED
      BY <2>2, <2>3, WiderSeq
  <1>2. PICK q : q = IF c.encoding = "query" THEN <<"?">> \o QueryOf(c) ELSE <<>>
    OBVIOUS
  <1>3. q \in Seq(S)
    <2>1. CASE c.encoding = "query"
      <3>1. PICK u \in Seq(S) : u = QueryOf(c)
        BY <2>1, QueryText
      <3>2. "?" \in S
        BY BlankApart DEF Alphabet
      <3>3. <<"?">> \in Seq(S)
        BY <3>2
      <3>4. Then(<<"?">>, u) \in Seq(S)
        BY <3>3, ThenType
      <3> QED
        BY <1>2, <2>1, <3>1, <3>4 DEF Then
    <2>2. CASE c.encoding # "query"
      BY <1>2, <2>2
    <2> QED
      BY <2>1, <2>2
  <1>4. LineOf(c) = Then(Then(c.path, q), Version)
    BY <1>2, Zenon DEF LineOf, TargetOf, Then
  <1> QED
    BY <1>1, <1>2, <1>3, <1>4

(* The target parse_uri sees: the path from its first slash on, or the end *)
(* of the version, and the query behind it.                                *)
LEMMA TargetPath ==
    ASSUME NEW c \in Clients
    PROVE  /\ Occurs(LineOf(c), <<"/">>) = {} <=> c.defect = "line"
           /\ c.defect # "line" => UpTo(SeenTarget(c), <<"?">>) = PathSeen(c)
           /\ c.defect # "line" /\ c.encoding = "query" =>
                /\ Occurs(SeenTarget(c), <<"?">>) # {}
                /\ After(SeenTarget(c), <<"?">>) = QueryOf(c)
           /\ c.defect # "line" /\ c.encoding # "query" =>
                Occurs(SeenTarget(c), <<"?">>) = {}
  <1>1. PICK S, A : S = Alphabet(c) \ {Blank} /\ A = Alphabet(c)
    OBVIOUS
  <1>2. /\ S \subseteq A /\ {Blank, "HTTP", "/", "1.1"} \subseteq A
        /\ Blank \notin S /\ "?" \in S /\ "/" \in S /\ "1.1" \in S
    BY <1>1, BlankApart DEF Alphabet
  <1>3. CASE c.defect = "line"
    <2>1. LineOf(c) = <<>>
      BY <1>3 DEF LineOf
    <2> QED
      BY <1>3, <2>1 DEF Occurs
  <1>4. CASE c.defect # "line"
    <2>1. PICK p \in Seq(S) : p = c.path
      BY <1>1, <1>4, LineMade
    <2>2. PICK q \in Seq(S) : /\ LineOf(c) = Then(Then(p, q), Version)
                              /\ c.encoding = "query" => q = <<"?">> \o QueryOf(c)
                              /\ c.encoding # "query" => q = <<>>
      BY <1>1, <1>4, <2>1, LineMade
    <2>3. PICK n \in Nat : n = Len(p) /\ DOMAIN p = 1 .. n
      BY LenProperties
    <2>4. RunFree(p, "?", n) /\ ("/" \in ToSet(p) <=> \E i \in 1 .. n : p[i] = "/")
      <3>1. "?" \notin ToSet(p)
        BY <2>1, ClientsAssumption
      <3> QED
        BY <2>3, <3>1 DEF ToSet, RunFree
    <2>5. PICK v \in Seq(A) : v = Version /\ Len(v) = 4 /\ v[1] = Blank
      <3>1. << Blank, "HTTP", "/", "1.1" >> \in Seq(A)
        BY <1>2
      <3> QED
        BY <3>1 DEF Version
    <2>6. p \in Seq(A) /\ q \in Seq(A)
      BY <1>2, WiderSeq
    <2>7. CASE "/" \in ToSet(p)
      <3>1. PICK x : x = From(p, <<"/">>)
        OBVIOUS
      <3>2. x \in Seq(S) /\ Begins(x, "/", p)
        BY <2>3, <2>4, <2>7, <3>1, FromThen
      <3>3. PathSeen(c) = x
        BY <2>1, <2>7, <3>1 DEF PathSeen
      <3>4. PICK y \in Seq(S) : y = Then(x, q)
        BY <3>2, ThenType
      <3>5. PICK r \in Seq(A) : r = Then(q, v)
        BY <2>5, <2>6, ThenType
      <3>6. LineOf(c) = Then(p, r)
        BY <2>2, <2>5, <2>6, <3>5, ThenThen
      <3>7. Occurs(Then(p, r), <<"/">>) # {} /\ From(Then(p, r), <<"/">>) = Then(x, r)
        BY <2>3, <2>4, <2>6, <2>7, <3>1, FromThen
      <3>8. x \in Seq(A) /\ y \in Seq(A)
        BY <1>2, <3>2, WiderSeq
      <3>9. Then(x, r) = Then(y, v)
        BY <2>5, <2>6, <3>4, <3>5, <3>8, ThenThen
      <3>10. UpTo(Then(y, v), <<Blank>>) = y
        <4>1. RunFree(y, Blank, Len(y))
          BY <1>2, Unlike
        <4>2. Len(v) > 0 /\ v[1] = Blank
          BY <2>5
        <4> QED
          BY <3>8, <4>1, <4>2, UpToThen
      <3>11. SeenTarget(c) = y /\ Occurs(LineOf(c), <<"/">>) # {}
        BY <3>6, <3>7, <3>9, <3>10, Zenon DEF SeenTarget, TargetIn
      <3>12. RunFree(x, "?", Len(x))
        BY <2>3, <2>4, <3>2 DEF Begins, RunFree
      <3>13. CASE c.encoding = "query"
        <4>1. PICK u \in Seq(S) : u = QueryOf(c)
          BY <1>1, <3>13, QueryText
        <4>2. PICK z \in Seq(S) : z = <<"?">>
          <5>1. <<"?">> \in Seq(S)
            BY <1>2
          <5> QED
            BY <5>1, Zenon
        <4>3. q = Then(z, u)
          BY <2>2, <3>13, <4>1, <4>2, Zenon DEF Then
        <4>4. Then(Then(x, z), u) = Then(x, Then(z, u))
          BY <3>2, ThenThen
        <4>5. y = Cat(x, "?", u)
          BY <3>4, <4>2, <4>3, <4>4, Zenon DEF Cat, Then
        <4>6. /\ Occurs(y, <<"?">>) # {} /\ Before(y, <<"?">>) = x
              /\ After(y, <<"?">>) = u
          BY <1>2, <3>2, <3>12, <4>5, CutAt
        <4> QED
          BY <1>4, <3>3, <3>11, <3>13, <4>1, <4>6 DEF UpTo
      <3>14. CASE c.encoding # "query"
        <4>1. y = x
          <5>1. x \o <<>> = x
            BY <3>2, ConcatEmptySeq
          <5> QED
            BY <2>2, <3>4, <3>14, <5>1, Zenon DEF Then
        <4>2. UpTo(y, <<"?">>) = y /\ Occurs(y, <<"?">>) = {}
          BY <3>12, <4>1, UpToNone
        <4> QED
          BY <1>4, <3>3, <3>11, <3>14, <4>1, <4>2
      <3> QED
        BY <3>13, <3>14
    <2>8. CASE "/" \notin ToSet(p)
      <3>1. c.encoding # "query"
        BY <2>1, <2>8, ClientsAssumption
      <3>2. Then(p, q) = p
        <4>1. p \o <<>> = p
          BY ConcatEmptySeq
        <4> QED
          BY <2>2, <3>1, <4>1, Zenon DEF Then
      <3>3. LineOf(c) = Then(p, Version)
        BY <2>2, <3>2, Zenon
      <3>4. RunFree(p, "/", Len(p))
        BY <2>3, <2>4, <2>8 DEF RunFree
      <3>5. /\ Occurs(Then(p, Version), <<"/">>) # {}
            /\ From(Then(p, Version), <<"/">>) = <<"/", "1.1">>
        BY <1>2, <2>6, <3>4, FromVersion
      <3>6. PICK y \in Seq(S) : y = <<"/", "1.1">> /\ Len(y) = 2 /\ y[1] = "/" /\ y[2] = "1.1"
        <4>1. <<"/", "1.1">> \in Seq(S)
          BY <1>2
        <4> QED
          BY <4>1
      <3>7. RunFree(y, Blank, Len(y)) /\ RunFree(y, "?", Len(y))
        <4>1. \A i \in 1 .. 2 : i = 1 \/ i = 2
          OBVIOUS
        <4>2. \A i \in 1 .. 2 : y[i] # Blank /\ y[i] # "?"
          BY <3>6, <4>1, BlankApart
        <4> QED
          BY <3>6, <4>2 DEF RunFree
      <3>8. UpTo(y, <<Blank>>) = y /\ UpTo(y, <<"?">>) = y /\ Occurs(y, <<"?">>) = {}
        BY <3>7, UpToNone
      <3>9. SeenTarget(c) = y /\ Occurs(LineOf(c), <<"/">>) # {}
        BY <3>3, <3>5, <3>6, <3>8, Zenon DEF SeenTarget, TargetIn
      <3>10. PathSeen(c) = y
        BY <2>1, <2>8, <3>6, Zenon DEF PathSeen
      <3> QED
        BY <1>4, <3>1, <3>8, <3>9, <3>10
    <2> QED
      BY <2>7, <2>8
  <1> QED
    BY <1>3, <1>4

(* parse_uri on the request line of c.                                     *)
LEMMA UriMade ==
    ASSUME NEW c \in Clients, NEW e,
           NEW h, h = [ParseUri(NoHead, RequestLine(c)) EXCEPT !.start = e]
    PROVE  /\ h \in Headings(h, {}, {}, {})
           /\ Made(h, c.defect \in {"line", "method"}, e,
                   Heading(c, e, {}, 0, "none", "none", <<>>, "none"))
  <1>1. h \in Headings(h, {}, {}, {})
    BY UriRead
  <1>2. PICK u : u = RequestLine(c)
    OBVIOUS
  <1>3. u.kind = "request" /\ u.rest = LineOf(c)
        /\ u.method = IF c.defect = "method" THEN "PUT" ELSE c.method
    BY <1>2 DEF RequestLine
  <1>4. u.method \in Methods <=> c.defect # "method"
    BY <1>3, ClientsAssumption DEF Methods
  <1>5. CASE c.defect \in {"line", "method"}
    <2>1. ParseUri(NoHead, u) = Failing(NoHead)
      BY <1>3, <1>4, <1>5, TargetPath DEF ParseUri
    <2>2. h = [Failing(NoHead) EXCEPT !.start = e]
      BY <1>2, <2>1
    <2>3. h.err /\ h.length = 0 /\ h.start = e
      <3>1. Failing(NoHead) = [NoHead EXCEPT !.err = TRUE]
        BY DEF Failing
      <3> QED
        BY <2>2, <3>1 DEF NoHead
    <2> QED
      BY <1>1, <1>5, <2>3 DEF Made
  <1>6. CASE c.defect \notin {"line", "method"}
    <2>1. /\ u.method = c.method
          /\ TargetIn(u.rest) = SeenTarget(c)
          /\ UpTo(TargetIn(u.rest), <<"?">>) = PathSeen(c)
      BY <1>3, <1>6, TargetPath DEF SeenTarget
    <2>2. ParseUri(NoHead, u) = [NoHead EXCEPT !.method = c.method, !.target = SeenTarget(c),
                                               !.path = PathSeen(c)]
      BY <1>3, <1>4, <1>6, <2>1, TargetPath DEF ParseUri
    <2>3. h = [[NoHead EXCEPT !.method = c.method, !.target = SeenTarget(c), !.path = PathSeen(c)]
                  EXCEPT !.start = e]
      BY <1>2, <2>2
    <2>4. PICK a : a = [NoHead EXCEPT !.method = c.method]
      OBVIOUS
    <2>5. PICK b : b = [a EXCEPT !.target = SeenTarget(c)]
      OBVIOUS
    <2>6. PICK d : d = [b EXCEPT !.path = PathSeen(c)]
      OBVIOUS
    <2> DEFINE T(m, t, p, s) ==
                 [err : {FALSE}, method : {m}, target : {t}, path : {p}, start : {s},
                  headers : {{}}, length : {0}, type : {"none"}, boundary : {"none"},
                  token : {<<>>}, origin : {"none"}]
    <2>7. a \in T(c.method, <<>>, <<>>, 0)
      BY <2>4 DEF NoHead
    <2>8. b \in T(c.method, SeenTarget(c), <<>>, 0)
      BY <2>5, <2>7
    <2>9. d \in T(c.method, SeenTarget(c), PathSeen(c), 0)
      BY <2>6, <2>8
    <2>10. [d EXCEPT !.start = e] \in T(c.method, SeenTarget(c), PathSeen(c), e)
      BY <2>9
    <2>11. h = [d EXCEPT !.start = e]
      BY <2>3, <2>4, <2>5, <2>6 DEF NoHead
    <2>12. h \in Heading(c, e, {}, 0, "none", "none", <<>>, "none")
      BY <2>10, <2>11 DEF Heading
    <2>13. ~h.err /\ h.length = 0 /\ h.start = e
      BY <2>12 DEF Heading
    <2> QED
      BY <1>1, <1>6, <2>12, <2>13 DEF Made
  <1> QED
    BY <1>5, <1>6

(* Texts in another grouping.                                              *)
Regroups(S, d, h, n, q, l, b, v, z) ==
    /\ h \o (n \o q) \o l \o b \o v \o z \in Seq(S)
    /\ (d \o h) \o n \o q \o l \o b \o v \o z = d \o (h \o (n \o q) \o l \o b \o v \o z)

LEMMA Grouped ==
    ASSUME NEW S, NEW d \in Seq(S), NEW h \in Seq(S), NEW n \in Seq(S), NEW q \in Seq(S),
           NEW l \in Seq(S), NEW b \in Seq(S), NEW v \in Seq(S), NEW z \in Seq(S)
    PROVE  Regroups(S, d, h, n, q, l, b, v, z)
  <1>1. PICK s \in Seq(S) : s = Then(n, q)
    BY ThenType
  <1>2. PICK p \in Seq(S) : p = Then(h, s)
    BY ThenType
  <1>3. Then(Then(Then(d, h), n), q) = Then(d, p)
    <2>1. Then(d, h) \in Seq(S)
      BY ThenType
    <2>2. Then(Then(Then(d, h), n), q) = Then(Then(d, h), s)
      BY <1>1, <2>1, ThenThen
    <2>3. Then(Then(d, h), s) = Then(d, p)
      BY <1>2, ThenThen
    <2> QED
      BY <2>2, <2>3
  <1>4. PICK r \in Seq(S) : r = Then(p, l)
    BY ThenType
  <1>5. PICK t \in Seq(S) : t = Then(r, b)
    BY ThenType
  <1>6. PICK w \in Seq(S) : w = Then(t, v)
    BY ThenType
  <1>7. Then(w, z) \in Seq(S)
    BY ThenType
  <1>8. Then(Then(d, p), l) = Then(d, r)
    BY <1>4, ThenThen
  <1>9. Then(Then(d, r), b) = Then(d, t)
    BY <1>5, ThenThen
  <1>10. Then(Then(d, t), v) = Then(d, w)
    BY <1>6, ThenThen
  <1>11. Then(Then(d, w), z) = Then(d, Then(w, z))
    BY ThenThen
  <1>12. /\ Then(Then(Then(Then(Then(h, Then(n, q)), l), b), v), z) \in Seq(S)
         /\ Then(Then(Then(Then(Then(Then(Then(d, h), n), q), l), b), v), z) =
               Then(d, Then(Then(Then(Then(Then(h, Then(n, q)), l), b), v), z))
    BY <1>1, <1>2, <1>3, <1>4, <1>5, <1>6, <1>7, <1>8, <1>9, <1>10, <1>11,
       ZenonT(60)
  <1> QED
    BY <1>12, Zenon DEF Then, Regroups

(* A part of a form after its delimiter.                                   *)
Delimiter    == <<"--", Boundary, Crlf>>
EndDelimiter == <<"--", Boundary, "--", Crlf>>

FileLine(f) == IF IsFile(f) THEN <<"filename=">> \o f.filename
                                   \o <<Quote, Crlf, "Content-Type: ", "text">> ELSE <<>>

RestOf(f) == <<"form-data", "name=">> \o (f.name \o <<Quote>>) \o FileLine(f)
                \o <<Crlf, Crlf>> \o f.value \o <<Crlf>>

LEMMA PartRest ==
    ASSUME NEW c \in Clients, NEW i \in 1 .. Len(c.fields)
    PROVE  /\ RestOf(c.fields[i]) \in Seq(Alphabet(c)) /\ Delimiter \in Seq(Alphabet(c))
           /\ PartOf(c.fields[i]) = Delimiter \o RestOf(c.fields[i])
           /\ EndDelimiter \in Seq(Alphabet(c))
  <1> DEFINE S == Alphabet(c)
  <1>1. PICK f : f = c.fields[i]
    OBVIOUS
  <1>2. f.name \in Seq(S) /\ f.value \in Seq(S) /\ f.filename \in Seq(S)
    BY <1>1, FieldTexts
  <1>3. /\ "--" \in S /\ Boundary \in S /\ Crlf \in S /\ Quote \in S /\ "form-data" \in S
        /\ "name=" \in S /\ "filename=" \in S /\ "Content-Type: " \in S /\ "text" \in S
    BY DEF Alphabet
  <1> HIDE DEF S
  <1>4. /\ <<"--", Boundary, Crlf>> \in Seq(S) /\ <<"form-data", "name=">> \in Seq(S)
        /\ <<Quote>> \in Seq(S) /\ <<Crlf, Crlf>> \in Seq(S) /\ <<Crlf>> \in Seq(S)
        /\ <<"--", Boundary, "--", Crlf>> \in Seq(S)
    BY <1>3, Words, Zenon
  <1>5. FileLine(f) \in Seq(S)
    <2>1. /\ <<>> \in Seq(S) /\ <<"filename=">> \in Seq(S)
          /\ <<Quote, Crlf, "Content-Type: ", "text">> \in Seq(S)
      BY <1>3, Words, Zenon
    <2>2. PICK x \in Seq(S) : x = <<"filename=">>
      BY <2>1, Zenon
    <2>3. PICK y \in Seq(S) : y = <<Quote, Crlf, "Content-Type: ", "text">>
      BY <2>1, Zenon
    <2>4. x \o f.filename \o y \in Seq(S)
      <3>1. PICK w \in Seq(S) : w = f.filename
        BY <1>2
      <3>2. PICK r \in Seq(S) : r = x \o w
        BY ConcatProperties
      <3>3. r \o y \in Seq(S)
        BY ConcatProperties
      <3> QED
        BY <3>1, <3>2, <3>3
    <2> QED
      BY <2>1, <2>2, <2>3, <2>4, Zenon DEF FileLine
  <1>6. <<"--", Boundary, Crlf, "form-data", "name=">> =
           <<"--", Boundary, Crlf>> \o <<"form-data", "name=">>
    OBVIOUS
  <1>7. PartOf(f) = (<<"--", Boundary, Crlf>> \o <<"form-data", "name=">>) \o f.name
                       \o <<Quote>> \o FileLine(f) \o <<Crlf, Crlf>> \o f.value \o <<Crlf>>
    BY <1>6, Zenon DEF PartOf, FileLine
  <1>8. PartOf(f) = Delimiter \o RestOf(f) /\ RestOf(f) \in Seq(S)
    <2>1. PICK d \in Seq(S) : d = <<"--", Boundary, Crlf>>
      BY <1>4, Zenon
    <2>2. PICK h \in Seq(S) : h = <<"form-data", "name=">>
      BY <1>4, Zenon
    <2>3. PICK n \in Seq(S) : n = f.name
      BY <1>2
    <2>4. PICK q \in Seq(S) : q = <<Quote>>
      BY <1>4, Zenon
    <2>5. PICK l \in Seq(S) : l = FileLine(f)
      BY <1>5
    <2>6. PICK b \in Seq(S) : b = <<Crlf, Crlf>>
      BY <1>4, Zenon
    <2>7. PICK v \in Seq(S) : v = f.value
      BY <1>2
    <2>8. PICK z \in Seq(S) : z = <<Crlf>>
      BY <1>4, Zenon
    <2>9. /\ h \o (n \o q) \o l \o b \o v \o z \in Seq(S)
          /\ (d \o h) \o n \o q \o l \o b \o v \o z = d \o (h \o (n \o q) \o l \o b \o v \o z)
      <3>1. Regroups(S, d, h, n, q, l, b, v, z)
        BY Grouped
      <3> QED
        BY <3>1, Zenon DEF Regroups
    <2>10. PartOf(f) = (d \o h) \o n \o q \o l \o b \o v \o z
      BY <1>7, <2>1, <2>2, <2>3, <2>4, <2>5, <2>6, <2>7, <2>8, Zenon
    <2>11. RestOf(f) = h \o (n \o q) \o l \o b \o v \o z
      BY <2>2, <2>3, <2>4, <2>5, <2>6, <2>7, <2>8, Zenon DEF RestOf
    <2>12. Delimiter = d
      BY <2>1 DEF Delimiter
    <2> QED
      BY <2>9, <2>10, <2>11, <2>12, Zenon
  <1> QED
    BY <1>1, <1>4, <1>8 DEF Delimiter, EndDelimiter, S

(* The parts of a form.                                                    *)
PartsOf(c) == [i \in DOMAIN c.fields |-> PartOf(c.fields[i])]

LEMMA FormText ==
    ASSUME NEW c \in Clients
    PROVE  /\ PartsOf(c) \in Seq(Seq(Alphabet(c))) /\ Len(PartsOf(c)) = Len(c.fields)
           /\ FlattenSeq(PartsOf(c)) \in Seq(Alphabet(c))
           /\ FormOf(c) = FlattenSeq(PartsOf(c)) \o EndDelimiter
           /\ FormOf(c) \in Seq(Alphabet(c)) /\ Len(FormOf(c)) > 0
           /\ EndDelimiter \in Seq(Alphabet(c))
  <1> DEFINE S == Alphabet(c)
  <1>1. PICK n \in Nat : n = Len(c.fields) /\ DOMAIN c.fields = 1 .. n
    BY FieldTexts, LenProperties
  <1>2. \A i \in 1 .. n : PartOf(c.fields[i]) \in Seq(S)
    <2> SUFFICES ASSUME NEW i \in 1 .. n PROVE PartOf(c.fields[i]) \in Seq(S)
      OBVIOUS
    <2>1. /\ RestOf(c.fields[i]) \in Seq(S) /\ Delimiter \in Seq(S)
          /\ PartOf(c.fields[i]) = Delimiter \o RestOf(c.fields[i])
      BY <1>1, PartRest
    <2> HIDE DEF S
    <2> QED
      BY <2>1, ConcatProperties
  <1>3. PartsOf(c) \in [1 .. n -> Seq(S)]
    BY <1>1, <1>2 DEF PartsOf
  <1>4. PICK d \in Seq(S) : d = EndDelimiter /\ Len(d) = 4
    <2>1. "--" \in S /\ Boundary \in S /\ Crlf \in S
      BY DEF Alphabet
    <2> HIDE DEF S
    <2>2. EndDelimiter \in Seq(S) /\ Len(EndDelimiter) = 4
      BY <2>1 DEF EndDelimiter
    <2> QED
      BY <2>2
  <1>5. /\ PartsOf(c) \in Seq(Seq(S)) /\ Len(PartsOf(c)) = n
        /\ FlattenSeq(PartsOf(c)) \in Seq(S)
    <2> HIDE DEF S
    <2> QED
      BY <1>3, FlatText
  <1>6. FormOf(c) = FlattenSeq(PartsOf(c)) \o d
    BY <1>4 DEF FormOf, PartsOf, EndDelimiter
  <1> HIDE DEF S
  <1>7. PICK x \in Seq(S) : x = FlattenSeq(PartsOf(c)) /\ Len(x) \in Nat
    BY <1>5, LenProperties
  <1>8. FormOf(c) \in Seq(S) /\ Len(FormOf(c)) = Len(x) + Len(d)
    BY <1>6, <1>7, ConcatProperties
  <1> QED
    BY <1>1, <1>4, <1>5, <1>6, <1>7, <1>8 DEF S

(* A body, which posts have.                                               *)
LEMMA BodyText ==
    ASSUME NEW c \in Clients
    PROVE  /\ Len(BodyOf(c)) \in Nat /\ \E B : BodyOf(c) \in Seq(B)
           /\ c.method = "POST" => Len(BodyOf(c)) > 0
  <1>1. PICK n \in Nat : n = Len(c.fields) /\ DOMAIN c.fields = 1 .. n
    BY FieldTexts, LenProperties
  <1>2. CASE c.encoding = "json"
    <2>1. PICK m : m = [i \in DOMAIN c.fields |-> MemberOf(c.fields[i])]
      OBVIOUS
    <2>2. PICK u : u = IF c.defect = "json" THEN [kind |-> "broken"] ELSE [kind |-> "close"]
      OBVIOUS
    <2>3. PICK B : B = {MemberOf(c.fields[i]) : i \in 1 .. n} \cup {u}
      OBVIOUS
    <2>4. m \in Seq(B) /\ Len(m) = n
      <3>1. \A i \in 1 .. n : m[i] \in B
        BY <1>1, <2>1, <2>3
      <3>2. m \in [1 .. n -> B]
        BY <1>1, <2>1, <3>1
      <3> QED
        BY <3>2, IsASeq
    <2>5. PICK l \in Seq(B) : l = <<u>> /\ Len(l) = 1
      <3>1. <<u>> \in Seq(B) /\ Len(<<u>>) = 1
        BY <2>3
      <3> QED
        BY <3>1, Zenon
    <2>6. BodyOf(c) = m \o l
      BY <1>2, <2>1, <2>2, <2>5 DEF BodyOf
    <2>7. BodyOf(c) \in Seq(B) /\ Len(BodyOf(c)) = n + 1
      BY <2>4, <2>5, <2>6, ConcatProperties
    <2> QED
      BY <2>7
  <1>3. CASE c.encoding = "form"
    <2>1. PICK t \in Seq(Alphabet(c)) : t = FormOf(c) /\ Len(t) > 0
      BY FormText
    <2>2. PICK m \in Nat : m = Len(t) /\ DOMAIN t = 1 .. m
      BY <2>1, LenProperties
    <2>3. PICK B : B = {[kind |-> "text", text |-> t[i]] : i \in 1 .. m}
      OBVIOUS
    <2>4. BodyOf(c) = [i \in DOMAIN t |-> [kind |-> "text", text |-> t[i]]]
      BY <1>3, <2>1 DEF BodyOf
    <2>5. BodyOf(c) \in [1 .. m -> B]
      BY <2>2, <2>3, <2>4
    <2>6. BodyOf(c) \in Seq(B) /\ Len(BodyOf(c)) = m
      BY <2>5, IsASeq
    <2> QED
      BY <2>1, <2>2, <2>6
  <1>4. CASE c.encoding \notin {"json", "form"}
    <2>1. BodyOf(c) = <<>> /\ c.method # "POST"
      BY <1>4, ClientsAssumption DEF BodyOf
    <2>2. <<>> \in Seq({})  /\ Len(<<>>) = 0
      OBVIOUS
    <2> QED
      BY <2>1, <2>2
  <1> QED
    BY <1>2, <1>3, <1>4

-----------------------------------------------------------------------------
(* A head, line by line.                                                   *)

(* The beginning of a head, before its end, and what is made of it.        *)
IsLines(p, U, u) == /\ p \in Seq(U) /\ Len(p) > 0 /\ p[1] = u
                    /\ \A i \in 1 .. Len(p) : p[i].kind # "end"

ReadOf(h, p) == FoldLeft(ParseHeader, h, SubSeq(p, 2, Len(p)))

(* One more line.                                                          *)
LEMMA LineAdded ==
    ASSUME NEW U, NEW l, NEW p, IsLines(p, U, l), NEW u \in U, u.kind # "end",
           NEW h, h \in Headings(h, {}, {}, {})
    PROVE  /\ IsLines(Extended(p, u), U, l)
           /\ ReadOf(h, Extended(p, u)) = ParseHeader(ReadOf(h, p), u)
  <1> DEFINE q == Extended(p, u)
  <1>1. PICK n \in Nat : n = Len(p) /\ n > 0 /\ p \in Seq(U)
    BY LenProperties DEF IsLines
  <1>2. PICK a \in Seq(U) : a = <<u>> /\ Len(a) = 1 /\ a[1] = u
    <2>1. <<u>> \in Seq(U) /\ Len(<<u>>) = 1 /\ <<u>>[1] = u
      OBVIOUS
    <2> QED
      BY <2>1, Zenon
  <1> HIDE DEF q
  <1>3. /\ q \in Seq(U) /\ Len(q) = n + 1
        /\ \A i \in 1 .. n + 1 : q[i] = IF i <= n THEN p[i] ELSE a[i - n]
    <2>1. q = Then(p, a)
      BY <1>2 DEF Then, Extended, q
    <2>2. /\ Then(p, a) \in Seq(U) /\ Len(Then(p, a)) = Len(p) + Len(a)
          /\ \A i \in 1 .. Len(p) + Len(a) :
                Then(p, a)[i] = IF i <= Len(p) THEN p[i] ELSE a[i - Len(p)]
      BY <1>1, <1>2, ThenType
    <2> QED
      BY <1>1, <1>2, <2>1, <2>2
  <1>4. \A i \in 1 .. n : q[i] = p[i]
    BY <1>3
  <1>5. q[n + 1] = u
    <2>1. n + 1 \in 1 .. n + 1 /\ ~(n + 1 <= n) /\ n + 1 - n = 1
      OBVIOUS
    <2> QED
      BY <1>2, <1>3, <2>1
  <1>6. \A i \in 1 .. n + 1 : q[i].kind # "end"
    <2>1. \A i \in 1 .. n + 1 : i = n + 1 \/ i \in 1 .. n
      OBVIOUS
    <2>2. \A i \in 1 .. n : p[i].kind # "end"
      BY <1>1 DEF IsLines
    <2> QED
      BY <1>4, <1>5, <2>1, <2>2
  <1>7. IsLines(q, U, l)
    <2>1. 1 \in 1 .. n /\ p[1] = l
      BY <1>1 DEF IsLines
    <2> QED
      BY <1>3, <1>4, <1>6, <2>1 DEF IsLines
  <1>8. PICK s : s = SubSeq(p, 2, n)
    OBVIOUS
  <1>9. PICK t : t = SubSeq(q, 2, n + 1)
    OBVIOUS
  <1>10. PICK m \in Nat : m = n - 1
    BY <1>1
  <1>11. s \in Seq(U) /\ Len(s) = m /\ \A i \in 1 .. m : s[i] = p[i + 1]
    <2>1. \A i \in 2 .. n : p[i] \in U
      BY <1>1, ElementOfSeq
    <2>2. 2 \in Int /\ n \in Int
      OBVIOUS
    <2>3. /\ s \in Seq(U) /\ Len(s) = IF 2 <= n THEN n - 2 + 1 ELSE 0
          /\ \A i \in 1 .. n - 2 + 1 : s[i] = p[2 + i - 1]
      BY <1>8, <2>1, <2>2, SubSeqProperties
    <2>4. \A i \in 1 .. m : i \in 1 .. n - 2 + 1 /\ 2 + i - 1 = i + 1
      BY <1>10
    <2> QED
      BY <1>1, <1>10, <2>3, <2>4
  <1>12. t \in Seq(U) /\ Len(t) = m + 1 /\ \A i \in 1 .. m + 1 : t[i] = q[i + 1]
    <2>1. PICK k \in Nat : k = n + 1 /\ k > 0 /\ k = m + 2
      BY <1>10
    <2>2. \A i \in 2 .. k : q[i] \in U
      <3>1. Len(q) = k /\ \A i \in 2 .. k : i \in 1 .. k
        BY <1>3, <2>1
      <3> QED
        BY <1>3, <3>1, ElementOfSeq
    <2>3. 2 \in Int /\ k \in Int /\ t = SubSeq(q, 2, k)
      BY <1>9, <2>1
    <2>4. /\ t \in Seq(U) /\ Len(t) = k + 1 - 2
          /\ \A i \in 1 .. k + 1 - 2 : t[i] = q[i + 2 - 1]
      <3>1. 2 \in Nat /\ 0 < 2 /\ 2 <= k + 1 /\ k <= Len(q)
        BY <1>3, <2>1
      <3> QED
        BY <1>3, <2>3, <3>1, Piece
    <2>5. \A i \in 1 .. m + 1 : i \in 1 .. k + 1 - 2 /\ i + 2 - 1 = i + 1
      BY <2>1
    <2>6. Len(t) = m + 1
      BY <2>1, <2>4
    <2>7. \A i \in 1 .. m + 1 : t[i] = q[i + 1]
      BY <2>4, <2>5
    <2> QED
      BY <2>4, <2>6, <2>7
  <1>13. t = Append(s, u)
    <2>1. PICK r : r = Append(s, u)
      OBVIOUS
    <2>2. /\ r \in Seq(U) /\ Len(r) = m + 1 /\ \A i \in 1 .. m : r[i] = s[i]
          /\ r[m + 1] = u
      BY <1>11, <2>1, AppendProperties
    <2>3. ASSUME NEW i \in 1 .. m + 1 PROVE t[i] = r[i]
      <3>1. CASE i = m + 1
        <4>1. i + 1 = n + 1
          BY <1>10, <3>1
        <4> QED
          BY <1>5, <1>12, <2>2, <3>1, <4>1
      <3>2. CASE i # m + 1
        <4>1. i \in 1 .. m /\ i + 1 \in 1 .. n
          BY <1>10, <3>2
        <4> QED
          BY <1>4, <1>11, <1>12, <2>2, <4>1
      <3> QED
        BY <3>1, <3>2
    <2> QED
      BY <1>12, <2>1, <2>2, <2>3, SeqEqual
  <1>14. FoldLeft(ParseHeader, h, Append(s, u)) = ParseHeader(FoldLeft(ParseHeader, h, s), u)
    BY <1>11, HeadersAppend
  <1>15. ReadOf(h, q) = ParseHeader(ReadOf(h, p), u)
    BY <1>1, <1>3, <1>8, <1>9, <1>13, <1>14 DEF ReadOf
  <1> QED
    BY <1>7, <1>15 DEF q

(* The first line.                                                         *)
LEMMA FirstLine ==
    ASSUME NEW U, NEW u \in U, u.kind # "end", NEW h, h \in Headings(h, {}, {}, {})
    PROVE  IsLines(<<u>>, U, u) /\ ReadOf(h, <<u>>) = h
  <1>1. <<u>> \in Seq(U) /\ Len(<<u>>) = 1 /\ <<u>>[1] = u
    OBVIOUS
  <1>2. \A i \in 1 .. 1 : i = 1
    OBVIOUS
  <1>3. IsLines(<<u>>, U, u)
    BY <1>1, <1>2 DEF IsLines
  <1>4. SubSeq(<<u>>, 2, 1) = <<>>
    OBVIOUS
  <1>5. FoldLeft(ParseHeader, h, <<>>) = h
    <2>1. <<>> \in Seq(U)
      OBVIOUS
    <2> QED
      BY <2>1, HeadersAppend
  <1> QED
    BY <1>1, <1>3, <1>4, <1>5 DEF ReadOf

(* One more line, or none.                                                 *)
Optional(x, u) == IF x THEN <<u>> ELSE <<>>

Continued(p, x, u) == p \o Optional(x, u)

LEMMA LineOptional ==
    ASSUME NEW U, NEW l, NEW p, IsLines(p, U, l), NEW u \in U, u.kind # "end", NEW x,
           NEW h, h \in Headings(h, {}, {}, {})
    PROVE  /\ IsLines(Continued(p, x, u), U, l)
           /\ ReadOf(h, Continued(p, x, u)) = IF x THEN ParseHeader(ReadOf(h, p), u)
                                              ELSE ReadOf(h, p)
  <1>1. CASE x
    <2>1. Continued(p, x, u) = Extended(p, u)
      BY <1>1 DEF Optional, Continued, Extended
    <2>2. /\ IsLines(Extended(p, u), U, l)
          /\ ReadOf(h, Extended(p, u)) = ParseHeader(ReadOf(h, p), u)
      BY LineAdded
    <2> QED
      BY <1>1, <2>1, <2>2
  <1>2. CASE ~x
    <2>1. p \in Seq(U)
      BY DEF IsLines
    <2>2. p \o <<>> = p
      BY <2>1, ConcatEmptySeq
    <2>3. Continued(p, x, u) = p
      BY <1>2, <2>2, Zenon DEF Optional, Continued
    <2> QED
      BY <1>2, <2>3
  <1> QED
    BY <1>1, <1>2

(* A head that parses says what its client meant.                          *)
HeadIs(d, c) ==
    /\ d.method = c.method /\ d.target = SeenTarget(c) /\ d.path = PathSeen(c)
    /\ d.token = TokenOf(c) /\ d.origin = c.origin
    /\ c.method = "POST" =>
         /\ d.length = Len(BodyOf(c))
         /\ d.type = IF c.encoding = "form" THEN "multipart" ELSE "json"
         /\ c.encoding = "form" => d.boundary = Boundary

Parsed(d, c, e) == /\ d.err <=> c.defect \in HeadDefects
                   /\ d.length \in Nat /\ d.start = e
                   /\ ~d.err => HeadIs(d, c)

(* The head of a request is its lines and what ends it.                    *)
BeginsWith(c, p, U, h, e) ==
    /\ IsLines(p, U, RequestLine(c)) /\ [kind |-> "end"] \in U
    /\ HeadOf(c) = p \o <<[kind |-> "end"]>>
    /\ Parsed(CheckPost(ReadOf(h, p)), c, e)

(* A head in error stays in error.                                         *)
LEMMA FailedHead ==
    ASSUME NEW h, NEW f, f.err, \E N : \E V : \E K : f \in Headings(h, N, V, K)
    PROVE  /\ CheckPost(f).err
           /\ CheckPost(f).length = f.length /\ CheckPost(f).start = f.start
  <1>1. CASE CheckPost(f) = f
    BY <1>1
  <1>2. CASE CheckPost(f) = Failing(f)
    BY <1>2 DEF Failing, Headings
  <1> QED
    BY <1>1, <1>2 DEF CheckPost

(* Every client writes such a head.                                        *)
LEMMA HeadLines ==
    ASSUME NEW c \in Clients, NEW e,
           NEW h, h = [ParseUri(NoHead, RequestLine(c)) EXCEPT !.start = e]
    PROVE  \E U : \E p : BeginsWith(c, p, U, h, e)
  <1> DEFINE Field(name, value) == [kind |-> "header", name |-> name, value |-> value]
             lv == IF c.defect = "number" THEN NotANumber ELSE Len(BodyOf(c))
             kv == IF c.defect = "type" THEN "other"
                   ELSE IF c.encoding = "form" THEN "multipart" ELSE "json"
             bv == IF c.encoding = "form" /\ c.defect # "boundary" THEN Boundary ELSE "none"
  <1>1. PICK r : r = RequestLine(c)
    OBVIOUS
  <1>2. PICK l : l = Field("content-length", lv)
    OBVIOUS
  <1>3. PICK t : t = Field("content-type", [type |-> kv, boundary |-> bv])
    OBVIOUS
  <1>39. PICK w : w = [scheme |-> IF c.defect = "scheme" THEN "Basic" ELSE "Bearer",
                       token  |-> GetToken(LoginOf(c.user), c.issued)]
    OBVIOUS
  <1>4. PICK a : a = Field("authorization", w)
    OBVIOUS
  <1>5. PICK o : o = Field("origin", c.origin)
    OBVIOUS
  <1>6. PICK b : b = [kind |-> "broken"]
    OBVIOUS
  <1>7. PICK end : end = [kind |-> "end"]
    OBVIOUS
  <1>8. /\ r.kind # "end" /\ l.kind # "end" /\ t.kind # "end" /\ a.kind # "end"
        /\ o.kind # "end" /\ b.kind # "end"
    BY <1>1, <1>2, <1>3, <1>4, <1>5, <1>6 DEF RequestLine
  <1>9. PICK U : /\ r \in U /\ l \in U /\ t \in U /\ a \in U /\ o \in U /\ b \in U /\ end \in U
    <2>1. PICK U : U = {r, l, t, a, o, b, end}
      OBVIOUS
    <2> QED
      BY <2>1
  <1> DEFINE hasL == c.method = "POST" /\ c.defect # "length"
             hasT == c.method = "POST"
             hasA == c.user # Nobody
             hasO == c.origin # "none"
             twice == c.defect = "twice"
             broken == c.defect = "header"
  <1>10. HeadOf(c) = <<r>> \o Optional(hasL, l) \o Optional(hasT, t) \o Optional(hasA, a)
                          \o Optional(hasO, o)
                          \o Optional(twice, o) \o Optional(broken, b) \o <<end>>
    <2>1. Optional(hasL, l) = IF c.method # "POST" \/ c.defect = "length" THEN <<>>
                         ELSE HeaderUnit("content-length", lv)
      BY <1>2 DEF HeaderUnit, Optional
    <2>2. Optional(hasT, t) = IF c.method # "POST" THEN <<>>
                         ELSE HeaderUnit("content-type", [type |-> kv, boundary |-> bv])
      BY <1>3 DEF HeaderUnit, Optional
    <2>3. Optional(hasA, a) = IF c.user = Nobody THEN <<>>
                         ELSE HeaderUnit("authorization",
                                [scheme |-> IF c.defect = "scheme" THEN "Basic" ELSE "Bearer",
                                 token  |-> GetToken(LoginOf(c.user), c.issued)])
      BY <1>4, <1>39 DEF HeaderUnit, Optional
    <2>4. /\ Optional(hasO, o) = IF c.origin = "none" THEN <<>> ELSE HeaderUnit("origin", c.origin)
          /\ Optional(twice, o) =
                IF c.defect = "twice" THEN HeaderUnit("origin", c.origin) ELSE <<>>
      BY <1>5 DEF HeaderUnit, Optional
    <2>5. Optional(broken, b) = IF c.defect = "header" THEN <<[kind |-> "broken"]>> ELSE <<>>
      BY <1>6 DEF Optional
    <2>6. r = [kind |-> "request", rest |-> LineOf(c),
               method |-> IF c.defect = "method" THEN "PUT" ELSE c.method]
      BY <1>1 DEF RequestLine
    <2> HIDE DEF hasL, hasT, hasA, hasO, twice, broken
    <2> QED
      BY <1>7, <2>1, <2>2, <2>3, <2>4, <2>5, <2>6, ZenonT(60) DEF HeadOf
  <1> HIDE DEF Field
  <1>11. /\ h \in Headings(h, {}, {}, {})
         /\ Made(h, c.defect \in {"line", "method"}, e,
                 Heading(c, e, {}, 0, "none", "none", <<>>, "none"))
    BY UriMade
  \* What is known of the request.
  <1>12. /\ c.defect \in {"length", "number", "type"} => c.method = "POST"
         /\ c.defect = "boundary" => c.method = "POST" /\ c.encoding = "form"
         /\ c.defect = "twice" => c.origin # "none"
         /\ c.method = "POST" => c.encoding \in {"json", "form"}
         /\ Boundary # "none"
    BY ClientsAssumption, BoundaryAssumption
  <1>13. PICK m \in Nat : m = Len(BodyOf(c)) /\ (c.method = "POST" => m > 0)
    BY BodyText
  <1>14. PICK q1 : q1 = Continued(<<r>>, hasL, l)
    OBVIOUS
  <1>15. PICK q2 : q2 = Continued(q1, hasT, t)
    OBVIOUS
  <1>16. PICK q3 : q3 = Continued(q2, hasA, a)
    OBVIOUS
  <1>17. PICK q4 : q4 = Continued(q3, hasO, o)
    OBVIOUS
  <1>18. PICK q5 : q5 = Continued(q4, twice, o)
    OBVIOUS
  <1>19. PICK q6 : q6 = Continued(q5, broken, b)
    OBVIOUS
  <1>20. HeadOf(c) = q6 \o <<end>>
    BY <1>10, <1>14, <1>15, <1>16, <1>17, <1>18, <1>19, Zenon DEF Continued
  <1> HIDE DEF hasL, hasT, hasA, hasO, twice, broken
  <1>21. IsLines(<<r>>, U, r) /\ ReadOf(h, <<r>>) = h
    BY <1>8, <1>9, <1>11, FirstLine
  <1>22. /\ IsLines(q1, U, r)
         /\ ReadOf(h, q1) = IF hasL THEN ParseHeader(h, l) ELSE h
    BY <1>8, <1>9, <1>11, <1>14, <1>21, LineOptional
  <1>23. /\ IsLines(q2, U, r)
         /\ ReadOf(h, q2) = IF hasT THEN ParseHeader(ReadOf(h, q1), t) ELSE ReadOf(h, q1)
    BY <1>8, <1>9, <1>11, <1>15, <1>22, LineOptional
  <1>24. /\ IsLines(q3, U, r)
         /\ ReadOf(h, q3) = IF hasA THEN ParseHeader(ReadOf(h, q2), a) ELSE ReadOf(h, q2)
    BY <1>8, <1>9, <1>11, <1>16, <1>23, LineOptional
  <1>25. /\ IsLines(q4, U, r)
         /\ ReadOf(h, q4) = IF hasO THEN ParseHeader(ReadOf(h, q3), o) ELSE ReadOf(h, q3)
    BY <1>8, <1>9, <1>11, <1>17, <1>24, LineOptional
  <1>26. /\ IsLines(q5, U, r)
         /\ ReadOf(h, q5) = IF twice THEN ParseHeader(ReadOf(h, q4), o) ELSE ReadOf(h, q4)
    BY <1>8, <1>9, <1>11, <1>18, <1>25, LineOptional
  <1>27. /\ IsLines(q6, U, r)
         /\ ReadOf(h, q6) = IF broken THEN ParseHeader(ReadOf(h, q5), b) ELSE ReadOf(h, q5)
    BY <1>8, <1>9, <1>11, <1>19, <1>26, LineOptional
  \* What each line makes of the head.
  <1> DEFINE bad0 == c.defect \in {"line", "method"}
             bad1 == bad0 \/ c.defect = "number"
             bad2 == bad1 \/ c.defect = "boundary"
             bad5 == bad2 \/ c.defect = "twice"
             bad6 == bad5 \/ c.defect = "header"
  <1>37. PICK l1 \in Nat : l1 = IF hasL THEN m ELSE 0
    OBVIOUS
  <1>28. PICK H1 :
           /\ H1 \subseteq {"content-length"}
           /\ Made(ReadOf(h, q1), bad1, e, Heading(c, e, H1, l1, "none", "none", <<>>, "none"))
    <2>1. CASE hasL
      <3>1. lv = m \/ lv = NotANumber
        BY <1>13
      <3>2. l = [kind |-> "header", name |-> "content-length", value |-> lv]
        BY <1>2 DEF Field
      <3>3. Made(ParseHeader(h, l), bad0 \/ lv = NotANumber, e,
                 Heading(c, e, {} \cup {"content-length"}, m, "none", "none", <<>>, "none"))
        <4>1. PICK E : E = {}
          OBVIOUS
        <4>2. PICK z \in Nat : z = 0
          OBVIOUS
        <4>5. PICK v : v = lv
          OBVIOUS
        <4>6. v = m \/ v = NotANumber
          BY <3>1, <4>5
        <4>7. "content-length" \notin E
          BY <4>1
        <4>8. PICK x \in BOOLEAN : x <=> bad0
          OBVIOUS
        <4>9. l = [kind |-> "header", name |-> "content-length", value |-> v]
          BY <3>2, <4>5
        <4> HIDE DEF bad0, lv
        <4>3. Made(h, x, e, Heading(c, e, E, z, "none", "none", <<>>, "none"))
          BY <1>11, <4>1, <4>2, <4>8 DEF bad0, Made
        <4>10. PICK n, t0 : n = "none" /\ t0 = <<>>
          OBVIOUS
        <4>11. Made(h, x, e, Heading(c, e, E, z, n, n, t0, n))
          BY <4>3, <4>10
        <4>4. Made(ParseHeader(h, l), x \/ v = NotANumber, e,
                   Heading(c, e, E \cup {"content-length"}, m, n, n, t0, n))
          BY <4>6, <4>7, <4>9, <4>11, LengthLine, SMTT(30)
        <4> QED
          BY <4>1, <4>4, <4>5, <4>8, <4>10 DEF Made
      <3>4. (bad0 \/ lv = NotANumber) <=> bad1
        BY <1>13 DEF NotANumber
      <3>5. {} \cup {"content-length"} = {"content-length"}
        OBVIOUS
      <3> HIDE DEF bad1, bad0, lv
      <3>6. Made(ReadOf(h, q1), bad1, e,
                 Heading(c, e, {"content-length"}, m, "none", "none", <<>>, "none"))
        BY <1>22, <2>1, <3>3, <3>4, <3>5 DEF Made
      <3> QED
        BY <1>37, <2>1, <3>6
    <2>2. CASE ~hasL
      <3>1. bad0 <=> bad1
        BY <1>12, <2>2 DEF hasL
      <3> HIDE DEF bad1, bad0
      <3>2. Made(ReadOf(h, q1), bad1, e,
                 Heading(c, e, {}, 0, "none", "none", <<>>, "none"))
        BY <1>11, <1>22, <2>2, <3>1 DEF Made, bad0
      <3> QED
        BY <1>37, <2>2, <3>2
    <2> QED
      BY <2>1, <2>2
  <1>29. PICK H2, k2, b2 :
           /\ H2 \subseteq {"content-length", "content-type"}
           /\ hasT => k2 = kv /\ b2 = bv
           /\ Made(ReadOf(h, q2), bad2, e, Heading(c, e, H2, l1, k2, b2, <<>>, "none"))
    <2>1. CASE hasT
      <3>1. t = [kind |-> "header", name |-> "content-type",
                 value |-> [type |-> kv, boundary |-> bv]]
        BY <1>3 DEF Field
      <3>2. (kv = "multipart" /\ bv = "none") <=> c.defect = "boundary"
        BY <1>12
      <3> HIDE DEF bad1, kv, bv
      <3>3. Made(ParseHeader(ReadOf(h, q1), t), bad1 \/ (kv = "multipart" /\ bv = "none"), e,
                 Heading(c, e, H1 \cup {"content-type"}, l1, kv, bv, <<>>, "none"))
        <4>1. "content-type" \notin H1
          BY <1>28
        <4> QED
          BY <1>28, <3>1, <4>1, TypeLine
      <3>4. Made(ReadOf(h, q2), bad2, e,
                 Heading(c, e, H1 \cup {"content-type"}, l1, kv, bv, <<>>, "none"))
        BY <1>23, <2>1, <3>2, <3>3 DEF Made
      <3> QED
        BY <1>28, <3>4
    <2>2. CASE ~hasT
      <3>1. bad1 <=> bad2
        BY <1>12, <2>2 DEF hasT
      <3> HIDE DEF bad1, bad2
      <3>2. Made(ReadOf(h, q2), bad2, e, Heading(c, e, H1, l1, "none", "none", <<>>, "none"))
        BY <1>23, <1>28, <2>2, <3>1 DEF Made
      <3> QED
        BY <1>28, <2>2, <3>2
    <2> QED
      BY <2>1, <2>2
  <1>30. PICK H3 :
           /\ "origin" \notin H3
           /\ Made(ReadOf(h, q3), bad2, e, Heading(c, e, H3, l1, k2, b2, TokenOf(c), "none"))
    <2> HIDE DEF bad2
    <2>1. CASE hasA
      <3>1. TokenOf(c) = IF w.scheme = "Bearer" THEN w.token ELSE <<>>
        BY <1>39, <2>1 DEF TokenOf, hasA
      <3>2. a = [kind |-> "header", name |-> "authorization", value |-> w]
        BY <1>4 DEF Field
      <3>3. Made(ParseHeader(ReadOf(h, q2), a), bad2, e,
                 Heading(c, e, H2 \cup {"authorization"}, l1, k2, b2, TokenOf(c), "none"))
        <4>1. "authorization" \notin H2
          BY <1>29
        <4> QED
          BY <1>29, <3>1, <3>2, <4>1, TokenLine
      <3> QED
        BY <1>24, <1>29, <2>1, <3>3
    <2>2. CASE ~hasA
      <3>1. TokenOf(c) = <<>>
        BY <2>2 DEF TokenOf, hasA
      <3> QED
        BY <1>24, <1>29, <2>2, <3>1
    <2> QED
      BY <2>1, <2>2
  <1>31. PICK H4 :
           /\ "origin" \in H4 <=> hasO
           /\ Made(ReadOf(h, q4), bad2, e, Heading(c, e, H4, l1, k2, b2, TokenOf(c), c.origin))
    <2> HIDE DEF bad2
    <2>1. CASE hasO
      <3>1. o = [kind |-> "header", name |-> "origin", value |-> c.origin]
        BY <1>5 DEF Field
      <3>2. Made(ParseHeader(ReadOf(h, q3), o), bad2 \/ "origin" \in H3, e,
                 Heading(c, e, H3 \cup {"origin"}, l1, k2, b2, TokenOf(c), c.origin))
        BY <1>30, <3>1, OriginLine
      <3>3. Made(ReadOf(h, q4), bad2, e,
                 Heading(c, e, H3 \cup {"origin"}, l1, k2, b2, TokenOf(c), c.origin))
        BY <1>25, <1>30, <2>1, <3>2 DEF Made
      <3>4. "origin" \in H3 \cup {"origin"}
        OBVIOUS
      <3> QED
        BY <2>1, <3>3, <3>4
    <2>2. CASE ~hasO
      <3>1. c.origin = "none"
        BY <2>2 DEF hasO
      <3> QED
        BY <1>25, <1>30, <2>2, <3>1
    <2> QED
      BY <2>1, <2>2
  <1>32. PICK H5 :
           Made(ReadOf(h, q5), bad5, e, Heading(c, e, H5, l1, k2, b2, TokenOf(c), c.origin))
    <2> HIDE DEF bad2
    <2>1. CASE twice
      <3>1. o = [kind |-> "header", name |-> "origin", value |-> c.origin]
        BY <1>5 DEF Field
      <3>2. Made(ParseHeader(ReadOf(h, q4), o), bad2 \/ "origin" \in H4, e,
                 Heading(c, e, H4 \cup {"origin"}, l1, k2, b2, TokenOf(c), c.origin))
        BY <1>31, <3>1, OriginLine
      <3>3. "origin" \in H4
        BY <1>12, <1>31, <2>1 DEF twice, hasO
      <3>4. bad5 /\ ReadOf(h, q5) = ParseHeader(ReadOf(h, q4), o)
        BY <1>26, <2>1 DEF twice
      <3>5. Made(ReadOf(h, q5), bad5, e,
                 Heading(c, e, H4 \cup {"origin"}, l1, k2, b2, TokenOf(c), c.origin))
        BY <3>2, <3>3, <3>4 DEF Made
      <3> QED
        BY <3>5
    <2>2. CASE ~twice
      <3>1. bad5 <=> bad2
        BY <2>2 DEF twice
      <3>2. ReadOf(h, q5) = ReadOf(h, q4)
        BY <1>26, <2>2
      <3> HIDE DEF bad5
      <3>3. Made(ReadOf(h, q5), bad5, e,
                 Heading(c, e, H4, l1, k2, b2, TokenOf(c), c.origin))
        BY <1>31, <3>1, <3>2 DEF Made
      <3> QED
        BY <3>3
    <2> QED
      BY <2>1, <2>2
  <1>33. Made(ReadOf(h, q6), bad6, e, Heading(c, e, H5, l1, k2, b2, TokenOf(c), c.origin))
    <2> HIDE DEF bad5
    <2>1. CASE broken
      <3>1. Made(ParseHeader(ReadOf(h, q5), b), TRUE, e,
                 Heading(c, e, H5, l1, k2, b2, TokenOf(c), c.origin))
        BY <1>6, <1>32, BrokenLine
      <3>2. bad6 /\ ReadOf(h, q6) = ParseHeader(ReadOf(h, q5), b)
        BY <1>27, <2>1 DEF broken
      <3> QED
        BY <3>1, <3>2 DEF Made
    <2>2. CASE ~broken
      <3>1. bad6 <=> bad5
        BY <2>2 DEF broken
      <3>2. ReadOf(h, q6) = ReadOf(h, q5)
        BY <1>27, <2>2
      <3> HIDE DEF bad6
      <3> QED
        BY <1>32, <3>1, <3>2 DEF Made
    <2> QED
      BY <2>1, <2>2
  <1>34. PICK f : f = ReadOf(h, q6)
    OBVIOUS
  <1>38. \E N : \E V : \E K : f \in Headings(h, N, V, K)
    <2> DEFINE L == {l, t, a, o, b}
               N == {u.name : u \in L}
               V == {u.value : u \in L}
               K == {u.value.type : u \in L} \cup {u.value.boundary : u \in L}
               T == Headings(h, N, V, K)
    <2>1. ASSUME NEW g \in T, NEW u \in L PROVE ParseHeader(g, u) \in T
      <3>1. u.name \in N /\ u.value \in V /\ u.value.type \in K /\ u.value.boundary \in K
        OBVIOUS
      <3> HIDE DEF N, V, K
      <3> QED
        BY <3>1, HeaderStep
    <2>2. h \in T
      BY <1>11 DEF Headings
    <2> HIDE DEF T
    <2>3. ReadOf(h, q1) \in T
      BY <1>22, <2>1, <2>2
    <2>4. ReadOf(h, q2) \in T
      BY <1>23, <2>1, <2>3
    <2>5. ReadOf(h, q3) \in T
      BY <1>24, <2>1, <2>4
    <2>6. ReadOf(h, q4) \in T
      BY <1>25, <2>1, <2>5
    <2>7. ReadOf(h, q5) \in T
      BY <1>26, <2>1, <2>6
    <2>8. ReadOf(h, q6) \in T
      BY <1>27, <2>1, <2>7
    <2> QED
      BY <1>34, <2>8 DEF T
  <1>35. Parsed(CheckPost(f), c, e)
    <2>1. PICK bad \in BOOLEAN : bad <=> bad6
      OBVIOUS
    <2>2. bad <=> c.defect \in HeadDefects \ {"length", "type"}
      BY <2>1 DEF HeadDefects
    <2>3. Made(f, bad, e, Heading(c, e, H5, l1, k2, b2, TokenOf(c), c.origin))
      <3> HIDE DEF bad6
      <3> QED
        BY <1>33, <1>34, <2>1 DEF Made
    <2> HIDE DEF bad6
    <2>4. CASE bad
      <3>1. f.err /\ f.length \in Nat /\ f.start = e
        BY <2>3, <2>4 DEF Made
      <3>2. CheckPost(f).err /\ CheckPost(f).length \in Nat /\ CheckPost(f).start = e
        BY <1>38, <3>1, FailedHead
      <3>3. c.defect \in HeadDefects
        BY <2>2, <2>4
      <3> QED
        BY <3>2, <3>3 DEF Parsed
    <2>5. CASE ~bad
      <3>1. f \in Heading(c, e, H5, l1, k2, b2, TokenOf(c), c.origin)
        BY <2>3, <2>5 DEF Made
      <3>2. /\ ~f.err /\ f.method = c.method /\ f.target = SeenTarget(c) /\ f.path = PathSeen(c)
            /\ f.start = e /\ f.length = l1 /\ f.type = k2 /\ f.boundary = b2
            /\ f.token = TokenOf(c) /\ f.origin = c.origin
        BY <3>1 DEF Heading
      <3>3. /\ Failing(f).err /\ Failing(f).length = l1 /\ Failing(f).start = e
        BY <3>1 DEF Heading, Failing
      <3>4. CASE c.method = "POST" /\ c.defect \in {"length", "type"}
        <4>1. f.length <= 0 \/ f.type \notin {"multipart", "json"}
          <5>1. CASE c.defect = "length"
            <6>1. l1 = 0
              BY <1>37, <5>1 DEF hasL
            <6> QED
              BY <3>2, <6>1
          <5>2. CASE c.defect = "type"
            <6>2. kv = "other"
              BY <5>2
            <6>1. k2 = "other"
              <7> HIDE DEF kv
              <7> QED
                BY <1>29, <3>4, <6>2 DEF hasT
            <6> QED
              BY <3>2, <6>1
          <5> QED
            BY <3>4, <5>1, <5>2
        <4>2. CheckPost(f) = Failing(f)
          BY <3>2, <3>4, <4>1 DEF CheckPost
        <4> QED
          BY <1>28, <3>3, <3>4, <4>2 DEF Parsed, HeadDefects
      <3>5. CASE ~(c.method = "POST" /\ c.defect \in {"length", "type"})
        <4>1. c.defect \notin HeadDefects
          BY <1>12, <2>2, <2>5, <3>5
        <4>2. ASSUME c.method = "POST"
              PROVE  /\ f.length = Len(BodyOf(c)) /\ f.length > 0
                     /\ f.type = IF c.encoding = "form" THEN "multipart" ELSE "json"
                     /\ c.encoding = "form" => f.boundary = Boundary
          <5>1. l1 = m /\ m > 0
            BY <1>13, <1>37, <3>5, <4>2 DEF hasL
          <5>2. k2 = kv /\ b2 = bv
            BY <1>29, <4>2 DEF hasT
          <5>3. c.defect \notin {"type", "boundary"}
            BY <4>1 DEF HeadDefects
          <5>4. /\ kv = IF c.encoding = "form" THEN "multipart" ELSE "json"
                /\ c.encoding = "form" => bv = Boundary
            BY <5>3
          <5> HIDE DEF kv, bv
          <5> QED
            BY <1>13, <3>2, <5>1, <5>2, <5>4
        <4>3. CheckPost(f) = f
          BY <1>28, <3>2, <4>2 DEF CheckPost
        <4>4. HeadIs(f, c)
          BY <3>2, <4>2 DEF HeadIs
        <4> QED
          BY <1>28, <3>2, <4>1, <4>3, <4>4 DEF Parsed
      <3> QED
        BY <3>4, <3>5
    <2> QED
      BY <2>4, <2>5
  <1>36. BeginsWith(c, q6, U, h, e)
    BY <1>1, <1>7, <1>9, <1>20, <1>27, <1>34, <1>35 DEF BeginsWith
  <1> QED
    BY <1>36

-----------------------------------------------------------------------------
(* What is on the wire, and what parse() makes of it.                      *)

(* What a client sends begins with a head of e units, the lines p and what *)
(* ends them, and goes on with its body.                                   *)
OnWire(c, W, p, U, h, e) ==
    /\ h = [ParseUri(NoHead, RequestLine(c)) EXCEPT !.start = e]
    /\ BeginsWith(c, p, U, h, e)
    /\ Wire(c) \in Seq(W) /\ e \in Nat /\ e = Len(p) + 1 /\ Len(HeadOf(c)) = e
    /\ \A i \in 1 .. e - 1 : Wire(c)[i] = p[i]
    /\ Wire(c)[e].kind = "end"
    /\ Len(BodyOf(c)) \in Nat /\ e + Len(BodyOf(c)) <= Len(Wire(c))
    /\ SubSeq(Wire(c), e + 1, e + Len(BodyOf(c))) = BodyOf(c)

(* The middle of three texts.                                              *)
Holds(t, S, x, y, z) ==
    /\ t \in Seq(S) /\ Len(t) = Len(x) + Len(y) + Len(z)
    /\ \A i \in 1 .. Len(x) : t[i] = x[i]
    /\ SubSeq(t, Len(x) + 1, Len(x) + Len(y)) = y

LEMMA MiddleOf ==
    ASSUME NEW S, NEW x \in Seq(S), NEW y \in Seq(S), NEW z \in Seq(S)
    PROVE  Holds(Then(Then(x, y), z), S, x, y, z)
  <1>1. PICK k \in Nat : k = Len(x)
    BY LenProperties
  <1>2. PICK m \in Nat : m = Len(y)
    BY LenProperties
  <1>3. PICK n \in Nat : n = Len(z)
    BY LenProperties
  <1>4. PICK s \in Seq(S) : /\ s = Then(x, y) /\ Len(s) = k + m
                            /\ \A i \in 1 .. k + m : s[i] = IF i <= k THEN x[i] ELSE y[i - k]
    <2>1. PICK s : s = Then(x, y)
      OBVIOUS
    <2>2. /\ s \in Seq(S) /\ Len(s) = Len(x) + Len(y)
          /\ \A i \in 1 .. Len(x) + Len(y) : s[i] = IF i <= Len(x) THEN x[i] ELSE y[i - Len(x)]
      BY <2>1, ThenType
    <2> QED
      BY <1>1, <1>2, <2>1, <2>2
  <1>5. PICK t \in Seq(S) : /\ t = Then(s, z) /\ Len(t) = k + m + n
                            /\ \A i \in 1 .. k + m : t[i] = s[i]
    <2>1. PICK t : t = Then(s, z)
      OBVIOUS
    <2>2. /\ t \in Seq(S) /\ Len(t) = Len(s) + Len(z)
          /\ \A i \in 1 .. Len(s) + Len(z) : t[i] = IF i <= Len(s) THEN s[i] ELSE z[i - Len(s)]
      BY <2>1, ThenType
    <2>3. \A i \in 1 .. k + m : i \in 1 .. k + m + n /\ i <= k + m
      OBVIOUS
    <2>4. \A i \in 1 .. k + m : t[i] = s[i]
      BY <1>3, <1>4, <2>2, <2>3
    <2> QED
      BY <1>3, <1>4, <2>1, <2>2, <2>4
  <1>6. \A i \in 1 .. k : t[i] = x[i]
    <2>1. \A i \in 1 .. k : i \in 1 .. k + m /\ i <= k
      OBVIOUS
    <2> QED
      BY <1>4, <1>5, <2>1
  <1>7. \A i \in 1 .. m : t[k + i] = y[i]
    <2>1. \A i \in 1 .. m : k + i \in 1 .. k + m /\ ~(k + i <= k) /\ k + i - k = i
      OBVIOUS
    <2> QED
      BY <1>4, <1>5, <2>1
  <1>8. PICK r : r = SubSeq(t, k + 1, k + m)
    OBVIOUS
  <1>9. /\ r \in Seq(S) /\ Len(r) = m
        /\ \A i \in 1 .. m : r[i] = t[k + i]
    <2>1. PICK a, b \in Nat : a = k + 1 /\ b = k + m
      OBVIOUS
    <2>2. 0 < a /\ a <= b + 1 /\ b <= Len(t)
      BY <1>5, <2>1
    <2>3. /\ SubSeq(t, a, b) \in Seq(S) /\ Len(SubSeq(t, a, b)) = b + 1 - a
          /\ \A i \in 1 .. b + 1 - a : SubSeq(t, a, b)[i] = t[i + a - 1]
      BY <2>2, Piece
    <2>4. \A i \in 1 .. m : i \in 1 .. b + 1 - a /\ i + a - 1 = k + i
      BY <2>1
    <2>5. b + 1 - a = m
      BY <2>1
    <2> QED
      BY <1>8, <2>1, <2>3, <2>4, <2>5
  <1>10. r = y
    BY <1>2, <1>7, <1>9, SeqEqual
  <1> QED
    BY <1>1, <1>2, <1>3, <1>4, <1>5, <1>6, <1>8, <1>10 DEF Holds

LEMMA WireSent ==
    ASSUME NEW c \in Clients
    PROVE  \E W, p, U, h, e : OnWire(c, W, p, U, h, e)
  <1>1. PICK e : e = Len(HeadOf(c))
    OBVIOUS
  <1>2. PICK h : h = [ParseUri(NoHead, RequestLine(c)) EXCEPT !.start = e]
    OBVIOUS
  <1>3. PICK U, p : BeginsWith(c, p, U, h, e)
    BY <1>2, HeadLines
  <1>4. PICK end : end = [kind |-> "end"] /\ end.kind = "end"
    <2>1. PICK end : end = [kind |-> "end"]
      OBVIOUS
    <2> QED
      BY <2>1
  <1>5. PICK k \in Nat : p \in Seq(U) /\ k = Len(p) /\ k > 0
    <2>1. p \in Seq(U) /\ Len(p) > 0
      BY <1>3 DEF BeginsWith, IsLines
    <2> QED
      BY <2>1, LenProperties
  <1>6. PICK body, B : body = BodyOf(c) /\ body \in Seq(B)
    BY BodyText
  <1>7. PICK x : x = [i \in 1 .. c.extra |-> [kind |-> "broken"]]
    OBVIOUS
  <1>8. PICK X : x \in Seq(X)
    <2>1. c.extra \in Nat
      BY ClientsAssumption
    <2>2. x \in Seq({[kind |-> "broken"]})
      BY <1>7, <2>1
    <2> QED
      BY <2>2
  <1>9. PICK W : W = U \cup B \cup X
    OBVIOUS
  <1>10. p \in Seq(W) /\ body \in Seq(W) /\ x \in Seq(W) /\ end \in W
    <2>1. end \in U
      BY <1>3, <1>4 DEF BeginsWith
    <2> QED
      BY <1>5, <1>6, <1>8, <1>9, <2>1, WiderSeq
  <1>11. PICK f \in Seq(W) : f = <<end>> /\ Len(f) = 1 /\ f[1] = end
    <2>1. <<end>> \in Seq(W) /\ Len(<<end>>) = 1 /\ <<end>>[1] = end
      BY <1>10
    <2> QED
      BY <2>1, Zenon
  <1>12. PICK g \in Seq(W) : /\ g = Then(p, f) /\ Len(g) = k + 1
                             /\ \A i \in 1 .. k : g[i] = p[i]
                             /\ g[k + 1] = end
    <2>1. PICK g : g = Then(p, f)
      OBVIOUS
    <2>2. /\ g \in Seq(W) /\ Len(g) = k + 1
          /\ \A i \in 1 .. k + 1 : g[i] = IF i <= k THEN p[i] ELSE f[i - k]
      BY <1>5, <1>10, <1>11, <2>1, ThenType
    <2>3. \A i \in 1 .. k : i \in 1 .. k + 1 /\ i <= k
      OBVIOUS
    <2>4. k + 1 \in 1 .. k + 1 /\ ~(k + 1 <= k) /\ k + 1 - k = 1
      OBVIOUS
    <2>5. \A i \in 1 .. k : g[i] = p[i]
      BY <2>2, <2>3
    <2>6. g[k + 1] = end
      BY <1>11, <2>2, <2>4
    <2> QED
      BY <2>1, <2>2, <2>5, <2>6
  <1>13. HeadOf(c) = g
    BY <1>3, <1>4, <1>11, <1>12 DEF BeginsWith, Then
  <1>14. e = k + 1 /\ e \in Nat
    BY <1>1, <1>12, <1>13
  <1>15. PICK w : w = Then(Then(g, body), x)
    OBVIOUS
  <1>16. Wire(c) = w
    BY <1>6, <1>7, <1>13, <1>15 DEF Wire, Then
  <1>17. /\ w \in Seq(W) /\ Len(w) = Len(g) + Len(body) + Len(x)
         /\ \A i \in 1 .. Len(g) : w[i] = g[i]
         /\ SubSeq(w, Len(g) + 1, Len(g) + Len(body)) = body
    <2>1. Holds(Then(Then(g, body), x), W, g, body, x)
      BY <1>10, MiddleOf
    <2> QED
      BY <1>15, <2>1 DEF Holds
  <1>18. PICK m, n \in Nat : m = Len(body) /\ n = Len(x)
    BY <1>6, <1>8, LenProperties
  <1>19. \A i \in 1 .. e - 1 : w[i] = p[i]
    <2>1. \A i \in 1 .. e - 1 : i \in 1 .. k /\ i \in 1 .. Len(g)
      BY <1>12, <1>14
    <2> QED
      BY <1>12, <1>17, <2>1
  <1>20. w[e].kind = "end"
    <2>1. e \in 1 .. Len(g)
      BY <1>12, <1>14
    <2> QED
      BY <1>4, <1>12, <1>14, <1>17, <2>1
  <1>21. e + Len(body) <= Len(w)
    BY <1>12, <1>14, <1>17, <1>18
  <1>22. SubSeq(w, e + 1, e + Len(body)) = body
    BY <1>12, <1>14, <1>17
  <1>23. OnWire(c, W, p, U, h, e)
    BY <1>1, <1>2, <1>3, <1>5, <1>6, <1>14, <1>16, <1>17, <1>18, <1>19, <1>20, <1>21, <1>22
       DEF OnWire
  <1> QED
    BY <1>23

(* parse(), however much came with the first packet: it succeeds if that   *)
(* has the whole of a head without defects, and then says what was meant.  *)
HeadMade(d, c, n) ==
    /\ d.err <=> ~(c.defect \notin HeadDefects /\ Len(HeadOf(c)) <= n)
    /\ d.length \in Nat /\ d.start \in Nat
    /\ ~d.err => HeadIs(d, c) /\ d.start = Len(HeadOf(c))

LEMMA HeadParsed ==
    ASSUME NEW c \in Clients, NEW n \in Nat, 0 < n, n <= Len(Wire(c))
    PROVE  HeadMade(ParseHead(SubSeq(Wire(c), 1, n)), c, n)
  <1>1. PICK W, p, U, h, e : OnWire(c, W, p, U, h, e)
    BY WireSent
  <1>2. PICK w : w = Wire(c)
    OBVIOUS
  <1>3. /\ w \in Seq(W) /\ e \in Nat /\ e = Len(p) + 1 /\ e = Len(HeadOf(c))
        /\ \A i \in 1 .. e - 1 : w[i] = p[i]
        /\ w[e].kind = "end"
        /\ h = [ParseUri(NoHead, RequestLine(c)) EXCEPT !.start = e]
    BY <1>1, <1>2 DEF OnWire
  <1>4. /\ p \in Seq(U) /\ Len(p) > 0 /\ p[1] = RequestLine(c)
        /\ \A i \in 1 .. Len(p) : p[i].kind # "end"
        /\ Parsed(CheckPost(ReadOf(h, p)), c, e)
    BY <1>1 DEF OnWire, BeginsWith, IsLines
  <1>5. PICK k \in Nat : k = Len(p) /\ e = k + 1 /\ k > 0
    BY <1>3, <1>4, LenProperties
  <1>6. PICK units : units = SubSeq(w, 1, n)
    OBVIOUS
  <1>7. units \in Seq(W) /\ n = Len(units) /\ \A i \in 1 .. n : units[i] = w[i]
    <2>1. 1 \in Nat /\ 0 < 1 /\ 1 <= n + 1 /\ n <= Len(w)
      BY <1>2
    <2>2. /\ SubSeq(w, 1, n) \in Seq(W) /\ Len(SubSeq(w, 1, n)) = n + 1 - 1
          /\ \A i \in 1 .. n + 1 - 1 : SubSeq(w, 1, n)[i] = w[i + 1 - 1]
      BY <1>3, <2>1, Piece
    <2>3. \A i \in 1 .. n : i \in 1 .. n + 1 - 1 /\ i + 1 - 1 = i
      OBVIOUS
    <2> QED
      BY <1>6, <2>2, <2>3
  <1>8. PICK d : d = ParseHead(units)
    OBVIOUS
  <1> DEFINE I == {i \in 1 .. Len(units) : units[i].kind = "end"}
             end == IF I # {} THEN Min(I) ELSE 0
  <1>9. SelectInSeq(units, LAMBDA u : u.kind = "end") = end
    BY DEF SelectInSeq
  <1>10. \A i \in 1 .. n : i < e => units[i].kind # "end"
    <2>1. \A i \in 1 .. n : i < e => i \in 1 .. e - 1 /\ i \in 1 .. Len(p)
      BY <1>5
    <2> QED
      BY <1>3, <1>4, <1>7, <2>1
  <1>11. CASE n < e
    <2>1. I = {}
      <3>1. \A i \in 1 .. n : i < e
        BY <1>3, <1>11
      <3> QED
        BY <1>7, <1>10, <3>1
    <2>2. d = Failing(NoHead)
      BY <1>8, <1>9, <2>1 DEF ParseHead
    <2>3. d.err /\ d.length \in Nat /\ d.start \in Nat
      BY <2>2 DEF Failing, NoHead
    <2>4. ~(Len(HeadOf(c)) <= n)
      BY <1>3, <1>11
    <2> QED
      BY <1>2, <1>6, <1>8, <2>3, <2>4 DEF HeadMade
  <1>12. CASE e <= n
    <2>1. end = e
      <3>1. e \in I
        <4>1. e \in 1 .. n
          BY <1>5, <1>12
        <4> QED
          BY <1>3, <1>7, <4>1
      <3>2. \A i \in I : e <= i
        BY <1>3, <1>7, <1>10
      <3>3. \A i \in I : i \in Nat
        OBVIOUS
      <3> HIDE DEF I
      <3>4. \A x \in I : (\A y \in I : x <= y) => x = e
        BY <1>3, <3>1, <3>2, <3>3
      <3>5. Min(I) = e
        BY <3>1, <3>2, <3>4, Zenon DEF Min
      <3> QED
        BY <3>1, <3>5
    <2> HIDE DEF end, I
    <2>2. e # 0
      BY <1>5
    <2>3. units[1] = RequestLine(c)
      <3>1. 1 \in 1 .. n /\ 1 \in 1 .. e - 1
        BY <1>5, <1>12
      <3> QED
        BY <1>3, <1>4, <1>7, <3>1
    <2>4. d = CheckPost(FoldLeft(ParseHeader, h, SubSeq(units, 2, e - 1)))
      BY <1>3, <1>8, <1>9, <2>1, <2>2, <2>3 DEF ParseHead
    <2>5. SubSeq(units, 2, e - 1) = SubSeq(p, 2, Len(p))
      <3>1. PICK s, t : s = SubSeq(units, 2, k) /\ t = SubSeq(p, 2, k)
        OBVIOUS
      <3>2. 2 \in Nat /\ 0 < 2 /\ 2 <= k + 1 /\ k <= Len(units) /\ k <= Len(p)
        BY <1>5, <1>7, <1>12
      <3>3. /\ s \in Seq(W) /\ Len(s) = k + 1 - 2
            /\ \A i \in 1 .. k + 1 - 2 : s[i] = units[i + 2 - 1]
        BY <1>7, <3>1, <3>2, Piece
      <3>4. /\ t \in Seq(U) /\ Len(t) = k + 1 - 2
            /\ \A i \in 1 .. k + 1 - 2 : t[i] = p[i + 2 - 1]
        BY <1>4, <3>1, <3>2, Piece
      <3>5. \A i \in 1 .. k + 1 - 2 : i + 2 - 1 \in 1 .. n /\ i + 2 - 1 \in 1 .. e - 1
        BY <1>5, <1>12
      <3>6. \A i \in 1 .. k + 1 - 2 : s[i] = t[i]
        BY <1>3, <1>7, <3>3, <3>4, <3>5
      <3>7. s \in Seq(W \cup U) /\ t \in Seq(W \cup U)
        BY <3>3, <3>4, WiderSeq
      <3>8. s = t
        BY <3>3, <3>4, <3>6, <3>7, SeqEqual
      <3>9. e - 1 = k
        BY <1>5
      <3> QED
        BY <1>5, <3>1, <3>8, <3>9
    <2>6. Parsed(d, c, e)
      BY <1>4, <2>4, <2>5 DEF ReadOf
    <2> QED
      BY <1>2, <1>3, <1>6, <1>8, <1>12, <2>6 DEF Parsed, HeadMade
  <1> QED
    BY <1>3, <1>11, <1>12

(* However much of it came with the first packet: a head that parses has   *)
(* the client's token.                                                     *)
LEMMA HeadToken ==
    ASSUME NEW c \in Clients, NEW n \in Nat, 0 < n, n <= Len(Wire(c)),
           ~ParseHead(SubSeq(Wire(c), 1, n)).err
    PROVE  ParseHead(SubSeq(Wire(c), 1, n)).token = TokenOf(c)
  BY HeadParsed DEF HeadMade, HeadIs

-----------------------------------------------------------------------------
(* Who is served, and until when.                                          *)

(* As much of the type invariant as the proof needs.                       *)
IdentityType == client \in Clients /\ clock \in Nat /\ pos \in Nat

(* Once a request is past the parsers, its head has the client's token.    *)
TokenRead ==
    (pos > 0 /\ verdict = "none") \/ verdict = "service" => head.token = TokenOf(client)

(* Only services come to anything.                                         *)
ServedLast == verdict # "service" => outcome = NoOutcome

(* The inductive invariant of TokenIdentifies: what is served is what the  *)
(* head says, and the head has the token the client was given.             *)
IdentityInv == IdentityType /\ TokenRead /\ ServedLast /\ TokenIdentifies

(* The head after got units.                                               *)
HeadAt(got) == IF pos = 0 THEN ParseHead(SubSeq(Wire(client), 1, got)) ELSE head

(* What one read() does to the head and the verdict.                       *)
LEMMA ReadHead ==
    ASSUME Read
    PROVE  \E n \in 1 .. size - pos :
              /\ pos + n <= Len(Wire(client)) /\ pos' = pos + n
              /\ head' = HeadAt(pos + n)
              /\ \/ verdict' = Decision(HeadAt(pos + n), HeadAt(pos + n).err)
                 \/ ~(pos = 0 /\ HeadAt(pos + n).err)
  <1>1. PICK n \in 1 .. size - pos :
          LET all   == Wire(client)
              got   == pos + n
              units == SubSeq(all, 1, got)
              h     == IF pos = 0 THEN ParseHead(units) ELSE head
              ended == pos = 0 /\ (h.err \/ h.method # "POST")
          IN /\ got <= Len(all)
             /\ pos' = got
             /\ head' = h
             /\ \/ ended /\ verdict' = Decision(h, h.err)
                \/ ~ended
    BY Zenon DEF Read
  <1> QED
    BY <1>1, Zenon DEF HeadAt

(* Nothing in error gets to a service.                                     *)
LEMMA DecisionServes ==
    ASSUME NEW h, NEW err, Decision(h, err) = "service"
    PROVE  ~err
  BY DEF Decision

(* process_request always decides.                                         *)
LEMMA DecisionDecides ==
    ASSUME NEW h, NEW err
    PROVE  Decision(h, err) # "none"
  <1>1. PathKind(h.path) \in {"ping", "sysinfo", "service", "other"}
    BY DEF PathKind
  <1> QED
    BY <1>1 DEF Decision

(* A packet is read.                                                       *)
LEMMA ReadIdentity ==
    ASSUME IdentityInv, Read
    PROVE  IdentityInv'
  <1>1. PICK n \in 1 .. size - pos :
          /\ pos + n <= Len(Wire(client)) /\ pos' = pos + n
          /\ head' = HeadAt(pos + n)
          /\ \/ verdict' = Decision(HeadAt(pos + n), HeadAt(pos + n).err)
             \/ ~(pos = 0 /\ HeadAt(pos + n).err)
    BY ReadHead
  <1>2. PICK got \in Nat : got = pos + n /\ got > 0
    BY <1>1 DEF IdentityInv, IdentityType
  <1>3. verdict = "none" /\ UNCHANGED <<client, clock, outcome>>
    BY DEF Read
  <1>4. client \in Clients /\ pos \in Nat /\ outcome = NoOutcome
    BY <1>3 DEF IdentityInv, IdentityType, ServedLast
  <1>5. PICK h : h = HeadAt(got)
    OBVIOUS
  <1>6. head' = h /\ (verdict' = Decision(h, h.err) \/ ~(pos = 0 /\ h.err))
    BY <1>1, <1>2, <1>5
  <1>7. ASSUME verdict' \in {"none", "service"} PROVE h.token = TokenOf(client)
    <2>1. CASE pos = 0
      <3>1. h = ParseHead(SubSeq(Wire(client), 1, got))
        BY <1>5, <2>1 DEF HeadAt
      <3>2. ~h.err
        <4>1. CASE verdict' = Decision(h, h.err)
          <5>1. Decision(h, h.err) # "none"
            BY DecisionDecides
          <5>2. Decision(h, h.err) = "service"
            BY <1>7, <4>1, <5>1
          <5> QED
            BY <5>2, DecisionServes
        <4> QED
          BY <1>6, <2>1, <4>1
      <3>3. got <= Len(Wire(client)) /\ 0 < got
        BY <1>1, <1>2
      <3> QED
        BY <1>4, <3>1, <3>2, <3>3, HeadToken
    <2>2. CASE pos # 0
      <3>1. h = head
        BY <1>5, <2>2 DEF HeadAt
      <3>2. pos > 0
        BY <1>4, <2>2
      <3> QED
        BY <1>3, <3>1, <3>2 DEF IdentityInv, TokenRead
    <2> QED
      BY <2>1, <2>2
  <1>8. IdentityType'
    BY <1>1, <1>2, <1>3 DEF IdentityInv, IdentityType
  <1>9. TokenRead'
    BY <1>3, <1>6, <1>7 DEF TokenRead, TokenOf
  <1>10. ServedLast'
    BY <1>3, <1>4 DEF ServedLast
  <1>11. TokenIdentifies'
    BY <1>3, <1>4 DEF TokenIdentifies, NoOutcome
  <1> QED
    BY <1>8, <1>9, <1>10, <1>11 DEF IdentityInv

(* The service runs, or refuses.                                           *)
LEMMA ExecuteIdentity ==
    ASSUME IdentityInv, Execute
    PROVE  IdentityInv'
  <1> DEFINE api   == Catalog[head.path]
             user  == IF api.secure /\ head.token # <<>> THEN IsValid(head.token, clock)
                                                        ELSE Nobody
             fails == api.secure /\ head.token # <<>> /\ Throws(head.token)
  <1>1. /\ verdict = "service"
        /\ UNCHANGED <<client, clock, pos, size, head, files, verdict>>
    BY DEF Execute
  <1>2. client \in Clients /\ clock \in Nat /\ head.token = TokenOf(client)
    BY <1>1 DEF IdentityInv, IdentityType, TokenRead
  <1>3. \E status, sql :
          /\ outcome' = [status |-> status, user |-> user, time |-> clock, sql |-> sql]
          /\ status = "error" => fails
          /\ status = "unauthorized" => api.secure /\ user = Nobody
          /\ status = "done" => ~(api.secure /\ user = Nobody)
    <2> DEFINE obey == Enforce(api.rules, params)
               statement == GetSql(FlattenSeq(api.sql), api.rules, obey.params, user)
               Ends(status, sql) == outcome' = [status |-> status, user |-> user,
                                                time |-> clock, sql |-> sql]
    <2>1. IF head.method = "OPTIONS" THEN Ends("options", <<>>) /\ UNCHANGED params
          ELSE IF head.method # api.verb
                 THEN Ends("method_not_allowed", <<>>) /\ UNCHANGED params
          ELSE /\ params' = obey.params
               /\ CASE ~obey.ok -> Ends("invalid_input", <<>>)
                    [] obey.ok /\ fails -> Ends("error", <<>>)
                    [] obey.ok /\ ~fails /\ api.secure /\ user = Nobody ->
                          Ends("unauthorized", <<>>)
                    [] obey.ok /\ ~fails /\ ~(api.secure /\ user = Nobody) ->
                          Ends("done", statement)
      BY Zenon DEF Execute
    <2> HIDE DEF obey, statement, user, api, fails
    <2>2. \/ Ends("options", <<>>) \/ Ends("method_not_allowed", <<>>)
          \/ Ends("invalid_input", <<>>)
          \/ fails /\ Ends("error", <<>>)
          \/ api.secure /\ user = Nobody /\ Ends("unauthorized", <<>>)
          \/ ~(api.secure /\ user = Nobody) /\ Ends("done", statement)
      <3>1. CASE ~obey.ok
        BY <2>1, <3>1
      <3>2. CASE obey.ok /\ fails
        BY <2>1, <3>2
      <3>3. CASE obey.ok /\ ~fails
        BY <2>1, <3>3
      <3> QED
        BY <3>1, <3>2, <3>3
    <2> QED
      BY <2>2
  <1>4. PICK status, sql :
          /\ outcome' = [status |-> status, user |-> user, time |-> clock, sql |-> sql]
          /\ status = "error" => fails
          /\ status = "unauthorized" => api.secure /\ user = Nobody
          /\ status = "done" => ~(api.secure /\ user = Nobody)
    BY <1>3
  <1>5. /\ outcome'.status = status /\ outcome'.user = user /\ outcome'.time = clock
    BY <1>4
  <1> DEFINE bearer == client.user # Nobody /\ client.defect # "scheme"
  <1>6. ASSUME bearer, IsCarried(client)
        PROVE  /\ head.token # <<>>
               /\ LoginOf(client.user) # Nobody
               /\ IsValid(head.token, clock) =
                    IF clock >= client.issued + Duration THEN Nobody
                    ELSE LoginOf(client.user)
               /\ ~Throws(head.token)
               /\ client.issued + Duration \in Nat
    <2>1. Carries(LoginOf(client.user), client.issued + Duration)
      BY <1>6 DEF IsCarried
    <2>2. head.token = GetToken(LoginOf(client.user), client.issued)
      BY <1>2, <1>6 DEF TokenOf
    <2>4. PICK exp : exp = client.issued + Duration
      OBVIOUS
    <2>5. exp \in 0 .. MaxTime /\ MaxTime \in Nat
      BY <2>1, <2>4, JwtAssumption DEF Carries, Written
    <2>3. client.issued + Duration \in Nat
      BY <2>4, <2>5
    <2> QED
      BY <2>1, <2>2, <2>3, TokenRoundTrip
  <1>7. ~bearer => head.token = <<>>
    BY <1>2 DEF TokenOf
  <1>8. ASSUME api.secure, status = "done"
        PROVE  /\ bearer
               /\ IsCarried(client) => user = LoginOf(client.user)
                                     /\ clock < client.issued + Duration
    <2>1. user # Nobody
      BY <1>4, <1>8
    <2>2. bearer
      BY <1>7, <2>1
    <2>3. ASSUME IsCarried(client)
          PROVE  user = LoginOf(client.user) /\ clock < client.issued + Duration
      <3> HIDE DEF bearer
      <3> QED
        BY <1>2, <1>6, <1>8, <2>1, <2>2, <2>3
    <2> QED
      BY <2>2, <2>3
  <1>9. ASSUME api.secure, status = "unauthorized", bearer, IsCarried(client)
        PROVE  clock >= client.issued + Duration
    <2>1. user = Nobody
      BY <1>4, <1>9
    <2> HIDE DEF bearer
    <2> QED
      BY <1>6, <1>9, <2>1
  <1>12. ASSUME status = "error"
         PROVE  client.user # Nobody /\ ~IsCarried(client)
    <2>1. fails
      BY <1>4, <1>12
    <2>2. bearer
      BY <1>7, <2>1
    <2>3. ~IsCarried(client)
      BY <1>6, <2>1, <2>2
    <2> QED
      BY <2>2, <2>3
  <1> HIDE DEF user, fails
  <1>10. TokenIdentifies'
    BY <1>1, <1>5, <1>8, <1>9, <1>12 DEF TokenIdentifies, IsCarried
  <1>11. IdentityType' /\ TokenRead' /\ ServedLast'
    BY <1>1 DEF IdentityInv, IdentityType, TokenRead, ServedLast, TokenOf
  <1> QED
    BY <1>10, <1>11 DEF IdentityInv

(* Time passes.                                                            *)
LEMMA TickIdentity ==
    ASSUME IdentityInv, Tick
    PROVE  IdentityInv'
  <1>1. clock' = clock + 1 /\ UNCHANGED <<client, pos, head, verdict, outcome>>
    BY DEF Tick
  <1>2. IdentityType'
    BY <1>1 DEF IdentityInv, IdentityType
  <1>3. TokenRead' /\ ServedLast' /\ TokenIdentifies'
    BY <1>1 DEF IdentityInv, TokenRead, ServedLast, TokenIdentifies, TokenOf,
                IsCarried
  <1> QED
    BY <1>2, <1>3 DEF IdentityInv

(* Nothing is read yet.                                                    *)
LEMMA InitIdentity == Init => IdentityInv
  BY DEF Init, IdentityInv, IdentityType, TokenRead, ServedLast, TokenIdentifies, NoOutcome

(* No step of a request breaks it.                                         *)
LEMMA NextIdentity == IdentityInv /\ [Next]_vars => IdentityInv'
  <1> SUFFICES ASSUME IdentityInv, [Next]_vars PROVE IdentityInv'
    OBVIOUS
  <1>1. CASE Read
    BY <1>1, ReadIdentity
  <1>2. CASE Execute
    BY <1>2, ExecuteIdentity
  <1>3. CASE Tick
    BY <1>3, TickIdentity
  <1>4. CASE UNCHANGED vars
    BY <1>4 DEF vars, IdentityInv, IdentityType, TokenRead, ServedLast, TokenIdentifies,
                TokenOf, IsCarried
  <1> QED
    BY <1>1, <1>2, <1>3, <1>4 DEF Next

(* However a request is cut into packets and whenever they come, a secure  *)
(* service runs only on a bearer token that login issued.  Of users whose  *)
(* token can carry them, it runs only as the user the token was issued to, *)
(* only while it is valid, and refuses none of them before; only the       *)
(* others meet the error of a payload that cannot be read.                 *)
THEOREM ServedAsIssued == Spec => []TokenIdentifies
  <1>1. IdentityInv => TokenIdentifies
    BY DEF IdentityInv
  <1> QED
    BY InitIdentity, NextIdentity, <1>1, PTL DEF Spec

-----------------------------------------------------------------------------
(* parse_multipart: a form is divided where its fields are.                *)

LEMMA Unequal ==
    /\ Boundary # "--" /\ Boundary # Crlf /\ "--" # Crlf
    /\ Len(Delimiter) = 3 /\ Delimiter[1] = "--" /\ Delimiter[2] = Boundary /\ Delimiter[3] = Crlf
    /\ Len(EndDelimiter) = 4 /\ EndDelimiter[1] = "--" /\ EndDelimiter[2] = Boundary
    /\ EndDelimiter[3] = "--" /\ EndDelimiter[4] = Crlf
  BY BoundaryAssumption DEF Delimiter, EndDelimiter, Crlf

(* What the symbols of a delimiter are among.                              *)
HasWords(S) == "--" \in S /\ Boundary \in S /\ Crlf \in S

LEMMA DelimiterType ==
    ASSUME NEW S, HasWords(S)
    PROVE  Delimiter \in Seq(S) /\ EndDelimiter \in Seq(S)
  BY DEF HasWords, Delimiter, EndDelimiter

(* A delimiter does not begin in what is before another.                   *)
LEMMA NoStraddle ==
    ASSUME NEW S, HasWords(S), NEW x \in Seq(S), NEW y \in Seq(S),
           NEW t, t = Then(Then(x, Delimiter), y),
           NEW i \in 1 .. Len(x), OccursAt(t, Delimiter, i)
    PROVE  i + Len(Delimiter) - 1 <= Len(x)
  <1>1. PICK m \in Nat : m = Len(x)
    BY LenProperties
  <1>2. PICK n \in Nat : n = Len(y)
    BY LenProperties
  <1>3. PICK d \in Seq(S) : d = Delimiter /\ Len(d) = 3
    BY DelimiterType, Unequal
  <1>4. PICK s : s = Then(x, d)
    OBVIOUS
  <1>5. s \in Seq(S) /\ Len(s) = m + 3
        /\ \A j \in 1 .. m + 3 : s[j] = IF j <= m THEN x[j] ELSE d[j - m]
    <2>1. /\ Then(x, d) \in Seq(S) /\ Len(Then(x, d)) = Len(x) + Len(d)
          /\ \A j \in 1 .. Len(x) + Len(d) :
                Then(x, d)[j] = IF j <= Len(x) THEN x[j] ELSE d[j - Len(x)]
      BY ThenType
    <2> QED
      BY <1>1, <1>3, <1>4, <2>1
  <1>6. t \in Seq(S) /\ Len(t) = m + 3 + n
        /\ \A j \in 1 .. m + 3 + n : t[j] = IF j <= m + 3 THEN s[j] ELSE y[j - (m + 3)]
    <2>1. t = Then(s, y)
      BY <1>3, <1>4
    <2>2. /\ Then(s, y) \in Seq(S) /\ Len(Then(s, y)) = Len(s) + Len(y)
          /\ \A j \in 1 .. Len(s) + Len(y) :
                Then(s, y)[j] = IF j <= Len(s) THEN s[j] ELSE y[j - Len(s)]
      BY <1>5, ThenType
    <2> QED
      BY <1>2, <1>5, <2>1, <2>2
  <1>7. t[m + 1] = "--"
    <2>1. m + 1 \in 1 .. m + 3 + n /\ m + 1 <= m + 3 /\ m + 1 \in 1 .. m + 3 /\ ~(m + 1 <= m)
          /\ m + 1 - m = 1
      OBVIOUS
    <2> QED
      BY <1>3, <1>5, <1>6, <2>1, Unequal
  <1>8. t[i + 1] = Boundary /\ t[i + 2] = Crlf
    <2>1. i \in 1 .. Len(t) /\ Len(d) > 0 /\ OccursAt(t, d, i)
      BY <1>1, <1>3, <1>6
    <2>2. Matches(t, d, i)
      BY <1>6, <2>1, OccursMeans
    <2>3. /\ 2 \in 1 .. 3 /\ 3 \in 1 .. 3 /\ i + 2 - 1 = i + 1 /\ i + 3 - 1 = i + 2
      OBVIOUS
    <2>4. t[i + 2 - 1] = d[2] /\ t[i + 3 - 1] = d[3]
      BY <1>3, <2>2, <2>3 DEF Matches
    <2> QED
      BY <1>3, <2>3, <2>4, Unequal
  <1>9. i + 1 # m + 1 /\ i + 2 # m + 1
    BY <1>7, <1>8, Unequal
  <1> QED
    BY <1>1, <1>9, Unequal

(* The form grows by a part.                                               *)
LEMMA PartNext ==
    ASSUME NEW S, HasWords(S), NEW x \in Seq(S), NEW y \in Seq(S), Occurs(y, Delimiter) = {}
    PROVE  Split(Then(Then(x, Delimiter), y), Delimiter) = Then(Split(x, Delimiter), <<y>>)
  <1>1. PICK d \in Seq(S) : d = Delimiter /\ Len(d) > 0
    <2>1. Delimiter \in Seq(S) /\ Len(Delimiter) = 3 /\ 3 > 0
      BY DelimiterType, Unequal
    <2> QED
      BY <2>1
  <1>2. PICK t : t = Then(Then(x, d), y)
    OBVIOUS
  <1>3. \A i \in 1 .. Len(x) : OccursAt(t, d, i) => i + Len(d) - 1 <= Len(x)
    BY <1>1, <1>2, NoStraddle
  <1>4. Split(t, d) = Then(Split(x, d), Split(y, d))
    BY <1>1, <1>2, <1>3, SplitAppend
  <1>5. Split(y, d) = <<y>>
    BY <1>1, SplitWhole
  <1> QED
    BY <1>1, <1>2, <1>4, <1>5

(* What is between the delimiters.                                         *)
LEMMA NoDelimiter ==
    ASSUME NEW S, HasWords(S), NEW A, A \subseteq S \ {Boundary}, NEW r \in Seq(A)
    PROVE  /\ Occurs(r, Delimiter) = {} /\ ~IsSuffix(EndDelimiter, r)
           /\ Occurs(Then(r, EndDelimiter), Delimiter) = {}
           /\ IsSuffix(EndDelimiter, Then(r, EndDelimiter))
           /\ Before(Then(r, EndDelimiter), EndDelimiter) = r
  <1>1. PICK m \in Nat : m = Len(r)
    BY LenProperties
  <1>2. r \in Seq(S) /\ \A i \in 1 .. m : r[i] # Boundary
    <2>1. A \subseteq S
      OBVIOUS
    <2>2. r \in Seq(S)
      BY <2>1, WiderSeq
    <2> QED
      BY <1>1, <2>2, ElementOfSeq
  <1>3. PICK d \in Seq(S) : d = Delimiter /\ Len(d) = 3
    BY DelimiterType, Unequal
  <1>4. PICK e \in Seq(S) : e = EndDelimiter /\ Len(e) = 4
    BY DelimiterType, Unequal
  <1>5. PICK t \in Seq(S) : t = Then(r, e)
    BY <1>2, ThenType
  <1>6. Len(t) = m + 4
        /\ \A j \in 1 .. m + 4 : t[j] = IF j <= m THEN r[j] ELSE e[j - m]
    <2>1. /\ Len(Then(r, e)) = Len(r) + Len(e)
          /\ \A j \in 1 .. Len(r) + Len(e) :
                Then(r, e)[j] = IF j <= Len(r) THEN r[j] ELSE e[j - Len(r)]
      BY <1>2, ThenType
    <2> QED
      BY <1>1, <1>4, <1>5, <2>1
  <1>7. /\ \A j \in 1 .. m : t[j] = r[j]
        /\ t[m + 1] = "--" /\ t[m + 2] = Boundary /\ t[m + 3] = "--" /\ t[m + 4] = Crlf
    <2>1. \A j \in 1 .. m : j \in 1 .. m + 4
      OBVIOUS
    <2>2. \A j \in 1 .. 4 : m + j \in 1 .. m + 4 /\ ~(m + j <= m) /\ m + j - m = j
      OBVIOUS
    <2>3. \A j \in 1 .. 4 : t[m + j] = e[j]
      BY <1>6, <2>2
    <2>4. 1 \in 1 .. 4 /\ 2 \in 1 .. 4 /\ 3 \in 1 .. 4 /\ 4 \in 1 .. 4
      OBVIOUS
    <2> QED
      BY <1>4, <1>6, <2>1, <2>3, <2>4, Unequal
  <1>8. Occurs(r, d) = {}
    <2> SUFFICES ASSUME NEW i \in 1 .. m, OccursAt(r, d, i) PROVE FALSE
      BY <1>1 DEF Occurs
    <2>1. Matches(r, d, i)
      <3>1. i \in 1 .. Len(r) /\ Len(d) > 0
        BY <1>1, <1>3
      <3> QED
        BY <1>2, <3>1, OccursMeans
    <2>2. i + 3 - 1 <= m /\ r[i + 2 - 1] = d[2]
      BY <1>1, <1>3, <2>1 DEF Matches
    <2>3. i + 2 - 1 \in 1 .. m
      BY <2>2
    <2> QED
      BY <1>2, <1>3, <2>2, <2>3, Unequal
  <1>9. ~IsSuffix(e, r)
    <2> SUFFICES ASSUME EndsAs(r, e) PROVE FALSE
      BY <1>2, SuffixMeans
    <2>1. 4 <= m /\ r[m - 4 + 2] = e[2]
      BY <1>1, <1>4 DEF EndsAs
    <2>2. m - 4 + 2 \in 1 .. m
      BY <2>1
    <2> QED
      BY <1>2, <1>4, <2>1, <2>2, Unequal
  <1>10. Occurs(t, d) = {}
    <2> SUFFICES ASSUME NEW i \in 1 .. m + 4, OccursAt(t, d, i) PROVE FALSE
      BY <1>6 DEF Occurs
    <2>1. Matches(t, d, i)
      <3>1. i \in 1 .. Len(t) /\ Len(d) > 0
        BY <1>3, <1>6
      <3> QED
        BY <3>1, OccursMeans
    <2>2. i + 3 - 1 <= m + 4 /\ t[i + 2 - 1] = d[2] /\ t[i + 3 - 1] = d[3]
      BY <1>3, <1>6, <2>1 DEF Matches
    <2>3. i + 2 - 1 = i + 1 /\ i + 3 - 1 = i + 2 /\ i + 1 \in 1 .. m + 4 /\ i + 2 <= m + 4
      BY <2>2
    <2>4. t[i + 1] = Boundary /\ t[i + 2] = Crlf
      BY <1>3, <2>2, <2>3, Unequal
    <2>5. i + 1 = m + 2
      <3>1. i + 1 \in 1 .. m \/ i + 1 = m + 1 \/ i + 1 = m + 2 \/ i + 1 = m + 3
        BY <2>3
      <3> QED
        BY <1>2, <1>7, <2>4, <3>1, Unequal
    <2> QED
      BY <1>7, <2>4, <2>5, Unequal
  <1>11. IsSuffix(e, t)
    <2>1. \A j \in 1 .. 4 : m + 4 - 4 + j \in 1 .. m + 4 /\ ~(m + 4 - 4 + j <= m)
                            /\ m + 4 - 4 + j - m = j
      OBVIOUS
    <2>2. \A j \in 1 .. 4 : t[m + 4 - 4 + j] = e[j]
      BY <1>6, <2>1
    <2>3. EndsAs(t, e)
      BY <1>4, <1>6, <2>2 DEF EndsAs
    <2> QED
      BY <2>3, SuffixMeans
  <1>12. Occurs(t, e) = {m + 1}
    <2>1. ASSUME NEW i \in 1 .. m + 4, OccursAt(t, e, i) PROVE i = m + 1
      <3>1. Matches(t, e, i)
        <4>1. i \in 1 .. Len(t) /\ Len(e) > 0
          BY <1>4, <1>6
        <4>2. OccursAt(t, e, i) <=> Matches(t, e, i)
          BY <4>1, OccursMeans
        <4> QED
          BY <2>1, <4>2
      <3>2. i + 4 - 1 <= m + 4 /\ t[i + 2 - 1] = e[2]
        BY <1>4, <1>6, <3>1 DEF Matches
      <3>3. i + 2 - 1 = i + 1 /\ t[i + 1] = Boundary
        BY <1>4, <3>2, Unequal
      <3>4. i + 1 \in 1 .. m \/ i + 1 = m + 1 \/ i + 1 = m + 2
        BY <3>2
      <3>5. \A j \in 1 .. m : t[j] # Boundary
        BY <1>2, <1>7
      <3>6. i + 1 = m + 2
        BY <1>7, <3>3, <3>4, <3>5, Unequal
      <3> QED
        BY <3>6
    <2>2. OccursAt(t, e, m + 1)
      <3>1. \A j \in 1 .. 4 : m + 1 + j - 1 \in 1 .. m + 4 /\ ~(m + 1 + j - 1 <= m)
                              /\ m + 1 + j - 1 - m = j
        OBVIOUS
      <3>2. ASSUME NEW j \in 1 .. 4 PROVE t[m + 1 + j - 1] = e[j]
        <4>1. PICK k \in 1 .. m + 4 : k = m + 1 + j - 1 /\ ~(k <= m) /\ k - m = j
          BY <3>1
        <4> QED
          BY <1>6, <4>1
      <3>3. Matches(t, e, m + 1)
        BY <1>4, <1>6, <3>2 DEF Matches
      <3>4. m + 1 \in 1 .. Len(t) /\ Len(e) > 0
        BY <1>4, <1>6
      <3> QED
        BY <3>3, <3>4, OccursMeans
    <2>3. m + 1 \in 1 .. m + 4
      OBVIOUS
    <2>4. Occurs(t, e) = {i \in 1 .. m + 4 : OccursAt(t, e, i)}
      BY <1>6 DEF Occurs
    <2> QED
      BY <2>1, <2>2, <2>3, <2>4
  <1>13. Before(t, e) = r
    <2>1. First(t, e) = m + 1
      <3>1. {m + 1} \subseteq Nat /\ {m + 1} # {}
        OBVIOUS
      <3>2. Min({m + 1}) = m + 1
        BY DEF Min
      <3> QED
        BY <1>12, <3>2 DEF First
    <2>2. PICK w : w = SubSeq(t, 1, m)
      OBVIOUS
    <2>3. w \in Seq(S) /\ Len(w) = m /\ \A i \in 1 .. m : w[i] = t[i]
      <3>1. 0 < 1 /\ 1 <= m + 1 /\ m <= Len(t) /\ 1 \in Nat /\ m + 1 - 1 = m
        BY <1>6
      <3>2. /\ w \in Seq(S) /\ Len(w) = m + 1 - 1
            /\ \A i \in 1 .. m + 1 - 1 : w[i] = t[i + 1 - 1]
        BY <2>2, <3>1, Piece
      <3>3. \A i \in 1 .. m : i + 1 - 1 = i
        OBVIOUS
      <3> QED
        BY <3>1, <3>2, <3>3
    <2>4. w = r
      BY <1>1, <1>2, <1>7, <2>3, SeqEqual
    <2> QED
      BY <2>1, <2>2, <2>4 DEF Before
  <1> QED
    BY <1>3, <1>4, <1>5, <1>8, <1>9, <1>10, <1>11, <1>13

(* Nothing to leave out.                                                   *)
LEMMA WithoutAll ==
    ASSUME NEW S, NEW s \in Seq(S), NEW e, \A i \in 1 .. Len(s) : s[i] # e
    PROVE  Without(s, e) = s
  <1>1. PICK n \in Nat : n = Len(s)
    BY LenProperties
  <1> DEFINE Good == {k \in Nat : k <= n => Without(SubSeq(s, 1, k), e) = SubSeq(s, 1, k)}
  <1>2. 0 \in Good
    <2>1. SubSeq(s, 1, 0) = <<>>
      BY SubSeqEmpty
    <2> QED
      BY <2>1, WithoutNone
  <1>3. ASSUME NEW k \in Nat, k \in Good PROVE k + 1 \in Good
    <2>1. k + 1 \in Nat
      OBVIOUS
    <2> SUFFICES ASSUME k + 1 <= n
                 PROVE  Without(SubSeq(s, 1, k + 1), e) = SubSeq(s, 1, k + 1)
      BY <2>1, Zenon
    <2>2. PICK i \in 1 .. n : i = k + 1 /\ i - 1 = k
      OBVIOUS
    <2>3. PICK q \in Seq(S) : q = SubSeq(s, 1, k)
      <3>1. 0 < 1 /\ 1 <= k + 1 /\ k <= Len(s) /\ 1 \in Nat
        BY <1>1
      <3>2. SubSeq(s, 1, k) \in Seq(S)
        BY <3>1, Piece
      <3> QED
        BY <3>2
    <2>4. Append(SubSeq(s, 1, i - 1), s[i]) = SubSeq(s, 1, i)
      BY <1>1, PrefixGrows
    <2>5. SubSeq(s, 1, k + 1) = Append(q, s[i])
      BY <2>2, <2>3, <2>4
    <2>6. s[i] \in S /\ s[i] # e
      BY <1>1, ElementOfSeq
    <2>7. Without(q, e) = q
      <3>1. k <= n
        OBVIOUS
      <3> QED
        BY <1>3, <2>3, <3>1
    <2>8. PICK y \in S : y = s[i]
      BY <2>6
    <2>9. Without(Append(q, y), e) = IF y = e THEN Without(q, e) ELSE Append(Without(q, e), y)
      BY WithoutAppend
    <2> QED
      BY <2>5, <2>6, <2>7, <2>8, <2>9
  <1>4. n \in Good
    <2> HIDE DEF Good
    <2> QED
      BY <1>2, <1>3, Induction
  <1>5. SubSeq(s, 1, n) = s
    BY <1>1, SubSeqFull
  <1>6. n <= n /\ Without(SubSeq(s, 1, n), e) = SubSeq(s, 1, n)
    BY <1>4
  <1> QED
    BY <1>5, <1>6

(* The words of a part.                                                    *)
PartWords == {Crlf, Quote, "form-data", "name=", "filename=", "Content-Type: ", "text"}

PartLines(f) == <<"form-data", "name=">> \o (f.name \o <<Quote>>) \o FileLine(f)
               \o <<Crlf, Crlf>> \o f.value

LEMMA RestText ==
    ASSUME NEW S, PartWords \subseteq S, NEW f,
           f.name \in Seq(S), f.filename \in Seq(S), f.value \in Seq(S)
    PROVE  /\ RestOf(f) = Then(PartLines(f), <<Crlf>>) /\ PartLines(f) \in Seq(S)
           /\ RestOf(f) \in Seq(S) /\ RestOf(f) # <<>>
  <1>1. /\ Crlf \in S /\ Quote \in S /\ "form-data" \in S
        /\ "name=" \in S /\ "filename=" \in S /\ "Content-Type: " \in S /\ "text" \in S
    BY DEF PartWords
  <1>2. /\ <<"form-data", "name=">> \in Seq(S) /\ <<>> \in Seq(S) /\ <<"filename=">> \in Seq(S)
        /\ <<Quote>> \in Seq(S) /\ <<Crlf, Crlf>> \in Seq(S) /\ <<Crlf>> \in Seq(S)
        /\ <<Quote, Crlf, "Content-Type: ", "text">> \in Seq(S)
    BY <1>1, Words, Zenon
  <1>3. FileLine(f) \in Seq(S)
    <2>1. PICK x \in Seq(S) : x = <<"filename=">>
      BY <1>2, Zenon
    <2>2. PICK y \in Seq(S) : y = <<Quote, Crlf, "Content-Type: ", "text">>
      BY <1>2, Zenon
    <2>3. PICK w \in Seq(S) : w = f.filename
      OBVIOUS
    <2>4. PICK r \in Seq(S) : r = Then(x, w)
      BY ThenType
    <2>5. Then(r, y) \in Seq(S)
      BY ThenType
    <2> QED
      BY <1>2, <2>1, <2>2, <2>3, <2>4, <2>5, Zenon DEF FileLine, Then
  <1>4. PICK h \in Seq(S) : h = <<"form-data", "name=">>
    BY <1>2, Zenon
  <1>5. PICK n \in Seq(S) : n = f.name
    OBVIOUS
  <1>6. PICK q \in Seq(S) : q = <<Quote>>
    BY <1>2, Zenon
  <1>7. PICK l \in Seq(S) : l = FileLine(f)
    BY <1>3
  <1>8. PICK b \in Seq(S) : b = <<Crlf, Crlf>>
    BY <1>2, Zenon
  <1>9. PICK v \in Seq(S) : v = f.value
    OBVIOUS
  <1>10. PICK z \in Seq(S) : z = <<Crlf>> /\ Len(z) = 1
    <2>1. Len(<<Crlf>>) = 1
      OBVIOUS
    <2> QED
      BY <1>2, <2>1, Zenon
  <1>11. PICK s \in Seq(S) : s = Then(n, q)
    BY ThenType
  <1>12. PICK p \in Seq(S) : p = Then(h, s)
    BY ThenType
  <1>13. PICK r \in Seq(S) : r = Then(p, l)
    BY ThenType
  <1>14. PICK t \in Seq(S) : t = Then(r, b)
    BY ThenType
  <1>15. PICK w \in Seq(S) : w = Then(t, v)
    BY ThenType
  <1>16. PartLines(f) = w
    BY <1>4, <1>5, <1>6, <1>7, <1>8, <1>9, <1>11, <1>12, <1>13, <1>14, <1>15, Zenon
       DEF PartLines, Then
  <1>17. RestOf(f) = Then(PartLines(f), z)
    BY <1>10, Zenon DEF RestOf, PartLines, Then
  <1>18. Then(w, z) \in Seq(S) /\ Then(w, z) # <<>>
    <2>1. PICK k \in Nat : k = Len(w)
      BY LenProperties
    <2>2. Then(w, z) \in Seq(S) /\ Len(Then(w, z)) = Len(w) + Len(z)
      BY ThenType
    <2>3. Len(Then(w, z)) = k + 1
      BY <1>10, <2>1, <2>2
    <2>4. Len(<<>>) = 0
      OBVIOUS
    <2> QED
      BY <2>1, <2>2, <2>3, <2>4
  <1> QED
    BY <1>10, <1>16, <1>17, <1>18

(* No part has the boundary in it.                                         *)
LEMMA RestFree ==
    ASSUME NEW c \in Clients, NEW i \in 1 .. Len(c.fields)
    PROVE  /\ RestOf(c.fields[i]) \in Seq(Alphabet(c) \ {Boundary}) /\ RestOf(c.fields[i]) # <<>>
           /\ PartOf(c.fields[i]) = Then(Delimiter, RestOf(c.fields[i]))
           /\ RestOf(c.fields[i]) \in Seq(Alphabet(c)) /\ PartOf(c.fields[i]) \in Seq(Alphabet(c))
  <1> DEFINE S == Alphabet(c)
  <1>1. PICK f : f = c.fields[i]
    OBVIOUS
  <1>2. f \in ToSet(c.fields) /\ FieldsWritten(c)
    BY <1>1, FieldTexts, ClientsAssumption
  <1>3. /\ IsText(f.name) /\ IsText(f.value) /\ IsText(f.filename)
        /\ Boundary \notin ToSet(f.name) \cup ToSet(f.filename) /\ Boundary \notin ToSet(f.value)
    BY <1>2 DEF FieldsWritten, Reserved
  <1>4. PICK T : T = ToSet(f.name) \cup ToSet(f.value) \cup ToSet(f.filename)
    OBVIOUS
  <1>5. T \subseteq S
    <2>1. T \in {ToSet(g.name) \cup ToSet(g.value) \cup ToSet(g.filename) : g \in ToSet(c.fields)}
      BY <1>2, <1>4
    <2> QED
      BY <2>1, Zenon DEF Alphabet
  <1>6. PartWords \subseteq S /\ Boundary \notin PartWords /\ HasWords(S)
    BY BoundaryAssumption DEF PartWords, Alphabet, HasWords
  <1>7. /\ RestOf(f) \in Seq(S) /\ PartOf(f) = Then(Delimiter, RestOf(f))
    BY <1>1, PartRest DEF Then
  <1> HIDE DEF S
  <1>8. T \subseteq S \ {Boundary} /\ PartWords \subseteq S \ {Boundary}
    BY <1>3, <1>4, <1>5, <1>6
  <1>9. f.name \in Seq(S \ {Boundary}) /\ f.value \in Seq(S \ {Boundary})
        /\ f.filename \in Seq(S \ {Boundary})
    <2>1. \A t : IsText(t) /\ ToSet(t) \subseteq T => t \in Seq(S \ {Boundary})
      <3>1. \A t : ToSet(t) \subseteq T => ToSet(t) \subseteq S \ {Boundary}
        BY <1>8
      <3> QED
        BY <3>1, WiderSeq DEF IsText
    <2>2. ToSet(f.name) \subseteq T /\ ToSet(f.value) \subseteq T /\ ToSet(f.filename) \subseteq T
      BY <1>4
    <2> QED
      BY <1>3, <2>1, <2>2
  <1>10. RestOf(f) \in Seq(S \ {Boundary}) /\ RestOf(f) # <<>>
    BY <1>8, <1>9, RestText
  <1>11. PartOf(f) \in Seq(S)
    <2>1. Delimiter \in Seq(S)
      BY <1>6, DelimiterType
    <2>2. Then(Delimiter, RestOf(f)) \in Seq(S)
      BY <1>7, <2>1, ThenType
    <2> QED
      BY <1>7, <2>2
  <1> QED
    BY <1>1, <1>7, <1>10, <1>11 DEF S

(* What follows the delimiters of a form.                                  *)
RestsOf(c) == [i \in DOMAIN c.fields |-> RestOf(c.fields[i])]

LEMMA RestsType ==
    ASSUME NEW c \in Clients
    PROVE  /\ RestsOf(c) \in Seq(Seq(Alphabet(c))) /\ Len(RestsOf(c)) = Len(c.fields)
           /\ \A i \in 1 .. Len(c.fields) :
                 /\ RestsOf(c)[i] = RestOf(c.fields[i]) /\ RestsOf(c)[i] # <<>>
                 /\ RestsOf(c)[i] \in Seq(Alphabet(c) \ {Boundary})
  <1>1. PICK n \in Nat : n = Len(c.fields) /\ DOMAIN c.fields = 1 .. n
    BY FieldTexts, LenProperties
  <1>2. \A i \in 1 .. n : /\ RestOf(c.fields[i]) \in Seq(Alphabet(c))
                          /\ RestOf(c.fields[i]) \in Seq(Alphabet(c) \ {Boundary})
                          /\ RestOf(c.fields[i]) # <<>>
    BY <1>1, RestFree
  <1>3. PICK r : r = RestsOf(c)
    OBVIOUS
  <1>4. r = [i \in 1 .. n |-> RestOf(c.fields[i])]
    BY <1>1, <1>3 DEF RestsOf
  <1>5. r \in [1 .. n -> Seq(Alphabet(c))]
    BY <1>2, <1>4
  <1>6. r \in Seq(Seq(Alphabet(c))) /\ Len(r) = n
    BY <1>5, FlatText
  <1> QED
    BY <1>1, <1>2, <1>3, <1>4, <1>6

(* The parts of a form, divided at their delimiters.                       *)
Divided(c, k) ==
    Split(FlattenSeq(SubSeq(PartsOf(c), 1, k)), Delimiter) = Cons(<<>>, SubSeq(RestsOf(c), 1, k))

LEMMA FormDivided ==
    ASSUME NEW c \in Clients, NEW k \in Nat, k <= Len(c.fields)
    PROVE  Divided(c, k)
  <1> DEFINE S == Alphabet(c)
  <1>1. PICK n \in Nat : n = Len(c.fields)
    BY FieldTexts, LenProperties
  <1>2. HasWords(S)
    BY DEF Alphabet, HasWords
  <1>3. PICK p \in Seq(Seq(S)) : p = PartsOf(c) /\ Len(p) = n
    BY <1>1, FormText
  <1>4. PICK r \in Seq(Seq(S)) : r = RestsOf(c) /\ Len(r) = n
    BY <1>1, RestsType
  <1>5. \A i \in 1 .. n : /\ p[i] = Then(Delimiter, r[i]) /\ r[i] \in Seq(S \ {Boundary})
                          /\ r[i] \in Seq(S)
    <2>1. \A i \in 1 .. n : p[i] = PartOf(c.fields[i])
      <3>1. DOMAIN c.fields = 1 .. n
        BY <1>1, FieldTexts, LenProperties
      <3> QED
        BY <1>3, <3>1 DEF PartsOf
    <2>2. \A i \in 1 .. n : r[i] = RestOf(c.fields[i])
      BY <1>1, <1>4, RestsType
    <2>3. \A i \in 1 .. n : /\ PartOf(c.fields[i]) = Then(Delimiter, RestOf(c.fields[i]))
                            /\ RestOf(c.fields[i]) \in Seq(S \ {Boundary})
                            /\ RestOf(c.fields[i]) \in Seq(S)
      BY <1>1, RestFree
    <2> QED
      BY <2>1, <2>2, <2>3
  <1> HIDE DEF S
  <1> DEFINE Flat(j) == FlattenSeq(SubSeq(p, 1, j))
             Good == {j \in Nat : j <= n => Split(Flat(j), Delimiter) = Cons(<<>>, SubSeq(r, 1, j))}
  <1>6. 0 \in Good
    <2>1. SubSeq(p, 1, 0) = <<>> /\ SubSeq(r, 1, 0) = <<>>
      BY SubSeqEmpty
    <2>2. PICK e \in Seq(S) : e = <<>> /\ Len(e) = 0
      BY EmptySeq
    <2>3. PICK d \in Seq(S) : d = Delimiter /\ Len(d) > 0
      <3>1. Delimiter \in Seq(S) /\ Len(Delimiter) = 3 /\ 3 > 0
        BY <1>2, DelimiterType, Unequal
      <3> QED
        BY <3>1
    <2>4. Split(e, d) = <<e>>
      <3>1. Occurs(e, d) = {}
        BY <2>2 DEF Occurs
      <3> QED
        BY <2>3, <3>1, SplitWhole
    <2>5. Cons(e, <<>>) = <<e>>
      <3>1. <<e>> \in Seq(Seq(S))
        OBVIOUS
      <3> QED
        BY <3>1, ConcatEmptySeq DEF Cons
    <2>6. Flat(0) = e
      BY <2>1, <2>2, FlatNone
    <2> QED
      BY <2>1, <2>2, <2>3, <2>4, <2>5, <2>6
  <1>7. ASSUME NEW j \in Nat, j \in Good PROVE j + 1 \in Good
    <2>1. j + 1 \in Nat
      OBVIOUS
    <2> SUFFICES ASSUME j + 1 <= n
                 PROVE  Split(Flat(j + 1), Delimiter) = Cons(<<>>, SubSeq(r, 1, j + 1))
      BY <2>1, Zenon
    <2>2. PICK i \in 1 .. n : i = j + 1
      OBVIOUS
    <2>3. /\ SubSeq(p, 1, j) \in Seq(Seq(S)) /\ p[j + 1] \in Seq(S)
          /\ SubSeq(p, 1, j + 1) = Append(SubSeq(p, 1, j), p[j + 1])
      BY <1>3, BeginningGrows
    <2>4. /\ SubSeq(r, 1, j) \in Seq(Seq(S))
          /\ SubSeq(r, 1, j + 1) = Then(SubSeq(r, 1, j), <<r[j + 1]>>)
      BY <1>4, BeginningGrows
    <2>5. PICK x \in Seq(S) : x = Flat(j)
      BY <2>3, FlatAppend
    <2>6. PICK y \in Seq(S) : y = r[i] /\ y \in Seq(S \ {Boundary})
      BY <1>5
    <2>7. PICK d \in Seq(S) : d = Delimiter
      BY <1>2, DelimiterType
    <2>8. Flat(j + 1) = Then(Then(x, d), y)
      <3>1. Flat(j + 1) = Then(x, p[i])
        BY <2>2, <2>3, <2>5, FlatAppend
      <3>2. p[i] = Then(d, y)
        BY <1>5, <2>6, <2>7
      <3>3. Then(Then(x, d), y) = Then(x, Then(d, y))
        BY ThenThen
      <3> QED
        BY <3>1, <3>2, <3>3
    <2>9. Occurs(y, Delimiter) = {}
      BY <1>2, <2>6, NoDelimiter
    <2>10. Split(Then(Then(x, Delimiter), y), Delimiter) = Then(Split(x, Delimiter), <<y>>)
      BY <1>2, <2>9, PartNext
    <2>11. PICK q \in Seq(Seq(S)) : q = SubSeq(r, 1, j)
      BY <2>4
    <2>12. Split(x, Delimiter) = Cons(<<>>, q)
      <3>1. j <= n
        OBVIOUS
      <3> QED
        BY <1>7, <2>5, <2>11, <3>1
    <2>13. Then(Cons(<<>>, q), <<y>>) = Cons(<<>>, Then(q, <<y>>))
      <3>1. PICK e \in Seq(S) : e = <<>>
        BY EmptySeq
      <3>2. PICK a \in Seq(Seq(S)) : a = <<y>>
        <4>1. <<y>> \in Seq(Seq(S))
          OBVIOUS
        <4> QED
          BY <4>1
      <3>3. Cons(e, Then(q, a)) = Then(Cons(e, q), a)
        BY ConsThen
      <3> QED
        BY <3>1, <3>2, <3>3
    <2> QED
      BY <2>2, <2>4, <2>6, <2>7, <2>8, <2>10, <2>11, <2>12, <2>13
  <1>8. k \in Good
    <2> HIDE DEF Good
    <2> QED
      BY <1>6, <1>7, Induction
  <1> QED
    BY <1>1, <1>3, <1>4, <1>8 DEF Divided

Cut(p) == IF IsSuffix(EndDelimiter, p) THEN Before(p, EndDelimiter) ELSE p

LEMMA BodyParts ==
    ASSUME NEW body
    PROVE  ParseBody(body, Boundary) =
              LET parts == NonEmpty(Split(body, Delimiter))
              IN [i \in DOMAIN parts |-> Cut(parts[i])]
  BY DEF ParseBody, Cut, Delimiter, EndDelimiter

(* The last piece of a form ends in the closing delimiter.                 *)
LEMMA PartsLast ==
    ASSUME NEW S, HasWords(S), NEW q \in Seq(Seq(S)), NEW y \in Seq(S \ {Boundary}),
           NEW body, Split(body, Delimiter) = Cons(<<>>, Then(q, <<Then(y, EndDelimiter)>>)),
           \A i \in 1 .. Len(q) : q[i] # <<>> /\ q[i] \in Seq(S \ {Boundary})
    PROVE  ParseBody(body, Boundary) = Then(q, <<y>>)
  <1>1. PICK n \in Nat : n = Len(q)
    BY LenProperties
  <1>2. PICK z \in Seq(S) : z = Then(y, EndDelimiter) /\ z # <<>>
    <2>1. PICK d \in Seq(S) : d = EndDelimiter /\ Len(d) = 4
      BY DelimiterType, Unequal
    <2>2. PICK x \in Seq(S) : x = y
      <3>1. S \ {Boundary} \subseteq S
        OBVIOUS
      <3> QED
        BY <3>1, WiderSeq
    <2>3. Then(x, d) \in Seq(S) /\ Len(Then(x, d)) = Len(x) + Len(d)
      BY ThenType
    <2>4. Len(x) \in Nat /\ Len(<<>>) = 0
      BY LenProperties
    <2>5. Then(x, d) # <<>>
      BY <2>1, <2>3, <2>4
    <2> QED
      BY <2>1, <2>2, <2>3, <2>5
  <1>3. PICK s \in Seq(Seq(S)) : s = Then(q, <<z>>)
    <2>1. <<z>> \in Seq(Seq(S))
      OBVIOUS
    <2> QED
      BY <2>1, ThenType
  <1>4. Len(s) = n + 1 /\ s[n + 1] = z /\ \A i \in 1 .. n : s[i] = q[i]
    <2>1. Append(q, z) = s
      BY <1>3, AppendIsConcat DEF Then
    <2>2. /\ Len(Append(q, z)) = Len(q) + 1 /\ Append(q, z)[Len(q) + 1] = z
          /\ \A i \in 1 .. Len(q) : Append(q, z)[i] = q[i]
      BY AppendProperties
    <2> QED
      BY <1>1, <2>1, <2>2
  <1>5. Without(s, <<>>) = s
    <2>1. \A i \in 1 .. n + 1 : i \in 1 .. n \/ i = n + 1
      OBVIOUS
    <2>2. \A i \in 1 .. Len(s) : s[i] # <<>>
      BY <1>1, <1>2, <1>4, <2>1
    <2> QED
      BY <2>2, WithoutAll
  <1>6. Without(Cons(<<>>, s), <<>>) = s
    <2>1. PICK e \in Seq(S) : e = <<>>
      BY EmptySeq
    <2>2. PICK a \in Seq(Seq(S)) : a = <<e>>
      <3>1. <<e>> \in Seq(Seq(S))
        OBVIOUS
      <3> QED
        BY <3>1
    <2>3. Without(Then(a, s), e) = Then(Without(a, e), Without(s, e))
      BY WithoutThen
    <2>4. Without(a, e) = <<>>
      <3>1. PICK w \in Seq(Seq(S)) : w = <<>>
        BY EmptySeq
      <3>2. Append(w, e) = a
        <4>1. Append(w, e) = w \o <<e>>
          BY AppendIsConcat
        <4>2. w \o a = a
          BY <3>1, ConcatEmptySeq
        <4> QED
          BY <2>2, <4>1, <4>2
      <3>3. Without(Append(w, e), e) = Without(w, e)
        BY WithoutAppend
      <3>4. Without(w, e) = <<>>
        BY <3>1, WithoutNone
      <3> QED
        BY <3>2, <3>3, <3>4
    <2>5. Then(<<>>, s) = s
      BY ConcatEmptySeq DEF Then
    <2>6. Cons(<<>>, s) = Then(a, s)
      BY <2>1, <2>2 DEF Cons, Then
    <2> QED
      BY <1>5, <2>1, <2>3, <2>4, <2>5, <2>6
  <1>7. NonEmpty(Split(body, Delimiter)) = s
    BY <1>2, <1>3, <1>6 DEF NonEmpty
  <1>8. PICK t \in Seq(Seq(S)) : t = Then(q, <<y>>) /\ Len(t) = n + 1
                                 /\ t[n + 1] = y /\ \A i \in 1 .. n : t[i] = q[i]
    <2>1. PICK x \in Seq(S) : x = y
      <3>1. S \ {Boundary} \subseteq S
        OBVIOUS
      <3> QED
        BY <3>1, WiderSeq
    <2>2. Append(q, x) = q \o <<x>>
      BY AppendIsConcat
    <2>3. /\ Append(q, x) \in Seq(Seq(S)) /\ Len(Append(q, x)) = n + 1
          /\ Append(q, x)[n + 1] = x /\ \A i \in 1 .. n : Append(q, x)[i] = q[i]
      BY <1>1, AppendProperties
    <2> QED
      BY <2>1, <2>2, <2>3 DEF Then
  <1>9. DOMAIN s = 1 .. n + 1
    BY <1>4, LenProperties
  <1>10. \A i \in 1 .. n + 1 : Cut(s[i]) = t[i]
    <2>1. \A i \in 1 .. n : Cut(s[i]) = t[i]
      <3>1. ASSUME NEW x \in Seq(S \ {Boundary}) PROVE Cut(x) = x
        BY NoDelimiter DEF Cut
      <3> QED
        BY <1>1, <1>4, <1>8, <3>1
    <2>2. Cut(z) = y
      BY <1>2, NoDelimiter DEF Cut
    <2>3. \A i \in 1 .. n + 1 : i \in 1 .. n \/ i = n + 1
      OBVIOUS
    <2> QED
      BY <1>4, <1>8, <2>1, <2>2, <2>3
  <1>11. [i \in DOMAIN s |-> Cut(s[i])] = t
    <2>1. DOMAIN t = 1 .. n + 1 /\ t = [i \in DOMAIN t |-> t[i]]
      BY <1>8, LenProperties
    <2> QED
      BY <1>9, <1>10, <2>1
  <1> QED
    BY <1>7, <1>8, <1>11, BodyParts

(* The server finds the parts of a form, none of which is empty; a form    *)
(* without fields seems to have an empty one.                              *)
LEMMA FormParts ==
    ASSUME NEW c \in Clients
    PROVE  ParseBody(FormOf(c), Boundary) = IF c.fields = <<>> THEN << <<>> >> ELSE RestsOf(c)
  <1> DEFINE S == Alphabet(c)
  <1>1. PICK n \in Nat : n = Len(c.fields)
    BY FieldTexts, LenProperties
  <1>2. HasWords(S)
    BY DEF Alphabet, HasWords
  <1>3. PICK p \in Seq(Seq(S)) : p = PartsOf(c) /\ Len(p) = n
    BY <1>1, FormText
  <1>4. PICK r \in Seq(Seq(S)) : /\ r = RestsOf(c) /\ Len(r) = n
                                 /\ \A i \in 1 .. n : r[i] # <<>> /\ r[i] \in Seq(S \ {Boundary})
    BY <1>1, RestsType
  <1>5. FormOf(c) = Then(FlattenSeq(p), EndDelimiter)
    BY <1>3, FormText DEF Then
  <1>6. c.fields = <<>> <=> n = 0
    BY <1>1, FieldTexts, EmptySeq
  <1>7. \A i \in 1 .. n : p[i] = Then(Delimiter, r[i]) /\ r[i] \in Seq(S)
    <2>1. \A i \in 1 .. n : p[i] = PartOf(c.fields[i])
      <3>1. DOMAIN c.fields = 1 .. n
        BY <1>1, FieldTexts, LenProperties
      <3> QED
        BY <1>3, <3>1 DEF PartsOf
    <2>2. \A i \in 1 .. n : r[i] = RestOf(c.fields[i])
      BY <1>1, <1>4, RestsType
    <2>3. \A i \in 1 .. n : /\ PartOf(c.fields[i]) = Then(Delimiter, RestOf(c.fields[i]))
                            /\ RestOf(c.fields[i]) \in Seq(S)
      BY <1>1, RestFree
    <2> QED
      BY <2>1, <2>2, <2>3
  <1>8. \A k \in Nat : k <= n => Divided(c, k)
    BY <1>1, FormDivided
  <1> HIDE DEF S
  <1>9. CASE n = 0
    <2>1. PICK e \in Seq(S \ {Boundary}) : e = <<>>
      BY EmptySeq
    <2>2. FlattenSeq(p) = e
      <3>1. p = <<>>
        BY <1>3, <1>9, EmptySeq
      <3> QED
        BY <2>1, <3>1, FlatNone
    <2>3. PICK d \in Seq(S) : d = Delimiter /\ Len(d) > 0
      <3>1. Delimiter \in Seq(S) /\ Len(Delimiter) = 3 /\ 3 > 0
        BY <1>2, DelimiterType, Unequal
      <3> QED
        BY <3>1
    <2>4. PICK z \in Seq(S) : z = EndDelimiter /\ Len(z) = 4
      BY <1>2, DelimiterType, Unequal
    <2>5. Then(e, z) = z
      BY <2>1, ConcatEmptySeq DEF Then
    <2>6. Occurs(z, d) = {} /\ Cut(z) = e
      BY <1>2, <2>1, <2>3, <2>4, <2>5, NoDelimiter DEF Cut
    <2>7. Split(z, d) = <<z>>
      BY <2>3, <2>6, SplitWhole
    <2>8. NonEmpty(<<z>>) = <<z>>
      <3>1. PICK a \in Seq(Seq(S)) : a = <<z>> /\ Len(a) = 1 /\ a[1] = z
        <4>1. <<z>> \in Seq(Seq(S)) /\ Len(<<z>>) = 1
          OBVIOUS
        <4> QED
          BY <4>1
      <3>2. z # <<>>
        <4>1. PICK w \in Seq(S) : w = <<>> /\ Len(w) = 0
          BY EmptySeq
        <4>2. Len(z) # Len(w)
          <5>1. Len(z) = 4 /\ Len(w) = 0 /\ 4 # 0
            BY <2>4, <4>1
          <5> QED
            BY <5>1
        <4> QED
          BY <4>1, <4>2, Zenon
      <3>3. \A i \in 1 .. Len(a) : a[i] # <<>>
        BY <3>1, <3>2
      <3>4. Without(a, <<>>) = a
        BY <3>3, WithoutAll
      <3> QED
        BY <3>1, <3>4 DEF NonEmpty
    <2>9. [i \in DOMAIN <<z>> |-> Cut(<<z>>[i])] = <<e>>
      <3>1. DOMAIN <<z>> = {1} /\ DOMAIN <<e>> = {1} /\ <<z>>[1] = z /\ <<e>>[1] = e
        OBVIOUS
      <3>2. \A f : f = <<e>> => f = [i \in DOMAIN f |-> f[i]]
        OBVIOUS
      <3> QED
        BY <2>6, <3>1
    <2>10. FormOf(c) = z
      BY <1>5, <2>2, <2>4, <2>5
    <2> QED
      BY <1>6, <1>9, <2>1, <2>3, <2>7, <2>8, <2>9, <2>10, BodyParts
  <1>10. CASE n # 0
    <2>1. PICK k \in Nat : n = k + 1
      BY <1>10
    <2>2. PICK i \in 1 .. n : i = k + 1
      BY <2>1
    <2>3. /\ SubSeq(p, 1, k) \in Seq(Seq(S)) /\ p[k + 1] \in Seq(S)
          /\ SubSeq(p, 1, k + 1) = Append(SubSeq(p, 1, k), p[k + 1])
      BY <1>3, <2>1, BeginningGrows
    <2>4. /\ SubSeq(r, 1, k) \in Seq(Seq(S))
          /\ SubSeq(r, 1, k + 1) = Then(SubSeq(r, 1, k), <<r[k + 1]>>)
      <3>1. k + 1 <= Len(r)
        BY <1>4, <2>1
      <3> QED
        BY <3>1, BeginningGrows
    <2>5. PICK x \in Seq(S) : x = FlattenSeq(SubSeq(p, 1, k))
      BY <2>3, FlatAppend
    <2>6. PICK y \in Seq(S) : y = r[i] /\ y \in Seq(S \ {Boundary})
      BY <1>4, <1>7
    <2>7. PICK d \in Seq(S) : d = Delimiter
      BY <1>2, DelimiterType
    <2>8. PICK z \in Seq(S) : z = EndDelimiter
      BY <1>2, DelimiterType
    <2>9. PICK w \in Seq(S) : w = Then(y, z)
      BY ThenType
    <2>10. FormOf(c) = Then(Then(x, d), w)
      <3>1. FlattenSeq(p) = Then(x, Then(d, y))
        <4>1. FlattenSeq(SubSeq(p, 1, k + 1)) = Then(x, p[k + 1])
          BY <2>3, <2>5, FlatAppend
        <4>2. SubSeq(p, 1, k + 1) = p
          BY <1>3, <2>1, SubSeqFull
        <4> QED
          BY <1>7, <2>2, <2>6, <2>7, <4>1, <4>2
      <3>2. Then(x, Then(d, y)) = Then(Then(x, d), y)
        BY ThenThen
      <3>3. PICK v \in Seq(S) : v = Then(x, d)
        BY ThenType
      <3>4. Then(Then(v, y), z) = Then(v, Then(y, z))
        BY ThenThen
      <3> QED
        BY <1>5, <2>8, <2>9, <3>1, <3>2, <3>3, <3>4
    <2>11. Occurs(w, Delimiter) = {}
      BY <1>2, <2>6, <2>8, <2>9, NoDelimiter
    <2>12. Split(Then(Then(x, Delimiter), w), Delimiter) = Then(Split(x, Delimiter), <<w>>)
      BY <1>2, <2>11, PartNext
    <2>13. PICK q \in Seq(Seq(S)) : q = SubSeq(r, 1, k)
      BY <2>4
    <2>14. Split(x, Delimiter) = Cons(<<>>, q)
      <3>1. k <= n
        BY <2>1
      <3> QED
        BY <1>3, <1>4, <1>8, <2>5, <2>13, <3>1 DEF Divided
    <2>15. Then(Cons(<<>>, q), <<w>>) = Cons(<<>>, Then(q, <<w>>))
      <3>1. PICK e \in Seq(S) : e = <<>>
        BY EmptySeq
      <3>2. PICK a \in Seq(Seq(S)) : a = <<w>>
        <4>1. <<w>> \in Seq(Seq(S))
          OBVIOUS
        <4> QED
          BY <4>1
      <3>3. Cons(e, Then(q, a)) = Then(Cons(e, q), a)
        BY ConsThen
      <3> QED
        BY <3>1, <3>2, <3>3
    <2>16. Split(FormOf(c), Delimiter) = Cons(<<>>, Then(q, <<Then(y, EndDelimiter)>>))
      BY <2>7, <2>8, <2>9, <2>10, <2>12, <2>14, <2>15
    <2>17. \A j \in 1 .. Len(q) : q[j] # <<>> /\ q[j] \in Seq(S \ {Boundary})
      <3>1. 0 < 1 /\ 1 <= k + 1 /\ k <= Len(r) /\ 1 \in Nat /\ k + 1 - 1 = k
        BY <1>4, <2>1
      <3>2. Len(q) = k + 1 - 1 /\ \A j \in 1 .. k + 1 - 1 : q[j] = r[j + 1 - 1]
        BY <2>13, <3>1, Piece
      <3>3. \A j \in 1 .. k : j \in 1 .. n /\ j + 1 - 1 = j
        BY <2>1
      <3> QED
        BY <1>4, <3>1, <3>2, <3>3
    <2>18. ParseBody(FormOf(c), Boundary) = Then(q, <<y>>)
      BY <1>2, <2>6, <2>16, <2>17, PartsLast
    <2>19. Then(q, <<y>>) = r
      <3>1. SubSeq(r, 1, k + 1) = r
        BY <1>4, <2>1, SubSeqFull
      <3> QED
        BY <2>2, <2>4, <2>6, <2>13, <3>1
    <2> QED
      BY <1>4, <1>6, <1>10, <2>18, <2>19
  <1> QED
    BY <1>9, <1>10

-----------------------------------------------------------------------------
(* parse_form: what is stored of the fields.                               *)

(* Maps from some of the names in N to values in V.                        *)
Maps(N, V) == UNION {[D -> V] : D \in SUBSET N}

LEMMA MapEntry ==
    ASSUME NEW N, NEW V, NEW m \in Maps(N, V), NEW name \in N, NEW value \in V
    PROVE  /\ Put(m, name, value) \in Maps(N, V) /\ TryEmplace(m, name, value) \in Maps(N, V)
           /\ DOMAIN Put(m, name, value) = DOMAIN m \cup {name}
           /\ DOMAIN TryEmplace(m, name, value) = DOMAIN m \cup {name}
  <1>1. PICK D \in SUBSET N : m \in [D -> V]
    BY DEF Maps
  <1>2. DOMAIN m = D /\ \A n \in D : m[n] \in V
    BY <1>1
  <1>3. Put(m, name, value) \in [D \cup {name} -> V]
    BY <1>2 DEF Put
  <1>4. Put(m, name, value) \in Maps(N, V)
    <2>1. D \cup {name} \in SUBSET N
      OBVIOUS
    <2> QED
      BY <1>3, <2>1 DEF Maps
  <1>5. DOMAIN Put(m, name, value) = D \cup {name}
    BY <1>2 DEF Put
  <1> QED
    BY <1>2, <1>4, <1>5 DEF TryEmplace

(* The form as it is filled.                                               *)
Forms(N, V) == [err : {FALSE}, params : Maps(N, V), files : Seq(V)]

FileSuffixes == {".content_len", ".content_type", ".document", ".filename"}

(* What of a field goes into the form.                                     *)
Fits(f, N, V) ==
    /\ f.name \in N /\ \A s \in FileSuffixes : f.name \o <<s>> \in N
    /\ f.data \in V /\ f.type \in V /\ f.filename \in V /\ <<ToString(Len(f.data))>> \in V
    /\ \A k \in Nat : Uuid(k) \in V

(* The parameters of a file.                                               *)
FileEntries(m, f, k) ==
    TryEmplace(TryEmplace(TryEmplace(TryEmplace(m,
        f.name \o <<".content_len">>, <<ToString(Len(f.data))>>),
        f.name \o <<".content_type">>, f.type),
        f.name \o <<".document">>, Uuid(k)),
        f.name \o <<".filename">>, f.filename)

LEMMA FieldAdded ==
    ASSUME NEW N, NEW V, NEW form \in Forms(N, V), NEW f, Fits(f, N, V)
    PROVE  /\ AddField(form, f) \in Forms(N, V)
           /\ AddField(form, f).params =
                 IF f.filename = <<>> THEN TryEmplace(form.params, f.name, f.data)
                 ELSE FileEntries(form.params, f, Len(form.files) + 1)
           /\ AddField(form, f).files =
                 IF f.filename = <<>> THEN form.files ELSE Append(form.files, f.data)
  <1>1. PICK m \in Maps(N, V) : m = form.params
    BY DEF Forms
  <1>2. PICK s \in Seq(V) : s = form.files
    BY DEF Forms
  <1>3. PICK k \in Nat : k = Len(s) + 1
    BY LenProperties
  <1>4. /\ f.name \in N /\ f.name \o <<".content_len">> \in N
        /\ f.name \o <<".content_type">> \in N /\ f.name \o <<".document">> \in N
        /\ f.name \o <<".filename">> \in N /\ f.data \in V /\ f.type \in V
        /\ f.filename \in V /\ <<ToString(Len(f.data))>> \in V /\ Uuid(k) \in V
    BY DEF Fits, FileSuffixes
  <1>5. CASE f.filename = <<>>
    <2>1. PICK p \in Maps(N, V) : p = TryEmplace(m, f.name, f.data)
      BY <1>4, MapEntry
    <2>2. AddField(form, f) = [form EXCEPT !.params = p]
      BY <1>1, <1>5, <2>1 DEF AddField
    <2>3. /\ [form EXCEPT !.params = p] \in Forms(N, V)
          /\ [form EXCEPT !.params = p].params = p
          /\ [form EXCEPT !.params = p].files = form.files
      BY DEF Forms
    <2> QED
      BY <1>1, <1>5, <2>1, <2>2, <2>3
  <1>6. CASE f.filename # <<>>
    <2>1. PICK p1 \in Maps(N, V) :
            p1 = TryEmplace(m, f.name \o <<".content_len">>, <<ToString(Len(f.data))>>)
      BY <1>4, MapEntry
    <2>2. PICK p2 \in Maps(N, V) : p2 = TryEmplace(p1, f.name \o <<".content_type">>, f.type)
      BY <1>4, MapEntry
    <2>3. PICK p3 \in Maps(N, V) : p3 = TryEmplace(p2, f.name \o <<".document">>, Uuid(k))
      BY <1>4, MapEntry
    <2>4. PICK p \in Maps(N, V) : p = TryEmplace(p3, f.name \o <<".filename">>, f.filename)
      BY <1>4, MapEntry
    <2>5. PICK r \in Seq(V) : r = Append(s, f.data)
      BY <1>4, AppendProperties
    <2>6. AddField(form, f) = [form EXCEPT !.params = p, !.files = r]
      BY <1>1, <1>2, <1>3, <1>6, <2>1, <2>2, <2>3, <2>4, <2>5 DEF AddField
    <2>7. /\ [form EXCEPT !.params = p, !.files = r] \in Forms(N, V)
          /\ [form EXCEPT !.params = p, !.files = r].params = p
          /\ [form EXCEPT !.params = p, !.files = r].files = r
      BY DEF Forms
    <2>8. FileEntries(m, f, k) = p
      BY <2>1, <2>2, <2>3, <2>4 DEF FileEntries
    <2> QED
      BY <1>1, <1>2, <1>3, <1>6, <2>5, <2>6, <2>7, <2>8
  <1> QED
    BY <1>5, <1>6

(* parse_form goes through its fields.                                     *)
Filling(g, n, t) ==
    /\ g[0] = NoForm
    /\ \A i \in 1 .. n : g[i] = AddField(g[i - 1], t[i])
    /\ FoldLeft(AddField, NoForm, t) = g[n]

LEMMA FieldSteps ==
    ASSUME NEW n \in Nat, NEW t, DOMAIN t = 1 .. n, NEW T, NoForm \in T,
           \A x \in T : \A i \in 1 .. n : AddField(x, t[i]) \in T
    PROVE  \E g : Filling(g, n, t)
  <1> DEFINE Next1(x, i) == AddField(x, t[i])
             O == [p \in T \X (1 .. n) |-> Next1(p[1], p[2])]
             Is(f) == f = [s \in SUBSET (DOMAIN t) |->
                             IF s = {} THEN NoForm ELSE Next1(f[s \ {Max(s)}], Max(s))]
             iter == CHOOSE f : Is(f)
             g == [i \in 0 .. n |-> iter[1 .. i]]
  <1>1. FoldLeft(AddField, NoForm, t) = iter[DOMAIN t]
    BY DEF FoldLeft, MapThenFoldSet
  <1>2. \A x \in T : \A i \in 1 .. n : Next1(x, i) \in T
    OBVIOUS
  <1>3. \A x, i : Next1(x, i) = AddField(x, t[i])
    OBVIOUS
  <1> HIDE DEF Next1
  <1>4. O \in [T \X (1 .. n) -> T]
    BY <1>2
  <1>5. PICK f : IsFold(f, n, T, NoForm, O)
    <2> HIDE DEF O
    <2> QED
      BY <1>4, FoldExists
  <1>6. Is(f)
    <2>1. ASSUME NEW s \in SUBSET (1 .. n), s # {}
          PROVE  f[s] = Next1(f[s \ {Max(s)}], Max(s))
      <3>1. Max(s) \in 1 .. n
        BY <2>1, LargestOf
      <3>2. <<f[s \ {Max(s)}], Max(s)>> \in T \X (1 .. n)
        <4>1. f[s \ {Max(s)}] \in T
          BY <1>5, <2>1 DEF IsFold
        <4> QED
          BY <3>1, <4>1
      <3> QED
        BY <1>5, <2>1, <3>2 DEF IsFold
    <2> QED
      BY <1>5, <2>1 DEF IsFold
  <1>7. Is(iter)
    <2> HIDE DEF Is
    <2> QED
      BY <1>6
  <1> HIDE DEF iter
  <1>8. g[0] = NoForm
    <2>1. 1 .. 0 = {} /\ {} \in SUBSET (DOMAIN t)
      OBVIOUS
    <2> QED
      BY <1>7, <2>1
  <1>9. ASSUME NEW i \in 1 .. n PROVE g[i] = AddField(g[i - 1], t[i])
    <2>1. iter[1 .. i] = Next1(iter[(1 .. i) \ {Max(1 .. i)}], Max(1 .. i))
      BY <1>7, Segments
    <2>2. iter[1 .. i] = Next1(iter[1 .. (i - 1)], i)
      BY <2>1, Segments
    <2> QED
      BY <1>3, <2>2
  <1>10. FoldLeft(AddField, NoForm, t) = g[n]
    BY <1>1
  <1> HIDE DEF g
  <1>11. Filling(g, n, t)
    BY <1>8, <1>9, <1>10 DEF Filling
  <1> QED
    BY <1>11

(* What the fields of a form are among.                                    *)
NamesOf(t) == {t[i].name : i \in DOMAIN t}
                 \cup UNION {{t[i].name \o <<s>> : s \in FileSuffixes} : i \in DOMAIN t}

ValuesOf(t) == {t[i].data : i \in DOMAIN t} \cup {t[i].type : i \in DOMAIN t}
                  \cup {t[i].filename : i \in DOMAIN t}
                  \cup {<<ToString(Len(t[i].data))>> : i \in DOMAIN t} \cup {Uuid(k) : k \in Nat}

LEMMA FieldsFit ==
    ASSUME NEW n \in Nat, NEW t, DOMAIN t = 1 .. n
    PROVE  \A i \in 1 .. n : Fits(t[i], NamesOf(t), ValuesOf(t))
  <1> SUFFICES ASSUME NEW i \in 1 .. n PROVE Fits(t[i], NamesOf(t), ValuesOf(t))
    OBVIOUS
  <1>1. i \in DOMAIN t
    OBVIOUS
  <1>2. t[i].name \in NamesOf(t)
    BY <1>1, Zenon DEF NamesOf
  <1>5. ASSUME NEW s \in FileSuffixes PROVE t[i].name \o <<s>> \in NamesOf(t)
    <2>1. t[i].name \o <<s>> \in {t[i].name \o <<z>> : z \in FileSuffixes}
      OBVIOUS
    <2>2. PICK A : A = {t[i].name \o <<z>> : z \in FileSuffixes}
      OBVIOUS
    <2>3. A \in {{t[j].name \o <<z>> : z \in FileSuffixes} : j \in DOMAIN t}
      BY <1>1, <2>2
    <2> QED
      BY <2>1, <2>2, <2>3, Zenon DEF NamesOf
  <1>3. /\ t[i].data \in ValuesOf(t) /\ t[i].type \in ValuesOf(t)
        /\ t[i].filename \in ValuesOf(t) /\ <<ToString(Len(t[i].data))>> \in ValuesOf(t)
    BY <1>1, Zenon DEF ValuesOf
  <1>4. \A k \in Nat : Uuid(k) \in ValuesOf(t)
    BY Zenon DEF ValuesOf
  <1> QED
    BY <1>2, <1>3, <1>4, <1>5, Zenon DEF Fits

(* All the forms there are on the way.                                     *)
LEMMA FormFilled ==
    ASSUME NEW n \in Nat, NEW t, DOMAIN t = 1 .. n
    PROVE  \E g : /\ Filling(g, n, t)
                  /\ \A k \in 0 .. n : g[k] \in Forms(NamesOf(t), ValuesOf(t))
  <1> DEFINE T == Forms(NamesOf(t), ValuesOf(t))
  <1>1. NoForm \in T
    <2>1. NoEntries \in Maps(NamesOf(t), ValuesOf(t))
      <3>1. NoEntries \in [{} -> ValuesOf(t)] /\ {} \in SUBSET NamesOf(t)
        BY DEF NoEntries
      <3> QED
        BY <3>1 DEF Maps
    <2>2. <<>> \in Seq(ValuesOf(t))
      OBVIOUS
    <2> QED
      BY <2>1, <2>2 DEF NoForm, Forms
  <1>2. \A i \in 1 .. n : Fits(t[i], NamesOf(t), ValuesOf(t))
    BY FieldsFit
  <1>3. \A x \in T : \A i \in 1 .. n : AddField(x, t[i]) \in T
    BY <1>2, FieldAdded
  <1> HIDE DEF T
  <1>4. PICK g : Filling(g, n, t)
    BY <1>1, <1>3, FieldSteps
  <1> DEFINE Good == {k \in Nat : k <= n => g[k] \in T}
  <1>5. 0 \in Good
    BY <1>1, <1>4 DEF Filling
  <1>6. ASSUME NEW k \in Nat, k \in Good PROVE k + 1 \in Good
    <2> SUFFICES ASSUME k + 1 <= n PROVE g[k + 1] \in T
      OBVIOUS
    <2>1. PICK i \in 1 .. n : i = k + 1 /\ i - 1 = k
      OBVIOUS
    <2>2. g[i] = AddField(g[i - 1], t[i])
      BY <1>4 DEF Filling
    <2>3. g[k] \in T
      BY <1>6
    <2> QED
      BY <1>3, <2>1, <2>2, <2>3
  <1>7. \A k \in Nat : k \in Good
    <2> HIDE DEF Good
    <2> QED
      BY <1>5, <1>6, Induction
  <1>8. \A k \in 0 .. n : g[k] \in T
    BY <1>7
  <1> QED
    BY <1>4, <1>8 DEF T

(* A form that is filled has no error, and a file for no more than its     *)
(* fields.                                                                 *)
LEMMA FilesFew ==
    ASSUME NEW n \in Nat, NEW t, DOMAIN t = 1 .. n
    PROVE  /\ FoldLeft(AddField, NoForm, t).err = FALSE
           /\ Len(FoldLeft(AddField, NoForm, t).files) \in Nat
           /\ Len(FoldLeft(AddField, NoForm, t).files) <= n
  <1>1. PICK g : /\ Filling(g, n, t)
                 /\ \A k \in 0 .. n : g[k] \in Forms(NamesOf(t), ValuesOf(t))
    BY FormFilled
  <1>2. PICK N : N = NamesOf(t)
    OBVIOUS
  <1>3. PICK V : V = ValuesOf(t)
    OBVIOUS
  <1>4. \A i \in 1 .. n : Fits(t[i], N, V)
    BY <1>2, <1>3, FieldsFit
  <1>5. \A k \in 0 .. n : g[k].err = FALSE /\ g[k].files \in Seq(V)
    BY <1>1, <1>3 DEF Forms
  <1> DEFINE Good == {k \in Nat : k <= n => Len(g[k].files) <= k}
  <1>6. 0 \in Good
    <2>1. g[0] = NoForm
      BY <1>1 DEF Filling
    <2>2. NoForm.files = <<>> /\ Len(<<>>) = 0
      BY DEF NoForm
    <2> QED
      BY <2>1, <2>2
  <1>7. ASSUME NEW k \in Nat, k \in Good PROVE k + 1 \in Good
    <2> SUFFICES ASSUME k + 1 <= n PROVE Len(g[k + 1].files) <= k + 1
      OBVIOUS
    <2>1. PICK i \in 1 .. n : i = k + 1 /\ i - 1 = k
      OBVIOUS
    <2>2. g[i] = AddField(g[i - 1], t[i])
      BY <1>1 DEF Filling
    <2>3. PICK x \in Forms(N, V) : x = g[i - 1]
      <3>1. i - 1 \in 0 .. n
        OBVIOUS
      <3> QED
        BY <1>1, <1>2, <1>3, <3>1
    <2>4. PICK f : f = t[i]
      OBVIOUS
    <2>5. Fits(f, N, V)
      BY <1>4, <2>4
    <2>6. AddField(x, f).files = IF f.filename = <<>> THEN x.files ELSE Append(x.files, f.data)
      BY <2>5, FieldAdded
    <2>7. PICK s \in Seq(V) : s = x.files
      BY DEF Forms
    <2>8. f.data \in V
      BY <2>5 DEF Fits
    <2>9. Len(Append(s, f.data)) = Len(s) + 1 /\ Len(s) \in Nat
      BY <2>8, AppendProperties, LenProperties
    <2>10. Len(s) <= k
      BY <1>7, <2>1, <2>3, <2>7
    <2>11. g[k + 1].files = IF f.filename = <<>> THEN s ELSE Append(s, f.data)
      BY <2>1, <2>2, <2>3, <2>4, <2>6, <2>7
    <2> QED
      BY <2>9, <2>10, <2>11
  <1>8. n \in Good
    <2> HIDE DEF Good
    <2> QED
      BY <1>6, <1>7, Induction
  <1>9. FoldLeft(AddField, NoForm, t) = g[n]
    BY <1>1 DEF Filling
  <1>10. PICK y : y = g[n]
    OBVIOUS
  <1>11. y.err = FALSE /\ y.files \in Seq(V) /\ Len(y.files) <= n
    <2>1. n \in 0 .. n
      OBVIOUS
    <2> QED
      BY <1>5, <1>8, <1>10, <2>1
  <1>12. Len(y.files) \in Nat
    BY <1>11, LenProperties
  <1> QED
    BY <1>9, <1>10, <1>11, <1>12

(* What the parser makes of a body: an error if its client made one.       *)
BodyRead(p, c) == /\ p.err <=> ~ShapeOf(c).bodyOk
                 /\ Len(p.files) \in Nat /\ Len(p.files) <= Len(c.fields)

LEMMA FormRead ==
    ASSUME NEW c \in Clients, c.encoding = "form",
           NEW d, d.type = "multipart", d.boundary = Boundary
    PROVE  /\ ParsePayload(d, BodyOf(c)) = ParseForm(FormOf(c), Boundary)
           /\ BodyRead(ParsePayload(d, BodyOf(c)), c)
  <1>1. PICK n \in Nat : n = Len(c.fields)
    BY FieldTexts, LenProperties
  <1>2. PICK w \in Seq(Alphabet(c)) : w = FormOf(c)
    BY FormText
  <1>3. PICK b : b = [i \in DOMAIN w |-> [kind |-> "text", text |-> w[i]]]
    OBVIOUS
  <1>4. BodyOf(c) = b
    BY <1>2, <1>3 DEF BodyOf
  <1>5. [i \in DOMAIN b |-> b[i].text] = w
    <2>1. DOMAIN b = DOMAIN w /\ \A i \in DOMAIN w : b[i].text = w[i]
      BY <1>3
    <2>2. w = [i \in DOMAIN w |-> w[i]]
      OBVIOUS
    <2> QED
      BY <2>1, <2>2
  <1>6. ParsePayload(d, BodyOf(c)) = ParseForm(w, Boundary)
    BY <1>4, <1>5 DEF ParsePayload
  <1>7. ParseBody(w, Boundary) = IF c.fields = <<>> THEN << <<>> >> ELSE RestsOf(c)
    BY <1>2, FormParts
  <1>8. c.defect # "json"
    BY ClientsAssumption
  <1>9. ShapeOf(c).bodyOk <=> c.fields # <<>>
    BY <1>8 DEF ShapeOf
  <1>10. CASE c.fields = <<>>
    <2>1. \E i \in DOMAIN << <<>> >> : << <<>> >>[i] = <<>>
      OBVIOUS
    <2>2. ParseForm(w, Boundary) = [NoForm EXCEPT !.err = TRUE]
      BY <1>7, <1>10, <2>1 DEF ParseForm
    <2>3. /\ [NoForm EXCEPT !.err = TRUE].err = TRUE
          /\ [NoForm EXCEPT !.err = TRUE].files = <<>> /\ Len(<<>>) = 0
      BY DEF NoForm
    <2> QED
      BY <1>1, <1>2, <1>6, <1>9, <1>10, <2>2, <2>3 DEF BodyRead
  <1>11. CASE c.fields # <<>>
    <2>1. PICK r \in Seq(Seq(Alphabet(c))) :
             r = RestsOf(c) /\ Len(r) = n /\ \A i \in 1 .. n : r[i] # <<>>
      BY <1>1, RestsType
    <2>2. DOMAIN r = 1 .. n
      BY <2>1, LenProperties
    <2>3. PICK t : t = [i \in DOMAIN r |-> GetFormField(ParsePart(r[i]))]
      OBVIOUS
    <2>4. ParseForm(w, Boundary) = FoldLeft(AddField, NoForm, t)
      BY <1>7, <1>11, <2>1, <2>2, <2>3 DEF ParseForm
    <2>5. DOMAIN t = 1 .. n
      BY <2>2, <2>3
    <2>6. PICK p : p = FoldLeft(AddField, NoForm, t)
      OBVIOUS
    <2>7. p.err = FALSE /\ Len(p.files) \in Nat /\ Len(p.files) <= n
      BY <2>5, <2>6, FilesFew
    <2> QED
      BY <1>1, <1>2, <1>6, <1>9, <1>11, <2>4, <2>6, <2>7 DEF BodyRead
  <1> QED
    BY <1>10, <1>11

(* The members of an object and what ends them.                            *)
MembersOf(c) == [i \in DOMAIN c.fields |-> MemberOf(c.fields[i])]

Closing(c) == IF c.defect = "json" THEN [kind |-> "broken"] ELSE [kind |-> "close"]

LEMMA JsonRead ==
    ASSUME NEW c \in Clients, c.encoding = "json", NEW d, d.type # "multipart"
    PROVE  /\ ParsePayload(d, BodyOf(c)) =
                 IF c.defect = "json" THEN [NoForm EXCEPT !.err = TRUE]
                 ELSE [NoForm EXCEPT !.params = GetMap(JsonObject(MembersOf(c)))]
           /\ BodyRead(ParsePayload(d, BodyOf(c)), c)
  <1>1. PICK n \in Nat : n = Len(c.fields) /\ DOMAIN c.fields = 1 .. n
    BY FieldTexts, LenProperties
  <1>2. PICK m : m = MembersOf(c)
    OBVIOUS
  <1>3. PICK u : u = Closing(c)
    OBVIOUS
  <1>4. PICK B : B = {MemberOf(c.fields[i]) : i \in 1 .. n} \cup {u}
    OBVIOUS
  <1>5. m \in Seq(B) /\ Len(m) = n
    <2>1. m = [i \in 1 .. n |-> MemberOf(c.fields[i])]
      BY <1>1, <1>2 DEF MembersOf
    <2>2. \A i \in 1 .. n : MemberOf(c.fields[i]) \in B
      BY <1>4
    <2> QED
      BY <2>1, <2>2, IsASeq
  <1>6. u \in B
    BY <1>4
  <1>7. PICK b \in Seq(B) : b = Append(m, u) /\ Len(b) = n + 1 /\ b[n + 1] = u
                             /\ \A i \in 1 .. n : b[i] = m[i]
    <2>1. /\ Append(m, u) \in Seq(B) /\ Len(Append(m, u)) = Len(m) + 1
          /\ Append(m, u)[Len(m) + 1] = u /\ \A i \in 1 .. Len(m) : Append(m, u)[i] = m[i]
      BY <1>5, <1>6, AppendProperties
    <2> QED
      BY <1>5, <2>1
  <1>8. BodyOf(c) = b
    <2>1. Append(m, u) = m \o <<u>>
      BY <1>5, <1>6, AppendIsConcat
    <2>2. BodyOf(c) = m \o <<u>>
      BY <1>2, <1>3 DEF BodyOf, MembersOf, Closing
    <2> QED
      BY <1>7, <2>1, <2>2
  <1>9. Last(b) = u
    BY <1>7 DEF Last
  <1>10. Front(b) = m
    <2>1. Front(b) = SubSeq(b, 1, n)
      BY <1>7 DEF Front
    <2>2. 0 < 1 /\ 1 <= n + 1 /\ n <= Len(b) /\ 1 \in Nat /\ n + 1 - 1 = n
      BY <1>7
    <2>3. /\ SubSeq(b, 1, n) \in Seq(B) /\ Len(SubSeq(b, 1, n)) = n + 1 - 1
          /\ \A i \in 1 .. n + 1 - 1 : SubSeq(b, 1, n)[i] = b[i + 1 - 1]
      BY <2>2, Piece
    <2>4. \A i \in 1 .. n : i + 1 - 1 = i
      OBVIOUS
    <2>5. PICK s \in Seq(B) : s = SubSeq(b, 1, n) /\ Len(s) = n /\ \A i \in 1 .. n : s[i] = m[i]
      BY <1>7, <2>2, <2>3, <2>4
    <2>6. s = m
      BY <1>5, <2>5, SeqEqual
    <2> QED
      BY <2>1, <2>5, <2>6
  <1>11. u.kind = "close" <=> c.defect # "json"
    BY <1>3 DEF Closing
  <1>12. ParsePayload(d, BodyOf(c)) =
            IF c.defect = "json" THEN [NoForm EXCEPT !.err = TRUE]
            ELSE [NoForm EXCEPT !.params = GetMap(JsonObject(m))]
    BY <1>8, <1>9, <1>10, <1>11 DEF ParsePayload, ParseJson
  <1>13. /\ [NoForm EXCEPT !.err = TRUE].err = TRUE
         /\ [NoForm EXCEPT !.err = TRUE].files = <<>> /\ Len(<<>>) = 0
         /\ [NoForm EXCEPT !.params = GetMap(JsonObject(m))].err = FALSE
         /\ [NoForm EXCEPT !.params = GetMap(JsonObject(m))].files = <<>>
    BY DEF NoForm
  <1>14. ShapeOf(c).bodyOk <=> c.defect # "json"
    BY DEF ShapeOf
  <1>15. BodyRead(ParsePayload(d, BodyOf(c)), c)
    <2>1. CASE c.defect = "json"
      BY <1>1, <1>12, <1>13, <1>14, <2>1 DEF BodyRead
    <2>2. CASE c.defect # "json"
      BY <1>1, <1>12, <1>13, <1>14, <2>2 DEF BodyRead
    <2> QED
      BY <2>1, <2>2
  <1> QED
    BY <1>2, <1>12, <1>15

-----------------------------------------------------------------------------
(* The type invariant, and what Reactor would decide.                      *)

(* What the body of a whole request is.                                    *)
LEMMA BodyThere ==
    ASSUME NEW c \in Clients
    PROVE  /\ Len(HeadOf(c)) \in Nat \ {0} /\ Len(BodyOf(c)) \in Nat
           /\ Len(HeadOf(c)) + Len(BodyOf(c)) <= Len(Wire(c))
           /\ SubSeq(SubSeq(Wire(c), 1, Len(HeadOf(c)) + Len(BodyOf(c))),
                     Len(HeadOf(c)) + 1, Len(HeadOf(c)) + Len(BodyOf(c))) = BodyOf(c)
  <1>1. PICK W, p, U, h, e : OnWire(c, W, p, U, h, e)
    BY WireSent
  <1>2. /\ Wire(c) \in Seq(W) /\ e \in Nat /\ Len(HeadOf(c)) = e /\ e = Len(p) + 1
        /\ Len(BodyOf(c)) \in Nat /\ e + Len(BodyOf(c)) <= Len(Wire(c))
        /\ SubSeq(Wire(c), e + 1, e + Len(BodyOf(c))) = BodyOf(c)
        /\ BeginsWith(c, p, U, h, e)
    BY <1>1 DEF OnWire
  <1>3. PICK b \in Nat : b = Len(BodyOf(c))
    BY <1>2
  <1>4. e > 0
    <2>1. p \in Seq(U)
      BY <1>2 DEF BeginsWith, IsLines
    <2>2. Len(p) \in Nat
      BY <2>1, LenProperties
    <2> QED
      BY <1>2, <2>2
  <1>5. SubSeq(SubSeq(Wire(c), 1, e + b), e + 1, e + b) = SubSeq(Wire(c), e + 1, e + b)
    <2>1. PICK w \in Seq(W) : w = Wire(c) /\ e + b <= Len(w)
      BY <1>2, <1>3
    <2>2. PICK n \in Nat : n = Len(w)
      BY LenProperties
    <2>3. PICK x : x = SubSeq(w, 1, e + b)
      OBVIOUS
    <2>4. 0 < 1 /\ 1 <= e + b + 1 /\ e + b <= Len(w) /\ 1 \in Nat /\ e + b \in Nat
          /\ e + b + 1 - 1 = e + b /\ 0 < e + 1 /\ e + 1 <= e + b + 1 /\ e + 1 \in Nat
          /\ e + b + 1 - (e + 1) = b
      BY <1>2, <2>1
    <2>5. /\ x \in Seq(W) /\ Len(x) = e + b + 1 - 1
          /\ \A i \in 1 .. e + b + 1 - 1 : x[i] = w[i + 1 - 1]
      BY <2>3, <2>4, Piece
    <2>6. PICK y : y = SubSeq(x, e + 1, e + b)
      OBVIOUS
    <2>7. /\ y \in Seq(W) /\ Len(y) = e + b + 1 - (e + 1)
          /\ \A i \in 1 .. e + b + 1 - (e + 1) : y[i] = x[i + (e + 1) - 1]
      <3>1. e + b <= Len(x)
        BY <2>4, <2>5
      <3> QED
        BY <2>4, <2>5, <2>6, <3>1, Piece
    <2>8. PICK z : z = SubSeq(w, e + 1, e + b)
      OBVIOUS
    <2>9. /\ z \in Seq(W) /\ Len(z) = e + b + 1 - (e + 1)
          /\ \A i \in 1 .. e + b + 1 - (e + 1) : z[i] = w[i + (e + 1) - 1]
      BY <2>4, <2>8, Piece
    <2>10. \A i \in 1 .. b : y[i] = z[i]
      <3>1. \A i \in 1 .. b : /\ i + (e + 1) - 1 \in 1 .. e + b
                           /\ i + (e + 1) - 1 + 1 - 1 = i + (e + 1) - 1
        BY <1>2
      <3> QED
        BY <2>4, <2>5, <2>7, <2>9, <3>1, ZenonT(60)
    <2>11. y = z
      BY <2>4, <2>7, <2>9, <2>10, SeqEqual
    <2> QED
      BY <2>1, <2>3, <2>6, <2>8, <2>11
  <1> QED
    BY <1>2, <1>3, <1>4, <1>5

(* A head that parsed, and is all there.                                   *)
HeadKnown(h, c) == ~h.err /\ HeadIs(h, c) /\ h.start = Len(HeadOf(c))

(* While more of a request is awaited, it is a post of which the server    *)
(* has the head.                                                           *)
Awaited == pos > 0 /\ verdict = "none" =>
              HeadKnown(head, client) /\ client.method = "POST" /\ client.defect \notin HeadDefects

TypeInv == TypeOK /\ Awaited

(* The three ways a packet is taken: there is no body to wait for, the     *)
(* body is there, or more of it is to come.                                *)
Ends(h, got) ==
    /\ pos = 0 /\ HeadMade(h, client, got) /\ (h.err \/ client.method # "POST")
    /\ params' = IF h.method = "GET" /\ ~h.err THEN ParseQueryString(h.target) ELSE NoEntries
    /\ verdict' = Decision(h, h.err) /\ files' = files

Sizes(c) == Len(HeadOf(c)) + Len(BodyOf(c))

Completes(h, got) ==
    /\ HeadKnown(h, client) /\ client.method = "POST" /\ client.defect \notin HeadDefects
    /\ pos = 0 => Len(HeadOf(client)) <= got
    /\ got = Sizes(client)
    /\ params' = ParsePayload(h, BodyOf(client)).params
    /\ files' = ParsePayload(h, BodyOf(client)).files
    /\ verdict' = Decision(h, ParsePayload(h, BodyOf(client)).err)

Continues(h, got) ==
    /\ HeadKnown(h, client) /\ client.method = "POST" /\ client.defect \notin HeadDefects
    /\ pos = 0 => Len(HeadOf(client)) <= got
    /\ got # Sizes(client)
    /\ UNCHANGED <<params, files, verdict>>

Takes(h, got) ==
    /\ pos' = got /\ got \in 1 .. Len(Wire(client)) /\ pos < got
    /\ size' = Grown(size, got) /\ got <= size
    /\ head' = h /\ h.length \in Nat /\ h.start \in Nat
    /\ Ends(h, got) \/ Completes(h, got) \/ Continues(h, got)

LEMMA ReadTakes ==
    ASSUME TypeInv, Read
    PROVE  verdict = "none" /\ UNCHANGED <<client, clock, outcome>>
              /\ \E h, got : Takes(h, got)
  <1>1. /\ client \in Clients /\ pos \in 0 .. Len(Wire(client)) /\ size \in Nat
        /\ head.length \in Nat /\ head.start \in Nat
    BY DEF TypeInv, TypeOK
  <1>2. PICK c \in Clients : c = client
    BY <1>1
  <1>3. PICK e \in Nat : e = Len(HeadOf(c)) /\ e # 0
    BY BodyThere
  <1>4. PICK b \in Nat : b = Len(BodyOf(c))
    BY BodyThere
  <1>5. PICK l \in Nat : l = Len(Wire(c)) /\ e + b <= l
    <2>1. PICK W, p, U, h, k : OnWire(c, W, p, U, h, k)
      BY WireSent
    <2>2. Wire(c) \in Seq(W)
      BY <2>1 DEF OnWire
    <2> QED
      BY <1>3, <1>4, <2>2, LenProperties, BodyThere
  <1>6. /\ pos \in Nat /\ pos <= l
    BY <1>1, <1>2, <1>5
  <1>7. verdict = "none" /\ UNCHANGED <<client, clock, outcome>>
    BY DEF Read
  <1>8. PICK n \in 1 .. size - pos :
         LET all   == Wire(client)
             got   == pos + n
             units == SubSeq(all, 1, got)
             h     == IF pos = 0 THEN ParseHead(units) ELSE head
             ended == pos = 0 /\ (h.err \/ h.method # "POST")
             form  == ParsePayload(h, SubSeq(units, h.start + 1, got))
         IN /\ got <= Len(all)
            /\ pos' = got
            /\ size' = Grown(size, got)
            /\ head' = h
            /\ \/ /\ ended
                  /\ params' = IF h.method = "GET" /\ ~h.err
                                 THEN ParseQueryString(h.target) ELSE NoEntries
                  /\ verdict' = Decision(h, h.err)
                  /\ UNCHANGED files
               \/ /\ ~ended /\ IsWhole(h, got)
                  /\ params' = form.params
                  /\ files' = form.files
                  /\ verdict' = Decision(h, form.err)
               \/ /\ ~ended /\ ~IsWhole(h, got)
                  /\ UNCHANGED <<params, files, verdict>>
    BY Zenon DEF Read
  <1>9. PICK got \in Nat : got = pos + n /\ got > 0 /\ pos < got /\ got <= size
    BY <1>1, <1>6
  <1>10. PICK units : units = SubSeq(Wire(c), 1, got)
    OBVIOUS
  <1>11. PICK h : h = IF pos = 0 THEN ParseHead(units) ELSE head
    OBVIOUS
  <1>12. PICK form : form = ParsePayload(h, SubSeq(units, h.start + 1, got))
    OBVIOUS
  <1>13. /\ got <= Len(Wire(c)) /\ pos' = got /\ size' = Grown(size, got) /\ head' = h
         /\ \/ /\ pos = 0 /\ (h.err \/ h.method # "POST")
               /\ params' = IF h.method = "GET" /\ ~h.err
                              THEN ParseQueryString(h.target) ELSE NoEntries
               /\ verdict' = Decision(h, h.err) /\ files' = files
            \/ /\ ~(pos = 0 /\ (h.err \/ h.method # "POST")) /\ IsWhole(h, got)
               /\ params' = form.params /\ files' = form.files
               /\ verdict' = Decision(h, form.err)
            \/ /\ ~(pos = 0 /\ (h.err \/ h.method # "POST")) /\ ~IsWhole(h, got)
               /\ UNCHANGED <<params, files, verdict>>
    BY <1>2, <1>8, <1>9, <1>10, <1>11, <1>12, Zenon
  <1>14. pos = 0 => HeadMade(h, c, got)
    <2>1. HeadMade(ParseHead(SubSeq(Wire(c), 1, got)), c, got)
      BY <1>9, <1>13, HeadParsed
    <2> QED
      BY <1>10, <1>11, <2>1
  <1>15. h.length \in Nat /\ h.start \in Nat
    BY <1>1, <1>11, <1>14 DEF HeadMade
  <1>16. CASE pos = 0 /\ (h.err \/ h.method # "POST")
    <2>1. h.err \/ client.method # "POST"
      BY <1>2, <1>14, <1>16 DEF HeadMade, HeadIs
    <2>2. Ends(h, got)
      BY <1>2, <1>13, <1>14, <1>16, <2>1 DEF Ends
    <2> QED
      BY <1>2, <1>7, <1>9, <1>13, <1>15, <2>2 DEF Takes
  <1>17. CASE ~(pos = 0 /\ (h.err \/ h.method # "POST"))
    <2>1. /\ HeadKnown(h, c) /\ c.method = "POST" /\ c.defect \notin HeadDefects
          /\ pos = 0 => e <= got
      <3>1. CASE pos = 0
        BY <1>3, <1>14, <1>17, <3>1 DEF HeadMade, HeadKnown, HeadIs
      <3>2. CASE pos # 0
        BY <1>2, <1>6, <1>7, <1>11, <3>2 DEF TypeInv, Awaited
      <3> QED
        BY <3>1, <3>2
    <2>2. h.start = e /\ h.length = b
      BY <1>3, <1>4, <2>1 DEF HeadKnown, HeadIs
    <2>3. IsWhole(h, got) <=> got = Sizes(c)
      BY <1>3, <1>4, <2>2 DEF IsWhole, Sizes
    <2>4. CASE IsWhole(h, got)
      <3>1. got = e + b
        BY <1>3, <1>4, <2>3, <2>4 DEF Sizes
      <3>2. SubSeq(units, e + 1, got) = BodyOf(c)
        BY <1>3, <1>4, <1>10, <3>1, BodyThere
      <3>3. form = ParsePayload(h, BodyOf(c))
        BY <1>12, <2>2, <3>2
      <3>4. Completes(h, got)
        BY <1>2, <1>3, <1>13, <1>17, <2>1, <2>3, <2>4, <3>3 DEF Completes
      <3> QED
        BY <1>2, <1>7, <1>9, <1>13, <1>15, <3>4 DEF Takes
    <2>5. CASE ~IsWhole(h, got)
      <3>1. Continues(h, got)
        BY <1>2, <1>3, <1>13, <1>17, <2>1, <2>3, <2>5 DEF Continues
      <3> QED
        BY <1>2, <1>7, <1>9, <1>13, <1>15, <3>1 DEF Takes
    <2> QED
      BY <2>4, <2>5
  <1> QED
    BY <1>16, <1>17

LEMMA PayloadKnown ==
    ASSUME NEW c \in Clients, c.method = "POST", NEW h, HeadKnown(h, c)
    PROVE  BodyRead(ParsePayload(h, BodyOf(c)), c)
  <1>1. c.encoding \in {"json", "form"}
    BY ClientsAssumption
  <1>2. CASE c.encoding = "form"
    BY <1>2, FormRead DEF HeadKnown, HeadIs
  <1>3. CASE c.encoding = "json"
    BY <1>3, JsonRead DEF HeadKnown, HeadIs
  <1> QED
    BY <1>1, <1>2, <1>3

(* The decision on a request whose head says what was meant.               *)
LEMMA DecisionMade ==
    ASSUME NEW c, NEW h, NEW err
    PROVE  /\ Decision(h, err) \in {"bad_request", "forbidden", "not_found", "ok", "service"}
           /\ h.origin = c.origin /\ h.path = PathSeen(c) =>
                Decision(h, err) =
                   IF err THEN "bad_request"
                   ELSE IF ~ShapeOf(c).originOk THEN "forbidden"
                   ELSE IF ShapeOf(c).path \in {"ping", "sysinfo"} THEN "ok"
                   ELSE IF ShapeOf(c).path = "other" THEN "not_found"
                   ELSE "service"
  <1>1. PathKind(h.path) \in {"ping", "sysinfo", "service", "other"}
    BY DEF PathKind
  <1>2. ShapeOf(c).originOk <=> c.origin \in AllowedOrigins \cup {"none"}
    BY DEF ShapeOf
  <1>3. ShapeOf(c).path = PathKind(PathSeen(c))
    BY DEF ShapeOf
  <1> QED
    BY <1>1, <1>2, <1>3 DEF Decision

(* A block more keeps a whole number of blocks.                            *)
LEMMA BlockMore ==
    ASSUME NEW b \in Nat \ {0}, NEW s \in Nat, s % b = 0
    PROVE  (s + b) % b = 0
  <1>1. PICK q : q = s \div b
    OBVIOUS
  <1>2. q \in Int /\ s = b * q + (s % b)
    BY <1>1
  <1>3. s = b * q
    BY <1>2
  <1>4. PICK d : d = (s + b) \div b
    OBVIOUS
  <1>5. PICK m : m = (s + b) % b
    OBVIOUS
  <1>6. s + b \in Nat
    OBVIOUS
  <1>7. d \in Int /\ m \in 0 .. b - 1 /\ s + b = b * d + m
    BY <1>4, <1>5, <1>6
  <1>8. PICK k : k = q + 1 - d
    OBVIOUS
  <1>9. k \in Int /\ m = b * k
    <2>1. b * (q + 1 - d) = b * q + b - b * d
      BY <1>2, <1>7
    <2> QED
      BY <1>2, <1>3, <1>7, <1>8, <2>1
  <1>10. k = 0
    <2>1. CASE k >= 1
      <3>1. b * k >= b * 1
        BY <1>9, <2>1
      <3> QED
        BY <1>7, <1>9, <3>1
    <2>2. CASE k <= -1
      <3>1. b * k <= b * (-1)
        BY <1>9, <2>2
      <3> QED
        BY <1>7, <1>9, <3>1
    <2> QED
      BY <1>9, <2>1, <2>2
  <1>11. m = 0
    BY <1>9, <1>10
  <1> QED
    BY <1>5, <1>11

(* What a packet does to a request is what Reactor has it do.              *)
LEMMA ReadDecides ==
    ASSUME TypeInv, NEW h, NEW got, Takes(h, got), verdict = "none"
    PROVE  LET s == ShapeOf(client)
           IN /\ verdict' # "none" <=> Complete(s, pos, pos')
              /\ verdict' # "none" => verdict' = Verdict(s, pos, pos')
  <1>1. PICK c \in Clients : c = client
    BY DEF TypeInv, TypeOK
  <1>2. PICK s : s = ShapeOf(c)
    OBVIOUS
  <1>3. /\ s.head = Len(HeadOf(c)) /\ s.body = Len(BodyOf(c)) /\ s.method = c.method
        /\ s.headOk <=> c.defect \notin HeadDefects
    BY <1>2 DEF ShapeOf
  <1>4. pos' = got /\ pos \in Nat
    BY DEF TypeInv, TypeOK, Takes
  <1>5. got = s.head + s.body <=> got = Sizes(c)
    BY <1>3 DEF Sizes
  <1>6. CASE Ends(h, got)
    <2>1. /\ pos = 0 /\ HeadMade(h, c, got) /\ (h.err \/ c.method # "POST")
          /\ verdict' = Decision(h, h.err)
      BY <1>1, <1>6 DEF Ends
    <2>2. h.err <=> ~HeadParses(s, got)
      BY <1>3, <2>1 DEF HeadMade, HeadParses
    <2>3. Complete(s, pos, pos') /\ verdict' # "none"
      BY <1>3, <1>4, <2>1, <2>2, DecisionMade DEF Complete
    <2>4. CASE h.err
      <3>1. verdict' = "bad_request"
        BY <2>1, <2>4 DEF Decision
      <3>2. Verdict(s, pos, pos') = "bad_request"
        BY <1>4, <2>1, <2>2, <2>4 DEF Verdict
      <3> QED
        BY <1>1, <1>2, <2>3, <3>1, <3>2
    <2>5. CASE ~h.err
      <3>1. c.method # "POST" /\ h.origin = c.origin /\ h.path = PathSeen(c)
        BY <2>1, <2>5 DEF HeadMade, HeadIs
      <3>2. verdict' = IF ~s.originOk THEN "forbidden"
                       ELSE IF s.path \in {"ping", "sysinfo"} THEN "ok"
                       ELSE IF s.path = "other" THEN "not_found" ELSE "service"
        BY <1>2, <2>1, <2>5, <3>1, DecisionMade
      <3>3. Verdict(s, pos, pos') = IF ~s.originOk THEN "forbidden"
                       ELSE IF s.path \in {"ping", "sysinfo"} THEN "ok"
                       ELSE IF s.path = "other" THEN "not_found" ELSE "service"
        BY <1>3, <1>4, <2>1, <2>2, <2>5, <3>1 DEF Verdict
      <3> QED
        BY <1>1, <1>2, <2>3, <3>2, <3>3
    <2> QED
      BY <2>4, <2>5
  <1>7. CASE Completes(h, got)
    <2>1. /\ HeadKnown(h, c) /\ c.method = "POST" /\ c.defect \notin HeadDefects
          /\ pos = 0 => Len(HeadOf(c)) <= got
          /\ got = Sizes(c)
          /\ verdict' = Decision(h, ParsePayload(h, BodyOf(c)).err)
      BY <1>1, <1>7 DEF Completes
    <2>2. PICK err : err = ParsePayload(h, BodyOf(c)).err
      OBVIOUS
    <2>3. err <=> ~s.bodyOk
      BY <1>2, <2>1, <2>2, PayloadKnown DEF BodyRead
    <2>4. Complete(s, pos, pos') /\ verdict' # "none"
      BY <1>4, <1>5, <2>1, DecisionMade DEF Complete
    <2>5. h.origin = c.origin /\ h.path = PathSeen(c)
      BY <2>1 DEF HeadKnown, HeadIs
    <2>6. verdict' = IF err THEN "bad_request" ELSE IF ~s.originOk THEN "forbidden"
                     ELSE IF s.path \in {"ping", "sysinfo"} THEN "ok"
                     ELSE IF s.path = "other" THEN "not_found" ELSE "service"
      BY <1>2, <2>1, <2>2, <2>5, DecisionMade
    <2>7. ~(pos = 0 /\ ~HeadParses(s, got))
      BY <1>3, <2>1 DEF HeadParses
    <2>8. Verdict(s, pos, pos') = IF ~s.bodyOk THEN "bad_request"
                     ELSE IF ~s.originOk THEN "forbidden"
                     ELSE IF s.path \in {"ping", "sysinfo"} THEN "ok"
                     ELSE IF s.path = "other" THEN "not_found" ELSE "service"
      BY <1>3, <1>4, <2>1, <2>7 DEF Verdict
    <2> QED
      BY <1>1, <1>2, <2>3, <2>4, <2>6, <2>8
  <1>8. CASE Continues(h, got)
    <2>1. /\ c.method = "POST" /\ c.defect \notin HeadDefects /\ got # Sizes(c)
          /\ pos = 0 => Len(HeadOf(c)) <= got
          /\ verdict' = "none"
      BY <1>1, <1>8 DEF Continues
    <2>2. ~Complete(s, pos, pos')
      BY <1>3, <1>4, <1>5, <2>1 DEF Complete, HeadParses
    <2> QED
      BY <1>1, <1>2, <2>1, <2>2
  <1> QED
    BY <1>6, <1>7, <1>8 DEF Takes

(* The ways a service ends.                                                *)
LEMMA ExecuteEnds ==
    ASSUME Execute
    PROVE  /\ outcome'.status \in {"options", "method_not_allowed", "invalid_input",
                                   "unauthorized", "error", "done"}
           /\ verdict = "service" /\ UNCHANGED <<client, clock, pos, size, head, files, verdict>>
  <1> DEFINE api  == Catalog[head.path]
             user == IF api.secure /\ head.token # <<>> THEN IsValid(head.token, clock)
                                                       ELSE Nobody
             fails == api.secure /\ head.token # <<>> /\ Throws(head.token)
             obey == Enforce(api.rules, params)
             statement == GetSql(FlattenSeq(api.sql), api.rules, obey.params, user)
             Finished(status, sql) == outcome' = [status |-> status, user |-> user,
                                              time |-> clock, sql |-> sql]
  <1>1. IF head.method = "OPTIONS" THEN Finished("options", <<>>) /\ UNCHANGED params
        ELSE IF head.method # api.verb
               THEN Finished("method_not_allowed", <<>>) /\ UNCHANGED params
        ELSE /\ params' = obey.params
             /\ CASE ~obey.ok -> Finished("invalid_input", <<>>)
                  [] obey.ok /\ fails -> Finished("error", <<>>)
                  [] obey.ok /\ ~fails /\ api.secure /\ user = Nobody ->
                        Finished("unauthorized", <<>>)
                  [] obey.ok /\ ~fails /\ ~(api.secure /\ user = Nobody) ->
                        Finished("done", statement)
    BY Zenon DEF Execute
  <1>2. verdict = "service" /\ UNCHANGED <<client, clock, pos, size, head, files, verdict>>
    BY DEF Execute
  <1> HIDE DEF obey, statement, user, api, fails
  <1>3. \/ Finished("options", <<>>) \/ Finished("method_not_allowed", <<>>)
        \/ Finished("invalid_input", <<>>) \/ Finished("unauthorized", <<>>)
        \/ Finished("error", <<>>) \/ Finished("done", statement)
    <2>1. CASE ~obey.ok
      BY <1>1, <2>1
    <2>2. CASE obey.ok /\ fails
      BY <1>1, <2>2
    <2>3. CASE obey.ok /\ ~fails
      BY <1>1, <2>3
    <2> QED
      BY <2>1, <2>2, <2>3
  <1> QED
    BY <1>2, <1>3

LEMMA InitType == Init => TypeInv
  <1> SUFFICES ASSUME Init PROVE TypeInv
    OBVIOUS
  <1>1. /\ client \in Clients /\ clock = 0 /\ pos = 0 /\ size = Block /\ head = NoHead
        /\ files = <<>> /\ verdict = "none" /\ outcome = NoOutcome
    BY DEF Init
  <1>2. Block \in Nat \ {0} /\ MaxClock \in Nat
    BY RequestAssumption
  <1>3. Block % Block = 0
    BY <1>2
  <1>4. head.length = 0 /\ head.start = 0 /\ outcome.status = "none"
    BY <1>1 DEF NoHead, NoOutcome
  <1>5. Len(files) <= Len(client.fields)
    <2>1. Len(client.fields) \in Nat
      BY <1>1, FieldTexts, LenProperties
    <2>2. Len(<<>>) = 0
      OBVIOUS
    <2> QED
      BY <1>1, <2>1, <2>2
  <1>6. pos \in 0 .. Len(Wire(client))
    <2>1. /\ Len(HeadOf(client)) + Len(BodyOf(client)) <= Len(Wire(client))
          /\ Len(Wire(client)) \in Nat
      <3>1. PICK W, p, U, h, k : OnWire(client, W, p, U, h, k)
        BY <1>1, WireSent
      <3>2. Wire(client) \in Seq(W)
        BY <3>1 DEF OnWire
      <3> QED
        BY <1>1, <3>2, LenProperties, BodyThere
    <2> QED
      BY <1>1, <2>1
  <1>7. TypeOK
    BY <1>1, <1>2, <1>3, <1>4, <1>5, <1>6 DEF TypeOK
  <1> QED
    BY <1>1, <1>7 DEF TypeInv, Awaited

LEMMA ReadType ==
    ASSUME TypeInv, NEW h, NEW got, Takes(h, got), verdict = "none",
           UNCHANGED <<client, clock, outcome>>
    PROVE  TypeInv'
  <1>1. /\ client \in Clients /\ size \in Nat /\ size % Block = 0
        /\ Len(files) <= Len(client.fields) /\ clock \in 0 .. MaxClock /\ pos \in Nat
    BY DEF TypeInv, TypeOK
  <1>2. PICK c \in Clients : c = client
    BY <1>1
  <1>3. /\ pos' = got /\ got \in 1 .. Len(Wire(c)) /\ size' = Grown(size, got)
        /\ head' = h /\ h.length \in Nat /\ h.start \in Nat
    BY <1>2 DEF Takes
  <1>4. size' \in Nat /\ size' % Block = 0
    <2>1. size' = size \/ size' = size + Block
      BY <1>3 DEF Grown
    <2>2. Block \in Nat \ {0}
      BY RequestAssumption
    <2>3. (size + Block) % Block = 0
      BY <1>1, <2>2, BlockMore
    <2> QED
      BY <1>1, <2>1, <2>2, <2>3
  <1>5. Len(files') <= Len(c.fields)
    <2>1. CASE Completes(h, got)
      <3>1. BodyRead(ParsePayload(h, BodyOf(c)), c)
        BY <1>2, <2>1, PayloadKnown DEF Completes
      <3> QED
        BY <1>2, <2>1, <3>1 DEF Completes, BodyRead
    <2>2. CASE Ends(h, got) \/ Continues(h, got)
      BY <1>1, <1>2, <2>2 DEF Ends, Continues
    <2> QED
      BY <2>1, <2>2 DEF Takes
  <1>6. verdict' \in {"none", "bad_request", "forbidden", "not_found", "ok", "service"}
    <2>1. CASE Completes(h, got) \/ Ends(h, got)
      BY <2>1, DecisionMade DEF Completes, Ends
    <2>2. CASE Continues(h, got)
      BY <2>2 DEF Continues
    <2> QED
      BY <2>1, <2>2 DEF Takes
  <1>7. outcome' = outcome /\ clock' = clock /\ client' = client
    OBVIOUS
  <1>8. TypeOK'
    <2>1. pos' \in 0 .. Len(Wire(client'))
      BY <1>2, <1>3, <1>7
    <2>2. outcome.status \in {"none", "options", "method_not_allowed", "invalid_input",
                              "unauthorized", "error", "done"}
      BY DEF TypeInv, TypeOK
    <2> QED
      BY <1>1, <1>2, <1>3, <1>4, <1>5, <1>6, <1>7, <2>1, <2>2 DEF TypeOK
  <1>9. Awaited'
    <2>1. CASE Completes(h, got) \/ Ends(h, got)
      <3>1. \E err : verdict' = Decision(h, err)
        BY <2>1 DEF Completes, Ends
      <3>2. verdict' # "none"
        BY <3>1, DecisionMade
      <3> QED
        BY <3>2 DEF Awaited
    <2>2. CASE Continues(h, got)
      <3>1. /\ HeadKnown(head', client')
            /\ client'.method = "POST" /\ client'.defect \notin HeadDefects
        BY <1>2, <1>3, <1>7, <2>2 DEF Continues
      <3> QED
        BY <3>1 DEF Awaited, HeadKnown, HeadIs, TokenOf
    <2> QED
      BY <2>1, <2>2 DEF Takes
  <1> QED
    BY <1>8, <1>9 DEF TypeInv

LEMMA NextType == TypeInv /\ [Next]_vars => TypeInv'
  <1> SUFFICES ASSUME TypeInv, [Next]_vars PROVE TypeInv'
    OBVIOUS
  <1>1. CASE Read
    <2>1. verdict = "none" /\ UNCHANGED <<client, clock, outcome>>
            /\ \E h, got : Takes(h, got)
      BY <1>1, ReadTakes
    <2> QED
      BY <2>1, ReadType
  <1>2. CASE Execute
    BY <1>2, ExecuteEnds DEF TypeInv, TypeOK, Awaited
  <1>3. CASE Tick
    <2>1. /\ clock < MaxClock /\ clock' = clock + 1
          /\ UNCHANGED <<client, pos, size, head, files, verdict, outcome>>
      BY <1>3 DEF Tick
    <2>2. clock' \in 0 .. MaxClock
      <3>1. clock \in 0 .. MaxClock
        BY DEF TypeInv, TypeOK
      <3>2. MaxClock \in Nat
        BY RequestAssumption
      <3> QED
        BY <2>1, <3>1, <3>2
    <2>3. TypeOK'
      BY <2>1, <2>2 DEF TypeInv, TypeOK
    <2>4. Awaited'
      BY <2>1 DEF TypeInv, Awaited, HeadKnown, HeadIs, TokenOf
    <2> QED
      BY <2>3, <2>4 DEF TypeInv
  <1>4. CASE UNCHANGED vars
    BY <1>4 DEF vars, TypeInv, TypeOK, Awaited, HeadKnown, HeadIs, TokenOf
  <1> QED
    BY <1>1, <1>2, <1>3, <1>4 DEF Next

(* Every variable of a request keeps its type: what parse() stores, what   *)
(* it decides and what execute_service returns of it.                      *)
THEOREM RequestTypeOK == Spec => []TypeOK
  <1>1. TypeInv => TypeOK
    BY DEF TypeInv
  <1> QED
    BY InitType, NextType, <1>1, PTL DEF Spec

LEMMA StepDecides ==
    ASSUME TypeInv, [Next]_vars
    PROVE  [pos' # pos =>
              LET s == ShapeOf(client)
              IN /\ verdict' # "none" <=> Complete(s, pos, pos')
                 /\ verdict' # "none" => verdict' = Verdict(s, pos, pos')]_vars
  <1>1. CASE Read
    <2>1. verdict = "none" /\ \E h, got : Takes(h, got)
      BY <1>1, ReadTakes
    <2> QED
      BY <2>1, ReadDecides
  <1>2. CASE ~Read
    <2>1. pos' = pos
      BY <1>2 DEF Next, vars, Execute, Tick
    <2> QED
      BY <2>1
  <1> QED
    BY <1>1, <1>2

(* process_request dispatches a request at the packet Reactor would, and   *)
(* with the decision it has for its shape.                                 *)
THEOREM DecidedAsReactor == Spec => DecidesAsReactor
  <1>1. TypeInv /\ [Next]_vars =>
          [pos' # pos =>
              LET s == ShapeOf(client)
              IN /\ verdict' # "none" <=> Complete(s, pos, pos')
                 /\ verdict' # "none" => verdict' = Verdict(s, pos, pos')]_vars
    BY StepDecides
  <1> QED
    BY InitType, NextType, <1>1, PTL DEF Spec, DecidesAsReactor

-----------------------------------------------------------------------------
(* parse_query_string: what clients encode is decoded.                     *)

(* decode_param, which goes on after a code.                               *)
Decoding(d, t) ==
    /\ d[Len(t) + 1] = <<>>
    /\ \A i \in 1 .. Len(t) :
          d[i] = IF t[i] = "%" /\ i + 2 <= Len(t)
                   THEN <<CharOf(SubSeq(t, i + 1, i + 2))>> \o d[i + 3]
                 ELSE <<t[i]>> \o d[i + 1]
    /\ DecodeParam(t) = d[1]

LEMMA DecodingExists ==
    ASSUME NEW n \in Nat, NEW t, n = Len(t)
    PROVE  \E d : Decoding(d, t)
  <1> DEFINE Value(p, i) == IF i > Len(t) THEN <<>>
                            ELSE IF t[i] = "%" /\ i + 2 <= Len(t)
                                   THEN <<CharOf(SubSeq(t, i + 1, i + 2))>> \o p[i + 3]
                            ELSE <<t[i]>> \o p[i + 1]
             Is(p) == p = [i \in 1 .. Len(t) + 1 |-> Value(p, i)]
             decoded == CHOOSE p : Is(p)
  <1>1. ASSUME NEW p, NEW q, NEW i \in 1 .. n + 1, \A j \in i + 1 .. n + 1 : p[j] = q[j]
        PROVE  Value(p, i) = Value(q, i)
    <2>1. CASE i > n
      BY <2>1
    <2>2. CASE i <= n
      <3>1. i + 1 \in i + 1 .. n + 1 /\ (i + 2 <= n => i + 3 \in i + 1 .. n + 1)
        BY <2>2
      <3>2. p[i + 1] = q[i + 1] /\ (i + 2 <= n => p[i + 3] = q[i + 3])
        BY <1>1, <3>1
      <3> QED
        BY <3>2
    <2> QED
      BY <2>1, <2>2
  <1> HIDE DEF Value
  <1> DEFINE Defines(h, j) == \A i \in j .. n + 1 : h[i] = Value(h, i)
             Good == {k \in Nat : k <= n => \E h : Defines(h, n + 1 - k)}
  <1>2. 0 \in Good
    <2>1. PICK v : v = Value(<<>>, n + 1)
      OBVIOUS
    <2>2. PICK h : h = [i \in {n + 1} |-> v]
      OBVIOUS
    <2>3. \A j \in n + 1 + 1 .. n + 1 : FALSE
      OBVIOUS
    <2>4. Value(h, n + 1) = v
      BY <1>1, <2>1, <2>3
    <2>5. n + 1 - 0 .. n + 1 = {n + 1}
      OBVIOUS
    <2>6. Defines(h, n + 1 - 0)
      BY <2>2, <2>4, <2>5
    <2> QED
      BY <2>6
  <1>3. ASSUME NEW k \in Nat, k \in Good PROVE k + 1 \in Good
    <2>1. k + 1 \in Nat
      OBVIOUS
    <2> SUFFICES ASSUME k + 1 <= n PROVE \E h : Defines(h, n + 1 - (k + 1))
      BY <2>1, Zenon
    <2>2. PICK j \in 1 .. n : j = n + 1 - (k + 1) /\ j + 1 = n + 1 - k
      OBVIOUS
    <2>3. PICK h : Defines(h, j + 1)
      BY <1>3, <2>2
    <2>4. PICK v : v = Value(h, j)
      OBVIOUS
    <2>5. PICK g : g = [i \in j .. n + 1 |-> IF i = j THEN v ELSE h[i]]
      OBVIOUS
    <2>6. \A i \in j + 1 .. n + 1 : g[i] = h[i]
      BY <2>5
    <2>7. ASSUME NEW i \in j .. n + 1 PROVE g[i] = Value(g, i)
      <3>1. i \in 1 .. n + 1 /\ \A m \in i + 1 .. n + 1 : m \in j + 1 .. n + 1
        OBVIOUS
      <3>2. Value(g, i) = Value(h, i)
        BY <1>1, <2>6, <3>1
      <3>3. CASE i = j
        BY <2>4, <2>5, <3>2, <3>3
      <3>4. CASE i # j
        <4>1. i \in j + 1 .. n + 1
          BY <3>4
        <4>2. h[i] = Value(h, i)
          BY <2>3, <4>1
        <4> QED
          BY <2>6, <3>2, <4>1, <4>2
      <3> QED
        BY <3>3, <3>4
    <2>8. Defines(g, j)
      BY <2>7
    <2> QED
      BY <2>2, <2>8
  <1>4. PICK h : Defines(h, 1)
    <2>1. n \in Good
      <3> HIDE DEF Good
      <3> QED
        BY <1>2, <1>3, Induction
    <2>2. n + 1 - n = 1 /\ n <= n
      OBVIOUS
    <2> QED
      BY <2>1, <2>2
  <1>5. PICK f : f = [i \in 1 .. n + 1 |-> h[i]]
    OBVIOUS
  <1>6. \A i \in 1 .. n + 1 : f[i] = Value(f, i)
    <2> SUFFICES ASSUME NEW i \in 1 .. n + 1 PROVE f[i] = Value(f, i)
      OBVIOUS
    <2>1. \A j \in i + 1 .. n + 1 : j \in 1 .. n + 1
      OBVIOUS
    <2>2. \A j \in i + 1 .. n + 1 : f[j] = h[j]
      BY <1>5, <2>1
    <2>3. Value(f, i) = Value(h, i)
      BY <1>1, <2>2
    <2> QED
      BY <1>4, <1>5, <2>3
  <1>7. Is(f)
    BY <1>5, <1>6
  <1>8. Is(decoded)
    <2> HIDE DEF Is
    <2> QED
      BY <1>7
  <1>9. DecodeParam(t) = decoded[1]
    BY DEF DecodeParam, Value
  <1> HIDE DEF decoded
  <1>10. \A i \in 1 .. n + 1 : decoded[i] = Value(decoded, i)
    <2> SUFFICES ASSUME NEW i \in 1 .. n + 1 PROVE decoded[i] = Value(decoded, i)
      OBVIOUS
    <2>1. i \in 1 .. Len(t) + 1
      OBVIOUS
    <2> QED
      BY <1>8, <2>1, Zenon
  <1>11. decoded[Len(t) + 1] = <<>>
    <2>1. n + 1 \in 1 .. n + 1 /\ n + 1 > Len(t)
      OBVIOUS
    <2> QED
      BY <1>10, <2>1 DEF Value
  <1>12. ASSUME NEW i \in 1 .. Len(t)
         PROVE  decoded[i] = IF t[i] = "%" /\ i + 2 <= Len(t)
                               THEN <<CharOf(SubSeq(t, i + 1, i + 2))>> \o decoded[i + 3]
                             ELSE <<t[i]>> \o decoded[i + 1]
    <2>1. i \in 1 .. n + 1 /\ ~(i > Len(t))
      OBVIOUS
    <2> QED
      BY <1>10, <2>1 DEF Value
  <1>13. Decoding(decoded, t)
    BY <1>9, <1>11, <1>12 DEF Decoding
  <1> QED
    BY <1>13

(* A code is read back.                                                    *)
LEMMA CodeBack ==
    ASSUME NEW x \in DOMAIN Hex
    PROVE  CharOf(Hex[x]) = x
  <1>1. \A c \in DOMAIN Hex : Hex[c] = Hex[x] => c = x
    BY DEF Hex
  <1> QED
    BY <1>1 DEF CharOf

(* How a symbol is written, symbol by symbol.                              *)
Codes(e, y) == IF y \in DOMAIN Hex
                THEN Len(e) = 3 /\ e[1] = "%" /\ CharOf(<<e[2], e[3]>>) = y
                ELSE Len(e) = 1 /\ e[1] = y /\ y # "%"

LEMMA CodeShape ==
    ASSUME NEW y
    PROVE  Codes(Encoded(y), y)
  <1>1. CASE y \in DOMAIN Hex
    <2>1. PICK p, q \in {"2", "5", "6", "3", "D", "0", "7"} : Hex[y] = <<p, q>>
      BY <1>1, HexTexts
    <2>2. Encoded(y) = <<"%", p, q>>
      <3>1. <<"%">> \o <<p, q>> = <<"%", p, q>>
        BY Triple
      <3> QED
        BY <1>1, <2>1, <3>1 DEF Encoded
    <2>3. CharOf(<<p, q>>) = y
      BY <1>1, <2>1, CodeBack
    <2> QED
      BY <1>1, <2>2, <2>3 DEF Codes
  <1>2. CASE y \notin DOMAIN Hex
    <2>1. "%" \in DOMAIN Hex
      BY DEF Hex
    <2>2. Encoded(y) = <<y>> /\ y # "%"
      BY <1>2, <2>1 DEF Encoded
    <2> QED
      BY <1>2, <2>2 DEF Codes
  <1> QED
    BY <1>1, <1>2

(* decode_param at the code of y, which is after x.                        *)
ReadOn(d, x, e, y) == d[Len(x) + 1] = Cons(y, d[Len(x) + Len(e) + 1])

LEMMA CodeRead ==
    ASSUME NEW S, NEW t \in Seq(S), NEW x \in Seq(S), NEW e \in Seq(S), NEW z \in Seq(S),
           t = Then(Then(x, e), z), NEW y, Codes(e, y), NEW d, Decoding(d, t)
    PROVE  ReadOn(d, x, e, y)
  <1>1. PICK m \in Nat : m = Len(x)
    BY LenProperties
  <1>2. PICK l \in Nat : l = Len(e) /\ l > 0
    BY LenProperties DEF Codes
  <1>3. PICK k \in Nat : k = Len(z)
    BY LenProperties
  <1>4. PICK s \in Seq(S) : s = Then(x, e) /\ Len(s) = m + l
                             /\ \A j \in 1 .. m + l : s[j] = IF j <= m THEN x[j] ELSE e[j - m]
    <2>1. /\ Then(x, e) \in Seq(S) /\ Len(Then(x, e)) = Len(x) + Len(e)
          /\ \A j \in 1 .. Len(x) + Len(e) :
                Then(x, e)[j] = IF j <= Len(x) THEN x[j] ELSE e[j - Len(x)]
      BY ThenType
    <2> QED
      BY <1>1, <1>2, <2>1
  <1>5. Len(t) = m + l + k /\ \A j \in 1 .. m + l : t[j] = s[j]
    <2>1. /\ Then(s, z) \in Seq(S) /\ Len(Then(s, z)) = Len(s) + Len(z)
          /\ \A j \in 1 .. Len(s) + Len(z) :
                Then(s, z)[j] = IF j <= Len(s) THEN s[j] ELSE z[j - Len(s)]
      BY ThenType
    <2> QED
      BY <1>3, <1>4, <2>1
  <1>6. ASSUME NEW j \in 1 .. l PROVE t[m + j] = e[j]
    <2>1. PICK i \in 1 .. m + l : i = m + j /\ ~(i <= m) /\ i - m = j
      OBVIOUS
    <2> QED
      BY <1>4, <1>5, <2>1
  <1>7. PICK i \in 1 .. m + l + k : i = m + 1
    BY <1>2
  <1>8. d[i] = IF t[i] = "%" /\ i + 2 <= Len(t)
                 THEN <<CharOf(SubSeq(t, i + 1, i + 2))>> \o d[i + 3]
               ELSE <<t[i]>> \o d[i + 1]
    BY <1>5 DEF Decoding
  <1>9. CASE y \in DOMAIN Hex
    <2>1. l = 3 /\ e[1] = "%" /\ CharOf(<<e[2], e[3]>>) = y
      BY <1>2, <1>9 DEF Codes
    <2>2. t[i] = "%" /\ t[i + 1] = e[2] /\ t[i + 2] = e[3] /\ i + 2 <= Len(t)
      <3>1. t[m + 1] = e[1] /\ t[m + 2] = e[2] /\ t[m + 3] = e[3]
        BY <1>6, <2>1
      <3>2. m + 2 = i + 1 /\ m + 3 = i + 2 /\ m + 1 = i
        BY <1>7
      <3> QED
        BY <1>5, <2>1, <3>1, <3>2
    <2>3. SubSeq(t, i + 1, i + 2) = <<e[2], e[3]>>
      <3>1. i + 1 \in Nat /\ i + 2 \in Nat /\ 0 < i + 1 /\ i + 1 <= i + 2 + 1
            /\ i + 2 + 1 - (i + 1) = 2 /\ 1 + (i + 1) - 1 = i + 1 /\ 2 + (i + 1) - 1 = i + 2
        OBVIOUS
      <3>2. PICK w : w = SubSeq(t, i + 1, i + 2)
        OBVIOUS
      <3>3. /\ w \in Seq(S) /\ Len(w) = i + 2 + 1 - (i + 1)
            /\ \A j \in 1 .. i + 2 + 1 - (i + 1) : w[j] = t[j + (i + 1) - 1]
        BY <2>2, <3>1, <3>2, Piece
      <3>4. \A j \in 1 .. 2 : w[j] = t[j + (i + 1) - 1]
        BY <3>1, <3>3
      <3>5. 1 \in 1 .. 2 /\ 2 \in 1 .. 2
        OBVIOUS
      <3>6. w[1] = e[2] /\ w[2] = e[3]
        BY <2>2, <3>1, <3>4, <3>5
      <3>7. 1 \in 1 .. l /\ 2 \in 1 .. Len(e) /\ 3 \in 1 .. Len(e)
        BY <1>2, <2>1
      <3>8. e[2] \in S /\ e[3] \in S
        BY <3>7, ElementOfSeq
      <3>9. <<e[2], e[3]>> \in Seq(S) /\ Len(<<e[2], e[3]>>) = 2
        BY <3>8
      <3>10. w = <<e[2], e[3]>>
        <4>1. \A j \in 1 .. 2 : w[j] = <<e[2], e[3]>>[j]
          BY <3>6
        <4> QED
          BY <3>1, <3>3, <3>9, <4>1, SeqEqual
      <3> QED
        BY <3>2, <3>10
    <2>4. d[i] = <<y>> \o d[i + 3]
      BY <1>8, <2>1, <2>2, <2>3
    <2>5. i + 3 = m + l + 1
      BY <1>7, <2>1
    <2> QED
      BY <1>1, <1>2, <1>7, <2>4, <2>5 DEF Cons, ReadOn
  <1>10. CASE y \notin DOMAIN Hex
    <2>1. l = 1 /\ e[1] = y /\ y # "%"
      BY <1>2, <1>10 DEF Codes
    <2>2. t[i] = y
      BY <1>6, <1>7, <2>1
    <2>3. d[i] = <<y>> \o d[i + 1]
      BY <1>8, <2>1, <2>2
    <2>4. i + 1 = m + l + 1
      BY <1>7, <2>1
    <2> QED
      BY <1>1, <1>2, <1>7, <2>3, <2>4 DEF Cons, ReadOn
  <1> QED
    BY <1>9, <1>10

(* What clients encode, the server decodes.                                *)
LEMMA DecodedBack ==
    ASSUME NEW S, NEW v \in Seq(S)
    PROVE  DecodeParam(Percent(v)) = v
  <1>1. PICK n \in Nat : n = Len(v) /\ DOMAIN v = 1 .. n
    BY LenProperties
  <1> DEFINE A == S \cup {"%", "2", "5", "6", "3", "D", "0", "7"}
  <1>2. PICK E : E = [i \in DOMAIN v |-> Encoded(v[i])]
    OBVIOUS
  <1>3. \A i \in 1 .. n : E[i] \in Seq(A) /\ E[i] = Encoded(v[i])
    <2> SUFFICES ASSUME NEW i \in 1 .. n PROVE E[i] \in Seq(A) /\ E[i] = Encoded(v[i])
      OBVIOUS
    <2>1. PICK x \in S : x = v[i]
      BY <1>1, ElementOfSeq
    <2>2. E[i] = Encoded(x)
      BY <1>1, <1>2, <2>1
    <2>3. CASE x \in DOMAIN Hex
      <3>1. PICK p, q \in {"2", "5", "6", "3", "D", "0", "7"} : Hex[x] = <<p, q>>
        BY <2>3, HexTexts
      <3>2. Encoded(x) = <<"%", p, q>>
        <4>1. <<"%">> \o <<p, q>> = <<"%", p, q>>
          BY Triple
        <4> QED
          BY <2>3, <3>1, <4>1 DEF Encoded
      <3> QED
        BY <2>1, <2>2, <3>2
    <2>4. CASE x \notin DOMAIN Hex
      <3>1. Encoded(x) = <<x>>
        BY <2>4 DEF Encoded
      <3> QED
        BY <2>1, <2>2, <3>1
    <2> QED
      BY <2>1, <2>2, <2>3, <2>4
  <1> HIDE DEF A
  <1>4. E \in Seq(Seq(A)) /\ Len(E) = n
    <2>1. E \in [1 .. n -> Seq(A)]
      BY <1>1, <1>2, <1>3
    <2> QED
      BY <2>1, FlatText
  <1>5. PICK t \in Seq(A) : t = Percent(v) /\ t = FlattenSeq(E)
    <2>1. Percent(v) = FlattenSeq(E)
      BY <1>2 DEF Percent, Encoded
    <2>2. E \in [1 .. n -> Seq(A)]
      BY <1>1, <1>2, <1>3
    <2> QED
      BY <2>1, <2>2, FlatText
  <1>6. PICK d : Decoding(d, t)
    <2>1. PICK m \in Nat : m = Len(t)
      BY LenProperties
    <2> QED
      BY <2>1, DecodingExists
  <1> DEFINE G(k) == FlattenSeq(SubSeq(E, k + 1, n))
             Good == {m \in Nat : m <= n =>
                        \A x \in Seq(A) : t = Then(x, G(n - m)) =>
                           d[Len(x) + 1] = SubSeq(v, n - m + 1, n)}
  <1>7. 0 \in Good
    <2> SUFFICES ASSUME NEW x \in Seq(A), t = Then(x, G(n - 0))
                 PROVE  d[Len(x) + 1] = SubSeq(v, n - 0 + 1, n)
      OBVIOUS
    <2>1. SubSeq(E, n - 0 + 1, n) = <<>> /\ SubSeq(v, n - 0 + 1, n) = <<>>
      BY SubSeqEmpty
    <2>2. t = x
      BY <2>1, FlatNone, ConcatEmptySeq DEF Then
    <2> QED
      BY <1>6, <2>1, <2>2 DEF Decoding
  <1>8. ASSUME NEW m \in Nat, m \in Good PROVE m + 1 \in Good
    <2>1. m + 1 \in Nat
      OBVIOUS
    <2> SUFFICES ASSUME m + 1 <= n, NEW x \in Seq(A), t = Then(x, G(n - (m + 1)))
                 PROVE  d[Len(x) + 1] = SubSeq(v, n - (m + 1) + 1, n)
      BY <2>1, Zenon
    <2>2. PICK k \in 1 .. n : k = n - (m + 1) + 1 /\ k = n - m
      OBVIOUS
    <2>3. PICK y \in S : y = v[k] /\ SubSeq(v, k, n) = Cons(y, SubSeq(v, k + 1, n))
      BY <1>1, <2>2, EndShrinks
    <2>4. PICK e \in Seq(A) : e = E[k] /\ Codes(e, y)
      BY <1>3, <2>3, CodeShape
    <2>5. PICK r \in Seq(Seq(A)) : r = SubSeq(E, k + 1, n) /\ SubSeq(E, k, n) = Cons(e, r)
      BY <1>4, <2>2, <2>4, EndShrinks
    <2>6. PICK z \in Seq(A) : z = FlattenSeq(r) /\ FlattenSeq(Cons(e, r)) = Then(e, z)
      <3>1. FlattenSeq(r) \in Seq(A)
        BY FlatCons
      <3>2. FlattenSeq(Cons(e, r)) = Then(e, FlattenSeq(r))
        BY FlatCons
      <3> QED
        BY <3>1, <3>2
    <2>7. t = Then(x, Then(e, z))
      BY <2>2, <2>5, <2>6
    <2>8. t = Then(Then(x, e), z)
      BY <2>7, ThenThen
    <2>9. PICK u \in Seq(A) : u = Then(x, e) /\ Len(u) = Len(x) + Len(e)
      BY ThenType
    <2>10. z = G(n - m)
      BY <2>2, <2>5, <2>6
    <2>11. d[Len(u) + 1] = SubSeq(v, n - m + 1, n)
      <3>1. m <= n
        OBVIOUS
      <3> QED
        BY <1>8, <2>8, <2>9, <2>10, <3>1
    <2>12. d[Len(x) + 1] = Cons(y, d[Len(x) + Len(e) + 1])
      <3>1. ReadOn(d, x, e, y)
        BY <1>6, <2>4, <2>8, CodeRead
      <3> QED
        BY <3>1 DEF ReadOn
    <2> QED
      BY <2>2, <2>3, <2>9, <2>11, <2>12
  <1>9. n \in Good
    <2> HIDE DEF Good
    <2> QED
      BY <1>7, <1>8, Induction
  <1>10. PICK x \in Seq(A) : x = <<>> /\ Len(x) = 0
    BY EmptySeq
  <1>11. t = Then(x, G(n - n))
    <2>1. n - n + 1 = 1
      OBVIOUS
    <2>2. SubSeq(E, 1, n) = E
      BY <1>4, SubSeqFull
    <2>3. Then(x, t) = t
      BY <1>10, ConcatEmptySeq DEF Then
    <2> QED
      BY <1>5, <2>1, <2>2, <2>3
  <1>12. d[Len(x) + 1] = SubSeq(v, n - n + 1, n)
    <2>1. n <= n
      OBVIOUS
    <2> QED
      BY <1>9, <1>11, <2>1
  <1>13. SubSeq(v, n - n + 1, n) = v
    <2>1. n - n + 1 = 1
      OBVIOUS
    <2> QED
      BY <1>1, <2>1, SubSeqFull
  <1>14. d[Len(x) + 1] = d[1]
    BY <1>10
  <1> QED
    BY <1>5, <1>6, <1>12, <1>13, <1>14 DEF Decoding

(* A text over S without c has no c in it.                                 *)
LEMMA FreeOf ==
    ASSUME NEW S, NEW c, NEW t \in Seq(S \ {c})
    PROVE  RunFree(t, c, Len(t)) /\ t \in Seq(S)
  <1>1. t \in Seq(S)
    <2>1. S \ {c} \subseteq S
      OBVIOUS
    <2> QED
      BY <2>1, WiderSeq
  <1>2. \A i \in 1 .. Len(t) : t[i] \in S \ {c}
    BY ElementOfSeq
  <1> QED
    BY <1>1, <1>2 DEF RunFree

(* What is joined by a symbol is split at it.                              *)
Jointed(texts, c) == [i \in DOMAIN texts |-> (IF i = 1 THEN <<>> ELSE <<c>>) \o texts[i]]

LEMMA JoinSplit ==
    ASSUME NEW S, NEW c \in S, NEW texts \in Seq(Seq(S \ {c})), Len(texts) > 0
    PROVE  Split(Join(texts, <<c>>), <<c>>) = texts /\ Join(texts, <<c>>) \in Seq(S)
  <1>1. PICK n \in Nat : n = Len(texts) /\ DOMAIN texts = 1 .. n
    BY LenProperties
  <1>2. PICK d \in Seq(S) : d = <<c>> /\ Len(d) = 1
    <2>1. <<c>> \in Seq(S) /\ Len(<<c>>) = 1
      OBVIOUS
    <2> QED
      BY <2>1
  <1>3. \A i \in 1 .. n : texts[i] \in Seq(S \ {c}) /\ texts[i] \in Seq(S)
    <2>1. \A i \in 1 .. n : texts[i] \in Seq(S \ {c})
      BY <1>1, ElementOfSeq
    <2> QED
      BY <2>1, FreeOf
  <1>4. texts \in Seq(Seq(S))
    BY <1>1, <1>3
  <1>5. PICK p \in Seq(Seq(S)) : p = Jointed(texts, c) /\ Len(p) = n
    <2>1. \A i \in 1 .. n : (IF i = 1 THEN <<>> ELSE <<c>>) \o texts[i] \in Seq(S)
      <3>1. ASSUME NEW i \in 1 .. n PROVE (IF i = 1 THEN <<>> ELSE <<c>>) \o texts[i] \in Seq(S)
        <4>1. PICK x \in Seq(S) : x = texts[i]
          BY <1>3
        <4>2. <<>> \o x = x
          BY ConcatEmptySeq
        <4>3. d \o x \in Seq(S)
          BY ConcatProperties
        <4> QED
          BY <1>2, <4>1, <4>2, <4>3
      <3> QED
        BY <3>1
    <2>2. Jointed(texts, c) \in [1 .. n -> Seq(S)]
      BY <1>1, <2>1 DEF Jointed
    <2> QED
      BY <2>2, FlatText
  <1>6. \A i \in 1 .. n : p[i] = IF i = 1 THEN texts[i] ELSE Then(d, texts[i])
    <2>1. \A i \in 1 .. n : <<>> \o texts[i] = texts[i]
      BY <1>3, ConcatEmptySeq
    <2> QED
      BY <1>1, <1>2, <1>5, <2>1 DEF Jointed, Then
  <1>7. Join(texts, <<c>>) = FlattenSeq(p)
    <2>1. texts # <<>>
      BY <1>1
    <2> QED
      BY <1>5, <2>1 DEF Join, Jointed
  <1> DEFINE Flat(j) == FlattenSeq(SubSeq(p, 1, j))
             Good == {j \in Nat : j + 1 <= n => Split(Flat(j + 1), d) = SubSeq(texts, 1, j + 1)}
  <1>8. 0 \in Good
    <2>1. 0 + 1 <= Len(p) /\ 0 + 1 <= Len(texts) /\ 0 + 1 = 1 /\ 1 \in 1 .. n
      BY <1>1, <1>5
    <2>2. SubSeq(p, 1, 0) = <<>> /\ SubSeq(texts, 1, 0) = <<>>
      BY SubSeqEmpty
    <2>3. PICK y \in Seq(S) : y = texts[1] /\ y \in Seq(S \ {c})
      BY <1>3, <2>1
    <2>4. /\ p[0 + 1] \in Seq(S) /\ SubSeq(p, 1, 0 + 1) = Then(SubSeq(p, 1, 0), <<p[0 + 1]>>)
      BY <2>1, BeginningGrows
    <2>5. SubSeq(texts, 1, 0 + 1) = Then(SubSeq(texts, 1, 0), <<texts[0 + 1]>>)
      BY <1>4, <2>1, BeginningGrows
    <2>6. Then(<<>>, <<y>>) = <<y>>
      <3>1. <<y>> \in Seq(Seq(S))
        OBVIOUS
      <3> QED
        BY <3>1, ConcatEmptySeq DEF Then
    <2>7. p[1] = y
      BY <1>6, <2>1, <2>3
    <2>8. FlattenSeq(<<y>>) = y
      <3>1. PICK e \in Seq(Seq(S)) : e = <<>>
        BY EmptySeq
      <3> QED
        BY <3>1, FlatCons
    <2>9. Split(y, <<c>>) = <<y>>
      BY <2>3, FreeOf, SplitPlain
    <2> QED
      BY <1>2, <2>1, <2>2, <2>3, <2>4, <2>5, <2>6, <2>7, <2>8, <2>9
  <1>9. ASSUME NEW k \in Nat, k \in Good PROVE k + 1 \in Good
    <2>1. k + 1 \in Nat
      OBVIOUS
    <2> SUFFICES ASSUME k + 1 + 1 <= n
                 PROVE  Split(Flat(k + 1 + 1), d) = SubSeq(texts, 1, k + 1 + 1)
      BY <2>1, Zenon
    <2>2. PICK j \in Nat : j = k + 1 /\ j + 1 <= n /\ j + 1 # 1
      OBVIOUS
    <2>3. PICK i \in 1 .. n : i = j + 1
      BY <2>2
    <2>4. /\ SubSeq(p, 1, j) \in Seq(Seq(S)) /\ p[j + 1] \in Seq(S)
          /\ SubSeq(p, 1, j + 1) = Append(SubSeq(p, 1, j), p[j + 1])
      <3>1. j + 1 <= Len(p)
        BY <1>5, <2>2
      <3> QED
        BY <3>1, BeginningGrows
    <2>5. /\ SubSeq(texts, 1, j) \in Seq(Seq(S))
          /\ SubSeq(texts, 1, j + 1) = Then(SubSeq(texts, 1, j), <<texts[j + 1]>>)
      <3>1. j + 1 <= Len(texts)
        BY <1>1, <2>2
      <3> QED
        BY <1>4, <3>1, BeginningGrows
    <2>6. PICK x \in Seq(S) : x = Flat(j)
      BY <2>4, FlatAppend
    <2>7. PICK y \in Seq(S) : y = texts[i] /\ y \in Seq(S \ {c})
      BY <1>3
    <2>8. Flat(j + 1) = Then(Then(x, d), y)
      <3>1. Flat(j + 1) = Then(x, p[i])
        BY <2>3, <2>4, <2>6, FlatAppend
      <3>2. p[i] = Then(d, y)
        BY <1>6, <2>2, <2>3, <2>7
      <3>3. Then(Then(x, d), y) = Then(x, Then(d, y))
        BY ThenThen
      <3> QED
        BY <3>1, <3>2, <3>3
    <2>9. Split(Then(Then(x, d), y), d) = Then(Split(x, d), Split(y, d))
      <3>1. Len(d) > 0
        BY <1>2
      <3>2. \A m \in 1 .. Len(x) : m + Len(d) - 1 <= Len(x)
        <4>1. PICK l \in Nat : l = Len(x)
          BY LenProperties
        <4> QED
          BY <1>2, <4>1
      <3>3. PICK t : t = Then(Then(x, d), y)
        OBVIOUS
      <3> QED
        BY <3>1, <3>2, <3>3, SplitAppend
    <2>10. Split(y, d) = <<y>>
      BY <1>2, <2>7, FreeOf, SplitPlain
    <2>11. Split(x, d) = SubSeq(texts, 1, j)
      <3>1. k + 1 <= n
        OBVIOUS
      <3> QED
        BY <1>9, <2>2, <2>6, <3>1
    <2> QED
      BY <2>2, <2>3, <2>5, <2>7, <2>8, <2>9, <2>10, <2>11
  <1>10. \A k \in Nat : k \in Good
    <2> HIDE DEF Good
    <2> QED
      BY <1>8, <1>9, Induction
  <1>11. PICK k \in Nat : k + 1 = n
    <2>1. n - 1 \in Nat /\ n - 1 + 1 = n
      BY <1>1
    <2> QED
      BY <2>1
  <1>12. Split(Flat(k + 1), d) = SubSeq(texts, 1, k + 1)
    BY <1>10, <1>11
  <1>13. SubSeq(p, 1, k + 1) = p /\ SubSeq(texts, 1, k + 1) = texts
    BY <1>1, <1>5, <1>11, SubSeqFull
  <1>14. FlattenSeq(p) \in Seq(S)
    BY FlatAppend
  <1> QED
    BY <1>2, <1>7, <1>12, <1>13, <1>14

(* What clients write of a value has the symbols of codes, and those that  *)
(* need no code.                                                           *)
CodeSymbols == {"%", "2", "5", "6", "3", "D", "0", "7"}

LEMMA PercentType ==
    ASSUME NEW S, NEW A, CodeSymbols \subseteq A, S \ DOMAIN Hex \subseteq A, NEW v \in Seq(S)
    PROVE  Percent(v) \in Seq(A)
  <1>1. PICK n \in Nat : n = Len(v) /\ DOMAIN v = 1 .. n
    BY LenProperties
  <1>2. \A i \in 1 .. n : v[i] \in S
    BY <1>1, ElementOfSeq
  <1>3. ASSUME NEW x \in S PROVE Encoded(x) \in Seq(A)
    <2>1. CASE x \in DOMAIN Hex
      <3>1. PICK p, q \in {"2", "5", "6", "3", "D", "0", "7"} : Hex[x] = <<p, q>>
        BY <2>1, HexTexts
      <3>2. p \in A /\ q \in A /\ "%" \in A
        BY <3>1 DEF CodeSymbols
      <3>3. <<"%", p, q>> \in Seq(A)
        BY <3>2, Words, Zenon
      <3>4. <<"%">> \o <<p, q>> = <<"%", p, q>>
        BY Triple
      <3> QED
        BY <2>1, <3>1, <3>3, <3>4 DEF Encoded
    <2>2. CASE x \notin DOMAIN Hex
      <3>1. x \in A
        BY <2>2
      <3>2. <<x>> \in Seq(A)
        BY <3>1, Words, Zenon
      <3> QED
        BY <2>2, <3>2 DEF Encoded
    <2> QED
      BY <2>1, <2>2
  <1>4. PICK s : s = [i \in DOMAIN v |-> Encoded(v[i])]
    OBVIOUS
  <1>5. s \in [1 .. n -> Seq(A)]
    BY <1>1, <1>2, <1>3, <1>4
  <1>6. Percent(v) = FlattenSeq(s)
    BY <1>4 DEF Percent, Encoded
  <1> QED
    BY <1>5, <1>6, FlatText, ZenonT(60)

(* The words of a query.                                                   *)
WordOf(f)  == f.name \o <<"=">> \o Percent(f.value)
WordsOf(c) == [i \in DOMAIN c.fields |-> WordOf(c.fields[i])]

(* How names are written.                                                  *)
LEMMA NameText ==
    ASSUME NEW c \in Clients, NEW i \in 1 .. Len(c.fields), NEW x \in Reserved
    PROVE  /\ c.fields[i].name \in Seq(Alphabet(c) \ {x})
           /\ c.fields[i].filename \in Seq(Alphabet(c) \ {x})
  <1>1. PICK f : f = c.fields[i]
    OBVIOUS
  <1>2. f \in ToSet(c.fields) /\ FieldsWritten(c)
    BY <1>1, FieldTexts, ClientsAssumption
  <1>3. /\ IsText(f.name) /\ IsText(f.filename)
        /\ x \notin ToSet(f.name) /\ x \notin ToSet(f.filename)
    BY <1>2 DEF FieldsWritten
  <1>4. PICK T : T = ToSet(f.name) \cup ToSet(f.value) \cup ToSet(f.filename)
    OBVIOUS
  <1>5. T \subseteq Alphabet(c)
    <2>1. T \in {ToSet(g.name) \cup ToSet(g.value) \cup ToSet(g.filename) : g \in ToSet(c.fields)}
      BY <1>2, <1>4
    <2> QED
      BY <2>1, Zenon DEF Alphabet
  <1>6. PICK S : S = Alphabet(c)
    OBVIOUS
  <1>7. ToSet(f.name) \subseteq S \ {x} /\ ToSet(f.filename) \subseteq S \ {x}
    BY <1>3, <1>4, <1>5, <1>6
  <1> QED
    BY <1>1, <1>3, <1>6, <1>7, WiderSeq DEF IsText

(* A word is read as what it was made of.                                  *)
WordRead(f) == \A m : ParseParam(m, WordOf(f)) = TryEmplace(m, f.name, f.value)

LEMMA WordShape ==
    ASSUME NEW c \in Clients, NEW i \in 1 .. Len(c.fields)
    PROVE  WordOf(c.fields[i]) \in Seq(Alphabet(c) \ {"&"}) /\ WordRead(c.fields[i])
  <1>1. PICK f : f = c.fields[i]
    OBVIOUS
  <1>2. PICK S : S = Alphabet(c)
    OBVIOUS
  <1>3. "=" \in S /\ CodeSymbols \subseteq S
    BY <1>2 DEF Alphabet, CodeSymbols
  <1>4. "=" \in Reserved /\ "&" \in Reserved
    BY DEF Reserved
  <1>5. PICK w \in Seq(S) : w = f.name /\ w \in Seq(S \ {"&"}) /\ RunFree(w, "=", Len(w))
    <2>1. f.name \in Seq(S \ {"="}) /\ f.name \in Seq(S \ {"&"})
      BY <1>1, <1>2, <1>4, NameText
    <2> QED
      BY <2>1, FreeOf
  <1>6. PICK v \in Seq(S) : v = f.value
    BY <1>1, <1>2, FieldTexts
  <1>7. PICK p \in Seq(S) : p = Percent(v) /\ p \in Seq(S \ {"&"})
    <2>1. CodeSymbols \subseteq S \ {"&"} /\ S \ DOMAIN Hex \subseteq S \ {"&"}
      BY <1>3 DEF CodeSymbols, Hex
    <2>2. Percent(v) \in Seq(S \ {"&"})
      BY <2>1, PercentType
    <2> QED
      BY <2>2, FreeOf
  <1>8. WordOf(f) = Cat(w, "=", p)
    BY <1>5, <1>6, <1>7 DEF WordOf, Cat
  <1>9. Cat(w, "=", p) \in Seq(S \ {"&"})
    <2>1. <<"=">> \in Seq(S \ {"&"})
      <3>1. "=" \in S \ {"&"}
        BY <1>3
      <3> QED
        BY <3>1, Words, Zenon
    <2> QED
      BY <1>5, <1>7, <2>1, ConcatProperties DEF Cat
  <1>10. PICK t : t = Cat(w, "=", p)
    OBVIOUS
  <1>11. Occurs(t, <<"=">>) # {} /\ Before(t, <<"=">>) = w /\ After(t, <<"=">>) = p
    BY <1>3, <1>5, <1>10, CutAt
  <1>12. DecodeParam(p) = v
    BY <1>7, DecodedBack
  <1>13. WordRead(f)
    BY <1>5, <1>6, <1>8, <1>10, <1>11, <1>12 DEF WordRead, ParseParam
  <1> QED
    BY <1>1, <1>2, <1>8, <1>9, <1>13

(* parse_params goes through its words.                                    *)
Reading(g, n, t) ==
    /\ g[0] = NoEntries
    /\ \A i \in 1 .. n : g[i] = ParseParam(g[i - 1], t[i])
    /\ FoldLeft(ParseParam, NoEntries, t) = g[n]

LEMMA WordSteps ==
    ASSUME NEW n \in Nat, NEW t, DOMAIN t = 1 .. n, NEW T, NoEntries \in T,
           \A x \in T : \A i \in 1 .. n : ParseParam(x, t[i]) \in T
    PROVE  \E g : Reading(g, n, t)
  <1> DEFINE Next1(x, i) == ParseParam(x, t[i])
             O == [p \in T \X (1 .. n) |-> Next1(p[1], p[2])]
             Is(f) == f = [s \in SUBSET (DOMAIN t) |->
                             IF s = {} THEN NoEntries ELSE Next1(f[s \ {Max(s)}], Max(s))]
             iter == CHOOSE f : Is(f)
             g == [i \in 0 .. n |-> iter[1 .. i]]
  <1>1. FoldLeft(ParseParam, NoEntries, t) = iter[DOMAIN t]
    BY DEF FoldLeft, MapThenFoldSet
  <1>2. \A x \in T : \A i \in 1 .. n : Next1(x, i) \in T
    OBVIOUS
  <1>3. \A x, i : Next1(x, i) = ParseParam(x, t[i])
    OBVIOUS
  <1> HIDE DEF Next1
  <1>4. O \in [T \X (1 .. n) -> T]
    BY <1>2
  <1>5. PICK f : IsFold(f, n, T, NoEntries, O)
    <2> HIDE DEF O
    <2> QED
      BY <1>4, FoldExists
  <1>6. Is(f)
    <2>1. ASSUME NEW s \in SUBSET (1 .. n), s # {}
          PROVE  f[s] = Next1(f[s \ {Max(s)}], Max(s))
      <3>1. Max(s) \in 1 .. n
        BY <2>1, LargestOf
      <3>2. <<f[s \ {Max(s)}], Max(s)>> \in T \X (1 .. n)
        <4>1. f[s \ {Max(s)}] \in T
          BY <1>5, <2>1 DEF IsFold
        <4> QED
          BY <3>1, <4>1
      <3> QED
        BY <1>5, <2>1, <3>2 DEF IsFold
    <2> QED
      BY <1>5, <2>1 DEF IsFold
  <1>7. Is(iter)
    <2> HIDE DEF Is
    <2> QED
      BY <1>6
  <1> HIDE DEF iter
  <1>8. g[0] = NoEntries
    <2>1. 1 .. 0 = {} /\ {} \in SUBSET (DOMAIN t)
      OBVIOUS
    <2> QED
      BY <1>7, <2>1
  <1>9. ASSUME NEW i \in 1 .. n PROVE g[i] = ParseParam(g[i - 1], t[i])
    <2>1. iter[1 .. i] = Next1(iter[(1 .. i) \ {Max(1 .. i)}], Max(1 .. i))
      BY <1>7, Segments
    <2>2. iter[1 .. i] = Next1(iter[1 .. (i - 1)], i)
      BY <2>1, Segments
    <2> QED
      BY <1>3, <2>2
  <1>10. FoldLeft(ParseParam, NoEntries, t) = g[n]
    BY <1>1
  <1> HIDE DEF g
  <1>11. Reading(g, n, t)
    BY <1>8, <1>9, <1>10 DEF Reading
  <1> QED
    BY <1>11

(* An entry is added unless its name has one.                              *)
Emplaced(p, m, name, value) ==
    /\ DOMAIN p = DOMAIN m \cup {name} /\ \A x \in DOMAIN m : p[x] = m[x]
    /\ name \notin DOMAIN m => p[name] = value

LEMMA EntryFirst ==
    ASSUME NEW m, NEW name, NEW value
    PROVE  Emplaced(TryEmplace(m, name, value), m, name, value)
  BY DEF Emplaced, TryEmplace, Put

(* The map has an entry for each of the first k fields, with the value of  *)
(* the first that has the name.                                            *)
IsFirst(s, i) == \A j \in 1 .. Len(s) : s[j].name = s[i].name => j >= i

FirstKept(m, s, k) ==
    /\ \A x : x \in DOMAIN m <=> \E i \in 1 .. k : x = s[i].name
    /\ \A i \in 1 .. k : IsFirst(s, i) => m[s[i].name] = s[i].value

LEMMA FirstStep ==
    ASSUME NEW s, NEW n \in Nat, n = Len(s), NEW k \in Nat, k + 1 <= n, NEW m, FirstKept(m, s, k)
    PROVE  FirstKept(TryEmplace(m, s[k + 1].name, s[k + 1].value), s, k + 1)
  <1>1. PICK y : y = s[k + 1]
    OBVIOUS
  <1>2. PICK p : p = TryEmplace(m, y.name, y.value)
    OBVIOUS
  <1>3. /\ DOMAIN p = DOMAIN m \cup {y.name} /\ \A x \in DOMAIN m : p[x] = m[x]
        /\ y.name \notin DOMAIN m => p[y.name] = y.value
    <2>1. Emplaced(p, m, y.name, y.value)
      BY <1>2, EntryFirst
    <2> QED
      BY <2>1 DEF Emplaced
  <1>4. \A i : i \in 1 .. k + 1 <=> i \in 1 .. k \/ i = k + 1
    OBVIOUS
  <1>5. \A x : x \in DOMAIN m <=> \E i \in 1 .. k : x = s[i].name
    BY DEF FirstKept
  <1>6. \A x : x \in DOMAIN p <=> \E i \in 1 .. k + 1 : x = s[i].name
    BY <1>1, <1>3, <1>4, <1>5
  <1>7. ASSUME NEW i \in 1 .. k + 1, IsFirst(s, i) PROVE p[s[i].name] = s[i].value
    <2>1. CASE i \in 1 .. k
      <3>1. s[i].name \in DOMAIN m /\ m[s[i].name] = s[i].value
        BY <1>5, <1>7, <2>1 DEF FirstKept
      <3> QED
        BY <1>3, <3>1
    <2>2. CASE i = k + 1
      <3>1. \A j \in 1 .. k : j \in 1 .. Len(s) /\ ~(j >= k + 1)
        OBVIOUS
      <3>2. \A j \in 1 .. k : s[j].name # y.name
        BY <1>1, <1>7, <2>2, <3>1 DEF IsFirst
      <3>3. y.name \notin DOMAIN m
        BY <1>5, <3>2
      <3> QED
        BY <1>1, <1>3, <2>2, <3>3
    <2> QED
      BY <1>4, <2>1, <2>2
  <1> QED
    BY <1>1, <1>2, <1>6, <1>7 DEF FirstKept

(* parse_query_string keeps the first of each name.                        *)
LEMMA WordsKept ==
    ASSUME NEW c \in Clients
    PROVE  FirstKept(FoldLeft(ParseParam, NoEntries, WordsOf(c)), c.fields, Len(c.fields))
  <1>1. PICK n \in Nat : n = Len(c.fields) /\ DOMAIN c.fields = 1 .. n
    BY FieldTexts, LenProperties
  <1>2. PICK s : s = c.fields
    OBVIOUS
  <1>3. PICK t : t = WordsOf(c)
    OBVIOUS
  <1>4. DOMAIN t = 1 .. n /\ \A i \in 1 .. n : t[i] = WordOf(s[i])
    BY <1>1, <1>2, <1>3 DEF WordsOf
  <1>5. \A i \in 1 .. n : \A m : ParseParam(m, t[i]) = TryEmplace(m, s[i].name, s[i].value)
    BY <1>1, <1>2, <1>4, WordShape DEF WordRead
  <1>6. PICK N : N = {s[i].name : i \in 1 .. n}
    OBVIOUS
  <1>7. PICK V : V = {s[i].value : i \in 1 .. n}
    OBVIOUS
  <1>8. \A m \in Maps(N, V) : \A i \in 1 .. n : ParseParam(m, t[i]) \in Maps(N, V)
    <2> SUFFICES ASSUME NEW m \in Maps(N, V), NEW i \in 1 .. n
                 PROVE  ParseParam(m, t[i]) \in Maps(N, V)
      OBVIOUS
    <2>1. PICK x \in N : x = s[i].name
      BY <1>6
    <2>2. PICK v \in V : v = s[i].value
      BY <1>7
    <2>3. TryEmplace(m, x, v) \in Maps(N, V)
      BY MapEntry
    <2> QED
      BY <1>5, <2>1, <2>2, <2>3
  <1>9. NoEntries \in Maps(N, V)
    <2>1. NoEntries \in [{} -> V] /\ {} \in SUBSET N
      BY DEF NoEntries
    <2> QED
      BY <2>1 DEF Maps
  <1>10. PICK g : Reading(g, n, t)
    <2>1. PICK T : T = Maps(N, V)
      OBVIOUS
    <2>2. NoEntries \in T /\ \A x \in T : \A i \in 1 .. n : ParseParam(x, t[i]) \in T
      BY <1>8, <1>9, <2>1
    <2> QED
      BY <1>4, <2>2, WordSteps
  <1> DEFINE Good == {k \in Nat : k <= n => FirstKept(g[k], s, k)}
  <1>11. 0 \in Good
    <2>1. g[0] = NoEntries /\ DOMAIN NoEntries = {}
      BY <1>10 DEF Reading, NoEntries
    <2>2. \A i : i \notin 1 .. 0
      OBVIOUS
    <2>3. FirstKept(g[0], s, 0)
      BY <2>1, <2>2 DEF FirstKept
    <2> QED
      BY <2>3
  <1>12. ASSUME NEW k \in Nat, k \in Good PROVE k + 1 \in Good
    <2>1. k + 1 \in Nat
      OBVIOUS
    <2> SUFFICES ASSUME k + 1 <= n PROVE FirstKept(g[k + 1], s, k + 1)
      BY <2>1, Zenon
    <2>2. PICK i \in 1 .. n : i = k + 1 /\ i - 1 = k
      OBVIOUS
    <2>3. g[i] = ParseParam(g[i - 1], t[i])
      BY <1>10 DEF Reading
    <2>4. g[k + 1] = TryEmplace(g[k], s[k + 1].name, s[k + 1].value)
      BY <1>5, <2>2, <2>3
    <2>5. FirstKept(g[k], s, k)
      <3>1. k <= n
        OBVIOUS
      <3> QED
        BY <1>12, <3>1
    <2> QED
      BY <1>1, <1>2, <2>4, <2>5, FirstStep
  <1>13. n \in Good
    <2> HIDE DEF Good
    <2> QED
      BY <1>11, <1>12, Induction
  <1>14. n <= n /\ FoldLeft(ParseParam, NoEntries, t) = g[n]
    BY <1>10 DEF Reading
  <1>15. FirstKept(g[n], s, n)
    BY <1>13, <1>14
  <1> QED
    BY <1>1, <1>2, <1>3, <1>14, <1>15

(* What a query becomes.                                                   *)
LEMMA QueryRead ==
    ASSUME NEW c \in Clients, c.encoding \in {"none", "query"}, c.defect # "line"
    PROVE  FirstKept(ParseQueryString(SeenTarget(c)), c.fields, Len(c.fields))
  <1>1. PICK n \in Nat : n = Len(c.fields) /\ DOMAIN c.fields = 1 .. n
    BY FieldTexts, LenProperties
  <1>2. c.encoding = "none" => c.fields = <<>>
    BY ClientsAssumption DEF FieldsWritten
  <1>3. c.fields = <<>> => FirstKept(NoEntries, c.fields, Len(c.fields))
    <2>1. DOMAIN NoEntries = {} /\ Len(<<>>) = 0 /\ \A i : i \notin 1 .. 0
      BY DEF NoEntries
    <2> QED
      BY <2>1 DEF FirstKept
  <1>4. CASE c.encoding = "none"
    <2>1. Occurs(SeenTarget(c), <<"?">>) = {}
      BY <1>4, TargetPath
    <2> QED
      BY <1>2, <1>3, <1>4, <2>1 DEF ParseQueryString
  <1>5. CASE c.encoding = "query"
    <2>1. ParseQueryString(SeenTarget(c)) =
             FoldLeft(ParseParam, NoEntries, Split(QueryOf(c), <<"&">>))
      BY <1>5, TargetPath DEF ParseQueryString
    <2>2. CASE c.fields = <<>>
      <3>1. QueryOf(c) = <<>>
        <4>1. DOMAIN c.fields = {}
          BY <2>2
        <4>2. WordsOf(c) = <<>>
          BY <4>1 DEF WordsOf
        <4> QED
          BY <4>2 DEF QueryOf, WordsOf, WordOf, Join
      <3>2. PICK e \in Seq({"&"}) : e = <<>> /\ Len(e) = 0
        BY EmptySeq
      <3>3. Split(e, <<"&">>) = <<e>>
        <4>1. RunFree(e, "&", Len(e))
          BY <3>2 DEF RunFree
        <4> QED
          BY <4>1, SplitPlain
      <3>4. PICK t : t = <<e>>
        OBVIOUS
      <3>5. DOMAIN t = 1 .. 1 /\ t[1] = e
        BY <3>4
      <3>6. \A m : ParseParam(m, e) = m
        <4>1. Occurs(e, <<"=">>) = {}
          BY <3>2 DEF Occurs
        <4> QED
          BY <4>1 DEF ParseParam
      <3>7. PICK g : Reading(g, 1, t)
        <4>1. \A x \in {NoEntries} : \A i \in 1 .. 1 : ParseParam(x, t[i]) \in {NoEntries}
          BY <3>5, <3>6
        <4>2. PICK T : T = {NoEntries}
          OBVIOUS
        <4>3. NoEntries \in T /\ \A x \in T : \A i \in 1 .. 1 : ParseParam(x, t[i]) \in T
          BY <4>1, <4>2
        <4>4. PICK one \in Nat : one = 1
          OBVIOUS
        <4>5. \E h : Reading(h, one, t)
          BY <3>5, <4>3, <4>4, WordSteps
        <4> QED
          BY <4>4, <4>5
      <3>8. FoldLeft(ParseParam, NoEntries, t) = NoEntries
        <4>1. 1 \in 1 .. 1 /\ 1 - 1 = 0
          OBVIOUS
        <4>2. g[1] = ParseParam(g[0], t[1]) /\ g[0] = NoEntries
          BY <3>7, <4>1 DEF Reading
        <4> QED
          BY <3>5, <3>6, <3>7, <4>2 DEF Reading
      <3> QED
        BY <1>3, <2>1, <2>2, <3>1, <3>2, <3>3, <3>4, <3>8
    <2>3. CASE c.fields # <<>>
      <3>1. PICK S : S = Alphabet(c)
        OBVIOUS
      <3>2. "&" \in S
        BY <3>1 DEF Alphabet
      <3>3. PICK w \in Seq(Seq(S \ {"&"})) : w = WordsOf(c) /\ Len(w) = n
        <4>1. \A i \in 1 .. n : WordOf(c.fields[i]) \in Seq(S \ {"&"})
          BY <1>1, <3>1, WordShape
        <4>2. PICK A : A = S \ {"&"}
          OBVIOUS
        <4>3. WordsOf(c) \in [1 .. n -> Seq(A)]
          BY <1>1, <4>1, <4>2 DEF WordsOf
        <4>4. WordsOf(c) \in Seq(Seq(A)) /\ Len(WordsOf(c)) = n
          BY <4>3, FlatText
        <4> QED
          BY <4>2, <4>4
      <3>4. n > 0
        <4>1. c.fields \in Seq(ToSet(c.fields))
          BY FieldTexts
        <4> QED
          BY <1>1, <2>3, <4>1, EmptySeq
      <3>5. QueryOf(c) = Join(w, <<"&">>)
        BY <3>3 DEF QueryOf, WordsOf, WordOf
      <3>6. Split(Join(w, <<"&">>), <<"&">>) = w
        BY <3>2, <3>3, <3>4, JoinSplit
      <3> QED
        BY <2>1, <3>3, <3>5, <3>6, WordsKept
    <2> QED
      BY <2>2, <2>3
  <1> QED
    BY <1>4, <1>5

-----------------------------------------------------------------------------
(* parse_json: the last member of each name.                               *)

(* An object is made of its members.                                       *)
Collecting(g, n, t) ==
    /\ g[0] = NoEntries
    /\ \A i \in 1 .. n : g[i] = Put(g[i - 1], t[i].name, t[i])
    /\ JsonObject(t) = g[n]

LEMMA ObjectSteps ==
    ASSUME NEW n \in Nat, NEW t, DOMAIN t = 1 .. n, NEW T, NoEntries \in T,
           \A x \in T : \A i \in 1 .. n : Put(x, t[i].name, t[i]) \in T
    PROVE  \E g : Collecting(g, n, t)
  <1> DEFINE Next1(x, i) == Put(x, t[i].name, t[i])
             O == [p \in T \X (1 .. n) |-> Next1(p[1], p[2])]
             Is(f) == f = [s \in SUBSET (DOMAIN t) |->
                             IF s = {} THEN NoEntries ELSE Next1(f[s \ {Max(s)}], Max(s))]
             iter == CHOOSE f : Is(f)
             g == [i \in 0 .. n |-> iter[1 .. i]]
  <1>1. JsonObject(t) = iter[DOMAIN t]
    BY DEF FoldLeft, MapThenFoldSet, JsonObject
  <1>2. \A x \in T : \A i \in 1 .. n : Next1(x, i) \in T
    OBVIOUS
  <1>3. \A x, i : Next1(x, i) = Put(x, t[i].name, t[i])
    OBVIOUS
  <1> HIDE DEF Next1
  <1>4. O \in [T \X (1 .. n) -> T]
    BY <1>2
  <1>5. PICK f : IsFold(f, n, T, NoEntries, O)
    <2> HIDE DEF O
    <2> QED
      BY <1>4, FoldExists
  <1>6. Is(f)
    <2>1. ASSUME NEW s \in SUBSET (1 .. n), s # {}
          PROVE  f[s] = Next1(f[s \ {Max(s)}], Max(s))
      <3>1. Max(s) \in 1 .. n
        BY <2>1, LargestOf
      <3>2. <<f[s \ {Max(s)}], Max(s)>> \in T \X (1 .. n)
        <4>1. f[s \ {Max(s)}] \in T
          BY <1>5, <2>1 DEF IsFold
        <4> QED
          BY <3>1, <4>1
      <3> QED
        BY <1>5, <2>1, <3>2 DEF IsFold
    <2> QED
      BY <1>5, <2>1 DEF IsFold
  <1>7. Is(iter)
    <2> HIDE DEF Is
    <2> QED
      BY <1>6
  <1> HIDE DEF iter
  <1>8. g[0] = NoEntries
    <2>1. 1 .. 0 = {} /\ {} \in SUBSET (DOMAIN t)
      OBVIOUS
    <2> QED
      BY <1>7, <2>1
  <1>9. ASSUME NEW i \in 1 .. n PROVE g[i] = Put(g[i - 1], t[i].name, t[i])
    <2>1. iter[1 .. i] = Next1(iter[(1 .. i) \ {Max(1 .. i)}], Max(1 .. i))
      BY <1>7, Segments
    <2>2. iter[1 .. i] = Next1(iter[1 .. (i - 1)], i)
      BY <2>1, Segments
    <2> QED
      BY <1>3, <2>2
  <1>10. JsonObject(t) = g[n]
    BY <1>1
  <1> HIDE DEF g
  <1>11. Collecting(g, n, t)
    BY <1>8, <1>9, <1>10 DEF Collecting
  <1> QED
    BY <1>11

LEMMA EntryPut ==
    ASSUME NEW m, NEW name, NEW value
    PROVE  /\ DOMAIN Put(m, name, value) = DOMAIN m \cup {name}
           /\ \A x \in DOMAIN m : x # name => Put(m, name, value)[x] = m[x]
           /\ Put(m, name, value)[name] = value
  BY DEF Put

(* The object has a member for each of the first k, the last of its name.  *)
IsLast(s, i, k) == \A j \in 1 .. k : s[j].name = s[i].name => j <= i

LastKept(m, s, k) ==
    /\ \A x : x \in DOMAIN m <=> \E i \in 1 .. k : x = s[i].name
    /\ \A i \in 1 .. k : IsLast(s, i, k) => m[s[i].name] = s[i]

LEMMA LastStep ==
    ASSUME NEW s, NEW k \in Nat, NEW m, LastKept(m, s, k)
    PROVE  LastKept(Put(m, s[k + 1].name, s[k + 1]), s, k + 1)
  <1>1. PICK y : y = s[k + 1]
    OBVIOUS
  <1>2. PICK a : a = y.name
    OBVIOUS
  <1>3. PICK p : p = Put(m, a, y)
    OBVIOUS
  <1>4. /\ DOMAIN p = DOMAIN m \cup {a} /\ \A x \in DOMAIN m : x # a => p[x] = m[x]
        /\ p[a] = y
    <2>1. /\ DOMAIN Put(m, a, y) = DOMAIN m \cup {a}
          /\ \A x \in DOMAIN m : x # a => Put(m, a, y)[x] = m[x]
          /\ Put(m, a, y)[a] = y
      BY DEF Put
    <2> QED
      BY <1>3, <2>1
  <1>5. \A i : i \in 1 .. k + 1 <=> i \in 1 .. k \/ i = k + 1
    OBVIOUS
  <1>6. \A x : x \in DOMAIN m <=> \E i \in 1 .. k : x = s[i].name
    BY DEF LastKept
  <1>7. \A x : x \in DOMAIN p <=> \E i \in 1 .. k + 1 : x = s[i].name
    BY <1>1, <1>2, <1>4, <1>5, <1>6
  <1>8. ASSUME NEW i \in 1 .. k + 1, IsLast(s, i, k + 1) PROVE p[s[i].name] = s[i]
    <2>1. CASE i \in 1 .. k
      <3>1. k + 1 \in 1 .. k + 1 /\ ~(k + 1 <= i)
        BY <2>1
      <3>2. s[i].name # a
        BY <1>1, <1>2, <1>8, <3>1 DEF IsLast
      <3>3. IsLast(s, i, k)
        BY <1>5, <1>8 DEF IsLast
      <3>4. s[i].name \in DOMAIN m /\ m[s[i].name] = s[i]
        BY <1>6, <2>1, <3>3 DEF LastKept
      <3> QED
        BY <1>4, <3>2, <3>4
    <2>2. CASE i = k + 1
      BY <1>1, <1>2, <1>4, <2>2
    <2> QED
      BY <1>5, <2>1, <2>2
  <1> QED
    BY <1>1, <1>2, <1>3, <1>7, <1>8 DEF LastKept

(* json-c keeps the last member of each name.                              *)
LEMMA MembersKept ==
    ASSUME NEW n \in Nat, NEW t, DOMAIN t = 1 .. n
    PROVE  LastKept(JsonObject(t), t, n)
  <1>1. PICK N : N = {t[i].name : i \in 1 .. n}
    OBVIOUS
  <1>2. PICK V : V = {t[i] : i \in 1 .. n}
    OBVIOUS
  <1>3. \A m \in Maps(N, V) : \A i \in 1 .. n : Put(m, t[i].name, t[i]) \in Maps(N, V)
    <2> SUFFICES ASSUME NEW m \in Maps(N, V), NEW i \in 1 .. n
                 PROVE  Put(m, t[i].name, t[i]) \in Maps(N, V)
      OBVIOUS
    <2>1. PICK x \in N : x = t[i].name
      BY <1>1
    <2>2. PICK v \in V : v = t[i]
      BY <1>2
    <2>3. Put(m, x, v) \in Maps(N, V)
      BY MapEntry
    <2> QED
      BY <2>1, <2>2, <2>3
  <1>4. NoEntries \in Maps(N, V)
    <2>1. NoEntries \in [{} -> V] /\ {} \in SUBSET N
      BY DEF NoEntries
    <2> QED
      BY <2>1 DEF Maps
  <1>5. PICK g : Collecting(g, n, t)
    <2>1. PICK T : T = Maps(N, V)
      OBVIOUS
    <2>2. NoEntries \in T /\ \A x \in T : \A i \in 1 .. n : Put(x, t[i].name, t[i]) \in T
      BY <1>3, <1>4, <2>1
    <2> QED
      BY <2>2, ObjectSteps
  <1> DEFINE Good == {k \in Nat : k <= n => LastKept(g[k], t, k)}
  <1>6. 0 \in Good
    <2>1. g[0] = NoEntries /\ DOMAIN NoEntries = {}
      BY <1>5 DEF Collecting, NoEntries
    <2>2. \A i : i \notin 1 .. 0
      OBVIOUS
    <2>3. LastKept(g[0], t, 0)
      BY <2>1, <2>2 DEF LastKept
    <2> QED
      BY <2>3
  <1>7. ASSUME NEW k \in Nat, k \in Good PROVE k + 1 \in Good
    <2>1. k + 1 \in Nat
      OBVIOUS
    <2> SUFFICES ASSUME k + 1 <= n PROVE LastKept(g[k + 1], t, k + 1)
      BY <2>1, Zenon
    <2>2. PICK i \in 1 .. n : i = k + 1 /\ i - 1 = k
      OBVIOUS
    <2>3. g[i] = Put(g[i - 1], t[i].name, t[i])
      BY <1>5 DEF Collecting
    <2>4. LastKept(g[k], t, k)
      <3>1. k <= n
        OBVIOUS
      <3> QED
        BY <1>7, <3>1
    <2>5. LastKept(Put(g[k], t[k + 1].name, t[k + 1]), t, k + 1)
      BY <2>4, LastStep
    <2> QED
      BY <2>2, <2>3, <2>5
  <1>8. n \in Good
    <2> HIDE DEF Good
    <2> QED
      BY <1>6, <1>7, Induction
  <1>9. n <= n /\ JsonObject(t) = g[n]
    BY <1>5 DEF Collecting
  <1> QED
    BY <1>8, <1>9

(* What of an object goes into the parameters.                             *)
ScalarsKept(p, s, n) ==
    /\ \A x \in DOMAIN p : \E i \in 1 .. n : x = s[i].name
    /\ \A i \in 1 .. n : IsLast(s, i, n) =>
          IF s[i].type = "scalar" THEN s[i].name \in DOMAIN p /\ p[s[i].name] = s[i].value
          ELSE s[i].name \notin DOMAIN p

LEMMA ObjectRead ==
    ASSUME NEW c \in Clients
    PROVE  ScalarsKept(GetMap(JsonObject(MembersOf(c))), c.fields, Len(c.fields))
  <1>1. PICK n \in Nat : n = Len(c.fields) /\ DOMAIN c.fields = 1 .. n
    BY FieldTexts, LenProperties
  <1>2. PICK s : s = c.fields
    OBVIOUS
  <1>3. PICK t : t = MembersOf(c)
    OBVIOUS
  <1>4. DOMAIN t = 1 .. n /\ \A i \in 1 .. n : t[i] = MemberOf(s[i])
    BY <1>1, <1>2, <1>3 DEF MembersOf
  <1>5. \A i \in 1 .. n : t[i].name = s[i].name /\ t[i].type = s[i].type /\ t[i].value = s[i].value
    BY <1>4 DEF MemberOf
  <1>6. PICK o : o = JsonObject(t)
    OBVIOUS
  <1>7. LastKept(o, t, n)
    BY <1>4, <1>6, MembersKept
  <1>8. PICK p : p = GetMap(o)
    OBVIOUS
  <1>9. /\ \A x : x \in DOMAIN p <=> x \in DOMAIN o /\ o[x].type = "scalar"
        /\ \A x \in DOMAIN p : p[x] = o[x].value
    BY <1>8 DEF GetMap
  <1>10. \A x \in DOMAIN p : \E i \in 1 .. n : x = s[i].name
    BY <1>5, <1>7, <1>9 DEF LastKept
  <1>11. ASSUME NEW i \in 1 .. n, IsLast(s, i, n)
         PROVE  IF s[i].type = "scalar" THEN s[i].name \in DOMAIN p /\ p[s[i].name] = s[i].value
                ELSE s[i].name \notin DOMAIN p
    <2>1. IsLast(t, i, n)
      BY <1>5, <1>11 DEF IsLast
    <2>2. t[i].name \in DOMAIN o /\ o[t[i].name] = t[i]
      BY <1>7, <2>1 DEF LastKept
    <2> QED
      BY <1>5, <1>9, <2>2
  <1> QED
    BY <1>1, <1>2, <1>3, <1>6, <1>8, <1>10, <1>11 DEF ScalarsKept

-----------------------------------------------------------------------------
(* parse_part: a part, line by line.                                       *)

(* A text put together from its lines: it has lost its line breaks, or has *)
(* others.                                                                 *)
LEMMA LinesTogether ==
    ASSUME NEW S, Crlf \in S, NEW t \in Seq(S)
    PROVE  /\ ParsePart(t) \in Seq(Seq(S))
           /\ FlattenSeq(ParsePart(t)) = Unbroken(t)
           /\ Unbroken(FlattenSeq(Ended(ParsePart(t), <<Crlf>>))) = Unbroken(t)
  <1>1. PICK p \in Seq(Seq(S)) : p = Split(t, <<Crlf>>) /\ FlattenSeq(p) = Without(t, Crlf)
    BY FlatSplit
  <1>2. PICK l \in Seq(Seq(S)) : l = NonEmpty(p)
    <2>1. Without(p, <<>>) \in Seq(Seq(S))
      BY WithoutGrows
    <2> QED
      BY <2>1 DEF NonEmpty
  <1>3. FlattenSeq(l) = Without(t, Crlf)
    BY <1>1, <1>2, FlatNonEmpty
  <1>4. PICK z \in Seq(S) : z = <<Crlf>>
    <2>1. <<Crlf>> \in Seq(S)
      BY Words, Zenon
    <2> QED
      BY <2>1
  <1>5. Without(z, Crlf) = <<>>
    <2>1. PICK e \in Seq(S) : e = <<>>
      BY EmptySeq
    <2>2. Cons(Crlf, e) = z
      BY <1>4, <2>1, ConcatEmptySeq DEF Cons
    <2>3. Without(Cons(Crlf, e), Crlf) = Without(e, Crlf)
      BY WithoutCons
    <2> QED
      BY <2>1, <2>2, <2>3, WithoutNone
  <1>6. Without(FlattenSeq(Ended(l, z)), Crlf) = Without(FlattenSeq(l), Crlf)
    BY <1>5, EndedWithout
  <1>7. Without(Without(t, Crlf), Crlf) = Without(t, Crlf)
    BY WithoutTwice
  <1> QED
    BY <1>1, <1>2, <1>3, <1>4, <1>6, <1>7 DEF ParsePart, Unbroken

(* An attribute is what is between its name and a quote.                   *)
LEMMA AttributeRead ==
    ASSUME NEW S, NEW a \in S, Quote \in S, NEW x \in Seq(S), RunFree(x, a, Len(x)),
           NEW y \in Seq(S), RunFree(y, Quote, Len(y)), NEW r \in Seq(S),
           NEW t, t = Cat(x, a, Cat(y, Quote, r))
    PROVE  ExtractAttribute(t, a) = y
  <1>1. PICK u \in Seq(S) : u = Cat(y, Quote, r)
    <2>1. <<Quote>> \in Seq(S)
      BY Words, Zenon
    <2>2. Cat(y, Quote, r) \in Seq(S)
      BY <2>1, ConcatProperties DEF Cat
    <2> QED
      BY <2>2
  <1>2. Occurs(t, <<a>>) # {} /\ After(t, <<a>>) = u
    BY <1>1, CutAt
  <1>3. Occurs(u, <<Quote>>) # {} /\ Before(u, <<Quote>>) = y
    BY <1>1, CutAt
  <1> QED
    BY <1>2, <1>3 DEF ExtractAttribute

(* The line that is before a blank one and a value.                        *)
LEMMA Blanked ==
    ASSUME NEW S, NEW m \in Seq(S), NEW z \in Seq(S), NEW v \in Seq(S)
    PROVE  Then(Then(Then(m, Then(z, z)), v), z) = Then(Then(m, z), Then(z, Then(v, z)))
  <1>1. PICK u \in Seq(S) : u = Then(m, z)
    BY ThenType
  <1>2. PICK w \in Seq(S) : w = Then(v, z)
    BY ThenType
  <1>3. PICK k \in Seq(S) : k = Then(u, z)
    BY ThenType
  <1>4. Then(m, Then(z, z)) = k
    <2>1. Then(Then(m, z), z) = Then(m, Then(z, z))
      BY ThenThen
    <2> QED
      BY <1>1, <1>3, <2>1
  <1>5. Then(Then(k, v), z) = Then(k, w)
    <2>1. Then(Then(k, v), z) = Then(k, Then(v, z))
      BY ThenThen
    <2> QED
      BY <1>2, <2>1
  <1>6. Then(k, w) = Then(u, Then(z, w))
    <2>1. Then(Then(u, z), w) = Then(u, Then(z, w))
      BY ThenThen
    <2> QED
      BY <1>3, <2>1
  <1> QED
    BY <1>1, <1>2, <1>4, <1>5, <1>6

LEMMA BlankNext ==
    ASSUME NEW S, Crlf \in S, NEW m \in Seq(S), NEW v \in Seq(S)
    PROVE  m \o <<Crlf, Crlf>> \o v \o <<Crlf>> = Cat(m, Crlf, Cat(<<>>, Crlf, Then(v, <<Crlf>>)))
  <1>1. <<Crlf, Crlf>> = Then(<<Crlf>>, <<Crlf>>)
    <2>1. <<Crlf>> \o <<Crlf>> = <<Crlf, Crlf>>
      BY Double
    <2> QED
      BY <2>1 DEF Then
  <1>2. <<Crlf>> \in Seq(S)
    BY Words, Zenon
  <1>3. Then(Then(Then(m, Then(<<Crlf>>, <<Crlf>>)), v), <<Crlf>>)
           = Then(Then(m, <<Crlf>>), Then(<<Crlf>>, Then(v, <<Crlf>>)))
    <2>1. \A z \in Seq(S) : Then(Then(Then(m, Then(z, z)), v), z)
                                 = Then(Then(m, z), Then(z, Then(v, z)))
      BY Blanked
    <2> QED
      BY <1>2, <2>1, Zenon
  <1>4. <<>> \o <<Crlf>> = <<Crlf>>
    BY <1>2, ConcatEmptySeq
  <1>5. Then(<<Crlf>>, Then(v, <<Crlf>>)) = Cat(<<>>, Crlf, Then(v, <<Crlf>>))
    BY <1>4, Zenon DEF Then, Cat
  <1>6. Then(Then(m, <<Crlf>>), Cat(<<>>, Crlf, Then(v, <<Crlf>>)))
           = Cat(m, Crlf, Cat(<<>>, Crlf, Then(v, <<Crlf>>)))
    BY Zenon DEF Then, Cat
  <1>7. m \o <<Crlf, Crlf>> \o v \o <<Crlf>>
           = Then(Then(Then(m, <<Crlf, Crlf>>), v), <<Crlf>>)
    BY Zenon DEF Then
  <1> QED
    BY <1>1, <1>3, <1>5, <1>6, <1>7, Zenon

(* The first lines of a part.                                              *)
NameStart(f) == <<"form-data", "name=">> \o (f.name \o <<Quote>>)
NameEnd(f)   == IF IsFile(f) THEN <<"filename=">> \o f.filename \o <<Quote>> ELSE <<>>
NameLine(f)  == NameStart(f) \o NameEnd(f)
TextLine     == <<"Content-Type: ", "text">>

LEMMA LineText ==
    ASSUME NEW A, "form-data" \in A, "name=" \in A, Quote \in A, NEW f, f.name \in Seq(A),
           IsFile(f) => "filename=" \in A /\ f.filename \in Seq(A)
    PROVE  /\ NameStart(f) \in Seq(A) /\ NameEnd(f) \in Seq(A) /\ NameLine(f) \in Seq(A)
           /\ NameStart(f) # <<>> /\ NameLine(f) # <<>>
  <1>1. <<"form-data", "name=">> \in Seq(A) /\ <<Quote>> \in Seq(A) /\ <<>> \in Seq(A)
    BY Words, Zenon
  <1>2. PICK h \in Seq(A) : h = <<"form-data", "name=">> /\ Len(h) = 2
    <2>1. Len(<<"form-data", "name=">>) = 2
      OBVIOUS
    <2> QED
      BY <1>1, <2>1
  <1>3. PICK q \in Seq(A) : q = <<Quote>>
    BY <1>1
  <1>4. PICK s \in Seq(A) : s = f.name \o q
    BY ConcatProperties
  <1>5. PICK l \in Nat : l = Len(s)
    BY LenProperties
  <1>6. PICK x \in Seq(A) : x = NameStart(f) /\ Len(x) = 2 + l
    <2>1. h \o s \in Seq(A) /\ Len(h \o s) = Len(h) + Len(s)
      BY ConcatProperties
    <2>2. NameStart(f) = h \o s
      BY <1>2, <1>3, <1>4 DEF NameStart
    <2> QED
      BY <1>2, <1>5, <2>1, <2>2
  <1>7. PICK y \in Seq(A) : y = NameEnd(f)
    <2>1. CASE IsFile(f)
      <3>1. PICK k \in Seq(A) : k = <<"filename=">>
        <4>1. <<"filename=">> \in Seq(A)
          BY <2>1, Words, Zenon
        <4> QED
          BY <4>1
      <3>2. k \o f.filename \in Seq(A)
        BY <2>1, ConcatProperties
      <3>3. (k \o f.filename) \o q \in Seq(A)
        BY <3>2, ConcatProperties
      <3> QED
        BY <1>3, <2>1, <3>1, <3>3 DEF NameEnd
    <2>2. CASE ~IsFile(f)
      BY <1>1, <2>2 DEF NameEnd
    <2> QED
      BY <2>1, <2>2
  <1>8. PICK m \in Nat : m = Len(y)
    BY LenProperties
  <1>9. x \o y \in Seq(A) /\ Len(x \o y) = 2 + l + m
    BY <1>6, <1>8, ConcatProperties
  <1>10. Len(<<>>) = 0 /\ 2 + l # 0 /\ 2 + l + m # 0
    OBVIOUS
  <1>11. x # <<>> /\ x \o y # <<>>
    <2>1. PICK e : e = <<>> /\ Len(e) = 0
      BY <1>10
    <2>2. PICK w : w = x \o y /\ Len(w) = 2 + l + m
      BY <1>9
    <2>3. Len(x) # Len(e) /\ Len(w) # Len(e)
      BY <1>6, <1>10, <2>1, <2>2
    <2> QED
      BY <2>1, <2>2, <2>3, Zenon
  <1> QED
    BY <1>6, <1>7, <1>9, <1>11 DEF NameLine

LEMMA Lined ==
    ASSUME NEW S, NEW p \in Seq(S), NEW k \in Seq(S), NEW q \in Seq(S), NEW z \in Seq(S),
           NEW l \in Seq(S)
    PROVE  Then(p, Then(k, Then(q, Then(z, l)))) = Then(Then(Then(p, Then(k, q)), z), l)
  <1>1. PICK x \in Seq(S) : x = Then(z, l)
    BY ThenType
  <1>2. PICK y \in Seq(S) : y = Then(k, q)
    BY ThenType
  <1>3. PICK u \in Seq(S) : u = Then(p, y)
    BY ThenType
  <1>4. Then(k, Then(q, x)) = Then(y, x)
    BY <1>2, ThenThen
  <1>5. Then(p, Then(y, x)) = Then(u, x)
    <2>1. Then(Then(p, y), x) = Then(p, Then(y, x))
      BY ThenThen
    <2> QED
      BY <1>3, <2>1
  <1>6. Then(u, Then(z, l)) = Then(Then(u, z), l)
    BY ThenThen
  <1> QED
    BY <1>1, <1>2, <1>3, <1>4, <1>5, <1>6

LEMMA Catted ==
    ASSUME NEW S, NEW x \in Seq(S), NEW z \in Seq(S), NEW y \in Seq(S), NEW r \in Seq(S)
    PROVE  Then(Then(Then(Then(x, z), y), z), r) = Then(Then(x, z), Then(Then(y, z), r))
  <1>1. PICK u \in Seq(S) : u = Then(x, z)
    BY ThenType
  <1>2. PICK v \in Seq(S) : v = Then(y, z)
    BY ThenType
  <1>3. Then(Then(u, y), z) = Then(u, v)
    <2>1. Then(Then(u, y), z) = Then(u, Then(y, z))
      BY ThenThen
    <2> QED
      BY <1>2, <2>1
  <1>4. Then(Then(u, v), r) = Then(u, Then(v, r))
    BY ThenThen
  <1> QED
    BY <1>1, <1>2, <1>3, <1>4

(* A part, line by line.                                                   *)
ValueLines(f) == Cat(<<>>, Crlf, Then(f.value, <<Crlf>>))

LEMMA RestLines ==
    ASSUME NEW S, PartWords \subseteq S, NEW f,
           f.name \in Seq(S), f.filename \in Seq(S), f.value \in Seq(S)
    PROVE  /\ ~IsFile(f) => RestOf(f) = Cat(NameLine(f), Crlf, ValueLines(f))
           /\ IsFile(f) => RestOf(f) = Cat(NameLine(f), Crlf, Cat(TextLine, Crlf, ValueLines(f)))
           /\ ValueLines(f) \in Seq(S)
  <1>1. /\ Crlf \in S /\ Quote \in S /\ "form-data" \in S
        /\ "name=" \in S /\ "filename=" \in S /\ "Content-Type: " \in S /\ "text" \in S
    BY DEF PartWords
  <1>2. PICK p \in Seq(S) : p = NameStart(f)
    BY <1>1, LineText
  <1>3. PICK v \in Seq(S) : v = f.value
    OBVIOUS
  <1>4. PICK x \in Seq(S) : x = ValueLines(f)
    <2>1. <<Crlf>> \in Seq(S) /\ <<>> \in Seq(S)
      BY <1>1, Words, Zenon
    <2>2. Then(v, <<Crlf>>) \in Seq(S)
      BY <2>1, ConcatProperties DEF Then
    <2>3. Cat(<<>>, Crlf, Then(v, <<Crlf>>)) \in Seq(S)
      BY <2>1, <2>2, ConcatProperties DEF Cat
    <2> QED
      BY <1>3, <2>3 DEF ValueLines
  <1>5. \A m \in Seq(S) : m \o <<Crlf, Crlf>> \o v \o <<Crlf>> = Cat(m, Crlf, x)
    <2>1. ASSUME NEW m \in Seq(S)
          PROVE  m \o <<Crlf, Crlf>> \o v \o <<Crlf>>
                    = Cat(m, Crlf, Cat(<<>>, Crlf, Then(v, <<Crlf>>)))
      BY <1>1, BlankNext
    <2> QED
      BY <1>3, <1>4, <2>1, Zenon DEF ValueLines
  <1>6. RestOf(f) = (p \o FileLine(f)) \o <<Crlf, Crlf>> \o v \o <<Crlf>>
    BY <1>2, <1>3, Zenon DEF RestOf, NameStart
  <1>7. CASE ~IsFile(f)
    <2>1. FileLine(f) = <<>> /\ NameEnd(f) = <<>>
      BY <1>7 DEF FileLine, NameEnd
    <2>2. p \o <<>> = p
      BY ConcatEmptySeq
    <2>3. NameLine(f) = p
      BY <1>2, <2>1, <2>2 DEF NameLine
    <2>4. RestOf(f) = Cat(p, Crlf, x)
      BY <1>5, <1>6, <2>1, <2>2, Zenon
    <2> QED
      BY <1>4, <1>7, <2>3, <2>4
  <1>8. CASE IsFile(f)
    <2>1. PICK k \in Seq(S) : k = <<"filename=">> \o f.filename
      <3>1. <<"filename=">> \in Seq(S)
        BY <1>1, Words, Zenon
      <3> QED
        BY <3>1, ConcatProperties
    <2>2. PICK q \in Seq(S) : q = <<Quote>>
      BY <1>1, Words, Zenon
    <2>3. PICK l \in Seq(S) : l = TextLine
      <3>1. <<"Content-Type: ", "text">> \in Seq(S)
        BY <1>1, Words, Zenon
      <3> QED
        BY <3>1 DEF TextLine
    <2>4. \A z \in Seq(S) : z = <<Crlf>> =>
             p \o FileLine(f) = Then(Then(NameLine(f), z), l)
      <3> SUFFICES ASSUME NEW z \in Seq(S), z = <<Crlf>>
                   PROVE  p \o FileLine(f) = Then(Then(NameLine(f), z), l)
        OBVIOUS
      <3>1. <<Quote>> \o <<Crlf, "Content-Type: ", "text">>
               = <<Quote, Crlf, "Content-Type: ", "text">>
        BY Quadruple
      <3>2. <<Crlf>> \o <<"Content-Type: ", "text">> = <<Crlf, "Content-Type: ", "text">>
        BY Triple
      <3>3. <<Quote, Crlf, "Content-Type: ", "text">> = Then(q, Then(z, l))
        BY <2>2, <2>3, <3>1, <3>2, Zenon DEF Then, TextLine
      <3>4. FileLine(f) = Then(k, Then(q, Then(z, l)))
        BY <1>8, <2>1, <3>3, Zenon DEF FileLine, Then
      <3>5. NameLine(f) = Then(p, Then(k, q))
        BY <1>2, <1>8, <2>1, <2>2, Zenon DEF NameLine, NameEnd, Then
      <3>6. \A y \in Seq(S) : Then(p, Then(k, Then(q, Then(y, l))))
                                 = Then(Then(Then(p, Then(k, q)), y), l)
        BY Lined
      <3> QED
        BY <3>4, <3>5, <3>6, Zenon DEF Then
    <2>5. <<Crlf>> \in Seq(S)
      BY <1>1, Words, Zenon
    <2>6. p \o FileLine(f) = Then(Then(NameLine(f), <<Crlf>>), l)
      BY <2>4, <2>5, Zenon
    <2>7. PICK n \in Seq(S) : n = NameLine(f)
      BY <1>1, LineText
    <2>8. \A z \in Seq(S) : Then(Then(n, z), l) \in Seq(S)
      BY ThenType
    <2>9. RestOf(f) = Cat(Then(Then(n, <<Crlf>>), l), Crlf, x)
      BY <1>5, <1>6, <2>5, <2>6, <2>7, <2>8, Zenon
    <2>10. \A z \in Seq(S) : Then(Then(Then(Then(n, z), l), z), x)
                                = Then(Then(n, z), Then(Then(l, z), x))
      BY Catted
    <2>11. Then(Then(Then(Then(n, <<Crlf>>), l), <<Crlf>>), x)
              = Then(Then(n, <<Crlf>>), Then(Then(l, <<Crlf>>), x))
      BY <2>5, <2>10, Zenon
    <2>12. Cat(Then(Then(n, <<Crlf>>), l), Crlf, x) = Cat(n, Crlf, Cat(l, Crlf, x))
      BY <2>11, Zenon DEF Cat, Then
    <2> QED
      BY <1>4, <1>8, <2>3, <2>7, <2>9, <2>12
  <1> QED
    BY <1>4, <1>7, <1>8

(* The lines of a part that are not empty.                                 *)
LEMMA LineFirst ==
    ASSUME NEW S, Crlf \in S, NEW x \in Seq(S), RunFree(x, Crlf, Len(x)), NEW y \in Seq(S)
    PROVE  /\ ParsePart(Cat(x, Crlf, y)) = IF x = <<>> THEN ParsePart(y) ELSE Cons(x, ParsePart(y))
           /\ ParsePart(y) \in Seq(Seq(S))
  <1>1. Split(Cat(x, Crlf, y), <<Crlf>>) = Cons(x, Split(y, <<Crlf>>))
    BY SplitAt
  <1>2. PICK s \in Seq(Seq(S)) : s = Split(y, <<Crlf>>)
    BY FlatSplit
  <1>3. \A e : Without(Cons(x, s), e) = IF x = e THEN Without(s, e) ELSE Cons(x, Without(s, e))
    <2>1. PICK X : X = Seq(S)
      OBVIOUS
    <2> QED
      BY WithoutCons
  <1>4. NonEmpty(Cons(x, s)) = IF x = <<>> THEN NonEmpty(s) ELSE Cons(x, NonEmpty(s))
    BY <1>3 DEF NonEmpty
  <1>5. ParsePart(y) \in Seq(Seq(S))
    BY LinesTogether
  <1> QED
    BY <1>1, <1>2, <1>4, <1>5 DEF ParsePart

(* What a line is free of.                                                 *)
LEMMA LineFree ==
    ASSUME NEW c \in Clients, NEW i \in 1 .. Len(c.fields), NEW f, f = c.fields[i]
    PROVE  /\ RunFree(NameLine(f), Crlf, Len(NameLine(f)))
           /\ RunFree(NameStart(f), "filename=", Len(NameStart(f)))
           /\ RunFree(f.name, Quote, Len(f.name)) /\ RunFree(f.filename, Quote, Len(f.filename))
  <1>1. PICK S : S = Alphabet(c)
    OBVIOUS
  <1>2. /\ Quote \in S /\ "form-data" \in S /\ "name=" \in S /\ "filename=" \in S
    BY <1>1 DEF Alphabet
  <1>3. Crlf \in Reserved /\ "filename=" \in Reserved /\ Quote \in Reserved
    BY DEF Reserved
  <1>4. /\ f.name \in Seq(S \ {Crlf}) /\ f.filename \in Seq(S \ {Crlf})
        /\ f.name \in Seq(S \ {"filename="})
        /\ f.name \in Seq(S \ {Quote}) /\ f.filename \in Seq(S \ {Quote})
    BY <1>1, <1>3, NameText
  <1>5. /\ Quote # Crlf /\ "form-data" # Crlf /\ "name=" # Crlf /\ "filename=" # Crlf
        /\ Quote # "filename=" /\ "form-data" # "filename=" /\ "name=" # "filename="
    BY DEF Quote, Crlf
  <1>6. NameLine(f) \in Seq(S \ {Crlf})
    <2>1. PICK A : A = S \ {Crlf}
      OBVIOUS
    <2>2. "form-data" \in A /\ "name=" \in A /\ Quote \in A /\ "filename=" \in A
      BY <1>2, <1>5, <2>1
    <2>3. f.name \in Seq(A) /\ f.filename \in Seq(A)
      BY <1>4, <2>1
    <2>4. NameLine(f) \in Seq(A)
      BY <2>2, <2>3, LineText
    <2> QED
      BY <2>1, <2>4
  <1>7. NameStart(f) \in Seq(S \ {"filename="})
    <2>1. PICK A : A = S \ {"filename="}
      OBVIOUS
    <2>2. "form-data" \in A /\ "name=" \in A /\ Quote \in A
      BY <1>2, <1>5, <2>1
    <2>3. f.name \in Seq(A)
      BY <1>4, <2>1
    <2>4. <<"form-data", "name=">> \in Seq(A) /\ <<Quote>> \in Seq(A)
      BY <2>2, Words, Zenon
    <2>5. f.name \o <<Quote>> \in Seq(A)
      BY <2>3, <2>4, ConcatProperties
    <2>6. NameStart(f) \in Seq(A)
      BY <2>4, <2>5, ConcatProperties DEF NameStart
    <2> QED
      BY <2>1, <2>6
  <1> QED
    BY <1>4, <1>6, <1>7, FreeOf

(* What is read in the first line.                                         *)
LEMMA NameRead ==
    ASSUME NEW c \in Clients, NEW i \in 1 .. Len(c.fields), NEW f, f = c.fields[i]
    PROVE  /\ ExtractAttribute(NameLine(f), "name=") = f.name
           /\ ExtractAttribute(NameLine(f), "filename=") = IF IsFile(f) THEN f.filename ELSE <<>>
  <1>1. PICK S : S = Alphabet(c)
    OBVIOUS
  <1>2. /\ Quote \in S /\ "form-data" \in S /\ "name=" \in S /\ "filename=" \in S
    BY <1>1 DEF Alphabet
  <1>3. f.name \in Seq(S) /\ f.filename \in Seq(S)
    BY <1>1, FieldTexts
  <1>4. PICK e \in Seq(S) : e = NameEnd(f)
    BY <1>2, <1>3, LineText
  <1>5. PICK s \in Seq(S) : s = NameStart(f)
    BY <1>2, <1>3, LineText
  <1>6. PICK n \in Seq(S) : n = f.name /\ RunFree(n, Quote, Len(n))
    BY <1>3, LineFree
  <1>7. PICK g \in Seq(S) : g = f.filename /\ RunFree(g, Quote, Len(g))
    BY <1>3, LineFree
  <1>8. ExtractAttribute(NameLine(f), "name=") = n
    <2>1. PICK x \in Seq(S) : x = <<"form-data">> /\ Len(x) = 1 /\ x[1] = "form-data"
      <3>1. <<"form-data">> \in Seq(S)
        BY <1>2, Words, Zenon
      <3>2. Len(<<"form-data">>) = 1 /\ <<"form-data">>[1] = "form-data"
        OBVIOUS
      <3> QED
        BY <3>1, <3>2
    <2>2. RunFree(x, "name=", Len(x))
      <3>1. \A j \in 1 .. 1 : j = 1
        OBVIOUS
      <3>2. "form-data" # "name="
        OBVIOUS
      <3> QED
        BY <2>1, <3>1, <3>2 DEF RunFree
    <2>3. PICK h \in Seq(S) : h = <<"form-data", "name=">> /\ h = x \o <<"name=">>
      <3>1. <<"form-data", "name=">> \in Seq(S)
        BY <1>2, Words, Zenon
      <3>2. <<"form-data">> \o <<"name=">> = <<"form-data", "name=">>
        BY Double
      <3> QED
        BY <2>1, <3>1, <3>2
    <2>4. PICK m \in Seq(S) : m = n \o <<Quote>>
      <3>1. <<Quote>> \in Seq(S)
        BY <1>2, Words, Zenon
      <3> QED
        BY <3>1, ConcatProperties
    <2>5. NameLine(f) = Then(Then(h, m), e)
      BY <1>4, <1>6, <2>3, <2>4, Zenon DEF NameLine, NameStart, Then
    <2>6. Then(Then(h, m), e) = Then(h, Then(m, e))
      BY ThenThen
    <2>7. Then(h, Then(m, e)) = Cat(x, "name=", Cat(n, Quote, e))
      BY <2>3, <2>4, Zenon DEF Then, Cat
    <2>8. PICK t : t = NameLine(f)
      OBVIOUS
    <2>9. t = Cat(x, "name=", Cat(n, Quote, e))
      BY <2>5, <2>6, <2>7, <2>8
    <2>10. PICK a \in S : a = "name="
      BY <1>2
    <2>11. ExtractAttribute(t, a) = n
      BY <1>2, <1>6, <2>2, <2>9, <2>10, AttributeRead
    <2> QED
      BY <2>8, <2>10, <2>11
  <1>9. ExtractAttribute(NameLine(f), "filename=") = IF IsFile(f) THEN g ELSE <<>>
    <2>1. RunFree(s, "filename=", Len(s))
      BY <1>5, LineFree
    <2>2. CASE ~IsFile(f)
      <3>1. NameLine(f) = s
        <4>1. NameEnd(f) = <<>>
          BY <2>2 DEF NameEnd
        <4>2. s \o <<>> = s
          BY ConcatEmptySeq
        <4> QED
          BY <1>5, <4>1, <4>2 DEF NameLine
      <3>2. Occurs(s, <<"filename=">>) = {}
        BY <2>1, NoOccurrence
      <3> QED
        BY <2>2, <3>1, <3>2 DEF ExtractAttribute
    <2>3. CASE IsFile(f)
      <3>1. PICK r \in Seq(S) : r = <<>>
        BY EmptySeq
      <3>2. PICK k \in Seq(S) : k = <<"filename=">>
        <4>1. <<"filename=">> \in Seq(S)
          BY <1>2, Words, Zenon
        <4> QED
          BY <4>1
      <3>3. PICK q \in Seq(S) : q = <<Quote>>
        <4>1. <<Quote>> \in Seq(S)
          BY <1>2, Words, Zenon
        <4> QED
          BY <4>1
      <3>4. NameEnd(f) = Then(Then(k, g), q)
        BY <1>7, <2>3, <3>2, <3>3, Zenon DEF NameEnd, Then
      <3>5. Then(Then(k, g), q) = Then(k, Then(g, q))
        BY ThenThen
      <3>6. Then(g, q) = Cat(g, Quote, r)
        <4>1. PICK u \in Seq(S) : u = Then(g, q)
          BY ThenType
        <4>2. Then(u, r) = u
          BY <3>1, ConcatEmptySeq DEF Then
        <4> QED
          BY <3>3, <4>1, <4>2, Zenon DEF Then, Cat
      <3>7. PICK w \in Seq(S) : w = Then(g, q)
        BY ThenType
      <3>8. NameLine(f) = Then(s, Then(k, w))
        BY <1>5, <3>4, <3>5, <3>7, Zenon DEF NameLine, Then
      <3>9. Then(Then(s, k), w) = Then(s, Then(k, w))
        BY ThenThen
      <3>10. Then(Then(s, k), w) = Cat(s, "filename=", Cat(g, Quote, r))
        BY <3>2, <3>6, <3>7, Zenon DEF Then, Cat
      <3>11. PICK t : t = NameLine(f)
        OBVIOUS
      <3>12. t = Cat(s, "filename=", Cat(g, Quote, r))
        BY <3>8, <3>9, <3>10, <3>11
      <3>13. PICK a \in S : a = "filename="
        BY <1>2
      <3>14. ExtractAttribute(t, a) = g
        BY <1>2, <1>7, <2>1, <3>12, <3>13, AttributeRead
      <3> QED
        BY <2>3, <3>11, <3>13, <3>14
    <2> QED
      BY <2>2, <2>3
  <1> QED
    BY <1>6, <1>7, <1>8, <1>9

(* What becomes of a part.                                                 *)
PartField(g, f) ==
    /\ g.name = f.name /\ g.filename = IF IsFile(f) THEN f.filename ELSE <<>>
    /\ ~IsFile(f) => g.data = Unbroken(f.value)
    /\ IsFile(f) /\ f.filename # <<>> => Unbroken(g.data) = Unbroken(f.value)

LEMMA PartRead ==
    ASSUME NEW c \in Clients, NEW i \in 1 .. Len(c.fields), NEW f, f = c.fields[i]
    PROVE  PartField(GetFormField(ParsePart(RestOf(f))), f)
  <1>1. PICK S : S = Alphabet(c)
    OBVIOUS
  <1>2. PartWords \subseteq S /\ Crlf \in S
    BY <1>1 DEF Alphabet, PartWords
  <1>3. f.name \in Seq(S) /\ f.filename \in Seq(S) /\ f.value \in Seq(S)
    BY <1>1, FieldTexts
  <1>4. PICK x \in Seq(S) : x = ValueLines(f)
    BY <1>2, <1>3, RestLines
  <1>5. PICK l \in Seq(S) : l = NameLine(f) /\ RunFree(l, Crlf, Len(l)) /\ l # <<>>
    <2>1. "form-data" \in S /\ "name=" \in S /\ Quote \in S /\ "filename=" \in S
      BY <1>2 DEF PartWords
    <2>2. NameLine(f) \in Seq(S) /\ NameLine(f) # <<>>
      BY <1>3, <2>1, LineText
    <2> QED
      BY <2>2, LineFree
  <1>6. PICK w \in Seq(S) : w = Then(f.value, <<Crlf>>) /\ Unbroken(w) = Unbroken(f.value)
    <2>1. PICK z \in Seq(S) : z = <<Crlf>>
      <3>1. <<Crlf>> \in Seq(S)
        BY <1>2, Words, Zenon
      <3> QED
        BY <3>1
    <2>2. PICK v \in Seq(S) : v = f.value
      BY <1>3
    <2>3. PICK y \in Seq(S) : y = Then(v, z)
      BY ThenType
    <2>4. Without(Then(v, z), Crlf) = Then(Without(v, Crlf), Without(z, Crlf))
      BY WithoutThen
    <2>5. Without(z, Crlf) = <<>>
      <3>1. PICK e \in Seq(S) : e = <<>>
        BY EmptySeq
      <3>2. Cons(Crlf, e) = z
        BY <2>1, <3>1, ConcatEmptySeq DEF Cons
      <3>3. Without(Cons(Crlf, e), Crlf) = Without(e, Crlf)
        BY <1>2, WithoutCons
      <3> QED
        BY <3>1, <3>2, <3>3, WithoutNone
    <2>6. Then(Without(v, Crlf), <<>>) = Without(v, Crlf)
      <3>1. Without(v, Crlf) \in Seq(S)
        BY WithoutGrows
      <3> QED
        BY <3>1, ConcatEmptySeq DEF Then
    <2> QED
      BY <2>1, <2>2, <2>3, <2>4, <2>5, <2>6, Zenon DEF Unbroken
  <1>7. PICK e \in Seq(S) : e = <<>> /\ RunFree(e, Crlf, Len(e))
    <2>1. <<>> \in Seq(S) /\ Len(<<>>) = 0
      BY EmptySeq
    <2>2. RunFree(<<>>, Crlf, Len(<<>>))
      BY <2>1 DEF RunFree
    <2> QED
      BY <2>1, <2>2
  <1>8. PICK r \in Seq(Seq(S)) : r = ParsePart(w)
    BY <1>2, LinesTogether
  <1>9. /\ FlattenSeq(r) = Unbroken(f.value)
        /\ Unbroken(FlattenSeq(Ended(r, <<Crlf>>))) = Unbroken(f.value)
    BY <1>2, <1>6, <1>8, LinesTogether
  <1>10. ParsePart(x) = r
    <2>1. x = Cat(e, Crlf, w)
      BY <1>4, <1>6, <1>7 DEF ValueLines
    <2>2. ParsePart(Cat(e, Crlf, w)) = ParsePart(w)
      BY <1>2, <1>7, LineFirst
    <2> QED
      BY <1>8, <2>1, <2>2
  <1>11. /\ ExtractAttribute(l, "name=") = f.name
         /\ ExtractAttribute(l, "filename=") = IF IsFile(f) THEN f.filename ELSE <<>>
    BY <1>5, NameRead
  <1>12. CASE ~IsFile(f)
    <2>1. RestOf(f) = Cat(l, Crlf, x)
      BY <1>2, <1>3, <1>4, <1>5, <1>12, RestLines
    <2>2. ParsePart(Cat(l, Crlf, x)) = IF l = <<>> THEN ParsePart(x) ELSE Cons(l, ParsePart(x))
      BY <1>2, <1>5, LineFirst
    <2>3. PICK t \in Seq(Seq(S)) : t = Cons(l, r) /\ t[1] = l
      BY ConsAt
    <2>4. ParsePart(RestOf(f)) = t
      BY <1>5, <1>10, <2>1, <2>2, <2>3
    <2>5. SubSeq(t, 2, Len(t)) = r
      BY <2>3, AfterFirst
    <2>6. GetFormField(t).data = FlattenSeq(Ended(r, <<>>))
      BY <1>11, <1>12, <2>3, <2>5 DEF GetFormField, Ended
    <2>7. GetFormField(t).name = f.name /\ GetFormField(t).filename = <<>>
      BY <1>11, <1>12, <2>3 DEF GetFormField
    <2>8. Ended(r, <<>>) = r
      BY EndedNone
    <2> QED
      BY <1>9, <1>12, <2>4, <2>6, <2>7, <2>8 DEF PartField
  <1>13. CASE IsFile(f)
    <2>1. PICK k \in Seq(S) : k = TextLine /\ RunFree(k, Crlf, Len(k)) /\ k # <<>>
      <3>1. "Content-Type: " \in S \ {Crlf} /\ "text" \in S \ {Crlf}
        BY <1>2 DEF PartWords, Crlf
      <3>2. PICK A : A = S \ {Crlf}
        OBVIOUS
      <3>3. <<"Content-Type: ", "text">> \in Seq(A)
        BY <3>1, <3>2, Words, Zenon
      <3>4. TextLine \in Seq(S \ {Crlf})
        BY <3>2, <3>3 DEF TextLine
      <3>5. TextLine \in Seq(S) /\ RunFree(TextLine, Crlf, Len(TextLine))
        BY <3>4, FreeOf
      <3>6. <<"Content-Type: ", "text">> # <<>>
        OBVIOUS
      <3> QED
        BY <3>5, <3>6 DEF TextLine
    <2>2. RestOf(f) = Cat(l, Crlf, Cat(k, Crlf, x))
      BY <1>2, <1>3, <1>4, <1>5, <1>13, <2>1, RestLines
    <2>3. PICK y \in Seq(S) : y = Cat(k, Crlf, x)
      <3>1. <<Crlf>> \in Seq(S)
        BY <1>2, Words, Zenon
      <3> QED
        BY <3>1, ConcatProperties DEF Cat
    <2>4. ParsePart(Cat(k, Crlf, x)) = IF k = <<>> THEN ParsePart(x) ELSE Cons(k, ParsePart(x))
      BY <1>2, <2>1, LineFirst
    <2>5. ParsePart(Cat(l, Crlf, y)) = IF l = <<>> THEN ParsePart(y) ELSE Cons(l, ParsePart(y))
      BY <1>2, <1>5, LineFirst
    <2>6. PICK u \in Seq(Seq(S)) : u = Cons(k, r)
      BY ConsAt
    <2>7. PICK t \in Seq(Seq(S)) : t = Cons(l, u) /\ t[1] = l
      BY ConsAt
    <2>8. ParsePart(RestOf(f)) = t
      BY <1>5, <1>10, <2>1, <2>2, <2>3, <2>4, <2>5, <2>6, <2>7
    <2>9. SubSeq(t, 3, Len(t)) = r
      BY <2>6, <2>7, AfterSecond
    <2>10. f.filename # <<>> => GetFormField(t).data = FlattenSeq(Ended(r, <<Crlf>>))
      BY <1>11, <1>13, <2>7, <2>9 DEF GetFormField, Ended
    <2>11. GetFormField(t).name = f.name /\ GetFormField(t).filename = f.filename
      BY <1>11, <1>13, <2>7 DEF GetFormField
    <2> QED
      BY <1>9, <1>13, <2>8, <2>10, <2>11 DEF PartField
  <1> QED
    BY <1>12, <1>13

-----------------------------------------------------------------------------
(* parse_form: the first field of each name, and the entries of files.     *)

(* A name and a suffix.                                                    *)
LEMMA SuffixApart ==
    ASSUME NEW S, NEW a \in Seq(S), NEW b \in Seq(S), NEW s \in S, NEW u \in S
    PROVE  /\ a \o <<s>> = b \o <<u>> <=> a = b /\ s = u
           /\ a \in Seq(S \ {u}) => a # b \o <<u>>
  <1>1. PICK m \in Nat : m = Len(b)
    BY LenProperties
  <1>2. a \o <<s>> = Append(a, s) /\ b \o <<u>> = Append(b, u)
    BY AppendIsConcat
  <1>3. Append(a, s) = Append(b, u) <=> a = b /\ s = u
    BY AppendInjective
  <1>4. ASSUME a \in Seq(S \ {u}), a = Append(b, u) PROVE FALSE
    <2>1. Len(Append(b, u)) = m + 1 /\ Append(b, u)[m + 1] = u
      BY <1>1, AppendProperties
    <2>2. m + 1 \in 1 .. Len(a) /\ a[m + 1] = u
      BY <1>1, <1>4, <2>1
    <2>3. a[m + 1] \in S \ {u}
      BY <1>4, <2>2, ElementOfSeq
    <2> QED
      BY <2>2, <2>3
  <1> QED
    BY <1>2, <1>3, <1>4

(* What a file adds to the parameters, unless its name has entries.        *)
Entry(f, s) == f.name \o <<s>>

FileEntered(p, m, f, k) ==
    /\ \A x : x \in DOMAIN p <=> x \in DOMAIN m \/ \E s \in FileSuffixes : x = Entry(f, s)
    /\ \A x \in DOMAIN m : p[x] = m[x]
    /\ (\A s \in FileSuffixes : Entry(f, s) \notin DOMAIN m) =>
          /\ p[Entry(f, ".content_len")] = <<ToString(Len(f.data))>>
          /\ p[Entry(f, ".document")] = Uuid(k)
          /\ p[Entry(f, ".filename")] = f.filename

LEMMA FileParams ==
    ASSUME NEW S, FileSuffixes \subseteq S, NEW f, f.name \in Seq(S), NEW m, NEW k
    PROVE  FileEntered(FileEntries(m, f, k), m, f, k)
  <1>1. /\ ".content_len" \in FileSuffixes /\ ".content_type" \in FileSuffixes
        /\ ".document" \in FileSuffixes /\ ".filename" \in FileSuffixes
    BY DEF FileSuffixes
  <1>2. PICK a : a = Entry(f, ".content_len")
    OBVIOUS
  <1>3. PICK b : b = Entry(f, ".content_type")
    OBVIOUS
  <1>4. PICK c : c = Entry(f, ".document")
    OBVIOUS
  <1>5. PICK d : d = Entry(f, ".filename")
    OBVIOUS
  <1>6. \A s, u \in S : Entry(f, s) = Entry(f, u) => s = u
    BY SuffixApart DEF Entry
  <1>7. a # b /\ a # c /\ a # d /\ b # c /\ b # d /\ c # d
    <2>1. /\ ".content_len" \in S /\ ".content_type" \in S /\ ".document" \in S /\ ".filename" \in S
      BY <1>1
    <2>2. /\ ".content_len" # ".content_type" /\ ".content_len" # ".document"
          /\ ".content_len" # ".filename" /\ ".content_type" # ".document"
          /\ ".content_type" # ".filename" /\ ".document" # ".filename"
      OBVIOUS
    <2> QED
      BY <1>2, <1>3, <1>4, <1>5, <1>6, <2>1, <2>2
  <1>8. PICK l : l = <<ToString(Len(f.data))>>
    OBVIOUS
  <1>9. PICK y : y = f.type
    OBVIOUS
  <1>10. PICK u : u = Uuid(k)
    OBVIOUS
  <1>11. PICK g : g = f.filename
    OBVIOUS
  <1>12. PICK p1 : p1 = TryEmplace(m, a, l)
    OBVIOUS
  <1>13. PICK p2 : p2 = TryEmplace(p1, b, y)
    OBVIOUS
  <1>14. PICK p3 : p3 = TryEmplace(p2, c, u)
    OBVIOUS
  <1>15. PICK p : p = TryEmplace(p3, d, g)
    OBVIOUS
  <1>16. Emplaced(p1, m, a, l) /\ Emplaced(p2, p1, b, y)
    BY <1>12, <1>13, EntryFirst
  <1>17. Emplaced(p3, p2, c, u) /\ Emplaced(p, p3, d, g)
    BY <1>14, <1>15, EntryFirst
  <1>18. /\ DOMAIN p1 = DOMAIN m \cup {a} /\ \A x \in DOMAIN m : p1[x] = m[x]
         /\ a \notin DOMAIN m => p1[a] = l
         /\ DOMAIN p2 = DOMAIN p1 \cup {b} /\ \A x \in DOMAIN p1 : p2[x] = p1[x]
    BY <1>16 DEF Emplaced
  <1>19. /\ DOMAIN p3 = DOMAIN p2 \cup {c} /\ \A x \in DOMAIN p2 : p3[x] = p2[x]
         /\ c \notin DOMAIN p2 => p3[c] = u
         /\ DOMAIN p = DOMAIN p3 \cup {d} /\ \A x \in DOMAIN p3 : p[x] = p3[x]
         /\ d \notin DOMAIN p3 => p[d] = g
    BY <1>17 DEF Emplaced
  <1>20. FileEntries(m, f, k) = p
    BY <1>2, <1>3, <1>4, <1>5, <1>8, <1>9, <1>10, <1>11, <1>12, <1>13, <1>14, <1>15
       DEF FileEntries, Entry
  <1>21. \A s \in FileSuffixes : Entry(f, s) \in {a, b, c, d}
    BY <1>2, <1>3, <1>4, <1>5 DEF FileSuffixes
  <1>22. \A x : x \in DOMAIN p <=> x \in DOMAIN m \/ \E s \in FileSuffixes : x = Entry(f, s)
    <2>1. DOMAIN p = DOMAIN m \cup {a, b, c, d}
      BY <1>18, <1>19
    <2>2. \A x : x \in {a, b, c, d} <=> \E s \in FileSuffixes : x = Entry(f, s)
      BY <1>1, <1>2, <1>3, <1>4, <1>5, <1>21
    <2> QED
      BY <2>1, <2>2
  <1>23. \A x \in DOMAIN m : p[x] = m[x]
    BY <1>18, <1>19
  <1>24. ASSUME \A s \in FileSuffixes : Entry(f, s) \notin DOMAIN m
         PROVE  p[a] = l /\ p[c] = u /\ p[d] = g
    <2>1. a \notin DOMAIN m /\ c \notin DOMAIN m /\ d \notin DOMAIN m
      BY <1>1, <1>2, <1>4, <1>5, <1>24
    <2>2. p1[a] = l /\ a \in DOMAIN p1
      BY <1>18, <2>1
    <2>3. p2[a] = l /\ a \in DOMAIN p2 /\ c \notin DOMAIN p2 /\ d \notin DOMAIN p2
      BY <1>7, <1>18, <2>1, <2>2
    <2>4. p3[a] = l /\ a \in DOMAIN p3 /\ p3[c] = u /\ c \in DOMAIN p3 /\ d \notin DOMAIN p3
      BY <1>7, <1>19, <2>3
    <2> QED
      BY <1>19, <2>4
  <1> QED
    BY <1>2, <1>4, <1>5, <1>8, <1>10, <1>11, <1>20, <1>22, <1>23, <1>24 DEF FileEntered

(* What a form has of a field, and keeps as it is filled.                  *)
FileFound(p, f, m) ==
    /\ \A s \in FileSuffixes : Entry(f, s) \in DOMAIN p.params
    /\ p.params[Entry(f, ".document")] = Uuid(m)
    /\ p.files[m] = f.data
    /\ p.params[Entry(f, ".content_len")] = <<ToString(Len(p.files[m]))>>
    /\ p.params[Entry(f, ".filename")] = f.filename

Found(p, f) ==
    /\ f.filename = <<>> => f.name \in DOMAIN p.params /\ p.params[f.name] = f.data
    /\ f.filename # <<>> => \E m \in 1 .. Len(p.files) : FileFound(p, f, m)

Filled(q, p) ==
    /\ \A x \in DOMAIN p.params : x \in DOMAIN q.params /\ q.params[x] = p.params[x]
    /\ \A m \in 1 .. Len(p.files) : m \in 1 .. Len(q.files) /\ q.files[m] = p.files[m]

LEMMA FoundStays ==
    ASSUME NEW p, NEW q, NEW f, Filled(q, p), Found(p, f)
    PROVE  Found(q, f)
  <1>1. /\ ".content_len" \in FileSuffixes /\ ".document" \in FileSuffixes
        /\ ".filename" \in FileSuffixes
    BY DEF FileSuffixes
  <1>2. \A x \in DOMAIN p.params : x \in DOMAIN q.params /\ q.params[x] = p.params[x]
    BY DEF Filled
  <1>3. \A m \in 1 .. Len(p.files) : m \in 1 .. Len(q.files) /\ q.files[m] = p.files[m]
    BY DEF Filled
  <1>4. ASSUME NEW m \in 1 .. Len(p.files), FileFound(p, f, m) PROVE FileFound(q, f, m)
    <2>1. \A s \in FileSuffixes : Entry(f, s) \in DOMAIN p.params
      BY <1>4 DEF FileFound
    <2>2. \A s \in FileSuffixes :
             Entry(f, s) \in DOMAIN q.params /\ q.params[Entry(f, s)] = p.params[Entry(f, s)]
      BY <1>2, <2>1
    <2>3. q.files[m] = p.files[m]
      BY <1>3
    <2>4. /\ q.params[Entry(f, ".document")] = p.params[Entry(f, ".document")]
          /\ q.params[Entry(f, ".content_len")] = p.params[Entry(f, ".content_len")]
          /\ q.params[Entry(f, ".filename")] = p.params[Entry(f, ".filename")]
      BY <1>1, <2>2
    <2> QED
      BY <1>4, <2>2, <2>3, <2>4 DEF FileFound
  <1> QED
    BY <1>2, <1>3, <1>4 DEF Found

(* A field added to a form.                                                *)
IsNew(p, f) == /\ f.name \notin DOMAIN p.params
               /\ \A s \in FileSuffixes : Entry(f, s) \notin DOMAIN p.params

IsOf(x, f) == x = f.name \/ \E s \in FileSuffixes : x = Entry(f, s)

LEMMA FieldFound ==
    ASSUME NEW S, FileSuffixes \subseteq S, NEW N, NEW V, NEW p \in Forms(N, V),
           NEW f, Fits(f, N, V), f.name \in Seq(S)
    PROVE  /\ Filled(AddField(p, f), p)
           /\ \A x \in DOMAIN AddField(p, f).params : x \in DOMAIN p.params \/ IsOf(x, f)
           /\ IsNew(p, f) => Found(AddField(p, f), f)
  <1>1. PICK m : m = p.params
    OBVIOUS
  <1>2. PICK s \in Seq(V) : s = p.files
    BY DEF Forms
  <1>3. PICK n \in Nat : n = Len(s)
    BY LenProperties
  <1>4. PICK k \in Nat : k = n + 1
    OBVIOUS
  <1>5. PICK q : q = AddField(p, f)
    OBVIOUS
  <1>6. /\ q.params = IF f.filename = <<>> THEN TryEmplace(m, f.name, f.data)
                      ELSE FileEntries(m, f, k)
        /\ q.files = IF f.filename = <<>> THEN s ELSE Append(s, f.data)
    BY <1>1, <1>2, <1>3, <1>4, <1>5, FieldAdded
  <1>7. CASE f.filename = <<>>
    <2>1. Emplaced(q.params, m, f.name, f.data)
      BY <1>6, <1>7, EntryFirst
    <2>2. /\ DOMAIN q.params = DOMAIN m \cup {f.name} /\ \A x \in DOMAIN m : q.params[x] = m[x]
          /\ f.name \notin DOMAIN m => q.params[f.name] = f.data
      BY <2>1 DEF Emplaced
    <2>3. q.files = s
      BY <1>6, <1>7
    <2>4. Filled(q, p)
      BY <1>1, <1>2, <2>2, <2>3 DEF Filled
    <2>5. \A x \in DOMAIN q.params : x \in DOMAIN m \/ IsOf(x, f)
      BY <2>2 DEF IsOf
    <2>6. IsNew(p, f) => Found(q, f)
      BY <1>1, <1>7, <2>2 DEF IsNew, Found
    <2> QED
      BY <1>1, <1>5, <2>4, <2>5, <2>6
  <1>8. CASE f.filename # <<>>
    <2>1. FileEntered(q.params, m, f, k)
      BY <1>6, <1>8, FileParams
    <2>2. /\ \A x : x \in DOMAIN q.params <=>
                       x \in DOMAIN m \/ \E u \in FileSuffixes : x = Entry(f, u)
          /\ \A x \in DOMAIN m : q.params[x] = m[x]
      BY <2>1 DEF FileEntered
    <2>3. f.data \in V
      BY DEF Fits
    <2>4. PICK r \in Seq(V) : /\ r = Append(s, f.data) /\ Len(r) = n + 1 /\ r[n + 1] = f.data
                              /\ \A i \in 1 .. n : r[i] = s[i]
      <3>1. /\ Append(s, f.data) \in Seq(V) /\ Len(Append(s, f.data)) = Len(s) + 1
            /\ Append(s, f.data)[Len(s) + 1] = f.data
            /\ \A i \in 1 .. Len(s) : Append(s, f.data)[i] = s[i]
        BY <2>3, AppendProperties
      <3> QED
        BY <1>3, <3>1
    <2>5. q.files = r
      BY <1>6, <1>8, <2>4
    <2>6. \A i \in 1 .. n : i \in 1 .. n + 1
      OBVIOUS
    <2>7. Filled(q, p)
      BY <1>1, <1>2, <1>3, <2>2, <2>4, <2>5, <2>6 DEF Filled
    <2>8. \A x \in DOMAIN q.params : x \in DOMAIN m \/ IsOf(x, f)
      BY <2>2 DEF IsOf
    <2>9. ASSUME IsNew(p, f) PROVE Found(q, f)
      <3>1. \A u \in FileSuffixes : Entry(f, u) \notin DOMAIN m
        BY <1>1, <2>9 DEF IsNew
      <3>2. /\ q.params[Entry(f, ".content_len")] = <<ToString(Len(f.data))>>
            /\ q.params[Entry(f, ".document")] = Uuid(k)
            /\ q.params[Entry(f, ".filename")] = f.filename
        BY <2>1, <3>1 DEF FileEntered
      <3>3. k \in 1 .. Len(q.files) /\ q.files[k] = f.data
        BY <1>4, <2>4, <2>5
      <3>4. \A u \in FileSuffixes : Entry(f, u) \in DOMAIN q.params
        BY <2>2
      <3>5. FileFound(q, f, k)
        BY <3>2, <3>3, <3>4 DEF FileFound
      <3> QED
        BY <1>8, <3>3, <3>5 DEF Found
    <2> QED
      BY <1>1, <1>5, <2>7, <2>8, <2>9
  <1> QED
    BY <1>7, <1>8

(* The form has the first k fields, of which the first of each name counts *)
(* and nothing else.                                                       *)
FormKept(p, t, k) ==
    /\ \A x \in DOMAIN p.params : \E i \in 1 .. k : IsOf(x, t[i])
    /\ \A i \in 1 .. k : IsFirst(t, i) => Found(p, t[i])

LEMMA FormStep ==
    ASSUME NEW S, FileSuffixes \subseteq S, NEW N, NEW V, NEW p \in Forms(N, V),
           NEW t, NEW n \in Nat, Len(t) = n,
           \A i \in 1 .. n : Fits(t[i], N, V) /\ t[i].name \in Seq(S \ FileSuffixes),
           NEW k \in Nat, k + 1 <= n, FormKept(p, t, k)
    PROVE  FormKept(AddField(p, t[k + 1]), t, k + 1)
  <1>1. PICK f : f = t[k + 1]
    OBVIOUS
  <1>2. PICK q : q = AddField(p, f)
    OBVIOUS
  <1>3. \A i : i \in 1 .. k + 1 <=> i \in 1 .. k \/ i = k + 1
    OBVIOUS
  <1>4. k + 1 \in 1 .. n /\ \A i \in 1 .. k : i \in 1 .. n
    OBVIOUS
  <1>5. \A i \in 1 .. n : t[i].name \in Seq(S)
    <2>1. S \ FileSuffixes \subseteq S
      OBVIOUS
    <2> QED
      BY <2>1, WiderSeq
  <1>6. /\ Filled(q, p) /\ (IsNew(p, f) => Found(q, f))
        /\ \A x \in DOMAIN q.params : x \in DOMAIN p.params \/ IsOf(x, f)
    <2>1. Fits(f, N, V) /\ f.name \in Seq(S)
      BY <1>1, <1>4, <1>5
    <2> QED
      BY <1>2, <2>1, FieldFound
  <1>7. \A x \in DOMAIN p.params : \E i \in 1 .. k : IsOf(x, t[i])
    BY DEF FormKept
  <1>8. \A x \in DOMAIN q.params : \E i \in 1 .. k + 1 : IsOf(x, t[i])
    BY <1>1, <1>3, <1>6, <1>7
  <1>9. ASSUME NEW i \in 1 .. k + 1, IsFirst(t, i) PROVE Found(q, t[i])
    <2>1. CASE i \in 1 .. k
      <3>1. Found(p, t[i])
        BY <1>9, <2>1 DEF FormKept
      <3>2. PICK y : y = t[i]
        OBVIOUS
      <3>3. Found(q, y)
        BY <1>6, <3>1, <3>2, FoundStays
      <3> QED
        BY <3>2, <3>3
    <2>2. CASE i = k + 1
      <3>1. \A j \in 1 .. k : t[j].name # f.name
        <4>1. \A j \in 1 .. k : ~(j >= k + 1)
          OBVIOUS
        <4> QED
          BY <1>1, <1>4, <1>9, <2>2, <4>1 DEF IsFirst
      <3>2. ASSUME NEW j \in 1 .. k, NEW s \in FileSuffixes, NEW u \in FileSuffixes
            PROVE  /\ f.name # Entry(t[j], s) /\ Entry(f, s) # t[j].name
                   /\ Entry(f, s) # Entry(t[j], u)
        <4>1. PICK a \in Seq(S) : a = f.name
          BY <1>1, <1>4, <1>5
        <4>2. PICK b \in Seq(S) : b = t[j].name
          BY <1>4, <1>5
        <4>3. S \ FileSuffixes \subseteq S \ {s}
          OBVIOUS
        <4>4. a \in Seq(S \ {s}) /\ b \in Seq(S \ {s})
          BY <1>1, <1>4, <4>1, <4>2, <4>3, WiderSeq
        <4>5. s \in S /\ u \in S
          OBVIOUS
        <4>6. a # b
          BY <1>1, <3>1, <4>1, <4>2
        <4>7. a # b \o <<s>> /\ b # a \o <<s>>
          BY <4>4, <4>5, SuffixApart
        <4>8. a \o <<s>> # b \o <<u>>
          BY <4>5, <4>6, SuffixApart, SMTT(30)
        <4> QED
          BY <4>1, <4>2, <4>7, <4>8 DEF Entry
      <3>3. f.name \notin DOMAIN p.params
        BY <1>7, <3>1, <3>2 DEF IsOf
      <3>4. \A s \in FileSuffixes : Entry(f, s) \notin DOMAIN p.params
        BY <1>7, <3>2 DEF IsOf
      <3>5. Found(q, f)
        BY <1>6, <3>3, <3>4 DEF IsNew
      <3> QED
        BY <1>1, <2>2, <3>5
    <2> QED
      BY <1>3, <2>1, <2>2
  <1> QED
    BY <1>1, <1>2, <1>8, <1>9 DEF FormKept

LEMMA FormKeeps ==
    ASSUME NEW S, FileSuffixes \subseteq S, NEW t, NEW n \in Nat, DOMAIN t = 1 .. n, Len(t) = n,
           \A i \in 1 .. n : t[i].name \in Seq(S \ FileSuffixes)
    PROVE  /\ FormKept(FoldLeft(AddField, NoForm, t), t, n)
           /\ LET w == FoldLeft(AddField, NoForm, t).files IN DOMAIN w = 1 .. Len(w)
  <1>1. PICK g : /\ Filling(g, n, t)
                 /\ \A k \in 0 .. n : g[k] \in Forms(NamesOf(t), ValuesOf(t))
    BY FormFilled
  <1>2. PICK N : N = NamesOf(t)
    OBVIOUS
  <1>3. PICK V : V = ValuesOf(t)
    OBVIOUS
  <1>4. \A i \in 1 .. n : Fits(t[i], N, V)
    BY <1>2, <1>3, FieldsFit
  <1> DEFINE Good == {k \in Nat : k <= n => FormKept(g[k], t, k)}
  <1>5. 0 \in Good
    <2>1. g[0] = NoForm /\ DOMAIN NoForm.params = {}
      BY <1>1 DEF Filling, NoForm, NoEntries
    <2>2. \A i : i \notin 1 .. 0
      OBVIOUS
    <2>3. FormKept(g[0], t, 0)
      BY <2>1, <2>2 DEF FormKept
    <2> QED
      BY <2>3
  <1>6. ASSUME NEW k \in Nat, k \in Good PROVE k + 1 \in Good
    <2>1. k + 1 \in Nat
      OBVIOUS
    <2> SUFFICES ASSUME k + 1 <= n PROVE FormKept(g[k + 1], t, k + 1)
      BY <2>1, Zenon
    <2>2. PICK i \in 1 .. n : i = k + 1 /\ i - 1 = k
      OBVIOUS
    <2>3. g[i] = AddField(g[i - 1], t[i])
      BY <1>1 DEF Filling
    <2>4. PICK p \in Forms(N, V) : p = g[k]
      <3>1. k \in 0 .. n
        OBVIOUS
      <3> QED
        BY <1>1, <1>2, <1>3, <3>1
    <2>5. FormKept(p, t, k)
      <3>1. k <= n
        OBVIOUS
      <3> QED
        BY <1>6, <2>4, <3>1
    <2>6. FormKept(AddField(p, t[k + 1]), t, k + 1)
      BY <1>4, <2>5, FormStep
    <2> QED
      BY <2>2, <2>3, <2>4, <2>6
  <1>7. n \in Good
    <2> HIDE DEF Good
    <2> QED
      BY <1>5, <1>6, Induction
  <1>8. n <= n /\ FoldLeft(AddField, NoForm, t) = g[n]
    BY <1>1 DEF Filling
  <1>9. FormKept(g[n], t, n)
    BY <1>7, <1>8
  <1>10. PICK y \in Forms(N, V) : y = g[n]
    <2>1. n \in 0 .. n
      OBVIOUS
    <2> QED
      BY <1>1, <1>2, <1>3, <2>1
  <1>11. PICK w \in Seq(V) : w = y.files
    BY DEF Forms
  <1>12. DOMAIN w = 1 .. Len(w)
    BY LenProperties
  <1> QED
    BY <1>8, <1>9, <1>10, <1>11, <1>12

-----------------------------------------------------------------------------
(* What the service finds.                                                 *)

(* What the service is to find of the fields in the parameters p and the   *)
(* files w.                                                                *)
FieldArrived(p, w, c, f) ==
    CASE f.type = "scalar" -> f.name \in DOMAIN p /\ p[f.name] = Kept(c, f.value)
      [] IsFile(f) ->
           f.filename # <<>> =>
             \E k \in DOMAIN w :
                /\ p[f.name \o <<".document">>] = Uuid(k)
                /\ Unbroken(w[k]) = Unbroken(f.value)
                /\ p[f.name \o <<".content_len">>] = <<ToString(Len(w[k]))>>
                /\ p[f.name \o <<".filename">>] = f.filename
      [] OTHER -> f.name \notin DOMAIN p

FieldsArrived(p, w, c) ==
    /\ \A i \in DOMAIN c.fields : Counts(c, i) => FieldArrived(p, w, c, c.fields[i])
    /\ \A x \in DOMAIN p : \E i \in DOMAIN c.fields : IsPrefix(c.fields[i].name, x)

(* A name is a prefix of itself and of what it makes with a suffix.        *)
LEMMA NamePrefix ==
    ASSUME NEW S, NEW a \in Seq(S), NEW s
    PROVE  IsPrefix(a, a) /\ IsPrefix(a, a \o <<s>>)
  <1>1. PICK n \in Nat : n = Len(a)
    BY LenProperties
  <1>2. IsPrefix(a, a)
    BY <1>1 DEF IsPrefix
  <1>3. PICK T : T = S \cup {s}
    OBVIOUS
  <1>4. PICK x \in Seq(T) : x = a
    BY <1>3, WiderSeq
  <1>5. PICK b \in Seq(T) : b = a \o <<s>> /\ Len(b) = n + 1 /\ \A i \in 1 .. n : b[i] = x[i]
    <2>1. s \in T
      BY <1>3
    <2>2. Append(x, s) = x \o <<s>>
      BY <2>1, AppendIsConcat
    <2>3. /\ Append(x, s) \in Seq(T) /\ Len(Append(x, s)) = Len(x) + 1
          /\ \A i \in 1 .. Len(x) : Append(x, s)[i] = x[i]
      BY <2>1, AppendProperties
    <2> QED
      BY <1>1, <1>4, <2>2, <2>3
  <1>6. SubSeq(x, 1, n) = SubSeq(b, 1, n)
    <2>1. 0 < 1 /\ 1 <= n + 1 /\ n <= Len(x) /\ n <= Len(b) /\ 1 \in Nat
      BY <1>1, <1>4, <1>5
    <2>2. PICK u : u = SubSeq(x, 1, n)
      OBVIOUS
    <2>3. PICK v : v = SubSeq(b, 1, n)
      OBVIOUS
    <2>4. u \in Seq(T) /\ Len(u) = n + 1 - 1 /\ \A i \in 1 .. n + 1 - 1 : u[i] = x[i + 1 - 1]
      BY <2>1, <2>2, Piece
    <2>5. v \in Seq(T) /\ Len(v) = n + 1 - 1 /\ \A i \in 1 .. n + 1 - 1 : v[i] = b[i + 1 - 1]
      BY <2>1, <2>3, Piece
    <2>6. \A i \in 1 .. n : i + 1 - 1 = i
      OBVIOUS
    <2>7. Len(u) = Len(v) /\ \A i \in 1 .. Len(u) : u[i] = v[i]
      BY <1>5, <2>4, <2>5, <2>6
    <2>8. u = v
      BY <2>4, <2>5, <2>7, SeqEqual
    <2> QED
      BY <2>2, <2>3, <2>8
  <1> QED
    BY <1>1, <1>2, <1>4, <1>5, <1>6 DEF IsPrefix

LEMMA TypesWritten ==
    ASSUME NEW c \in Clients, NEW i \in 1 .. Len(c.fields)
    PROVE  /\ c.encoding = "json" => c.fields[i].type \in {"scalar", "null", "object"}
           /\ c.encoding = "form" => c.fields[i].type \in {"scalar", "file"}
           /\ c.encoding \in {"none", "query"} => c.fields[i].type = "scalar"
  <1>1. PICK f : f = c.fields[i]
    OBVIOUS
  <1>2. f \in ToSet(c.fields) /\ FieldsWritten(c)
    BY <1>1, FieldTexts, ClientsAssumption
  <1>3. f.type \in CASE c.encoding = "json" -> {"scalar", "null", "object"}
                     [] c.encoding = "form" -> {"scalar", "file"}
                     [] OTHER               -> {"scalar"}
    BY <1>2, Zenon DEF FieldsWritten
  <1>4. /\ "json" # "form" /\ "json" # "none" /\ "json" # "query"
        /\ "form" # "none" /\ "form" # "query"
    OBVIOUS
  <1>5. f.type \in IF c.encoding = "json" THEN {"scalar", "null", "object"}
                   ELSE IF c.encoding = "form" THEN {"scalar", "file"} ELSE {"scalar"}
    BY <1>3, <1>4
  <1>6. PICK y : y = f.type
    OBVIOUS
  <1>7. PICK e : e = c.encoding
    OBVIOUS
  <1>8. y \in IF e = "json" THEN {"scalar", "null", "object"}
             ELSE IF e = "form" THEN {"scalar", "file"} ELSE {"scalar"}
    BY <1>5, <1>6, <1>7, Zenon
  <1>9. /\ e = "json" => y \in {"scalar", "null", "object"}
        /\ e = "form" => y \in {"scalar", "file"}
        /\ e \in {"none", "query"} => y = "scalar"
    BY <1>4, <1>8
  <1> QED
    BY <1>1, <1>6, <1>7, <1>9

(* Query strings, objects and forms.                                       *)
LEMMA QueryArrives ==
    ASSUME NEW c \in Clients, c.encoding \in {"none", "query"}, c.defect # "line", NEW w
    PROVE  FieldsArrived(ParseQueryString(SeenTarget(c)), w, c)
  <1>1. PICK n \in Nat : n = Len(c.fields) /\ DOMAIN c.fields = 1 .. n
    BY FieldTexts, LenProperties
  <1>2. PICK p : p = ParseQueryString(SeenTarget(c))
    OBVIOUS
  <1>3. PICK s : s = c.fields
    OBVIOUS
  <1>4. /\ \A x : x \in DOMAIN p <=> \E i \in 1 .. n : x = s[i].name
        /\ \A i \in 1 .. n : IsFirst(s, i) => p[s[i].name] = s[i].value
    <2>1. FirstKept(p, s, n)
      BY <1>1, <1>2, <1>3, QueryRead
    <2> QED
      BY <2>1 DEF FirstKept
  <1>5. ASSUME NEW i \in 1 .. n, Counts(c, i) PROVE FieldArrived(p, w, c, s[i])
    <2>1. IsFirst(s, i)
      BY <1>1, <1>3, <1>5 DEF Counts, IsFirst
    <2>2. PICK f : f = s[i]
      OBVIOUS
    <2>3. f.type = "scalar"
      BY <1>1, <1>3, <2>2, TypesWritten
    <2>4. Kept(c, f.value) = f.value
      BY DEF Kept
    <2>5. f.name \in DOMAIN p /\ p[f.name] = f.value
      BY <1>4, <2>1, <2>2
    <2> QED
      BY <2>2, <2>3, <2>4, <2>5 DEF FieldArrived, IsFile
  <1>6. ASSUME NEW x \in DOMAIN p PROVE \E i \in 1 .. n : IsPrefix(s[i].name, x)
    <2>1. PICK i \in 1 .. n : x = s[i].name
      BY <1>4
    <2>2. s[i].name \in Seq(Alphabet(c))
      BY <1>1, <1>3, FieldTexts
    <2>3. IsPrefix(s[i].name, s[i].name)
      BY <2>2, NamePrefix
    <2> QED
      BY <2>1, <2>3
  <1> QED
    BY <1>1, <1>2, <1>3, <1>5, <1>6 DEF FieldsArrived

LEMMA ObjectArrives ==
    ASSUME NEW c \in Clients, c.encoding = "json", NEW w
    PROVE  FieldsArrived(GetMap(JsonObject(MembersOf(c))), w, c)
  <1>1. PICK n \in Nat : n = Len(c.fields) /\ DOMAIN c.fields = 1 .. n
    BY FieldTexts, LenProperties
  <1>2. PICK p : p = GetMap(JsonObject(MembersOf(c)))
    OBVIOUS
  <1>3. PICK s : s = c.fields
    OBVIOUS
  <1>4. /\ \A x \in DOMAIN p : \E i \in 1 .. n : x = s[i].name
        /\ \A i \in 1 .. n : IsLast(s, i, n) =>
              IF s[i].type = "scalar" THEN s[i].name \in DOMAIN p /\ p[s[i].name] = s[i].value
              ELSE s[i].name \notin DOMAIN p
    <2>1. ScalarsKept(p, s, n)
      BY <1>1, <1>2, <1>3, ObjectRead
    <2> QED
      BY <2>1 DEF ScalarsKept
  <1>5. ASSUME NEW i \in 1 .. n, Counts(c, i) PROVE FieldArrived(p, w, c, s[i])
    <2>1. IsLast(s, i, n)
      BY <1>1, <1>3, <1>5 DEF Counts, IsLast
    <2>2. s[i].type \in {"scalar", "null", "object"}
      BY <1>1, <1>3, TypesWritten
    <2>3. Kept(c, s[i].value) = s[i].value
      BY DEF Kept
    <2> QED
      BY <1>4, <2>1, <2>2, <2>3 DEF FieldArrived, IsFile
  <1>6. ASSUME NEW x \in DOMAIN p PROVE \E i \in 1 .. n : IsPrefix(s[i].name, x)
    <2>1. PICK i \in 1 .. n : x = s[i].name
      BY <1>4
    <2>2. s[i].name \in Seq(Alphabet(c))
      BY <1>1, <1>3, FieldTexts
    <2>3. IsPrefix(s[i].name, s[i].name)
      BY <2>2, NamePrefix
    <2> QED
      BY <2>1, <2>3
  <1> QED
    BY <1>1, <1>2, <1>3, <1>5, <1>6 DEF FieldsArrived

(* What the parser makes of the parts is what was put into them.           *)
FormFields(c) == [i \in DOMAIN RestsOf(c) |-> GetFormField(ParsePart(RestsOf(c)[i]))]

LEMMA FormFilledIn ==
    ASSUME NEW c \in Clients, c.encoding = "form", c.fields # <<>>,
           NEW d, d.type = "multipart", d.boundary = Boundary
    PROVE  /\ FormKept(ParsePayload(d, BodyOf(c)), FormFields(c), Len(c.fields))
           /\ LET w == ParsePayload(d, BodyOf(c)).files IN DOMAIN w = 1 .. Len(w)
  <1>1. PICK n \in Nat : n = Len(c.fields) /\ DOMAIN c.fields = 1 .. n
    BY FieldTexts, LenProperties
  <1>2. PICK r \in Seq(Seq(Alphabet(c))) :
           /\ r = RestsOf(c) /\ Len(r) = n
           /\ \A i \in 1 .. n : r[i] # <<>> /\ r[i] = RestOf(c.fields[i])
    BY <1>1, RestsType
  <1>3. DOMAIN r = 1 .. n
    BY <1>2, LenProperties
  <1>4. PICK t : t = FormFields(c)
    OBVIOUS
  <1>5. /\ t = [i \in DOMAIN r |-> GetFormField(ParsePart(r[i]))]
        /\ DOMAIN t = 1 .. n /\ Len(t) = n /\ \A i \in 1 .. n : t[i] = GetFormField(ParsePart(r[i]))
    <2>1. t = [i \in 1 .. n |-> GetFormField(ParsePart(r[i]))]
      BY <1>2, <1>3, <1>4 DEF FormFields
    <2>2. Len(t) = n
      BY <2>1
    <2> QED
      BY <1>3, <2>1, <2>2
  <1>6. ParsePayload(d, BodyOf(c)) = FoldLeft(AddField, NoForm, t)
    <2>1. ParsePayload(d, BodyOf(c)) = ParseForm(FormOf(c), Boundary)
      BY FormRead
    <2>2. ParseBody(FormOf(c), Boundary) = r
      BY <1>2, FormParts
    <2> QED
      BY <1>2, <1>3, <1>5, <2>1, <2>2 DEF ParseForm
  <1>7. PICK S : S = Alphabet(c) \cup FileSuffixes
    OBVIOUS
  <1>8. ASSUME NEW i \in 1 .. n PROVE t[i].name \in Seq(S \ FileSuffixes)
    <2>1. PICK f : f = c.fields[i]
      OBVIOUS
    <2>2. PartField(t[i], f)
      BY <1>1, <1>2, <1>5, <2>1, PartRead
    <2>3. t[i].name = f.name
      BY <2>2 DEF PartField
    <2>4. f \in ToSet(c.fields) /\ FieldsWritten(c)
      BY <1>1, <2>1, FieldTexts, ClientsAssumption
    <2>5. IsText(f.name) /\ Reserved \cap (ToSet(f.name) \cup ToSet(f.filename)) = {}
      BY <2>4, Zenon DEF FieldsWritten
    <2>6. FileSuffixes \subseteq Reserved
      BY DEF FileSuffixes, Reserved
    <2>7. ToSet(f.name) \subseteq Alphabet(c)
      <3>1. PICK T : T = ToSet(f.name) \cup ToSet(f.value) \cup ToSet(f.filename)
        OBVIOUS
      <3>2. T \in {ToSet(g.name) \cup ToSet(g.value) \cup ToSet(g.filename) : g \in ToSet(c.fields)}
        BY <2>4, <3>1
      <3>3. T \subseteq UNION {ToSet(g.name) \cup ToSet(g.value) \cup ToSet(g.filename) :
                                  g \in ToSet(c.fields)}
        BY <3>2, Zenon
      <3> QED
        BY <3>1, <3>3 DEF Alphabet
    <2>8. ToSet(f.name) \subseteq S \ FileSuffixes
      BY <1>7, <2>5, <2>6, <2>7
    <2>9. f.name \in Seq(S \ FileSuffixes)
      BY <2>5, <2>8, WiderSeq DEF IsText
    <2> QED
      BY <2>3, <2>9
  <1>9. /\ FormKept(FoldLeft(AddField, NoForm, t), t, n)
        /\ LET w == FoldLeft(AddField, NoForm, t).files IN DOMAIN w = 1 .. Len(w)
    <2>1. FileSuffixes \subseteq S
      BY <1>7
    <2> QED
      BY <1>5, <1>8, <2>1, FormKeeps
  <1> QED
    BY <1>1, <1>4, <1>6, <1>9

LEMMA FormArrives ==
    ASSUME NEW c \in Clients, c.encoding = "form", c.fields # <<>>,
           NEW d, d.type = "multipart", d.boundary = Boundary
    PROVE  FieldsArrived(ParsePayload(d, BodyOf(c)).params, ParsePayload(d, BodyOf(c)).files, c)
  <1>1. PICK n \in Nat : n = Len(c.fields) /\ DOMAIN c.fields = 1 .. n
    BY FieldTexts, LenProperties
  <1>2. PICK q : q = ParsePayload(d, BodyOf(c))
    OBVIOUS
  <1>3. PICK s : s = c.fields
    OBVIOUS
  <1>4. PICK t : t = FormFields(c)
    OBVIOUS
  <1>5. Len(t) = n /\ \A i \in 1 .. n : PartField(t[i], s[i])
    <2>1. PICK r \in Seq(Seq(Alphabet(c))) :
             r = RestsOf(c) /\ Len(r) = n /\ \A i \in 1 .. n : r[i] = RestOf(c.fields[i])
      BY <1>1, RestsType
    <2>2. t = [i \in 1 .. n |-> GetFormField(ParsePart(r[i]))]
      BY <1>4, <2>1, LenProperties DEF FormFields
    <2>3. Len(t) = n
      BY <2>2
    <2>4. \A i \in 1 .. n : t[i] = GetFormField(ParsePart(RestOf(s[i])))
      BY <1>3, <2>1, <2>2
    <2> QED
      BY <1>1, <1>3, <2>3, <2>4, PartRead
  <1>6. FormKept(q, t, n) /\ DOMAIN q.files = 1 .. Len(q.files)
    BY <1>1, <1>2, <1>4, FormFilledIn
  <1>7. ASSUME NEW i \in 1 .. n, Counts(c, i) PROVE FieldArrived(q.params, q.files, c, s[i])
    <2>1. \A j \in 1 .. n : t[j].name = s[j].name
      BY <1>5 DEF PartField
    <2>2. IsFirst(t, i)
      BY <1>1, <1>3, <1>5, <1>7, <2>1 DEF Counts, IsFirst
    <2>3. PICK f : f = s[i]
      OBVIOUS
    <2>4. PICK g : g = t[i]
      OBVIOUS
    <2>5. PartField(g, f) /\ Found(q, g)
      BY <1>5, <1>6, <2>2, <2>3, <2>4 DEF FormKept
    <2>6. f.type \in {"scalar", "file"}
      BY <1>1, <1>3, <2>3, TypesWritten
    <2>7. CASE f.type = "scalar"
      <3>1. ~IsFile(f) /\ Kept(c, f.value) = Unbroken(f.value)
        BY <2>7 DEF IsFile, Kept
      <3>2. g.filename = <<>> /\ g.name = f.name /\ g.data = Unbroken(f.value)
        BY <2>5, <3>1 DEF PartField
      <3>3. f.name \in DOMAIN q.params /\ q.params[f.name] = Unbroken(f.value)
        BY <2>5, <3>2 DEF Found
      <3> QED
        BY <2>3, <2>7, <3>1, <3>3 DEF FieldArrived
    <2>8. CASE f.type = "file"
      <3>1. IsFile(f)
        BY <2>8 DEF IsFile
      <3>2. g.filename = f.filename /\ g.name = f.name
        BY <2>5, <3>1 DEF PartField
      <3>3. ASSUME f.filename # <<>>
            PROVE  \E k \in DOMAIN q.files :
                      /\ q.params[f.name \o <<".document">>] = Uuid(k)
                      /\ Unbroken(q.files[k]) = Unbroken(f.value)
                      /\ q.params[f.name \o <<".content_len">>] = <<ToString(Len(q.files[k]))>>
                      /\ q.params[f.name \o <<".filename">>] = f.filename
        <4>1. PICK k \in 1 .. Len(q.files) : FileFound(q, g, k)
          BY <2>5, <3>2, <3>3 DEF Found
        <4>2. Unbroken(g.data) = Unbroken(f.value)
          BY <2>5, <3>1, <3>3 DEF PartField
        <4>3. k \in DOMAIN q.files
          BY <1>6
        <4> QED
          BY <3>2, <4>1, <4>2, <4>3 DEF FileFound, Entry
      <3> QED
        BY <2>3, <2>8, <3>1, <3>3 DEF FieldArrived
    <2> QED
      BY <2>6, <2>7, <2>8
  <1>8. ASSUME NEW x \in DOMAIN q.params PROVE \E i \in 1 .. n : IsPrefix(s[i].name, x)
    <2>1. PICK i \in 1 .. n : IsOf(x, t[i])
      BY <1>6 DEF FormKept
    <2>2. PICK a \in Seq(Alphabet(c)) : a = s[i].name
      BY <1>1, <1>3, FieldTexts
    <2>3. t[i].name = a
      BY <1>5, <2>2 DEF PartField
    <2>4. x = a \/ \E z \in FileSuffixes : x = a \o <<z>>
      BY <2>1, <2>3 DEF IsOf, Entry
    <2>5. IsPrefix(a, a) /\ \A z \in FileSuffixes : IsPrefix(a, a \o <<z>>)
      BY NamePrefix
    <2> QED
      BY <2>2, <2>4, <2>5
  <1> QED
    BY <1>1, <1>2, <1>3, <1>7, <1>8 DEF FieldsArrived

LEMMA PayloadArrives ==
    ASSUME NEW c \in Clients, c.method = "POST", NEW h, HeadKnown(h, c),
           c.defect \notin HeadDefects, ~ParsePayload(h, BodyOf(c)).err
    PROVE  FieldsArrived(ParsePayload(h, BodyOf(c)).params, ParsePayload(h, BodyOf(c)).files, c)
  <1>1. c.encoding \in {"json", "form"}
    BY ClientsAssumption
  <1>2. ShapeOf(c).bodyOk
    BY PayloadKnown DEF BodyRead
  <1>3. CASE c.encoding = "form"
    <2>1. c.fields # <<>>
      BY <1>2, <1>3 DEF ShapeOf
    <2>2. h.type = "multipart" /\ h.boundary = Boundary
      BY <1>3 DEF HeadKnown, HeadIs
    <2> QED
      BY <1>3, <2>1, <2>2, FormArrives
  <1>4. CASE c.encoding = "json"
    <2>1. c.defect # "json"
      BY <1>2 DEF ShapeOf
    <2>2. h.type # "multipart"
      BY <1>4 DEF HeadKnown, HeadIs
    <2>3. ParsePayload(h, BodyOf(c)) = [NoForm EXCEPT !.params = GetMap(JsonObject(MembersOf(c)))]
      BY <1>4, <2>1, <2>2, JsonRead
    <2>4. ParsePayload(h, BodyOf(c)).params = GetMap(JsonObject(MembersOf(c)))
      BY <2>3 DEF NoForm
    <2>5. PICK w : w = ParsePayload(h, BodyOf(c)).files
      OBVIOUS
    <2> QED
      BY <1>4, <2>4, <2>5, ObjectArrives
  <1> QED
    BY <1>1, <1>3, <1>4

(* Whatever packet it comes with, what is accepted has all its fields.     *)
LEMMA ReadArrives ==
    ASSUME TypeInv, NEW h, NEW got, Takes(h, got), verdict = "none",
           verdict' \in {"forbidden", "not_found", "ok", "service"}, client.method # "OPTIONS"
    PROVE  FieldsArrived(params', files', client)
  <1>1. PICK c \in Clients : c = client
    BY DEF TypeInv, TypeOK
  <1>2. CASE Ends(h, got)
    <2>1. /\ pos = 0 /\ HeadMade(h, c, got) /\ (h.err \/ c.method # "POST")
          /\ params' = IF h.method = "GET" /\ ~h.err THEN ParseQueryString(h.target) ELSE NoEntries
          /\ verdict' = Decision(h, h.err)
      BY <1>1, <1>2 DEF Ends
    <2>2. ~h.err
      BY <2>1 DEF Decision
    <2>3. c.method = "GET"
      BY <1>1, <2>1, <2>2, ClientsAssumption DEF Methods
    <2>4. h.method = "GET" /\ h.target = SeenTarget(c) /\ c.defect # "line"
      BY <2>1, <2>2, <2>3 DEF HeadMade, HeadIs, HeadDefects
    <2>5. c.encoding \in {"none", "query"}
      BY <2>3, ClientsAssumption
    <2>6. PICK w : w = files'
      OBVIOUS
    <2>7. FieldsArrived(ParseQueryString(SeenTarget(c)), w, c)
      BY <2>4, <2>5, QueryArrives
    <2> QED
      BY <1>1, <2>1, <2>2, <2>4, <2>6, <2>7
  <1>3. CASE Completes(h, got)
    <2>1. /\ HeadKnown(h, c) /\ c.method = "POST" /\ c.defect \notin HeadDefects
          /\ params' = ParsePayload(h, BodyOf(c)).params
          /\ files' = ParsePayload(h, BodyOf(c)).files
          /\ verdict' = Decision(h, ParsePayload(h, BodyOf(c)).err)
      BY <1>1, <1>3 DEF Completes
    <2>2. ~ParsePayload(h, BodyOf(c)).err
      BY <2>1 DEF Decision
    <2> QED
      BY <1>1, <2>1, <2>2, PayloadArrives
  <1>4. CASE Continues(h, got)
    BY <1>4 DEF Continues
  <1> QED
    BY <1>2, <1>3, <1>4 DEF Takes

(* The parameters are the worker's once it has come to an outcome.         *)
LEMMA SentMeans ==
    /\ ParamsAsSent <=>
         (Accepted /\ outcome = NoOutcome /\ client.method # "OPTIONS" =>
            FieldsArrived(params, files, client))
    /\ ParamsAsSent' <=>
         (Accepted' /\ outcome' = NoOutcome /\ client'.method # "OPTIONS" =>
            FieldsArrived(params', files', client'))
  BY Zenon DEF ParamsAsSent, FieldsArrived, Arrived, FieldArrived, NoOutcome, IsFile, Counts,
     Unbroken, Kept

LEMMA NextSent == TypeInv /\ ParamsAsSent /\ [Next]_vars => ParamsAsSent'
  <1> SUFFICES ASSUME TypeInv, ParamsAsSent, [Next]_vars PROVE ParamsAsSent'
    OBVIOUS
  <1>1. CASE Read
    <2>1. verdict = "none" /\ client' = client /\ \E h, got : Takes(h, got)
      BY <1>1, ReadTakes
    <2>2. ASSUME Accepted', client.method # "OPTIONS"
          PROVE  FieldsArrived(params', files', client)
      <3>1. verdict' \in {"forbidden", "not_found", "ok", "service"}
        BY <2>2 DEF Accepted
      <3> QED
        BY <2>1, <2>2, <3>1, ReadArrives
    <2> QED
      BY <2>1, <2>2, SentMeans
  <1>2. CASE Execute
    <2>1. outcome' # NoOutcome
      BY <1>2, ExecuteEnds DEF NoOutcome
    <2> QED
      BY <2>1, SentMeans
  <1>3. CASE Tick \/ UNCHANGED vars
    <2>1. UNCHANGED <<client, params, files, verdict, outcome>>
      BY <1>3 DEF Tick, vars
    <2>2. Accepted' <=> Accepted
      BY <2>1 DEF Accepted
    <2> QED
      BY <2>1, <2>2, SentMeans
  <1> QED
    BY <1>1, <1>2, <1>3 DEF Next

(* The service finds under each name what the client put there.            *)
THEOREM ParametersAsSent == Spec => []ParamsAsSent
  <1>1. Init => ParamsAsSent
    BY DEF Init, ParamsAsSent, Accepted
  <1> QED
    BY InitType, NextType, NextSent, <1>1, PTL DEF Spec

-----------------------------------------------------------------------------
(* The statement: a text stays one literal.                                *)

(* A statement under the eyes of a database: what it has read of it.       *)
ItemsOver(S) == [kind : {"bare", "literal", "unended"}, text : Seq(S)]

Lexers(S) == [mode : {"out", "in", "quote"}, text : Seq(S), items : Seq(ItemsOver(S))]

Lex(l, t) == FoldLeft(LexSymbol, l, t)

LEMMA LexerMade ==
    ASSUME NEW S, NEW m \in {"out", "in", "quote"}, NEW w \in Seq(S), NEW r \in Seq(ItemsOver(S))
    PROVE  [mode |-> m, text |-> w, items |-> r] \in Lexers(S)
  BY DEF Lexers

LEMMA SymbolRead ==
    ASSUME NEW S, NEW l \in Lexers(S), NEW x \in S
    PROVE  LexSymbol(l, x) \in Lexers(S)
  <1>1. PICK w \in Seq(S) : w = l.text
    BY DEF Lexers
  <1>2. PICK r \in Seq(ItemsOver(S)) : r = l.items
    BY DEF Lexers
  <1>3. PICK w1 \in Seq(S) : w1 = Append(w, x)
    BY AppendProperties
  <1>4. PICK e \in Seq(S) : e = <<>>
    BY EmptySeq
  <1>5. PICK b \in ItemsOver(S) : b = Bare(x)
    <2>1. <<x>> \in Seq(S)
      OBVIOUS
    <2> QED
      BY <2>1 DEF Bare, ItemsOver
  <1>6. PICK k \in ItemsOver(S) : k = Quoted(w)
    BY DEF Quoted, ItemsOver
  <1>7. PICK r1 \in Seq(ItemsOver(S)) : r1 = Append(r, b)
    BY AppendProperties
  <1>8. PICK r2 \in Seq(ItemsOver(S)) : r2 = r \o <<k, b>>
    <2>1. <<k, b>> \in Seq(ItemsOver(S))
      BY Words, Zenon
    <2> QED
      BY <2>1, ConcatProperties
  <1>9. l.mode \in {"out", "in", "quote"}
    BY DEF Lexers
  <1>10. CASE l.mode = "in"
    <2>1. LexSymbol(l, x) = IF x = "'" THEN [l EXCEPT !.mode = "quote"] ELSE [l EXCEPT !.text = w1]
      BY <1>1, <1>3, <1>10 DEF LexSymbol
    <2> QED
      BY <2>1 DEF Lexers
  <1>11. CASE l.mode = "quote"
    <2>1. CASE x = "'"
      <3>1. LexSymbol(l, x) = [l EXCEPT !.mode = "in", !.text = w1]
        BY <1>1, <1>3, <1>11, <2>1 DEF LexSymbol
      <3> QED
        BY <3>1 DEF Lexers
    <2>2. CASE x # "'"
      <3>1. LexSymbol(l, x) = [mode |-> "out", text |-> e, items |-> r2]
        BY <1>1, <1>2, <1>4, <1>5, <1>6, <1>8, <1>11, <2>2 DEF LexSymbol
      <3>2. [mode |-> "out", text |-> e, items |-> r2] \in Lexers(S)
        BY LexerMade
      <3> QED
        BY <3>1, <3>2, Zenon
    <2> QED
      BY <2>1, <2>2
  <1>12. CASE l.mode = "out"
    <2>1. LexSymbol(l, x) = IF x = "'" THEN [l EXCEPT !.mode = "in"] ELSE [l EXCEPT !.items = r1]
      BY <1>2, <1>5, <1>7, <1>12 DEF LexSymbol
    <2> QED
      BY <2>1 DEF Lexers
  <1> QED
    BY <1>9, <1>10, <1>11, <1>12

(* The lexer goes through the symbols one by one.                          *)
Lexing(g, n, t, l) ==
    /\ g[0] = l
    /\ \A i \in 1 .. n : g[i] = LexSymbol(g[i - 1], t[i])
    /\ FoldLeft(LexSymbol, l, t) = g[n]

LEMMA LexSteps ==
    ASSUME NEW l, NEW n \in Nat, NEW t, DOMAIN t = 1 .. n, NEW T, l \in T,
           \A x \in T : \A i \in 1 .. n : LexSymbol(x, t[i]) \in T
    PROVE  \E g : Lexing(g, n, t, l)
  <1> DEFINE Next1(x, i) == LexSymbol(x, t[i])
             O == [p \in T \X (1 .. n) |-> Next1(p[1], p[2])]
             Is(f) == f = [s \in SUBSET (DOMAIN t) |->
                             IF s = {} THEN l ELSE Next1(f[s \ {Max(s)}], Max(s))]
             iter == CHOOSE f : Is(f)
             g == [i \in 0 .. n |-> iter[1 .. i]]
  <1>1. FoldLeft(LexSymbol, l, t) = iter[DOMAIN t]
    BY DEF FoldLeft, MapThenFoldSet
  <1>2. \A x \in T : \A i \in 1 .. n : Next1(x, i) \in T
    OBVIOUS
  <1>3. \A x, i : Next1(x, i) = LexSymbol(x, t[i])
    OBVIOUS
  <1> HIDE DEF Next1
  <1>4. O \in [T \X (1 .. n) -> T]
    BY <1>2
  <1>5. PICK f : IsFold(f, n, T, l, O)
    <2> HIDE DEF O
    <2> QED
      BY <1>4, FoldExists
  <1>6. Is(f)
    <2>1. ASSUME NEW s \in SUBSET (1 .. n), s # {}
          PROVE  f[s] = Next1(f[s \ {Max(s)}], Max(s))
      <3>1. Max(s) \in 1 .. n
        BY <2>1, LargestOf
      <3>2. <<f[s \ {Max(s)}], Max(s)>> \in T \X (1 .. n)
        <4>1. f[s \ {Max(s)}] \in T
          BY <1>5, <2>1 DEF IsFold
        <4> QED
          BY <3>1, <4>1
      <3> QED
        BY <1>5, <2>1, <3>2 DEF IsFold
    <2> QED
      BY <1>5, <2>1 DEF IsFold
  <1>7. Is(iter)
    <2> HIDE DEF Is
    <2> QED
      BY <1>6
  <1> HIDE DEF iter
  <1>8. g[0] = l
    <2>1. 1 .. 0 = {} /\ {} \in SUBSET (DOMAIN t)
      OBVIOUS
    <2> QED
      BY <1>7, <2>1
  <1>9. ASSUME NEW i \in 1 .. n PROVE g[i] = LexSymbol(g[i - 1], t[i])
    <2>1. iter[1 .. i] = Next1(iter[(1 .. i) \ {Max(1 .. i)}], Max(1 .. i))
      BY <1>7, Segments
    <2>2. iter[1 .. i] = Next1(iter[1 .. (i - 1)], i)
      BY <2>1, Segments
    <2> QED
      BY <1>3, <2>2
  <1>10. FoldLeft(LexSymbol, l, t) = g[n]
    BY <1>1
  <1> HIDE DEF g
  <1>11. Lexing(g, n, t, l)
    BY <1>8, <1>9, <1>10 DEF Lexing
  <1> QED
    BY <1>11

(* What the lexer has read, as it grows with the text.                     *)
LEMMA LexGrows ==
    ASSUME NEW S, NEW t \in Seq(S), NEW l \in Lexers(S)
    PROVE  /\ Lex(l, t) \in Lexers(S)
           /\ \E g : Lexing(g, Len(t), t, l)
  <1>1. PICK n \in Nat : n = Len(t) /\ DOMAIN t = 1 .. n
    BY LenProperties
  <1>2. \A i \in 1 .. n : t[i] \in S
    BY <1>1, ElementOfSeq
  <1>3. \A k \in Lexers(S) : \A i \in 1 .. n : LexSymbol(k, t[i]) \in Lexers(S)
    BY <1>2, SymbolRead
  <1>4. PICK g : Lexing(g, n, t, l)
    BY <1>1, <1>3, LexSteps
  <1> DEFINE Good == {k \in Nat : k <= n => g[k] \in Lexers(S)}
  <1>5. 0 \in Good
    BY <1>4 DEF Lexing
  <1>6. ASSUME NEW k \in Nat, k \in Good PROVE k + 1 \in Good
    <2>1. k + 1 \in Nat
      OBVIOUS
    <2> SUFFICES ASSUME k + 1 <= n PROVE g[k + 1] \in Lexers(S)
      BY <2>1, Zenon
    <2>2. k + 1 \in 1 .. n /\ k + 1 - 1 = k
      OBVIOUS
    <2>3. g[k + 1] = LexSymbol(g[k], t[k + 1])
      BY <1>4, <2>2 DEF Lexing
    <2>4. g[k] \in Lexers(S)
      BY <1>6
    <2> QED
      BY <1>3, <2>2, <2>3, <2>4, Zenon
  <1>7. n \in Good
    <2> HIDE DEF Good
    <2> QED
      BY <1>5, <1>6, Induction
  <1>8. g[n] \in Lexers(S)
    BY <1>7
  <1>9. Lex(l, t) = g[n]
    BY <1>4 DEF Lexing, Lex
  <1> QED
    BY <1>1, <1>4, <1>8, <1>9

(* One symbol more.                                                        *)
LEMMA LexAppend ==
    ASSUME NEW S, NEW t \in Seq(S), NEW x \in S, NEW l \in Lexers(S)
    PROVE  Lex(l, Append(t, x)) = LexSymbol(Lex(l, t), x)
  <1>1. PICK n \in Nat : n = Len(t)
    BY LenProperties
  <1>2. PICK u \in Seq(S) : u = Append(t, x)
    BY AppendProperties
  <1>3. Len(u) = n + 1 /\ u[n + 1] = x /\ \A i \in 1 .. n : u[i] = t[i]
    BY <1>1, <1>2, AppendProperties
  <1>4. PICK g : Lexing(g, n, t, l)
    BY <1>1, LexGrows
  <1>5. PICK h : Lexing(h, n + 1, u, l)
    BY <1>3, LexGrows
  <1> DEFINE Good == {k \in Nat : k <= n => g[k] = h[k]}
  <1>6. 0 \in Good
    BY <1>4, <1>5 DEF Lexing
  <1>7. ASSUME NEW k \in Nat, k \in Good PROVE k + 1 \in Good
    <2>1. k + 1 \in Nat
      OBVIOUS
    <2> SUFFICES ASSUME k + 1 <= n PROVE g[k + 1] = h[k + 1]
      BY <2>1, Zenon
    <2>2. k + 1 \in 1 .. n /\ k + 1 \in 1 .. n + 1 /\ k + 1 - 1 = k
      OBVIOUS
    <2>3. g[k + 1] = LexSymbol(g[k], t[k + 1])
      BY <1>4, <2>2 DEF Lexing
    <2>4. h[k + 1] = LexSymbol(h[k], u[k + 1])
      BY <1>5, <2>2 DEF Lexing
    <2>5. g[k] = h[k]
      BY <1>7
    <2> QED
      BY <1>3, <2>2, <2>3, <2>4, <2>5, Zenon
  <1>8. n \in Good
    <2> HIDE DEF Good
    <2> QED
      BY <1>6, <1>7, Induction
  <1>9. g[n] = h[n]
    BY <1>8
  <1>10. Lex(l, t) = g[n] /\ Lex(l, u) = h[n + 1]
    BY <1>4, <1>5 DEF Lexing, Lex
  <1>11. h[n + 1] = LexSymbol(h[n], x)
    <2>1. n + 1 \in 1 .. n + 1 /\ n + 1 - 1 = n
      OBVIOUS
    <2>2. h[n + 1] = LexSymbol(h[n], u[n + 1])
      BY <1>5, <2>1 DEF Lexing
    <2> QED
      BY <1>3, <2>2
  <1> QED
    BY <1>2, <1>9, <1>10, <1>11

LEMMA LexNone ==
    ASSUME NEW S, NEW l \in Lexers(S)
    PROVE  Lex(l, <<>>) = l
  <1>1. PICK t \in Seq(S) : t = <<>> /\ Len(t) = 0 /\ DOMAIN t = 1 .. 0
    <2>1. <<>> \in Seq(S) /\ Len(<<>>) = 0
      BY EmptySeq
    <2>2. DOMAIN <<>> = 1 .. 0
      OBVIOUS
    <2> QED
      BY <2>1, <2>2, Zenon
  <1>2. \A x \in {l} : \A i \in 1 .. 0 : LexSymbol(x, t[i]) \in {l}
    OBVIOUS
  <1>3. PICK g : Lexing(g, 0, t, l)
    BY <1>1, <1>2, LexSteps
  <1> QED
    BY <1>1, <1>3 DEF Lexing, Lex

(* A text after another.                                                   *)
LEMMA LexThen ==
    ASSUME NEW S, NEW t \in Seq(S), NEW u \in Seq(S), NEW l \in Lexers(S)
    PROVE  Lex(l, Then(t, u)) = Lex(Lex(l, t), u)
  <1>1. PICK n \in Nat : n = Len(u)
    BY LenProperties
  <1>2. PICK k0 \in Lexers(S) : k0 = Lex(l, t)
    BY LexGrows
  <1> DEFINE R(k) == SubSeq(u, 1, k)
             Good == {k \in Nat : k <= n => Lex(l, Then(t, R(k))) = Lex(k0, R(k))}
  <1>3. 0 \in Good
    <2>1. R(0) = <<>>
      BY SubSeqEmpty
    <2>2. PICK z \in Seq(S) : z = <<>>
      <3>1. <<>> \in Seq(S)
        OBVIOUS
      <3> QED
        BY <3>1
    <2>3. Then(t, z) = t /\ Lex(k0, z) = k0
      BY <2>2, ConcatEmptySeq, LexNone DEF Then
    <2> QED
      BY <1>2, <2>1, <2>2, <2>3
  <1>4. ASSUME NEW k \in Nat, k \in Good PROVE k + 1 \in Good
    <2>1. k + 1 \in Nat
      OBVIOUS
    <2> SUFFICES ASSUME k + 1 <= n PROVE Lex(l, Then(t, R(k + 1))) = Lex(k0, R(k + 1))
      BY <2>1, Zenon
    <2>2. PICK q \in Seq(S), y \in S : /\ q = R(k) /\ y = u[k + 1]
                                      /\ R(k + 1) = Append(q, y) /\ R(k + 1) = Then(q, <<y>>)
      <3>1. k + 1 <= Len(u)
        BY <1>1
      <3>2. /\ SubSeq(u, 1, k) \in Seq(S) /\ u[k + 1] \in S
            /\ SubSeq(u, 1, k + 1) = Append(SubSeq(u, 1, k), u[k + 1])
            /\ SubSeq(u, 1, k + 1) = Then(SubSeq(u, 1, k), <<u[k + 1]>>)
        BY <3>1, BeginningGrows
      <3> QED
        BY <3>2, Zenon
    <2>3. PICK a \in Seq(S) : a = <<y>>
      BY Words, Zenon
    <2>4. PICK v \in Seq(S) : v = Then(t, q)
      BY ThenType
    <2>5. Then(t, R(k + 1)) = Append(v, y)
      <3>1. Then(t, Then(q, a)) = Then(v, a)
        BY <2>4, ThenThen
      <3>2. Then(v, a) = Append(v, y)
        BY <2>3, AppendIsConcat DEF Then
      <3> QED
        BY <2>2, <2>3, <3>1, <3>2
    <2>6. Lex(l, v) = Lex(k0, q)
      BY <1>4, <2>2, <2>4
    <2>7. Lex(l, Append(v, y)) = LexSymbol(Lex(l, v), y)
      BY LexAppend
    <2>8. Lex(k0, Append(q, y)) = LexSymbol(Lex(k0, q), y)
      BY LexAppend
    <2> QED
      BY <2>2, <2>5, <2>6, <2>7, <2>8
  <1>5. n \in Good
    <2> HIDE DEF Good
    <2> QED
      BY <1>3, <1>4, Induction
  <1>6. R(n) = u
    BY <1>1, SubSeqFull
  <1>7. Lex(l, Then(t, R(n))) = Lex(k0, R(n))
    BY <1>5
  <1> QED
    BY <1>2, <1>6, <1>7, Zenon

(* A lexer that had read items before.                                     *)
Behind(r, l) == [mode |-> l.mode, text |-> l.text, items |-> Then(r, l.items)]

Seen(m, w, i) == [mode |-> m, text |-> w, items |-> i]

(* What each symbol does to a lexer.                                       *)
LEMMA SymbolIn ==
    ASSUME NEW w, NEW i, NEW x
    PROVE  LexSymbol(Seen("in", w, i), x) =
             IF x = "'" THEN Seen("quote", w, i) ELSE Seen("in", Append(w, x), i)
  <1>1. PICK l : l = Seen("in", w, i)
    OBVIOUS
  <1>2. l.mode = "in" /\ l.text = w
    BY <1>1 DEF Seen
  <1>3. CASE x = "'"
    <2>1. LexSymbol(l, x) = [l EXCEPT !.mode = "quote"]
      BY <1>2, <1>3 DEF LexSymbol
    <2>2. [l EXCEPT !.mode = "quote"] = Seen("quote", w, i)
      BY <1>1 DEF Seen
    <2> QED
      BY <1>1, <1>3, <2>1, <2>2
  <1>4. CASE x # "'"
    <2>1. PICK u : u = Append(w, x)
      OBVIOUS
    <2>2. LexSymbol(l, x) = [l EXCEPT !.text = u]
      BY <1>2, <1>4, <2>1 DEF LexSymbol
    <2>3. [l EXCEPT !.text = u] = Seen("in", u, i)
      BY <1>1 DEF Seen
    <2> QED
      BY <1>1, <1>4, <2>1, <2>2, <2>3
  <1> QED
    BY <1>3, <1>4

LEMMA SymbolQuote ==
    ASSUME NEW w, NEW i, NEW x
    PROVE  LexSymbol(Seen("quote", w, i), x) =
             IF x = "'" THEN Seen("in", Append(w, x), i)
             ELSE Seen("out", <<>>, i \o <<Quoted(w), Bare(x)>>)
  <1>1. PICK l : l = Seen("quote", w, i)
    OBVIOUS
  <1>2. l.mode = "quote" /\ l.text = w /\ l.items = i
    BY <1>1 DEF Seen
  <1>3. CASE x = "'"
    <2>1. PICK u : u = Append(w, x)
      OBVIOUS
    <2>2. LexSymbol(l, x) = [l EXCEPT !.mode = "in", !.text = u]
      BY <1>2, <1>3, <2>1 DEF LexSymbol
    <2>3. PICK k : k = [l EXCEPT !.mode = "in"]
      OBVIOUS
    <2>4. k = Seen("in", w, i)
      BY <1>1, <2>3 DEF Seen
    <2>5. [l EXCEPT !.mode = "in", !.text = u] = [k EXCEPT !.text = u]
      BY <2>3
    <2>6. [k EXCEPT !.text = u] = Seen("in", u, i)
      BY <2>4 DEF Seen
    <2> QED
      BY <1>1, <1>3, <2>1, <2>2, <2>5, <2>6
  <1>4. CASE x # "'"
    <2>1. LexSymbol(l, x) = [mode |-> "out", text |-> <<>>,
                             items |-> l.items \o <<Quoted(l.text), Bare(x)>>]
      BY <1>2, <1>4 DEF LexSymbol
    <2> QED
      BY <1>1, <1>2, <1>4, <2>1, Zenon DEF Seen
  <1> QED
    BY <1>3, <1>4

LEMMA SymbolOut ==
    ASSUME NEW w, NEW i, NEW x
    PROVE  LexSymbol(Seen("out", w, i), x) =
             IF x = "'" THEN Seen("in", w, i) ELSE Seen("out", w, Append(i, Bare(x)))
  <1>1. PICK l : l = Seen("out", w, i)
    OBVIOUS
  <1>2. l.mode = "out" /\ l.items = i
    BY <1>1 DEF Seen
  <1>3. CASE x = "'"
    <2>1. LexSymbol(l, x) = [l EXCEPT !.mode = "in"]
      BY <1>2, <1>3 DEF LexSymbol
    <2>2. [l EXCEPT !.mode = "in"] = Seen("in", w, i)
      BY <1>1 DEF Seen
    <2> QED
      BY <1>1, <1>3, <2>1, <2>2
  <1>4. CASE x # "'"
    <2>1. PICK u : u = Append(i, Bare(x))
      OBVIOUS
    <2>2. LexSymbol(l, x) = [l EXCEPT !.items = u]
      BY <1>2, <1>4, <2>1 DEF LexSymbol
    <2>3. [l EXCEPT !.items = u] = Seen("out", w, u)
      BY <1>1 DEF Seen
    <2> QED
      BY <1>1, <1>4, <2>1, <2>2, <2>3
  <1> QED
    BY <1>3, <1>4

LEMMA SymbolBehind ==
    ASSUME NEW S, NEW l \in Lexers(S), NEW x \in S, NEW r \in Seq(ItemsOver(S))
    PROVE  LexSymbol(Behind(r, l), x) = Behind(r, LexSymbol(l, x))
  <1>1. PICK w \in Seq(S), i \in Seq(ItemsOver(S)) : w = l.text /\ i = l.items
    BY DEF Lexers
  <1>2. PICK m \in {"out", "in", "quote"} : m = l.mode
    BY DEF Lexers
  <1>3. l = Seen(m, w, i)
    BY <1>1, <1>2 DEF Lexers, Seen
  <1>4. PICK j \in Seq(ItemsOver(S)) : j = Then(r, i)
    BY ThenType
  <1>5. Behind(r, l) = Seen(m, w, j)
    BY <1>1, <1>2, <1>4, Zenon DEF Behind, Seen
  <1>6. \A n, y, z : Behind(r, Seen(n, y, z)) = Seen(n, y, Then(r, z))
    BY DEF Behind, Seen
  <1>7. Bare(x) \in ItemsOver(S) /\ Quoted(w) \in ItemsOver(S)
    <2>1. <<x>> \in Seq(S)
      OBVIOUS
    <2> QED
      BY <2>1 DEF Bare, Quoted, ItemsOver
  <1>8. PICK b \in Seq(ItemsOver(S)) : b = <<Bare(x)>>
    BY <1>7, Words, Zenon
  <1>9. PICK d \in Seq(ItemsOver(S)) : d = <<Quoted(w), Bare(x)>>
    BY <1>7, Words, Zenon
  <1>10. Then(j, b) = Then(r, Then(i, b)) /\ Then(j, d) = Then(r, Then(i, d))
    BY <1>4, ThenThen
  <1>11. Append(i, Bare(x)) = Then(i, b) /\ Append(j, Bare(x)) = Then(j, b)
    BY <1>7, <1>8, AppendIsConcat DEF Then
  <1>12. /\ i \o <<Quoted(w), Bare(x)>> = Then(i, d)
         /\ j \o <<Quoted(w), Bare(x)>> = Then(j, d)
    BY <1>9 DEF Then
  <1>13. CASE m = "in"
    <2>1. LexSymbol(l, x) = IF x = "'" THEN Seen("quote", w, i) ELSE Seen("in", Append(w, x), i)
      BY <1>3, <1>13, SymbolIn
    <2>2. LexSymbol(Behind(r, l), x) =
             IF x = "'" THEN Seen("quote", w, j) ELSE Seen("in", Append(w, x), j)
      BY <1>5, <1>13, SymbolIn
    <2> QED
      BY <1>4, <1>6, <2>1, <2>2, ZenonT(60)
  <1>14. CASE m = "quote"
    <2>1. LexSymbol(l, x) = IF x = "'" THEN Seen("in", Append(w, x), i)
                            ELSE Seen("out", <<>>, Then(i, d))
      <3>1. LexSymbol(Seen("quote", w, i), x) =
               IF x = "'" THEN Seen("in", Append(w, x), i)
               ELSE Seen("out", <<>>, i \o <<Quoted(w), Bare(x)>>)
        BY SymbolQuote
      <3> QED
        BY <1>3, <1>12, <1>14, <3>1, Zenon
    <2>2. LexSymbol(Behind(r, l), x) = IF x = "'" THEN Seen("in", Append(w, x), j)
                                       ELSE Seen("out", <<>>, Then(j, d))
      <3>1. LexSymbol(Seen("quote", w, j), x) =
               IF x = "'" THEN Seen("in", Append(w, x), j)
               ELSE Seen("out", <<>>, j \o <<Quoted(w), Bare(x)>>)
        BY SymbolQuote
      <3> QED
        BY <1>5, <1>12, <1>14, <3>1, Zenon
    <2> QED
      BY <1>4, <1>6, <1>10, <2>1, <2>2, ZenonT(60)
  <1>15. CASE m = "out"
    <2>1. LexSymbol(l, x) = IF x = "'" THEN Seen("in", w, i) ELSE Seen("out", w, Then(i, b))
      <3>1. LexSymbol(Seen("out", w, i), x) =
               IF x = "'" THEN Seen("in", w, i) ELSE Seen("out", w, Append(i, Bare(x)))
        BY SymbolOut
      <3> QED
        BY <1>3, <1>11, <1>15, <3>1, Zenon
    <2>2. LexSymbol(Behind(r, l), x) =
             IF x = "'" THEN Seen("in", w, j) ELSE Seen("out", w, Then(j, b))
      <3>1. LexSymbol(Seen("out", w, j), x) =
               IF x = "'" THEN Seen("in", w, j) ELSE Seen("out", w, Append(j, Bare(x)))
        BY SymbolOut
      <3> QED
        BY <1>5, <1>11, <1>15, <3>1, Zenon
    <2> QED
      BY <1>4, <1>6, <1>10, <2>1, <2>2, ZenonT(60)
  <1> QED
    BY <1>13, <1>14, <1>15

LEMMA BehindType ==
    ASSUME NEW S, NEW l \in Lexers(S), NEW r \in Seq(ItemsOver(S))
    PROVE  Behind(r, l) \in Lexers(S)
  <1>1. Then(r, l.items) \in Seq(ItemsOver(S))
    BY ThenType DEF Lexers
  <1> QED
    BY <1>1, LexerMade DEF Behind, Lexers

LEMMA LexBehind ==
    ASSUME NEW S, NEW t \in Seq(S), NEW l \in Lexers(S), NEW r \in Seq(ItemsOver(S))
    PROVE  Lex(Behind(r, l), t) = Behind(r, Lex(l, t))
  <1>1. PICK n \in Nat : n = Len(t)
    BY LenProperties
  <1>2. PICK b \in Lexers(S) : b = Behind(r, l)
    BY BehindType
  <1>3. PICK g : Lexing(g, n, t, l)
    BY <1>1, LexGrows
  <1>4. PICK h : Lexing(h, n, t, b)
    BY <1>1, LexGrows
  <1>5. \A i \in 1 .. n : t[i] \in S
    BY <1>1, ElementOfSeq
  <1> DEFINE Good == {k \in Nat : k <= n => g[k] \in Lexers(S) /\ h[k] = Behind(r, g[k])}
  <1>6. 0 \in Good
    BY <1>2, <1>3, <1>4 DEF Lexing
  <1>7. ASSUME NEW k \in Nat, k \in Good PROVE k + 1 \in Good
    <2>1. k + 1 \in Nat
      OBVIOUS
    <2> SUFFICES ASSUME k + 1 <= n
                 PROVE  g[k + 1] \in Lexers(S) /\ h[k + 1] = Behind(r, g[k + 1])
      BY <2>1, Zenon
    <2>2. k + 1 \in 1 .. n /\ k + 1 - 1 = k
      OBVIOUS
    <2>3. g[k + 1] = LexSymbol(g[k], t[k + 1])
      BY <1>3, <2>2 DEF Lexing
    <2>4. h[k + 1] = LexSymbol(h[k], t[k + 1])
      BY <1>4, <2>2 DEF Lexing
    <2>5. g[k] \in Lexers(S) /\ h[k] = Behind(r, g[k])
      BY <1>7
    <2>6. t[k + 1] \in S
      BY <1>5, <2>2
    <2>7. LexSymbol(g[k], t[k + 1]) \in Lexers(S)
      BY <2>5, <2>6, SymbolRead
    <2>8. LexSymbol(Behind(r, g[k]), t[k + 1]) = Behind(r, LexSymbol(g[k], t[k + 1]))
      BY <2>5, <2>6, SymbolBehind
    <2> QED
      BY <2>3, <2>4, <2>5, <2>7, <2>8, Zenon
  <1>8. n \in Good
    <2> HIDE DEF Good
    <2> QED
      BY <1>6, <1>7, Induction
  <1>9. h[n] = Behind(r, g[n])
    BY <1>8
  <1>10. Lex(l, t) = g[n] /\ Lex(b, t) = h[n]
    BY <1>3, <1>4 DEF Lexing, Lex
  <1> QED
    BY <1>2, <1>9, <1>10

(* What is put in place of a symbol.                                       *)
InPlace(x, table) == IF x \in DOMAIN table THEN table[x] ELSE <<x>>

LEMMA RewriteAppend ==
    ASSUME NEW S, NEW t \in Seq(S), NEW x \in S, NEW table,
           \A y \in S : InPlace(y, table) \in Seq(S)
    PROVE  /\ Rewrite(t, table) \in Seq(S)
           /\ Rewrite(Append(t, x), table) = Then(Rewrite(t, table), InPlace(x, table))
  <1>1. PICK n \in Nat : n = Len(t) /\ DOMAIN t = 1 .. n
    BY LenProperties
  <1>2. PICK u \in Seq(S) : u = Append(t, x)
    BY AppendProperties
  <1>3. Len(u) = n + 1 /\ DOMAIN u = 1 .. n + 1 /\ u[n + 1] = x /\ \A i \in 1 .. n : u[i] = t[i]
    <2>1. Len(u) = n + 1 /\ u[n + 1] = x /\ \A i \in 1 .. n : u[i] = t[i]
      BY <1>1, <1>2, AppendProperties
    <2> QED
      BY <2>1, LenProperties
  <1>4. PICK a : a = [i \in 1 .. n |-> InPlace(t[i], table)]
    OBVIOUS
  <1>5. PICK b : b = [i \in 1 .. n + 1 |-> InPlace(u[i], table)]
    OBVIOUS
  <1>6. a \in Seq(Seq(S)) /\ Len(a) = n /\ FlattenSeq(a) \in Seq(S)
    <2>1. \A i \in 1 .. n : t[i] \in S
      BY <1>1, ElementOfSeq
    <2>2. a \in [1 .. n -> Seq(S)]
      BY <1>4, <2>1
    <2> QED
      BY <2>2, FlatText
  <1>7. b \in Seq(Seq(S)) /\ Len(b) = n + 1
    <2>1. \A i \in 1 .. n + 1 : u[i] \in S
      BY <1>3, ElementOfSeq
    <2>2. b \in [1 .. n + 1 -> Seq(S)]
      BY <1>5, <2>1
    <2> QED
      BY <2>2, FlatText
  <1>8. Rewrite(t, table) = FlattenSeq(a) /\ Rewrite(u, table) = FlattenSeq(b)
    BY <1>1, <1>3, <1>4, <1>5, Zenon DEF Rewrite, InPlace
  <1>9. PICK y \in Seq(S) : y = InPlace(x, table)
    OBVIOUS
  <1>10. PICK c \in Seq(Seq(S)) : c = Append(a, y)
    BY <1>6, AppendProperties
  <1>11. Len(c) = n + 1 /\ c[n + 1] = y /\ \A i \in 1 .. n : c[i] = a[i]
    BY <1>6, <1>10, AppendProperties
  <1>12. b = c
    <2>1. ASSUME NEW i \in 1 .. n + 1 PROVE b[i] = c[i]
      <3>1. CASE i \in 1 .. n
        BY <1>3, <1>4, <1>5, <1>11, <3>1
      <3>2. CASE i = n + 1
        BY <1>3, <1>5, <1>9, <1>11, <3>2
      <3> QED
        BY <3>1, <3>2
    <2> QED
      BY <1>7, <1>11, <2>1, SeqEqual
  <1>13. FlattenSeq(c) = Then(FlattenSeq(a), y)
    BY <1>6, <1>10, FlatAppend
  <1> QED
    BY <1>2, <1>6, <1>8, <1>9, <1>12, <1>13

(* The symbols a rewritten text is made of.                                *)
Writes(S) == "'" \in S /\ "&lt;" \in S /\ "&gt;" \in S

LEMMA EscapesText ==
    ASSUME NEW S, Writes(S), NEW x \in S
    PROVE  /\ InPlace(x, Escapes) \in Seq(S) /\ InPlace(x, Html) \in Seq(S)
           /\ InPlace(x, Escapes) = IF x = "'" THEN <<x, x>> ELSE InPlace(x, Html)
           /\ x # "'" => \E y \in S : y # "'" /\ InPlace(x, Html) = <<y>>
           /\ x = "'" => InPlace(x, Html) = <<x>>
  <1>1. DOMAIN Html = {"<", ">"} /\ DOMAIN Escapes = {"'", "<", ">"}
    BY DEF Html, Escapes
  <1>2. CASE x = "'"
    <2>1. InPlace(x, Escapes) = <<x, x>>
      BY <1>1, <1>2 DEF InPlace, Escapes
    <2>2. InPlace(x, Html) = <<x>>
      BY <1>1, <1>2 DEF InPlace
    <2>3. <<x, x>> \in Seq(S) /\ <<x>> \in Seq(S)
      BY Words
    <2> QED
      BY <1>2, <2>1, <2>2, <2>3
  <1>3. CASE x = "<" \/ x = ">"
    <2>1. PICK y \in S : y = IF x = "<" THEN "&lt;" ELSE "&gt;"
      BY DEF Writes
    <2>2. Html[x] = <<y>>
      BY <1>3, <2>1 DEF Html
    <2>3. Escapes[x] = Html[x]
      BY <1>1, <1>3 DEF Escapes
    <2>4. InPlace(x, Html) = <<y>> /\ InPlace(x, Escapes) = <<y>>
      BY <1>1, <1>3, <2>2, <2>3, Zenon DEF InPlace
    <2>5. x # "'" /\ y # "'"
      BY <1>3, <2>1
    <2>6. <<y>> \in Seq(S)
      OBVIOUS
    <2> QED
      BY <2>4, <2>5, <2>6, Zenon
  <1>4. CASE x \notin {"'", "<", ">"}
    <2>1. InPlace(x, Html) = <<x>> /\ InPlace(x, Escapes) = <<x>>
      BY <1>1, <1>4 DEF InPlace
    <2>2. <<x>> \in Seq(S) /\ x # "'"
      BY <1>4
    <2> QED
      BY <2>1, <2>2, Zenon
  <1> QED
    BY <1>2, <1>3, <1>4

LEMMA LexOne ==
    ASSUME NEW S, NEW l \in Lexers(S), NEW x \in S
    PROVE  Lex(l, <<x>>) = LexSymbol(l, x)
  <1>1. PICK z \in Seq(S) : z = <<>>
    BY EmptySeq
  <1>2. Append(z, x) = <<x>>
    BY <1>1
  <1>3. Lex(l, Append(z, x)) = LexSymbol(Lex(l, z), x)
    BY LexAppend
  <1>4. Lex(l, z) = l
    BY <1>1, LexNone
  <1> QED
    BY <1>2, <1>3, <1>4

(* Within a literal, what is put in place of a symbol reads as the symbol, *)
(* or as what HTML has for it.                                             *)
LEMMA InPlaceRead ==
    ASSUME NEW S, Writes(S), NEW x \in S, NEW w \in Seq(S), NEW i \in Seq(ItemsOver(S))
    PROVE  Lex(Seen("in", w, i), InPlace(x, Escapes)) = Seen("in", Then(w, InPlace(x, Html)), i)
  <1>1. PICK l \in Lexers(S) : l = Seen("in", w, i)
    BY LexerMade DEF Seen
  <1>2. CASE x = "'"
    <2>1. PICK a \in Seq(S) : a = <<x>>
      BY Words, Zenon
    <2>2. Then(a, a) = <<x, x>>
      <3>1. <<x>> \o <<x>> = <<x, x>>
        BY Double
      <3> QED
        BY <2>1, <3>1, Zenon DEF Then
    <2>3. Lex(l, Then(a, a)) = Lex(Lex(l, a), a)
      BY LexThen
    <2>4. Lex(l, a) = Seen("quote", w, i)
      <3>1. Lex(l, a) = LexSymbol(l, x)
        BY <2>1, LexOne
      <3>2. LexSymbol(Seen("in", w, i), x) =
               IF x = "'" THEN Seen("quote", w, i) ELSE Seen("in", Append(w, x), i)
        BY SymbolIn
      <3> QED
        BY <1>1, <1>2, <3>1, <3>2, Zenon
    <2>5. PICK k \in Lexers(S) : k = Seen("quote", w, i)
      BY LexerMade DEF Seen
    <2>6. Lex(k, a) = Seen("in", Append(w, x), i)
      <3>1. Lex(k, a) = LexSymbol(k, x)
        BY <2>1, LexOne
      <3>2. LexSymbol(Seen("quote", w, i), x) =
               IF x = "'" THEN Seen("in", Append(w, x), i)
               ELSE Seen("out", <<>>, i \o <<Quoted(w), Bare(x)>>)
        BY SymbolQuote
      <3> QED
        BY <1>2, <2>5, <3>1, <3>2, Zenon
    <2>7. Append(w, x) = Then(w, a)
      BY <2>1, AppendIsConcat DEF Then
    <2>8. InPlace(x, Escapes) = Then(a, a) /\ InPlace(x, Html) = a
      BY <1>2, <2>1, <2>2, EscapesText, Zenon
    <2> QED
      BY <1>1, <2>3, <2>4, <2>5, <2>6, <2>7, <2>8, Zenon
  <1>3. CASE x # "'"
    <2>1. PICK y \in S : y # "'" /\ InPlace(x, Html) = <<y>> /\ InPlace(x, Escapes) = <<y>>
      <3>1. /\ InPlace(x, Escapes) = IF x = "'" THEN <<x, x>> ELSE InPlace(x, Html)
            /\ x # "'" => \E y \in S : y # "'" /\ InPlace(x, Html) = <<y>>
        BY EscapesText
      <3> QED
        BY <1>3, <3>1, Zenon
    <2>2. Lex(l, <<y>>) = LexSymbol(l, y)
      BY LexOne
    <2>3. LexSymbol(Seen("in", w, i), y) =
             IF y = "'" THEN Seen("quote", w, i) ELSE Seen("in", Append(w, y), i)
      BY SymbolIn
    <2>4. Append(w, y) = Then(w, <<y>>)
      BY AppendIsConcat DEF Then
    <2> QED
      BY <1>1, <2>1, <2>2, <2>3, <2>4, Zenon
  <1> QED
    BY <1>2, <1>3

(* A rewritten text within a literal.                                      *)
LEMMA RewrittenRead ==
    ASSUME NEW S, Writes(S), NEW t \in Seq(S), NEW i \in Seq(ItemsOver(S))
    PROVE  /\ Rewrite(t, Html) \in Seq(S) /\ Rewrite(t, Escapes) \in Seq(S)
           /\ Lex(Seen("in", <<>>, i), Rewrite(t, Escapes)) = Seen("in", Rewrite(t, Html), i)
           /\ t # <<>> => Rewrite(t, Escapes) # <<>>
  <1>1. /\ \A y \in S : InPlace(y, Escapes) \in Seq(S)
        /\ \A y \in S : InPlace(y, Html) \in Seq(S)
    BY EscapesText
  <1>2. PICK n \in Nat : n = Len(t)
    BY LenProperties
  <1>3. PICK l \in Lexers(S) : l = Seen("in", <<>>, i)
    <2>1. <<>> \in Seq(S)
      OBVIOUS
    <2> QED
      BY <2>1, LexerMade DEF Seen
  <1> DEFINE R(k) == SubSeq(t, 1, k)
             Good == {k \in Nat : k <= n => /\ Rewrite(R(k), Html) \in Seq(S)
                                            /\ Rewrite(R(k), Escapes) \in Seq(S)
                                            /\ Lex(l, Rewrite(R(k), Escapes)) =
                                                   Seen("in", Rewrite(R(k), Html), i)
                                            /\ k # 0 => Rewrite(R(k), Escapes) # <<>>}
  <1>4. 0 \in Good
    <2>1. PICK z \in Seq(S) : z = <<>>
      BY EmptySeq
    <2>2. R(0) = z
      BY <2>1, SubSeqEmpty
    <2>3. Rewrite(z, Html) = z /\ Rewrite(z, Escapes) = z
      <3>1. DOMAIN z = {} /\ \A T : [j \in DOMAIN z |->
                IF z[j] \in DOMAIN T THEN T[z[j]] ELSE <<z[j]>>] = <<>>
        BY <2>1
      <3>2. FlattenSeq(<<>>) = z
        BY <2>1, FlatNone
      <3> QED
        BY <3>1, <3>2 DEF Rewrite
    <2>4. Lex(l, z) = l
      BY <2>1, LexNone
    <2> QED
      BY <1>3, <2>1, <2>2, <2>3, <2>4
  <1>5. ASSUME NEW k \in Nat, k \in Good PROVE k + 1 \in Good
    <2>1. k + 1 \in Nat
      OBVIOUS
    <2> SUFFICES ASSUME k + 1 <= n
                 PROVE  /\ Rewrite(R(k + 1), Html) \in Seq(S)
                        /\ Rewrite(R(k + 1), Escapes) \in Seq(S)
                        /\ Lex(l, Rewrite(R(k + 1), Escapes)) =
                               Seen("in", Rewrite(R(k + 1), Html), i)
                        /\ k + 1 # 0 => Rewrite(R(k + 1), Escapes) # <<>>
      BY <2>1, Zenon
    <2>2. PICK q \in Seq(S), y \in S : q = R(k) /\ R(k + 1) = Append(q, y)
      <3>1. k + 1 <= Len(t)
        BY <1>2
      <3>2. /\ SubSeq(t, 1, k) \in Seq(S) /\ t[k + 1] \in S
            /\ SubSeq(t, 1, k + 1) = Append(SubSeq(t, 1, k), t[k + 1])
            /\ SubSeq(t, 1, k + 1) = Then(SubSeq(t, 1, k), <<t[k + 1]>>)
        BY <3>1, BeginningGrows
      <3> QED
        BY <3>2, Zenon
    <2>3. PICK h \in Seq(S), e \in Seq(S) : h = Rewrite(q, Html) /\ e = Rewrite(q, Escapes)
      BY <1>5, <2>2
    <2>4. Lex(l, e) = Seen("in", h, i)
      BY <1>5, <2>2, <2>3
    <2>5. PICK hy \in Seq(S), ey \in Seq(S) : hy = InPlace(y, Html) /\ ey = InPlace(y, Escapes)
      BY <1>1
    <2>6. Rewrite(Append(q, y), Html) = Then(h, hy)
      BY <1>1, <2>3, <2>5, RewriteAppend
    <2>7. Rewrite(Append(q, y), Escapes) = Then(e, ey)
      BY <1>1, <2>3, <2>5, RewriteAppend
    <2>8. Lex(l, Then(e, ey)) = Lex(Lex(l, e), ey)
      BY LexThen
    <2>9. Lex(Seen("in", h, i), ey) = Seen("in", Then(h, hy), i)
      BY <2>5, InPlaceRead
    <2>10. Then(h, hy) \in Seq(S) /\ Then(e, ey) \in Seq(S)
      BY ThenType
    <2>11. Then(e, ey) # <<>>
      <3>1. Len(ey) \in Nat /\ Len(ey) # 0 /\ Len(e) \in Nat
        <4>1. \E z \in S : ey = <<z>> \/ ey = <<z, z>>
          <5>1. /\ ey = IF y = "'" THEN <<y, y>> ELSE hy
                /\ y # "'" => \E z \in S : z # "'" /\ hy = <<z>>
            BY <2>5, EscapesText
          <5> QED
            BY <5>1, Zenon
        <4>2. \A z \in S : Len(<<z>>) = 1 /\ Len(<<z, z>>) = 2
          OBVIOUS
        <4>3. Len(ey) = 1 \/ Len(ey) = 2
          BY <4>1, <4>2, Zenon
        <4>4. Len(e) \in Nat /\ Len(ey) \in Nat
          BY LenProperties
        <4>5. 1 # 0 /\ 2 # 0
          OBVIOUS
        <4> QED
          BY <4>3, <4>4, <4>5, Zenon
      <3>2. Len(Then(e, ey)) = Len(e) + Len(ey)
        BY ThenType
      <3>3. Len(Then(e, ey)) # 0
        BY <3>1, <3>2
      <3>4. Len(<<>>) = 0
        OBVIOUS
      <3> QED
        BY <3>3, <3>4
    <2> QED
      BY <2>2, <2>4, <2>6, <2>7, <2>8, <2>9, <2>10, <2>11, Zenon
  <1>6. n \in Good
    <2> HIDE DEF Good
    <2> QED
      BY <1>4, <1>5, Induction
  <1>7. R(n) = t
    BY <1>2, SubSeqFull
  <1>8. /\ Rewrite(R(n), Html) \in Seq(S) /\ Rewrite(R(n), Escapes) \in Seq(S)
        /\ Lex(l, Rewrite(R(n), Escapes)) = Seen("in", Rewrite(R(n), Html), i)
        /\ n # 0 => Rewrite(R(n), Escapes) # <<>>
    BY <1>6
  <1>9. t # <<>> => n # 0
    BY <1>2, EmptySeq
  <1> QED
    BY <1>3, <1>7, <1>8, <1>9, Zenon

Forgets(l) == l.mode = "out" => l.text = <<>>

LEMMA SymbolForgets ==
    ASSUME NEW S, NEW l \in Lexers(S), NEW x, Forgets(l)
    PROVE  Forgets(LexSymbol(l, x))
  <1>1. PICK w \in Seq(S), i \in Seq(ItemsOver(S)) : w = l.text /\ i = l.items
    BY DEF Lexers
  <1>2. PICK m \in {"out", "in", "quote"} : m = l.mode
    BY DEF Lexers
  <1>3. l = Seen(m, w, i)
    BY <1>1, <1>2 DEF Lexers, Seen
  <1>4. /\ \A y, z : Forgets(Seen("in", y, z)) /\ Forgets(Seen("quote", y, z))
        /\ \A z : Forgets(Seen("out", <<>>, z))
    BY DEF Forgets, Seen
  <1>5. CASE m = "in"
    <2>1. LexSymbol(Seen("in", w, i), x) =
             IF x = "'" THEN Seen("quote", w, i) ELSE Seen("in", Append(w, x), i)
      BY SymbolIn
    <2> QED
      BY <1>3, <1>4, <1>5, <2>1, Zenon
  <1>6. CASE m = "quote"
    <2>1. LexSymbol(Seen("quote", w, i), x) =
             IF x = "'" THEN Seen("in", Append(w, x), i)
             ELSE Seen("out", <<>>, i \o <<Quoted(w), Bare(x)>>)
      BY SymbolQuote
    <2> QED
      BY <1>3, <1>4, <1>6, <2>1, Zenon
  <1>7. CASE m = "out"
    <2>1. w = <<>>
      BY <1>1, <1>2, <1>7 DEF Forgets
    <2>2. LexSymbol(Seen("out", w, i), x) =
             IF x = "'" THEN Seen("in", w, i) ELSE Seen("out", w, Append(i, Bare(x)))
      BY SymbolOut
    <2> QED
      BY <1>3, <1>4, <1>7, <2>1, <2>2, Zenon
  <1> QED
    BY <1>5, <1>6, <1>7

LEMMA LexerStarts ==
    ASSUME NEW S
    PROVE  Lexer \in Lexers(S) /\ Forgets(Lexer) /\ Lexer = Seen("out", <<>>, <<>>)
  <1>1. <<>> \in Seq(S) /\ <<>> \in Seq(ItemsOver(S))
    OBVIOUS
  <1>2. [mode |-> "out", text |-> <<>>, items |-> <<>>] \in Lexers(S)
    BY <1>1, LexerMade
  <1> QED
    BY <1>2 DEF Lexer, Forgets, Seen

LEMMA LexForgets ==
    ASSUME NEW S, NEW t \in Seq(S)
    PROVE  Forgets(Lex(Lexer, t))
  <1>1. PICK n \in Nat : n = Len(t)
    BY LenProperties
  <1>2. Lexer \in Lexers(S) /\ Forgets(Lexer)
    BY LexerStarts
  <1>3. PICK g : Lexing(g, n, t, Lexer)
    BY <1>1, <1>2, LexGrows
  <1>4. \A i \in 1 .. n : t[i] \in S
    BY <1>1, ElementOfSeq
  <1> DEFINE Good == {k \in Nat : k <= n => g[k] \in Lexers(S) /\ Forgets(g[k])}
  <1>5. 0 \in Good
    BY <1>2, <1>3 DEF Lexing
  <1>6. ASSUME NEW k \in Nat, k \in Good PROVE k + 1 \in Good
    <2>1. k + 1 \in Nat
      OBVIOUS
    <2> SUFFICES ASSUME k + 1 <= n PROVE g[k + 1] \in Lexers(S) /\ Forgets(g[k + 1])
      BY <2>1, Zenon
    <2>2. k + 1 \in 1 .. n /\ k + 1 - 1 = k
      OBVIOUS
    <2>3. g[k + 1] = LexSymbol(g[k], t[k + 1])
      BY <1>3, <2>2 DEF Lexing
    <2>4. g[k] \in Lexers(S) /\ Forgets(g[k])
      BY <1>6
    <2>5. t[k + 1] \in S
      BY <1>4, <2>2
    <2>6. LexSymbol(g[k], t[k + 1]) \in Lexers(S) /\ Forgets(LexSymbol(g[k], t[k + 1]))
      BY <2>4, <2>5, SymbolRead, SymbolForgets
    <2> QED
      BY <2>3, <2>6, Zenon
  <1>7. n \in Good
    <2> HIDE DEF Good
    <2> QED
      BY <1>5, <1>6, Induction
  <1>8. Forgets(g[n])
    BY <1>7
  <1>9. Lex(Lexer, t) = g[n]
    BY <1>3 DEF Lexing, Lex
  <1> QED
    BY <1>8, <1>9

(* A text leaves no literal open.                                          *)
Closed(t) == Lex(Lexer, t).mode = "out"

LEMMA ClosedRead ==
    ASSUME NEW S, NEW t \in Seq(S), Closed(t)
    PROVE  /\ Items(t) \in Seq(ItemsOver(S))
           /\ Lex(Lexer, t) = Seen("out", <<>>, Items(t))
  <1>1. PICK l \in Lexers(S) : l = Lex(Lexer, t)
    BY LexGrows, LexerStarts
  <1>2. l.mode = "out" /\ l.text = <<>>
    BY <1>1, LexForgets DEF Closed, Forgets
  <1>3. PICK i \in Seq(ItemsOver(S)) : i = l.items
    BY DEF Lexers
  <1>4. l = Seen("out", <<>>, i)
    BY <1>2, <1>3 DEF Lexers, Seen
  <1>5. Items(t) = i \o <<>>
    <2>1. FoldLeft(LexSymbol, Lexer, t) = l
      BY <1>1 DEF Lex
    <2> QED
      BY <1>2, <1>3, <2>1 DEF Items
  <1>6. i \o <<>> = i
    BY ConcatEmptySeq
  <1> QED
    BY <1>1, <1>3, <1>4, <1>5, <1>6, Zenon

(* The items of a lexer that had read others.                              *)
Pending(l) == CASE l.mode = "out"   -> <<>>
             [] l.mode = "quote" -> <<Quoted(l.text)>>
             [] l.mode = "in"    -> <<Unended(l.text)>>

LEMMA PendingBehind ==
    ASSUME NEW S, NEW l \in Lexers(S), NEW r \in Seq(ItemsOver(S))
    PROVE  Behind(r, l).items \o Pending(Behind(r, l)) = Then(r, l.items \o Pending(l))
  <1>1. PICK w \in Seq(S), i \in Seq(ItemsOver(S)) : w = l.text /\ i = l.items
    BY DEF Lexers
  <1>2. Behind(r, l).mode = l.mode /\ Behind(r, l).text = l.text /\ Behind(r, l).items = Then(r, i)
    BY <1>1 DEF Behind
  <1>3. PICK e \in Seq(ItemsOver(S)) : e = Pending(l)
    <2>1. Quoted(w) \in ItemsOver(S) /\ Unended(w) \in ItemsOver(S)
      BY DEF Quoted, Unended, ItemsOver
    <2>2. <<>> \in Seq(ItemsOver(S)) /\ <<Quoted(w)>> \in Seq(ItemsOver(S))
          /\ <<Unended(w)>> \in Seq(ItemsOver(S))
      BY <2>1, EmptySeq, Words, Zenon
    <2>3. l.mode \in {"out", "in", "quote"}
      BY DEF Lexers
    <2> QED
      BY <1>1, <2>2, <2>3 DEF Pending
  <1>4. Pending(Behind(r, l)) = e
    BY <1>2, <1>3 DEF Pending
  <1>5. Then(Then(r, i), e) = Then(r, Then(i, e))
    BY ThenThen
  <1> QED
    BY <1>1, <1>2, <1>3, <1>4, <1>5, Zenon DEF Then

LEMMA ItemsEnd == \A t : Items(t) = Lex(Lexer, t).items \o Pending(Lex(Lexer, t))
  BY Zenon DEF Items, Lex, Pending

(* A text after a literal that a quote has just ended.                     *)
LEMMA AfterLiteral ==
    ASSUME NEW S, NEW q \in Seq(S), NEW v \in Seq(S), NEW i \in Seq(ItemsOver(S)),
           NEW l, l = Lex(Seen("quote", v, i), q), q # <<>> => q[1] # "'"
    PROVE  l.items \o Pending(l) = Then(Then(i, <<Quoted(v)>>), Items(q))
  <1>1. PICK n \in Nat : n = Len(q)
    BY LenProperties
  <1>2. PICK k \in Lexers(S) : k = Seen("quote", v, i)
    BY LexerMade DEF Seen
  <1>3. Quoted(v) \in ItemsOver(S)
    BY DEF Quoted, ItemsOver
  <1>4. PICK c \in Seq(ItemsOver(S)) : c = <<Quoted(v)>>
    BY <1>3, Words, Zenon
  <1>5. PICK r \in Seq(ItemsOver(S)) : r = Then(i, c)
    BY ThenType
  <1>6. CASE q = <<>>
    <2>1. l = k
      BY <1>2, <1>6, LexNone
    <2>2. l.items = i /\ Pending(l) = c
      BY <1>2, <1>4, <2>1 DEF Pending, Seen
    <2>3. Items(q) = <<>>
      <3>1. Lexer \in Lexers(S)
        BY LexerStarts
      <3>2. Lex(Lexer, q) = Lexer
        BY <1>6, <3>1, LexNone
      <3>3. Lexer.items = <<>> /\ Pending(Lexer) = <<>>
        BY DEF Lexer, Pending
      <3>4. Items(q) = <<>> \o <<>>
        BY <3>2, <3>3, ItemsEnd, Zenon
      <3>5. <<>> \o <<>> = <<>>
        OBVIOUS
      <3> QED
        BY <3>4, <3>5, Zenon
    <2>4. Then(r, <<>>) = r
      BY ConcatEmptySeq DEF Then
    <2> QED
      BY <1>4, <1>5, <2>2, <2>3, <2>4, Zenon DEF Then
  <1>7. CASE q # <<>>
    <2>1. PICK y \in S, u \in Seq(S) : q = Then(<<y>>, u) /\ y = q[1]
      <3>1. Head(q) \in S /\ Tail(q) \in Seq(S) /\ q = Cons(Head(q), Tail(q))
        BY <1>7, ConsHead
      <3>2. Head(q) = q[1]
        OBVIOUS
      <3> QED
        BY <3>1, <3>2, Zenon DEF Cons, Then
    <2>2. y # "'"
      BY <1>7, <2>1
    <2>3. PICK a \in Seq(S) : a = <<y>>
      BY Words, Zenon
    <2>4. Lexer \in Lexers(S) /\ Lexer = Seen("out", <<>>, <<>>)
      BY LexerStarts
    <2>5. PICK b \in Seq(ItemsOver(S)) : b = <<Bare(y)>>
      <3>1. Bare(y) \in ItemsOver(S)
        <4>1. <<y>> \in Seq(S)
          OBVIOUS
        <4> QED
          BY <4>1 DEF Bare, ItemsOver
      <3> QED
        BY <3>1, Words, Zenon
    <2>6. PICK o \in Lexers(S) : o = Seen("out", <<>>, b)
      <3>1. <<>> \in Seq(S)
        OBVIOUS
      <3> QED
        BY <3>1, LexerMade DEF Seen
    <2>7. Lex(Lexer, a) = o
      <3>1. Lex(Lexer, a) = LexSymbol(Lexer, y)
        BY <2>3, <2>4, LexOne
      <3>2. LexSymbol(Seen("out", <<>>, <<>>), y) =
               IF y = "'" THEN Seen("in", <<>>, <<>>) ELSE Seen("out", <<>>, Append(<<>>, Bare(y)))
        BY SymbolOut
      <3>3. Append(<<>>, Bare(y)) = <<Bare(y)>>
        OBVIOUS
      <3> QED
        BY <2>2, <2>4, <2>5, <2>6, <3>1, <3>2, <3>3, Zenon
    <2>8. Lex(k, a) = Behind(r, o)
      <3>1. Lex(k, a) = LexSymbol(k, y)
        BY <2>3, LexOne
      <3>2. LexSymbol(Seen("quote", v, i), y) =
               IF y = "'" THEN Seen("in", Append(v, y), i)
               ELSE Seen("out", <<>>, i \o <<Quoted(v), Bare(y)>>)
        BY SymbolQuote
      <3>3. i \o <<Quoted(v), Bare(y)>> = Then(r, b)
        <4>1. <<Quoted(v)>> \o <<Bare(y)>> = <<Quoted(v), Bare(y)>>
          BY Double
        <4>2. Then(c, b) = <<Quoted(v), Bare(y)>>
          BY <1>4, <2>5, <4>1, Zenon DEF Then
        <4>3. Then(Then(i, c), b) = Then(i, Then(c, b))
          BY ThenThen
        <4> QED
          BY <1>5, <4>2, <4>3, Zenon DEF Then
      <3>4. o.mode = "out" /\ o.text = <<>> /\ o.items = b
        BY <2>6 DEF Seen
      <3>5. Behind(r, o) = Seen("out", <<>>, Then(r, b))
        BY <3>4, Zenon DEF Behind, Seen
      <3> QED
        BY <1>2, <2>2, <3>1, <3>2, <3>3, <3>5, Zenon
    <2>9. Lex(k, q) = Lex(Behind(r, o), u) /\ Lex(Lexer, q) = Lex(o, u)
      <3>1. Lex(k, Then(a, u)) = Lex(Lex(k, a), u)
        BY LexThen
      <3>2. Lex(Lexer, Then(a, u)) = Lex(Lex(Lexer, a), u)
        BY <2>4, LexThen
      <3> QED
        BY <2>1, <2>3, <2>7, <2>8, <3>1, <3>2, Zenon
    <2>10. PICK e \in Lexers(S) : e = Lex(o, u)
      BY LexGrows
    <2>11. Lex(Behind(r, o), u) = Behind(r, e)
      BY <2>10, LexBehind
    <2>12. l = Behind(r, e)
      BY <1>2, <2>9, <2>11
    <2>13. Items(q) = e.items \o Pending(e)
      BY <2>9, <2>10, ItemsEnd, Zenon
    <2>14. Behind(r, e).items \o Pending(Behind(r, e)) = Then(r, e.items \o Pending(e))
      BY PendingBehind
    <2> QED
      BY <1>4, <1>5, <2>12, <2>13, <2>14, Zenon
  <1> QED
    BY <1>6, <1>7

(* A text field in the place of its marker: whatever quotes and symbols of *)
(* HTML the value has, the statement reads as it did before the marker and *)
(* after it, and the value is one literal between them (get_sql,           *)
(* test_field).  The marker stands outside of the literals of the template,*)
(* and no quote follows it.                                                *)
THEOREM TextStaysLiteral ==
    ASSUME NEW S, Writes(S), NEW sql \in Seq(S), NEW value \in Seq(S), value # <<>>,
           NEW rule, rule.type = "STRING",
           NEW marker, marker = Marker(rule.name), marker \in Seq(S), Occurs(sql, marker) # {},
           NEW p, p = Before(sql, marker), NEW q, q = After(sql, marker),
           Closed(p), q # <<>> => q[1] # "'"
    PROVE  Items(ReplaceFirst(sql, marker, Rendered(rule, Escape(rule.type, value)))) =
              Then(Then(Items(p), <<Quoted(Rewrite(value, Html))>>), Items(q))
  <1>1. PICK m \in Nat : m = Len(sql)
    BY LenProperties
  <1>2. PICK k \in Nat : k = Len(marker)
    BY LenProperties
  <1>3. PICK f \in 1 .. m : f = First(sql, marker) /\ f + k - 1 <= m
    <2>1. Occurs(sql, marker) \subseteq 1 .. m
      BY <1>1 DEF Occurs
    <2>2. First(sql, marker) \in Occurs(sql, marker)
      <3>1. Occurs(sql, marker) \subseteq Nat
        BY <2>1
      <3> QED
        BY <3>1, LeastOf, Zenon DEF First, Min
    <2> QED
      BY <1>1, <1>2, <2>1, <2>2 DEF Occurs, OccursAt
  <1>4. p \in Seq(S) /\ q \in Seq(S)
    <2>1. p = SubSeq(sql, 1, f - 1) /\ q = SubSeq(sql, f + k, m)
      BY <1>1, <1>2, <1>3, Zenon DEF Before, After
    <2>2. 0 < 1 /\ 1 <= (f - 1) + 1 /\ f - 1 \in Nat /\ f - 1 <= Len(sql) /\ 1 \in Nat
      BY <1>1
    <2>3. 0 < f + k /\ f + k <= m + 1 /\ f + k \in Nat /\ m <= Len(sql)
      BY <1>1, <1>3
    <2>4. SubSeq(sql, 1, f - 1) \in Seq(S)
      BY <2>2, Piece
    <2>5. SubSeq(sql, f + k, m) \in Seq(S)
      BY <2>3, Piece
    <2> QED
      BY <2>1, <2>4, <2>5, Zenon
  <1>5. PICK i \in Seq(ItemsOver(S)) : i = Items(p) /\ Lex(Lexer, p) = Seen("out", <<>>, i)
    BY <1>4, ClosedRead
  <1>6. PICK e \in Seq(S), v \in Seq(S) :
           /\ e = Rewrite(value, Escapes) /\ v = Rewrite(value, Html) /\ e # <<>>
           /\ Lex(Seen("in", <<>>, i), e) = Seen("in", v, i)
    BY RewrittenRead
  <1>7. PICK a \in Seq(S) : a = <<"'">>
    BY Words, Zenon DEF Writes
  <1>8. PICK ae \in Seq(S), aea \in Seq(S), r \in Seq(S) :
           ae = Then(a, e) /\ aea = Then(ae, a) /\ r = Then(Then(p, aea), q)
    <2>1. PICK ae \in Seq(S) : ae = Then(a, e)
      BY ThenType
    <2>2. PICK aea \in Seq(S) : aea = Then(ae, a)
      BY ThenType
    <2>3. PICK b \in Seq(S) : b = Then(p, aea)
      BY <1>4, ThenType
    <2>4. Then(b, q) \in Seq(S)
      BY <1>4, ThenType
    <2> QED
      BY <2>1, <2>2, <2>3, <2>4, Zenon
  <1>9. ReplaceFirst(sql, marker, Rendered(rule, Escape(rule.type, value))) = r
    <2>1. Escape(rule.type, value) = e
      BY <1>6, Zenon DEF Escape
    <2>2. "STRING" \notin {"INTEGER", "DOUBLE"}
      OBVIOUS
    <2>3. Rendered(rule, e) = Literal(e)
      BY <1>6, <2>2, Zenon DEF Rendered
    <2>4. Literal(e) = aea
      BY <1>7, <1>8, Zenon DEF Literal, Then
    <2>5. ReplaceFirst(sql, marker, aea) = p \o aea \o q
      BY Zenon DEF ReplaceFirst
    <2> QED
      BY <1>8, <2>1, <2>3, <2>4, <2>5, Zenon DEF Then
  <1>10. /\ Lexer \in Lexers(S) /\ Seen("out", <<>>, i) \in Lexers(S)
         /\ Seen("in", <<>>, i) \in Lexers(S) /\ Seen("in", v, i) \in Lexers(S)
         /\ Seen("quote", v, i) \in Lexers(S)
    <2>1. <<>> \in Seq(S)
      OBVIOUS
    <2> QED
      BY <2>1, LexerStarts, LexerMade DEF Seen
  <1>11. Lex(Lexer, r) = Lex(Seen("quote", v, i), q)
    <2>1. PICK b \in Seq(S) : b = Then(p, aea)
      BY <1>4, ThenType
    <2>2. Lex(Lexer, Then(b, q)) = Lex(Lex(Lexer, b), q)
      BY <1>4, <1>10, LexThen
    <2>3. Lex(Lexer, Then(p, aea)) = Lex(Lex(Lexer, p), aea)
      BY <1>4, <1>10, LexThen
    <2>4. Lex(Seen("out", <<>>, i), Then(ae, a)) = Lex(Lex(Seen("out", <<>>, i), ae), a)
      BY <1>10, LexThen
    <2>5. Lex(Seen("out", <<>>, i), Then(a, e)) = Lex(Lex(Seen("out", <<>>, i), a), e)
      BY <1>10, LexThen
    <2>6. "'" \in S
      BY DEF Writes
    <2>7. Lex(Seen("out", <<>>, i), a) = Seen("in", <<>>, i)
      <3>1. Lex(Seen("out", <<>>, i), <<"'">>) = LexSymbol(Seen("out", <<>>, i), "'")
        BY <1>10, <2>6, LexOne
      <3>2. LexSymbol(Seen("out", <<>>, i), "'") =
               IF "'" = "'" THEN Seen("in", <<>>, i) ELSE Seen("out", <<>>, Append(i, Bare("'")))
        BY SymbolOut
      <3> QED
        BY <1>7, <3>1, <3>2, Zenon
    <2>8. Lex(Seen("in", v, i), a) = Seen("quote", v, i)
      <3>1. Lex(Seen("in", v, i), <<"'">>) = LexSymbol(Seen("in", v, i), "'")
        BY <1>10, <2>6, LexOne
      <3>2. LexSymbol(Seen("in", v, i), "'") =
               IF "'" = "'" THEN Seen("quote", v, i) ELSE Seen("in", Append(v, "'"), i)
        BY SymbolIn
      <3> QED
        BY <1>7, <3>1, <3>2, Zenon
    <2>9. Lex(Seen("out", <<>>, i), ae) = Seen("in", v, i)
      BY <1>6, <1>8, <2>5, <2>7, Zenon
    <2>10. Lex(Seen("out", <<>>, i), aea) = Seen("quote", v, i)
      BY <1>8, <2>4, <2>8, <2>9, Zenon
    <2>11. Lex(Lexer, b) = Seen("quote", v, i)
      BY <1>5, <2>1, <2>3, <2>10, Zenon
    <2> QED
      BY <1>8, <2>1, <2>2, <2>11, Zenon
  <1>12. PICK l : l = Lex(Seen("quote", v, i), q)
    OBVIOUS
  <1>13. l.items \o Pending(l) = Then(Then(i, <<Quoted(v)>>), Items(q))
    <2>1. ASSUME NEW u \in Seq(S), u # <<>> => u[1] # "'",
                 NEW j, j = Lex(Seen("quote", v, i), u)
          PROVE  j.items \o Pending(j) = Then(Then(i, <<Quoted(v)>>), Items(u))
      BY <2>1, AfterLiteral, Zenon
    <2> QED
      BY <1>4, <1>12, <2>1, Zenon
  <1>14. Items(r) = l.items \o Pending(l)
    BY <1>11, <1>12, ItemsEnd, Zenon
  <1> QED
    BY <1>5, <1>6, <1>9, <1>13, <1>14, Zenon
=============================================================================
