-------------------------- MODULE SqlSessionProofs --------------------------
(***************************************************************************)
(* Proofs about SqlSession, for any number of threads, databases and       *)
(* addresses: no statement handle is ever lost, calls run their statement  *)
(* as often as they report, and only a reset that failed to connect can    *)
(* send a statement to another database.                                   *)
(***************************************************************************)
EXTENDS SqlSession, FiniteSetTheorems, TLAPS

(* As long as every reset has connected, no session holds a handle that is *)
(* not its own, and no dbconn a stale one: whoever allocates an address    *)
(* cannot meet one, and a thread that ends frees what is its own.          *)
OwnHandles ==
    \/ tainted
    \/ \A s \in Sessions :
          /\ conn[s] = hstmt[s]
          /\ hstmt[s] # None => owner[hstmt[s]] = s /\ link[s] \in {"live", "broken"}

(* How often the statement of a call has run, by where its thread is.      *)
Counted ==
    \A t \in Threads :
        /\ pc[t] \in {"getdb", "exec"} => Len(ran[t]) <= call[t].retries
        /\ Len(ran[t]) <= call[t].retries + 1
        /\ call[t].kind = "sqlp" => call[t].retries = 0 /\ pc[t] \in {"idle", "ended", "getdb", "exec"}
        /\ pc[t] = "fetch" => ran[t] # <<>>
        /\ result[t] = "ok" => ran[t] # <<>>

Inv == /\ TypeOK
       /\ NoStatementLeak
       /\ OwnHandles
       /\ WrongDatabaseOnlyAfterFailedReset
       /\ Counted

-----------------------------------------------------------------------------
(* The session a thread is using is one.                                   *)
LEMMA SessionType ==
    ASSUME TypeOK, NEW t \in Threads
    PROVE  /\ Session(t) \in Sessions
           /\ Session(t)[2] = call[t].db
           /\ call[t].db \in Names
  BY DEF TypeOK, Session, Sessions

(* What closing a session leaves allocated.                                *)
LEMMA ClosedType ==
    ASSUME TypeOK, NEW s \in Sessions
    PROVE  /\ Closed(s) \in [Addresses -> Sessions \cup {None}]
           /\ \A a \in Addresses : Closed(s)[a] # None =>
                 Closed(s)[a] = owner[a] /\ a # hstmt[s] /\ owner[a] # s
           /\ \A a \in Addresses : owner[a] # None /\ a # hstmt[s] /\ owner[a] # s =>
                 Closed(s)[a] = owner[a]
  BY DEF TypeOK, Closed

(* Connecting keeps the tables typed, and gives the session a handle of    *)
(* its own or leaves what is allocated alone.                              *)
LEMMA ConnectType ==
    ASSUME TypeOK, NEW s \in Sessions,
           NEW own \in [Addresses -> Sessions \cup {None}], Connect(s, own)
    PROVE  /\ link' \in [Sessions -> Links]
           /\ hstmt' \in [Sessions -> Addresses \cup {None}]
           /\ conn' \in [Sessions -> Addresses \cup {None}]
           /\ owner' \in [Addresses -> Sessions \cup {None}]
           /\ \A r \in Sessions : r # s =>
                 link'[r] = link[r] /\ hstmt'[r] = hstmt[r] /\ conn'[r] = conn[r]
           /\ \/ /\ up[s[2]] /\ link'[s] = "live"
                 /\ hstmt'[s] \in Addresses /\ own[hstmt'[s]] = None
                 /\ conn'[s] = hstmt'[s]
                 /\ owner' = [own EXCEPT ![hstmt'[s]] = s]
              \/ /\ ~up[s[2]] /\ link'[s] = "failed"
                 /\ owner' = own /\ hstmt' = hstmt /\ conn' = conn
  <1>1. CASE up[s[2]]
    <2>1. PICK a \in {x \in Addresses : own[x] = None} :
             /\ hstmt' = [hstmt EXCEPT ![s] = a] /\ conn' = [conn EXCEPT ![s] = a]
             /\ owner' = [own EXCEPT ![a] = s]
      BY <1>1 DEF Connect, Refused
    <2>2. link' = [link EXCEPT ![s] = "live"]
      BY <1>1 DEF Connect, Refused
    <2> QED
      BY <1>1, <2>1, <2>2 DEF TypeOK, Links
  <1>2. CASE ~up[s[2]]
    BY <1>2 DEF Connect, Refused, TypeOK, Links
  <1> QED
    BY <1>1, <1>2

-----------------------------------------------------------------------------
LEMMA InitInv == Init => Inv
  <1> SUFFICES ASSUME Init PROVE Inv
    OBVIOUS
  <1> USE SessionAssumption DEF Init
  <1>1. call \in [Threads -> [db : Names, kind : Kinds, retries : 0 .. MaxRetries]]
    <2>1. \A n \in Names : [db |-> n, kind |-> "exec", retries |-> 0]
                             \in [db : Names, kind : Kinds, retries : 0 .. MaxRetries]
      BY DEF Kinds
    <2> QED
      BY <2>1
  <1>2. TypeOK
    <2>1. /\ up \in [Names -> BOOLEAN]
          /\ tainted \in BOOLEAN /\ cursor \subseteq Addresses
          /\ link \in [Sessions -> Links]
          /\ hstmt \in [Sessions -> Addresses \cup {None}]
          /\ conn \in [Sessions -> Addresses \cup {None}]
          /\ owner \in [Addresses -> Sessions \cup {None}]
      BY DEF Links
    <2>2. /\ pc \in [Threads -> Places]
          /\ ran \in [Threads -> Seq(Names)]
          /\ result \in [Threads -> Results]
      BY DEF Places, Results
    <2> QED
      BY <1>1, <2>1, <2>2 DEF TypeOK
  <1>3. NoStatementLeak /\ OwnHandles
    BY DEF NoStatementLeak, OwnHandles, Allocated
  <1>4. \A t \in Threads : ran[t] = <<>> /\ Len(ran[t]) = 0 /\ call[t].retries = 0
                           /\ call[t].kind = "exec"
    OBVIOUS
  <1>5. WrongDatabaseOnlyAfterFailedReset
    BY <1>4 DEF WrongDatabaseOnlyAfterFailedReset, RunsOnItsDatabase
  <1>6. Counted
    BY <1>4 DEF Counted
  <1> QED
    BY <1>2, <1>3, <1>5, <1>6 DEF Inv

(* What a database going down or up changes.                               *)
LEMMA DatabaseInv ==
    ASSUME Inv, NEW n \in Names, Down(n) \/ Up(n)
    PROVE  Inv'
  <1> USE DEF Inv
  <1>1. UNCHANGED <<hstmt, conn, owner, cursor, pc, call, ran, result, tainted>>
    BY DEF Down, Up, calls
  <1>2. /\ link' \in [Sessions -> Links] /\ up' \in [Names -> BOOLEAN]
        /\ \A s \in Sessions : link[s] \in {"live", "broken"} => link'[s] \in {"live", "broken"}
    BY ZenonT(60) DEF Down, Up, TypeOK, Links
  <1>3. TypeOK'
    BY <1>1, <1>2 DEF TypeOK
  <1>4. NoStatementLeak' /\ OwnHandles'
    BY <1>1, <1>2 DEF NoStatementLeak, OwnHandles, Allocated, TypeOK
  <1>5. WrongDatabaseOnlyAfterFailedReset' /\ Counted'
    BY <1>1 DEF WrongDatabaseOnlyAfterFailedReset, RunsOnItsDatabase, Counted
  <1> QED
    BY <1>3, <1>4, <1>5

(* Steps that only move the thread along.                                  *)
LEMMA CallInv ==
    ASSUME Inv, NEW t \in Threads, Call(t)
    PROVE  Inv'
  <1> USE SessionAssumption DEF Inv
  <1>1. PICK n \in Names, k \in Kinds :
           call' = [call EXCEPT ![t] = [db |-> n, kind |-> k, retries |-> 0]]
    BY DEF Call
  <1>2. /\ ran' = [ran EXCEPT ![t] = <<>>] /\ result' = [result EXCEPT ![t] = "none"]
        /\ pc' = [pc EXCEPT ![t] = "getdb"]
        /\ UNCHANGED <<up, link, hstmt, conn, owner, cursor, tainted>>
    BY DEF Call, Goto
  <1>3. TypeOK'
    BY <1>1, <1>2 DEF TypeOK, Places, Results, Kinds
  <1>4. NoStatementLeak' /\ OwnHandles'
    BY <1>2 DEF NoStatementLeak, OwnHandles, Allocated
  <1>5. /\ \A u \in Threads : u # t => /\ call'[u] = call[u] /\ ran'[u] = ran[u]
                                       /\ pc'[u] = pc[u] /\ result'[u] = result[u]
        /\ call'[t] = [db |-> n, kind |-> k, retries |-> 0]
        /\ ran'[t] = <<>> /\ pc'[t] = "getdb" /\ result'[t] = "none"
    BY <1>1, <1>2 DEF TypeOK
  <1>6. WrongDatabaseOnlyAfterFailedReset'
    BY <1>2, <1>5 DEF WrongDatabaseOnlyAfterFailedReset, RunsOnItsDatabase
  <1>7. Counted'
    BY <1>5 DEF Counted
  <1> QED
    BY <1>3, <1>4, <1>6, <1>7

LEMMA MoveInv ==
    ASSUME Inv, NEW t \in Threads, Found(t) \/ TooMany(t) \/ GiveUp(t) \/ FetchFails(t)
    PROVE  Inv'
  <1> USE DEF Inv
  <1>1. /\ UNCHANGED <<up, link, hstmt, conn, owner, cursor, call, ran, tainted>>
        /\ \A u \in Threads : u # t => pc'[u] = pc[u] /\ result'[u] = result[u]
        /\ pc' \in [Threads -> Places] /\ result' \in [Threads -> Results]
    BY DEF Found, TooMany, GiveUp, FetchFails, Goto, Return, TypeOK, Places, Results
  <1>2. /\ result'[t] = "ok" => result[t] = "ok"
        /\ pc'[t] # "fetch" /\ pc'[t] # "getdb"
        /\ pc'[t] = "exec" => pc[t] = "getdb"
        /\ pc'[t] = "spin" => pc[t] = "fetch"
        /\ pc'[t] \in {"exec", "spin", "idle"}
    BY DEF Found, TooMany, GiveUp, FetchFails, Goto, Return, TypeOK
  <1>3. TypeOK'
    BY <1>1 DEF TypeOK
  <1>4. NoStatementLeak' /\ OwnHandles' /\ WrongDatabaseOnlyAfterFailedReset'
    BY <1>1 DEF NoStatementLeak, OwnHandles, Allocated,
                WrongDatabaseOnlyAfterFailedReset, RunsOnItsDatabase
  <1>5. Counted'
    BY <1>1, <1>2 DEF Counted
  <1> QED
    BY <1>3, <1>4, <1>5

LEMMA FetchAllInv ==
    ASSUME Inv, NEW t \in Threads, FetchAll(t)
    PROVE  Inv'
  <1> USE DEF Inv
  <1>1. /\ UNCHANGED <<up, link, hstmt, conn, owner, call, ran, tainted>>
        /\ pc[t] = "fetch" /\ cursor' \subseteq cursor
        /\ pc' = [pc EXCEPT ![t] = "idle"] /\ result' = [result EXCEPT ![t] = "ok"]
    BY DEF FetchAll, Goto, Return
  <1>2. TypeOK'
    BY <1>1 DEF TypeOK, Places, Results
  <1>3. NoStatementLeak' /\ OwnHandles' /\ WrongDatabaseOnlyAfterFailedReset'
    BY <1>1 DEF NoStatementLeak, OwnHandles, Allocated,
                WrongDatabaseOnlyAfterFailedReset, RunsOnItsDatabase
  <1>4. Counted'
    BY <1>1 DEF Counted, TypeOK
  <1> QED
    BY <1>2, <1>3, <1>4

-----------------------------------------------------------------------------
(* The first connection of a session.                                      *)
LEMMA AddInv ==
    ASSUME Inv, NEW t \in Threads, Add(t)
    PROVE  Inv'
  <1> USE SessionAssumption DEF Inv
  <1> DEFINE s == Session(t)
  <1>1. /\ UNCHANGED <<up, cursor, call, ran, result, tainted>>
        /\ pc[t] = "getdb" /\ pc' = [pc EXCEPT ![t] = "exec"]
        /\ link[s] = "none" /\ Connect(s, owner)
    BY SessionType DEF Add, Goto, Entries, Session
  <1>2. s \in Sessions /\ owner \in [Addresses -> Sessions \cup {None}]
    BY SessionType DEF TypeOK
  <1>3. /\ link' \in [Sessions -> Links]
        /\ hstmt' \in [Sessions -> Addresses \cup {None}]
        /\ conn' \in [Sessions -> Addresses \cup {None}]
        /\ owner' \in [Addresses -> Sessions \cup {None}]
        /\ \A r \in Sessions : r # s =>
                 link'[r] = link[r] /\ hstmt'[r] = hstmt[r] /\ conn'[r] = conn[r]
        /\ \/ /\ link'[s] = "live"
              /\ hstmt'[s] \in Addresses /\ owner[hstmt'[s]] = None
              /\ conn'[s] = hstmt'[s]
              /\ owner' = [owner EXCEPT ![hstmt'[s]] = s]
           \/ /\ link'[s] = "failed"
              /\ owner' = owner /\ hstmt' = hstmt /\ conn' = conn
    BY <1>1, <1>2, ConnectType
  <1>4. TypeOK'
    BY <1>1, <1>3 DEF TypeOK, Places
  <1>5. \A a \in Addresses : owner[a] # s
    <2> SUFFICES ASSUME NEW a \in Addresses, owner[a] = s PROVE FALSE
      OBVIOUS
    <2>1. a # None /\ s # None
      BY <1>2
    <2>2. link[s] \in {"live", "broken"}
      BY <2>1 DEF NoStatementLeak, Allocated
    <2> QED
      BY <2>2, <1>1
  <1>6. NoStatementLeak'
    <2>1. ASSUME NEW a \in Addresses, owner'[a] # None
          PROVE  /\ hstmt'[owner'[a]] = a /\ conn'[owner'[a]] = a
                 /\ link'[owner'[a]] \in {"live", "broken"}
      <3>1. CASE owner'[a] = owner[a]
        BY <2>1, <3>1, <1>2, <1>3, <1>5 DEF NoStatementLeak, Allocated, TypeOK
      <3>2. CASE owner'[a] # owner[a]
        BY <3>2, <1>2, <1>3
      <3> QED
        BY <3>1, <3>2
    <2>2. \A a \in cursor' : a # None /\ owner'[a] # None
      BY <1>1, <1>2, <1>3 DEF NoStatementLeak, Allocated, TypeOK
    <2> QED
      BY <2>1, <2>2 DEF NoStatementLeak, Allocated
  <1>7. OwnHandles'
    <2> SUFFICES ASSUME ~tainted, NEW r \in Sessions
                 PROVE  /\ conn'[r] = hstmt'[r]
                        /\ hstmt'[r] # None =>
                              owner'[hstmt'[r]] = r /\ link'[r] \in {"live", "broken"}
      BY <1>1 DEF OwnHandles
    <2>1. /\ conn[r] = hstmt[r] /\ hstmt[r] \in Addresses \cup {None}
          /\ hstmt[r] # None => owner[hstmt[r]] = r /\ link[r] \in {"live", "broken"}
      BY DEF OwnHandles, TypeOK
    <2>2. CASE r = s
      BY <2>1, <2>2, <1>1, <1>2, <1>3
    <2>3. CASE r # s
      BY <2>1, <2>3, <1>2, <1>3
    <2> QED
      BY <2>2, <2>3
  <1>8. WrongDatabaseOnlyAfterFailedReset'
    BY <1>1 DEF WrongDatabaseOnlyAfterFailedReset, RunsOnItsDatabase
  <1>9. Counted'
    BY <1>1 DEF Counted, TypeOK
  <1> QED
    BY <1>4, <1>6, <1>7, <1>8, <1>9

(* A retry: whatever close() frees, the handles of the other sessions that *)
(* stay allocated stay theirs.                                             *)
LEMMA ResetInv ==
    ASSUME Inv, NEW t \in Threads, Reset(t)
    PROVE  Inv'
  <1> USE SessionAssumption DEF Inv
  <1> DEFINE s   == Session(t)
             own == Closed(s)
  <1>1. /\ UNCHANGED <<up, ran, result>>
        /\ pc[t] = "retry" /\ pc' = [pc EXCEPT ![t] = "exec"]
        /\ call[t].retries # MaxRetries
        /\ call' = [call EXCEPT ![t].retries = @ + 1]
        /\ cursor' = {a \in cursor : own[a] # None}
        /\ Connect(s, own)
        /\ tainted' = (tainted \/ ~up[call[t].db])
    BY DEF Reset, Goto
  <1>2. s \in Sessions /\ s[2] = call[t].db
    BY SessionType
  <1>3. /\ own \in [Addresses -> Sessions \cup {None}]
        /\ \A a \in Addresses : own[a] # None =>
              own[a] = owner[a] /\ a # hstmt[s] /\ owner[a] # s
        /\ \A a \in Addresses : owner[a] # None /\ a # hstmt[s] /\ owner[a] # s =>
              own[a] = owner[a]
    BY <1>2, ClosedType
  <1> HIDE DEF s, own
  <1>4. /\ link' \in [Sessions -> Links]
        /\ hstmt' \in [Sessions -> Addresses \cup {None}]
        /\ conn' \in [Sessions -> Addresses \cup {None}]
        /\ owner' \in [Addresses -> Sessions \cup {None}]
        /\ \A r \in Sessions : r # s =>
                 link'[r] = link[r] /\ hstmt'[r] = hstmt[r] /\ conn'[r] = conn[r]
        /\ \/ /\ up[s[2]] /\ link'[s] = "live"
              /\ hstmt'[s] \in Addresses /\ own[hstmt'[s]] = None
              /\ conn'[s] = hstmt'[s]
              /\ owner' = [own EXCEPT ![hstmt'[s]] = s]
           \/ /\ ~up[s[2]] /\ link'[s] = "failed"
              /\ owner' = own /\ hstmt' = hstmt /\ conn' = conn
    BY <1>1, <1>2, <1>3, ConnectType
  <1>5. /\ call' \in [Threads -> [db : Names, kind : Kinds, retries : 0 .. MaxRetries]]
        /\ \A u \in Threads : call'[u].db = call[u].db /\ call'[u].kind = call[u].kind
        /\ \A u \in Threads : u # t => call'[u] = call[u]
        /\ call'[t].retries = call[t].retries + 1
    <2> DEFINE c == call[t]
               C == [db : Names, kind : Kinds, retries : 0 .. MaxRetries]
    <2>1. call \in [Threads -> C] /\ c \in C /\ c.retries + 1 \in 0 .. MaxRetries
      BY <1>1 DEF TypeOK
    <2>2. call' = [call EXCEPT ![t] = [c EXCEPT !.retries = @ + 1]]
      BY <1>1
    <2>3. [c EXCEPT !.retries = @ + 1] \in C
      BY <2>1
    <2>4. call' \in [Threads -> C] /\ call'[t] = [c EXCEPT !.retries = @ + 1]
      BY <2>1, <2>2, <2>3
    <2> QED
      BY <2>1, <2>2, <2>4
  <1>6. TypeOK'
    BY <1>1, <1>4, <1>5 DEF TypeOK, Places
  <1>7. NoStatementLeak'
    <2>1. ASSUME NEW a \in Addresses, owner'[a] # None
          PROVE  /\ hstmt'[owner'[a]] = a /\ conn'[owner'[a]] = a
                 /\ link'[owner'[a]] \in {"live", "broken"}
      <3>1. CASE own[a] # None
        <4>1. own[a] = owner[a] /\ owner[a] # s /\ owner[a] \in Sessions
          BY <3>1, <1>3 DEF TypeOK
        <4>2. owner'[a] = owner[a]
          BY <3>1, <4>1, <1>3, <1>4
        <4>3. /\ hstmt[owner[a]] = a /\ conn[owner[a]] = a
              /\ link[owner[a]] \in {"live", "broken"}
          BY <2>1, <4>2 DEF NoStatementLeak, Allocated
        <4> QED
          BY <4>1, <4>2, <4>3, <1>4
      <3>2. CASE own[a] = None
        BY <2>1, <3>2, <1>2, <1>3, <1>4
      <3> QED
        BY <3>1, <3>2
    <2>2. \A a \in cursor' : a # None /\ owner'[a] # None
      BY <1>1, <1>2, <1>3, <1>4 DEF NoStatementLeak, Allocated, TypeOK
    <2> QED
      BY <2>1, <2>2 DEF NoStatementLeak, Allocated
  <1>8. OwnHandles'
    <2>1. CASE tainted \/ ~up[call[t].db]
      BY <2>1, <1>1 DEF OwnHandles
    <2>2. CASE ~tainted /\ up[s[2]]
      <3>1. owner' = [own EXCEPT ![hstmt'[s]] = s] /\ own[hstmt'[s]] = None
            /\ hstmt'[s] \in Addresses
        BY <2>2, <1>4
      <3>2. ASSUME NEW r \in Sessions, hstmt'[r] # None
            PROVE  owner'[hstmt'[r]] = r /\ link'[r] \in {"live", "broken"}
        <4>1. CASE r = s
          BY <4>1, <3>1, <1>3, <1>4, <2>2
        <4>2. CASE r # s
          <5>1. /\ hstmt'[r] = hstmt[r] /\ owner[hstmt[r]] = r /\ hstmt[r] \in Addresses
                /\ link'[r] \in {"live", "broken"}
            BY <3>2, <4>2, <2>2, <1>4 DEF OwnHandles, TypeOK
          <5>2. hstmt[r] # hstmt[s]
            BY <5>1, <3>2, <4>2, <2>2, <1>2 DEF OwnHandles
          <5>3. own[hstmt[r]] = r
            BY <5>1, <5>2, <4>2, <1>3
          <5> QED
            BY <5>1, <5>3, <3>1, <1>3
        <4> QED
          BY <4>1, <4>2
      <3>3. ASSUME NEW r \in Sessions PROVE conn'[r] = hstmt'[r]
        <4>1. conn[r] = hstmt[r]
          BY <2>2 DEF OwnHandles
        <4> QED
          BY <4>1, <2>2, <1>4
      <3> QED
        BY <3>2, <3>3 DEF OwnHandles
    <2> QED
      BY <2>1, <2>2, <1>2
  <1>9. WrongDatabaseOnlyAfterFailedReset'
    BY <1>1, <1>5 DEF WrongDatabaseOnlyAfterFailedReset, RunsOnItsDatabase
  <1>10. Counted'
    <2>1. call[t].retries \in Nat /\ \A u \in Threads : pc[u] \in Places
      BY DEF TypeOK
    <2>2. pc'[t] = "exec" /\ \A u \in Threads : u # t => pc'[u] = pc[u]
      BY <1>1 DEF TypeOK
    <2>3. \A u \in Threads : Len(ran[u]) \in Nat
      BY DEF TypeOK
    <2> QED
      BY <1>1, <1>5, <2>1, <2>2, <2>3 DEF Counted
  <1> QED
    BY <1>6, <1>7, <1>8, <1>9, <1>10

(* The statement runs, or not, on whatever its handle is by now.           *)
LEMMA ExecuteInv ==
    ASSUME Inv, NEW t \in Threads, Execute(t)
    PROVE  Inv'
  <1> USE SessionAssumption DEF Inv
  <1> DEFINE s == Session(t)
             a == hstmt[s]
  <1>1. PICK o \in Outcomes(a) :
         /\ ran' = IF o \in Effective
                     THEN [ran EXCEPT ![t] = Append(@, owner[a][2])] ELSE ran
         /\ link' = IF o = "lost" THEN [link EXCEPT ![owner[a]] = "broken"] ELSE link
         /\ cursor' = IF call[t].kind = "query" /\ o \in Succeeded
                        THEN cursor \cup {a} ELSE cursor
         /\ Continue(t, o)
    BY DEF Execute
  <1>2. UNCHANGED <<up, hstmt, conn, owner, call, tainted>> /\ pc[t] = "exec"
    BY DEF Execute
  <1>3. s \in Sessions /\ s[2] = call[t].db /\ call[t].db \in Names
    BY SessionType
  <1>4. o \in Effective => Allocated(a) /\ a \in Addresses /\ owner[a] \in Sessions
    BY <1>1, <1>3 DEF Outcomes, Effective, Succeeded, Allocated, TypeOK
  <1>5. owner[a] \in Sessions => owner[a][2] \in Names
    BY DEF Sessions
  <1> HIDE DEF s, a
  <1>6. /\ pc' \in [Threads -> Places] /\ result' \in [Threads -> Results]
        /\ \A u \in Threads : u # t => pc'[u] = pc[u] /\ result'[u] = result[u]
    BY <1>1 DEF Continue, Goto, Return, TypeOK, Places, Results
  <1>7. /\ pc'[t] \in {"idle", "retry", "fetch"}
        /\ call[t].kind = "sqlp" => pc'[t] = "idle"
        /\ pc'[t] = "fetch" => o \in Effective
        /\ result'[t] = "ok" => result[t] = "ok" \/ o \in Effective
    BY <1>1, <1>2 DEF Continue, Goto, Return, TypeOK, Effective, Succeeded, Retried
  <1>8. /\ ran' \in [Threads -> Seq(Names)]
        /\ \A u \in Threads : u # t => ran'[u] = ran[u]
        /\ o \notin Effective => ran'[t] = ran[t]
        /\ o \in Effective => ran'[t] = Append(ran[t], owner[a][2])
    BY <1>1, <1>4, <1>5 DEF TypeOK
  <1>9. /\ link' \in [Sessions -> Links]
        /\ \A r \in Sessions : link'[r] = link[r]
              \/ link'[r] = "broken"
    BY <1>1, <1>4 DEF TypeOK, Links
  <1>10. cursor' \subseteq Addresses /\ \A x \in cursor' : x \in cursor \/ Allocated(x)
    BY <1>1, <1>4 DEF TypeOK, Effective
  <1>11. TypeOK'
    BY <1>2, <1>6, <1>8, <1>9, <1>10 DEF TypeOK
  <1>12. NoStatementLeak'
    BY <1>2, <1>9, <1>10 DEF NoStatementLeak, Allocated, TypeOK
  <1>13. OwnHandles'
    BY <1>2, <1>9 DEF OwnHandles
  <1>14. WrongDatabaseOnlyAfterFailedReset'
    <2> SUFFICES ASSUME ~tainted, NEW u \in Threads, NEW i \in 1 .. Len(ran'[u])
                 PROVE  ran'[u][i] = call[u].db
      BY <1>2 DEF WrongDatabaseOnlyAfterFailedReset, RunsOnItsDatabase
    <2>1. \A j \in 1 .. Len(ran[u]) : ran[u][j] = call[u].db
      BY DEF WrongDatabaseOnlyAfterFailedReset, RunsOnItsDatabase
    <2>2. CASE u # t \/ o \notin Effective
      BY <2>1, <2>2, <1>8
    <2>3. CASE u = t /\ o \in Effective
      <3>1. owner[a] = s
        BY <2>3, <1>3, <1>4 DEF OwnHandles, Allocated, a
      <3>2. ran'[t] = Append(ran[t], call[t].db) /\ ran[t] \in Seq(Names)
        BY <2>3, <3>1, <1>3, <1>8 DEF TypeOK
      <3> QED
        BY <2>1, <2>3, <3>2, <1>3
    <2> QED
      BY <2>2, <2>3
  <1>15. Counted'
    <2>1. /\ ran[t] \in Seq(Names) /\ call[t].retries \in Nat
          /\ Len(ran[t]) <= call[t].retries
      BY <1>2 DEF Counted, TypeOK
    <2>2. /\ Len(ran'[t]) <= call[t].retries + 1
          /\ o \in Effective => ran'[t] # <<>>
          /\ ran[t] # <<>> => ran'[t] # <<>>
      BY <2>1, <1>4, <1>5, <1>8
    <2>3. ASSUME NEW u \in Threads, u # t
          PROVE  /\ pc'[u] \in {"getdb", "exec"} => Len(ran'[u]) <= call'[u].retries
                 /\ Len(ran'[u]) <= call'[u].retries + 1
                 /\ call'[u].kind = "sqlp" =>
                       call'[u].retries = 0 /\ pc'[u] \in {"idle", "ended", "getdb", "exec"}
                 /\ pc'[u] = "fetch" => ran'[u] # <<>>
                 /\ result'[u] = "ok" => ran'[u] # <<>>
      BY <2>3, <1>2, <1>6, <1>8 DEF Counted
    <2>4. /\ pc'[t] \in {"getdb", "exec"} => Len(ran'[t]) <= call'[t].retries
          /\ Len(ran'[t]) <= call'[t].retries + 1
          /\ call'[t].kind = "sqlp" =>
                call'[t].retries = 0 /\ pc'[t] \in {"idle", "ended", "getdb", "exec"}
          /\ pc'[t] = "fetch" => ran'[t] # <<>>
          /\ result'[t] = "ok" => ran'[t] # <<>>
      BY <2>2, <1>2, <1>7 DEF Counted
    <2> QED
      BY <2>3, <2>4 DEF Counted
  <1> QED
    BY <1>11, <1>12, <1>13, <1>14, <1>15

(* A thread that ends leaves nothing of its own, and nothing of others     *)
(* unless a reset has failed.                                              *)
LEMMA EndInv ==
    ASSUME Inv, NEW t \in Threads, End(t)
    PROVE  Inv'
  <1> USE SessionAssumption DEF Inv
  <1>1. PICK hit \in SUBSET {s \in Sessions : s[1] # t /\ link[s] \in {"live", "broken"}} :
         /\ Cardinality(hit) <= Cardinality(Stale(t))
         /\ owner' = Freed(t, hit)
         /\ link' = [s \in Sessions |-> IF s[1] = t THEN "none"
                                       ELSE IF s \in hit THEN "broken" ELSE link[s]]
    BY DEF End
  <1>2. /\ UNCHANGED <<up, call, ran, result, tainted>>
        /\ pc[t] = "idle" /\ pc' = [pc EXCEPT ![t] = "ended"]
        /\ cursor' = {a \in cursor : owner'[a] # None}
        /\ hstmt' = [s \in Sessions |-> IF s[1] = t THEN None ELSE hstmt[s]]
        /\ conn' = [s \in Sessions |-> IF s[1] = t THEN None ELSE conn[s]]
    BY DEF End, Goto
  <1>3. /\ owner' \in [Addresses -> Sessions \cup {None}]
        /\ \A a \in Addresses : owner'[a] # None =>
              owner'[a] = owner[a] /\ owner[a] \notin Kept(t)
        /\ \A a \in Addresses :
              owner[a] \notin Kept(t) \cup hit /\ (\A s \in Kept(t) : conn[s] # a) =>
                 owner'[a] = owner[a]
    BY <1>1 DEF Freed, TypeOK
  <1>4. \A s \in Sessions : s[1] = t /\ conn[s] # None => s \in Kept(t)
    BY DEF Kept, Sessions
  <1>5. TypeOK'
    BY <1>1, <1>2, <1>3 DEF TypeOK, Places, Links
  <1>6. NoStatementLeak'
    <2>1. ASSUME NEW a \in Addresses, owner'[a] # None
          PROVE  /\ hstmt'[owner'[a]] = a /\ conn'[owner'[a]] = a
                 /\ link'[owner'[a]] \in {"live", "broken"}
      <3>1. owner'[a] = owner[a] /\ owner[a] \in Sessions /\ owner[a] \notin Kept(t)
        BY <2>1, <1>3 DEF TypeOK
      <3>2. /\ hstmt[owner[a]] = a /\ conn[owner[a]] = a
            /\ link[owner[a]] \in {"live", "broken"} /\ a # None
        BY <2>1, <3>1 DEF NoStatementLeak, Allocated
      <3>3. owner[a][1] # t
        BY <3>1, <3>2, <1>4
      <3> QED
        BY <3>1, <3>2, <3>3, <1>1, <1>2
    <2>2. \A a \in cursor' : a # None /\ owner'[a] # None
      BY <1>2 DEF NoStatementLeak, Allocated
    <2> QED
      BY <2>1, <2>2 DEF NoStatementLeak, Allocated
  <1>7. OwnHandles'
    <2> SUFFICES ASSUME ~tainted, NEW s \in Sessions
                 PROVE  /\ conn'[s] = hstmt'[s]
                        /\ hstmt'[s] # None =>
                              owner'[hstmt'[s]] = s /\ link'[s] \in {"live", "broken"}
      BY <1>2 DEF OwnHandles
    <2>1. \A r \in Sessions :
            /\ conn[r] = hstmt[r]
            /\ hstmt[r] # None => owner[hstmt[r]] = r /\ link[r] \in {"live", "broken"}
      BY DEF OwnHandles
    <2>2. Kept(t) \subseteq {r \in Sessions : r[1] = t /\ conn[r] # None}
      BY DEF Kept, Sessions
    <2>3. Stale(t) = {}
      BY <2>1, <2>2 DEF Stale
    <2>4. hit = {}
      <3>1. IsFiniteSet(hit) /\ Cardinality(hit) \in Nat
        BY FS_Subset, FS_CardinalityType
      <3>2. Cardinality(hit) = 0
        BY <3>1, <2>3, <1>1, FS_EmptySet
      <3> QED
        BY <3>1, <3>2, FS_EmptySet
    <2>5. CASE s[1] = t
      BY <2>5, <1>2
    <2>6. CASE s[1] # t /\ hstmt[s] # None
      <3>1. owner[hstmt[s]] = s /\ hstmt[s] \in Addresses
        BY <2>1, <2>6 DEF TypeOK
      <3>2. \A r \in Kept(t) : conn[r] # hstmt[s]
        BY <2>1, <2>2, <2>6, <3>1
      <3>3. owner'[hstmt[s]] = s
        BY <3>1, <3>2, <2>2, <2>4, <2>6, <1>3
      <3> QED
        BY <3>3, <2>1, <2>4, <2>6, <1>1, <1>2
    <2>7. CASE s[1] # t /\ hstmt[s] = None
      BY <2>1, <2>7, <1>2
    <2> QED
      BY <2>5, <2>6, <2>7
  <1>8. WrongDatabaseOnlyAfterFailedReset'
    BY <1>2 DEF WrongDatabaseOnlyAfterFailedReset, RunsOnItsDatabase
  <1>9. Counted'
    BY <1>2 DEF Counted, TypeOK
  <1> QED
    BY <1>5, <1>6, <1>7, <1>8, <1>9

-----------------------------------------------------------------------------
LEMMA NextInv == Inv /\ [Next]_vars => Inv'
  <1> SUFFICES ASSUME Inv, [Next]_vars PROVE Inv'
    OBVIOUS
  <1>1. CASE UNCHANGED vars
    BY <1>1 DEF vars, calls, Inv, TypeOK, NoStatementLeak, OwnHandles, Allocated,
                WrongDatabaseOnlyAfterFailedReset, RunsOnItsDatabase, Counted
  <1>2. CASE \E n \in Names : Down(n) \/ Up(n)
    BY <1>2, DatabaseInv
  <1>3. ASSUME NEW t \in Threads, Call(t) \/ Progress(t) \/ End(t) PROVE Inv'
    BY <1>3, CallInv, MoveInv, AddInv, ExecuteInv, ResetInv, FetchAllInv, EndInv DEF Progress
  <1> QED
    BY <1>1, <1>2, <1>3 DEF Next

LEMMA Invariance == Spec => []Inv
  BY InitInv, NextInv, PTL DEF Spec

(* Every variable keeps its type.                                          *)
THEOREM SqlTypeOK == Spec => []TypeOK
  <1>1. Inv => TypeOK
    BY DEF Inv
  <1> QED
    BY <1>1, Invariance, PTL

(* No statement handle is lost, whoever resets which connection.           *)
THEOREM SqlNoStatementLeak == Spec => []NoStatementLeak
  <1>1. Inv => NoStatementLeak
    BY DEF Inv
  <1> QED
    BY <1>1, Invariance, PTL

(* While every reset has connected, each statement runs on its database.   *)
THEOREM SqlWrongDatabase == Spec => []WrongDatabaseOnlyAfterFailedReset
  <1>1. Inv => WrongDatabaseOnlyAfterFailedReset
    BY DEF Inv
  <1> QED
    BY <1>1, Invariance, PTL

(* Statements run as often as the calls report.                            *)
THEOREM SqlRunsAsReported == Spec => []RunsAsReported
  <1>1. Inv => RunsAsReported
    <2> SUFFICES ASSUME Inv, NEW t \in Threads
                 PROVE  /\ result[t] = "ok" => ran[t] # <<>>
                        /\ Len(ran[t]) <= call[t].retries + 1
                        /\ call[t].kind = "sqlp" => Len(ran[t]) <= 1
      BY DEF RunsAsReported
    <2> QED
      BY DEF Inv, Counted
  <1> QED
    BY <1>1, Invariance, PTL
=============================================================================
