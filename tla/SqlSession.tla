----------------------------- MODULE SqlSession -----------------------------
(***************************************************************************)
(* Database sessions: every thread keeps, per database name, one ODBC      *)
(* connection with one statement handle (dbutil, dbconns, getdb of sql.h), *)
(* opened on first use and given back when the thread ends, by the dbconn  *)
(* that keeps a copy of its handles.  db_exec runs a statement on the      *)
(* handle and retries it after a reset of the connection; exec_sqlp runs a *)
(* prepared one once.                                                      *)
(*                                                                         *)
(* Databases that go down and come back, and the outcomes of the ODBC      *)
(* calls, are the environment.  A statement handle is an address: what is  *)
(* freed may be handed out again by the next allocation of any thread.     *)
(***************************************************************************)
EXTENDS Integers, Sequences, FiniteSets

CONSTANTS
    Threads,      \* threads that use databases: workers, audit, tasks
    Names,        \* database names, the keys of the environment variables
    Addresses,    \* addresses a statement handle may have
    MaxConns,     \* dbconns::MAX_CONNS
    MaxRetries,   \* max_retries
    None

Sessions == Threads \X Names

ASSUME SessionAssumption == /\ MaxConns \in Nat \ {0}
                            /\ MaxRetries \in Nat
                            /\ None \notin Addresses \cup Sessions \cup Names
                            /\ IsFiniteSet(Sessions) /\ IsFiniteSet(Addresses)
                            /\ \/ Cardinality(Addresses) >= Cardinality(Sessions)
                               \/ Cardinality(Addresses) >= Cardinality(Threads) * MaxConns

VARIABLES
    up,       \* up[n]: database n accepts connections
    link,     \* link[s]: the connection (hdbc) of session s
    hstmt,    \* hstmt[s]: the statement handle session s holds
    conn,     \* conn[s]: the copy of it in its dbconn
    owner,    \* owner[a]: the session the statement allocated at a belongs to
    cursor,   \* statements with an open cursor
    pc,       \* pc[t]: where thread t is in db_exec or exec_sqlp
    call,     \* call[t]: its database, its kind, its retries so far
    ran,      \* ran[t]: databases on which the statement of the call took effect
    result,   \* result[t]: how its last call ended
    tainted   \* history: a reset has failed to connect

calls == <<pc, call, ran, result>>
vars  == <<up, link, hstmt, conn, owner, cursor, calls, tainted>>

Kinds   == {"query", "exec", "sqlp"}
Links   == {"none", "failed", "live", "broken"}
Places  == {"idle", "ended", "getdb", "exec", "retry", "fetch", "spin"}
Results == {"none", "ok", "error", "gaveup", "toomany"}

Allocated(a) == a # None /\ owner[a] # None

Session(t) == <<t, call[t].db>>
Entries(t) == {n \in Names : link[<<t, n>>] # "none"}

-----------------------------------------------------------------------------
(* Databases.                                                              *)

Down(n) ==
    /\ up[n]
    /\ up' = [up EXCEPT ![n] = FALSE]
    /\ link' = [s \in Sessions |->
                    IF s[2] = n /\ link[s] = "live" THEN "broken" ELSE link[s]]
    /\ UNCHANGED <<hstmt, conn, owner, cursor, calls, tainted>>

Up(n) ==
    /\ ~up[n]
    /\ up' = [up EXCEPT ![n] = TRUE]
    /\ UNCHANGED <<link, hstmt, conn, owner, cursor, calls, tainted>>

-----------------------------------------------------------------------------
(* dbutil.                                                                 *)

(* close(): the handle in hstmt is freed, whoever it belongs to by now,    *)
(* and SQLDisconnect frees the statements of the connection.               *)
\* Mutant of Closed: the statement handle is not freed.
NothingClosed(s) == owner

Closed(s) == [a \in Addresses |->
                IF a = hstmt[s] \/ owner[a] = s THEN None ELSE owner[a]]

(* connect() with the statements in own allocated: henv and hdbc are new   *)
(* whatever happens; hstmt and the copies of the dbconn keep their values  *)
(* when SQLDriverConnect fails.                                            *)
Refused(s, own) == /\ ~up[s[2]]
                   /\ link' = [link EXCEPT ![s] = "failed"]
                   /\ owner' = own
                   /\ UNCHANGED <<hstmt, conn>>

\* Mutant of Connect: a statement handle is allocated only where there is none.
ConnectReusesHandle(s, own) ==
    \/ Refused(s, own)
    \/ /\ up[s[2]]
       /\ \E a \in {x \in Addresses : own[x] = None} :
             IF hstmt[s] = None
               THEN /\ hstmt' = [hstmt EXCEPT ![s] = a]
                    /\ conn' = [conn EXCEPT ![s] = a]
                    /\ owner' = [own EXCEPT ![a] = s]
               ELSE owner' = own /\ UNCHANGED <<hstmt, conn>>
       /\ link' = [link EXCEPT ![s] = "live"]

Connect(s, own) ==
    \/ Refused(s, own)
    \/ /\ up[s[2]]
       /\ \E a \in {x \in Addresses : own[x] = None} :
             /\ hstmt' = [hstmt EXCEPT ![s] = a]
             /\ conn' = [conn EXCEPT ![s] = a]
             /\ owner' = [own EXCEPT ![a] = s]
       /\ link' = [link EXCEPT ![s] = "live"]

-----------------------------------------------------------------------------
(* A call of db_exec or exec_sqlp.                                         *)

Goto(t, place) == pc' = [pc EXCEPT ![t] = place]

Return(t, how) == Goto(t, "idle") /\ result' = [result EXCEPT ![t] = how]

Call(t) ==
    /\ pc[t] = "idle"
    /\ \E n \in Names, k \in Kinds :
          call' = [call EXCEPT ![t] = [db |-> n, kind |-> k, retries |-> 0]]
    /\ ran' = [ran EXCEPT ![t] = <<>>]
    /\ result' = [result EXCEPT ![t] = "none"]
    /\ Goto(t, "getdb")
    /\ UNCHANGED <<up, link, hstmt, conn, owner, cursor, tainted>>

(* getdb(): the session of that name, or a new one.  A first connection    *)
(* that fails takes its place in the table all the same.                   *)
Found(t) ==
    /\ pc[t] = "getdb" /\ call[t].db \in Entries(t)
    /\ Goto(t, "exec")
    /\ UNCHANGED <<up, link, hstmt, conn, owner, cursor, call, ran, result, tainted>>

TooMany(t) ==
    /\ pc[t] = "getdb" /\ call[t].db \notin Entries(t)
    /\ Cardinality(Entries(t)) = MaxConns
    /\ Return(t, "toomany")
    /\ UNCHANGED <<up, link, hstmt, conn, owner, cursor, call, ran, tainted>>

Add(t) ==
    /\ pc[t] = "getdb" /\ call[t].db \notin Entries(t)
    /\ Cardinality(Entries(t)) # MaxConns
    /\ Connect(Session(t), owner)
    /\ Goto(t, "exec")
    /\ UNCHANGED <<up, cursor, call, ran, result, tainted>>

(* What SQLExecDirect, or SQLPrepare and SQLExecute, may return on the     *)
(* handle at a: "info" is SQL_SUCCESS_WITH_INFO with state 01000 and       *)
(* "warning" with another state, "general" is HY000, "lost" a connection   *)
(* that breaks (08S01) after the statement took effect and "dead" one that *)
(* was broken before, "open" is 24000, invalid cursor state.               *)
Outcomes(a) ==
    IF ~Allocated(a)                     THEN {"invalid"}
    ELSE IF a \in cursor                 THEN {"open"}
    ELSE IF link[owner[a]] # "live"      THEN {"dead"}
    ELSE {"ok", "info", "warning", "general", "error", "lost"}

Succeeded == {"ok", "info", "warning"}
Effective == Succeeded \cup {"lost"}

(* The conditions of retry().                                              *)
Retried == {"general", "info", "lost", "dead", "invalid"}

(* db_exec takes SQL_SUCCESS alone for success; exec_sqlp takes            *)
(* SQL_SUCCESS_WITH_INFO too, and never retries.                           *)
\* Mutant of Continue: a failed statement is reported as done.
ContinueAnyhow(t, o) ==
    IF call[t].kind = "sqlp" \/ o \notin Retried \cup {"ok"} THEN Return(t, "ok")
    ELSE IF o = "ok" /\ call[t].kind = "exec" THEN Return(t, "ok")
    ELSE /\ Goto(t, IF o = "ok" THEN "fetch" ELSE "retry")
         /\ UNCHANGED result

Continue(t, o) ==
    CASE call[t].kind = "sqlp" -> Return(t, IF o \in Succeeded THEN "ok" ELSE "error")
      [] call[t].kind # "sqlp" /\ o \in Retried -> Goto(t, "retry") /\ UNCHANGED result
      [] call[t].kind = "query" /\ o = "ok" -> Goto(t, "fetch") /\ UNCHANGED result
      [] call[t].kind = "exec" /\ o = "ok" -> Return(t, "ok")
      [] OTHER -> Return(t, "error")

Execute(t) ==
    /\ pc[t] = "exec"
    /\ LET a == hstmt[Session(t)] IN \E o \in Outcomes(a) :
         /\ ran' = IF o \in Effective
                     THEN [ran EXCEPT ![t] = Append(@, owner[a][2])] ELSE ran
         /\ link' = IF o = "lost" THEN [link EXCEPT ![owner[a]] = "broken"] ELSE link
         /\ cursor' = IF call[t].kind = "query" /\ o \in Succeeded
                        THEN cursor \cup {a} ELSE cursor
         /\ Continue(t, o)
    /\ UNCHANGED <<up, hstmt, conn, owner, call, tainted>>

GiveUp(t) ==
    /\ pc[t] = "retry" /\ call[t].retries = MaxRetries
    /\ Return(t, "gaveup")
    /\ UNCHANGED <<up, link, hstmt, conn, owner, cursor, call, ran, tainted>>

\* Mutant of Reset: the retry is not counted.
ResetUncounted(t) ==
    /\ pc[t] = "retry" /\ call[t].retries # MaxRetries
    /\ LET own == Closed(Session(t)) IN
         /\ cursor' = {a \in cursor : own[a] # None}
         /\ Connect(Session(t), own)
    /\ tainted' = (tainted \/ ~up[call[t].db])
    /\ Goto(t, "exec")
    /\ UNCHANGED <<up, call, ran, result>>

\* Mutant of Reset: the limit is not looked at.
ResetWithoutLimit(t) ==
    /\ pc[t] = "retry" /\ call[t].retries <= MaxRetries
    /\ call' = [call EXCEPT ![t].retries = @ + 1]
    /\ LET own == Closed(Session(t)) IN
         /\ cursor' = {a \in cursor : own[a] # None}
         /\ Connect(Session(t), own)
    /\ tainted' = (tainted \/ ~up[call[t].db])
    /\ Goto(t, "exec")
    /\ UNCHANGED <<up, ran, result>>

(* retry(): count, close, connect, and around the loop of db_exec again.   *)
Reset(t) ==
    /\ pc[t] = "retry" /\ call[t].retries # MaxRetries
    /\ call' = [call EXCEPT ![t].retries = @ + 1]
    /\ LET own == Closed(Session(t)) IN
         /\ cursor' = {a \in cursor : own[a] # None}
         /\ Connect(Session(t), own)
    /\ tainted' = (tainted \/ ~up[call[t].db])
    /\ Goto(t, "exec")
    /\ UNCHANGED <<up, ran, result>>

Fetchable(a) == Allocated(a) /\ a \in cursor /\ link[owner[a]] = "live"

(* The rows are read up to SQL_NO_DATA, then SQLFreeStmt(SQL_CLOSE).       *)
FetchAll(t) ==
    /\ pc[t] = "fetch"
    /\ LET a == hstmt[Session(t)] IN Fetchable(a) /\ cursor' = cursor \ {a}
    /\ Return(t, "ok")
    /\ UNCHANGED <<up, link, hstmt, conn, owner, call, ran, tainted>>

(* The loops end on SQL_NO_DATA only: once SQLFetch fails they go on for   *)
(* ever, adding a row each time.                                           *)
FetchFails(t) ==
    /\ pc[t] = "fetch" /\ ~Fetchable(hstmt[Session(t)])
    /\ Goto(t, "spin")
    /\ UNCHANGED <<up, link, hstmt, conn, owner, cursor, call, ran, result, tainted>>

-----------------------------------------------------------------------------
(* The end of a thread: its dbconns is destroyed, and with it the dbconn   *)
(* of every session that has ever connected, whose copies ~dbconn frees.   *)
(* Those of a session that failed to reconnect last were freed before;     *)
(* each of them may take another session's statement along, and another    *)
(* session's connection (hit), if their addresses are in use again.        *)
Kept(t)  == {s \in {t} \X Names : conn[s] # None}
Stale(t) == {s \in Kept(t) : link[s] = "failed"}

\* Mutant of Freed: the sessions of the thread are dropped as they are.
FreedNot(t, hit) == owner

Freed(t, hit) ==
    [a \in Addresses |->
       IF owner[a] \in Kept(t) \cup hit \/ \E s \in Kept(t) : conn[s] = a
         THEN None ELSE owner[a]]

End(t) ==
    /\ pc[t] = "idle"
    /\ Goto(t, "ended")
    /\ \E hit \in SUBSET {s \in Sessions : s[1] # t /\ link[s] \in {"live", "broken"}} :
         /\ Cardinality(hit) <= Cardinality(Stale(t))
         /\ owner' = Freed(t, hit)
         /\ link' = [s \in Sessions |-> IF s[1] = t THEN "none"
                                       ELSE IF s \in hit THEN "broken" ELSE link[s]]
    /\ cursor' = {a \in cursor : owner'[a] # None}
    /\ hstmt' = [s \in Sessions |-> IF s[1] = t THEN None ELSE hstmt[s]]
    /\ conn' = [s \in Sessions |-> IF s[1] = t THEN None ELSE conn[s]]
    /\ UNCHANGED <<up, call, ran, result, tainted>>

-----------------------------------------------------------------------------
Init == /\ up \in [Names -> BOOLEAN]
        /\ link = [s \in Sessions |-> "none"]
        /\ hstmt = [s \in Sessions |-> None]
        /\ conn = [s \in Sessions |-> None]
        /\ owner = [a \in Addresses |-> None]
        /\ cursor = {}
        /\ pc = [t \in Threads |-> "idle"]
        /\ call \in [Threads -> {[db |-> n, kind |-> "exec", retries |-> 0] : n \in Names}]
        /\ ran = [t \in Threads |-> <<>>]
        /\ result = [t \in Threads |-> "none"]
        /\ tainted = FALSE

Progress(t) == \/ Found(t) \/ TooMany(t) \/ Add(t) \/ Execute(t)
               \/ GiveUp(t) \/ Reset(t) \/ FetchAll(t) \/ FetchFails(t)

Next == \/ \E n \in Names : Down(n) \/ Up(n)
        \/ \E t \in Threads : Call(t) \/ Progress(t) \/ End(t)

Spec == Init /\ [][Next]_vars

(* Threads are scheduled and ODBC calls return; nobody has to call, no     *)
(* database has to come back.                                              *)
FairSpec == Spec /\ \A t \in Threads : WF_vars(Progress(t))

-----------------------------------------------------------------------------
(* Properties.                                                             *)

(* Every variable has its type.                                            *)
TypeOK == /\ up \in [Names -> BOOLEAN]
          /\ link \in [Sessions -> Links]
          /\ hstmt \in [Sessions -> Addresses \cup {None}]
          /\ conn \in [Sessions -> Addresses \cup {None}]
          /\ owner \in [Addresses -> Sessions \cup {None}]
          /\ cursor \subseteq Addresses
          /\ pc \in [Threads -> Places]
          /\ call \in [Threads -> [db : Names, kind : Kinds, retries : 0 .. MaxRetries]]
          /\ ran \in [Threads -> Seq(Names)]
          /\ result \in [Threads -> Results]
          /\ tainted \in BOOLEAN

(* No statement handle is lost however often connections are reset,        *)
(* whoever frees what and whichever threads end: each allocated one is     *)
(* held by the session it belongs to, which is connected, and by its       *)
(* dbconn, which will free it; a thread that ended has left none ("All     *)
(* resources were released, including ODBC resources", README.md:286).     *)
(* And only allocated ones have a cursor.                                  *)
NoStatementLeak ==
    /\ \A a \in Addresses : Allocated(a) =>
          LET s == owner[a]
          IN hstmt[s] = a /\ conn[s] = a /\ link[s] \in {"live", "broken"}
    /\ \A a \in cursor : Allocated(a)

(* A call that returns normally has run its statement, exec_sqlp runs it   *)
(* at most once, and db_exec at most once more often than it has retried,  *)
(* although a warning or a lost connection makes it run what has already   *)
(* taken effect again.                                                     *)
RunsAsReported ==
    \A t \in Threads :
        /\ result[t] = "ok" => ran[t] # <<>>
        /\ Len(ran[t]) <= call[t].retries + 1
        /\ call[t].kind = "sqlp" => Len(ran[t]) <= 1

(* A thread's statement runs on the database it was written for: what      *)
(* sql::exec_sql("DB1", sql) is documented to do (README.md:733), each     *)
(* session being "a unique ODBC connection resource" (odbcutil.h:11).      *)
(* False: a reset that cannot connect leaves hstmt dangling, and once its  *)
(* address is allocated again the statement runs on another session.       *)
RunsOnItsDatabase ==
    \A t \in Threads : \A i \in 1 .. Len(ran[t]) : ran[t][i] = call[t].db

(* A failed reset is the only way to that: as long as every reset has      *)
(* connected, statements run where they should.                            *)
WrongDatabaseOnlyAfterFailedReset == tainted \/ RunsOnItsDatabase

(* A call ends, however often its database goes down meanwhile, unless a   *)
(* connection breaks under the rows it is reading.                         *)
CallsEnd == \A t \in Threads : pc[t] \notin {"idle", "ended"} ~> pc[t] \in {"idle", "spin"}
=============================================================================
