# API-Server++ in TLA+

This directory is a verification project for API-Server++ (the C++ sources under
`src/src/`): TLA+ modules translated from the code, TLC configurations that check
them on small instances, and proofs, checked by TLAPS, of what matters most for every
instance. File and line numbers below refer to the repository (`server.cpp:581` is
line 581 of `src/src/server.cpp`).

    tlc -workers 2 -config PoolRun.cfg MCPoolShutdown     # a run
    tlapm PoolShutdownProofs.tla                          # a proof

## 1. The system

| Component | State | Operations | Interacts with |
|---|---|---|---|
| **epoll engine** (`server.cpp`, one thread) | `buffers` (descriptor to request), `m_metrics.connections`, the epoll instance | accept, read, write, error, close, drain of the ready queue, dispatch | kernel; workers through `m_queue` and `m_ready_queue` |
| **worker pool, audit thread, shutdown** (`server.cpp`) | `m_queue`, `m_audit_queue`, their mutexes and condition variables, stop sources | `producer`, `consumer`, `save_audit_trail`, `audit`, `shutdown` | epoll engine, request processing, database sessions |
| **request processing** (`server.cpp`, `httputils.cpp`) | `internals.errcode`, `params`, `user_info`, `response`, files in `/var/blobs` | `parse_form`, `run_async_task`, `process_request`, `execute_service`, `enforce`, `check_security`, `delete_blobs`, `send_mail`, `send_error` | handlers, audit, tasks |
| **database sessions** (`sql.h`, `sql.cpp`, `odbcutil.cpp`) | per thread and database name a connection, a statement handle and a copy of both | `getdb`, `connect`, `reset_connection`, `db_exec`, `exec_sqlp`, the fetch loops, `~dbconn` at the end of a thread | ODBC driver manager |
| **asynchronous tasks** (`async.hpp`, `async.cpp`) | a process-wide pool behind a pointer, its queue and threads | `async_launch`, `enqueue`, `worker_loop`, `~ThreadPool` | handlers that send mail; process exit |
| **HTTP parser** (`httputils.cpp`) | the receive buffer, what is known of the head, `params`, files | `socket_buffer`, `parse`, `eof`, `parse_form`, `parse_json`, `enforce`, `test_field`, `get_sql` | epoll engine, request processing, database sessions |
| **tokens** (`jwt.cpp`) | none | sign, verify, base64url | login service, request processing |
| **login** (`login.cpp`, `/api/login`) | none | from a user name to a token | tokens, database sessions |
| JSON parser, mail, HTTP client, environment and keys, logger, utilities, `main` | none shared | wrappers over a query, json-c, libcurl, OpenSSL, `/proc` | handlers |

A request is read by the epoll thread into its entry of `buffers`. When it is complete,
`run_async_task` takes its descriptor out of epoll, extracts the entry from the map and
queues it. A worker runs the service on it and pushes it to the ready queue. The epoll
thread, at its next `epoll_wait` or 5 ms later, puts it back in the map, registers the
descriptor for output and sends the answer piece by piece. Nothing but this moving of
ownership protects a request: there is no lock on it.

What is hard here, and hardly reached by a test:

* descriptor numbers are reused at once, while events, map entries and queued requests
  still carry them; the handlers of one `epoll_wait` batch change what later events of
  the same batch are about;
* epoll is edge triggered: an edge that comes while a descriptor is unregistered, or
  between the last `read` and `EAGAIN`, comes once or never;
* condition variables notified with and without their mutex, while the server stops;
* a lazily created singleton, and its destruction at process exit;
* reconnecting inside a retry loop with raw handles whose addresses are reused;
* early exits in a long chain of checks, with files on disk, a queued audit record and
  a detached mail task at each of them;
* a request that arrives in packets cut anywhere, of which only the first is parsed, in
  three encodings of the same fields, each with its own way to end;
* a statement assembled by replacing markers one after the other in a text that already
  holds values, and read back by a scanner with rules of its own.

`PROJECT.json` lists these one by one under `hazards`, at their lines, with the
properties that cover them or the reason none does.

What makes each component correct:

* epoll engine: a request has one owner; no event, answer or close reaches another
  connection; no edge is missed; a request that arrived is answered; a descriptor is
  given back;
* pools: no pop of an empty queue, no lost wake-up, an orderly shutdown;
* request processing: no handler without its checks, one audit record per admitted
  request, files that follow the outcome, one response;
* sessions: a statement runs on its database, no handle leaks, retries end;
* tasks: one pool, each task once and in the order of the launches, no use after
  destruction;
* parser: a request is complete when it is and not before, and the service finds under
  each name what the client put there, in any encoding;
* statements: each value stands where its marker was, as one item;
* tokens: whoever is served is who the token was issued to, until it expires.

## 2. The modules

| Module | Models | Checked by | Proved in |
|---|---|---|---|
| `RequestShape` | what the epoll thread can tell apart in a request | with `Reactor` and `Request` | |
| `Reactor` | epoll engine, workers as its other end | `MCReactor`: `ReactorReuse`, `ReactorLive` | `ReactorProofs`, `ReactorDataProofs` |
| `Exchange` | abstract: what the server does with one request per connection | through `ReactorExchange` | |
| `ReactorExchange` | refinement mapping from `Reactor` to `Exchange` | `ReactorLive` | `ReactorDataProofs` |
| `PoolShutdown` | worker pool, audit thread, shutdown | `MCPoolShutdown`: `PoolRun`, `PoolStops` | `PoolShutdownProofs` |
| `Service` | request processing, audit trail, mail tasks | `MCService`: `ServiceRun`, `ServiceError` | `ServiceProofs` |
| `SqlSession` | database sessions | `MCSqlSession`: `SqlRun`, `SqlWrongDb` | `SqlSessionProofs` |
| `TaskPool` | asynchronous tasks | `MCTaskPool`: `TaskRun`, `TaskExit` | `TaskPoolProofs` |
| `WorkQueue` | abstract: what the task pool promises its launchers | through `TaskPoolQueue` | |
| `TaskPoolQueue` | refinement mapping from `TaskPool` to `WorkQueue` | `TaskRun` | `TaskPoolProofs` |
| `Text` | sequences of symbols and the string operations of the parsers | with `Request` | |
| `HttpParser` | head, query string, form and JSON body | with `Request` | |
| `Statement` | input rules and `get_sql`; how a database scans literals | with `Request` | |
| `Jwt` | base64url, tokens, their signature and expiry | with `Request` | `JwtProofs` |
| `Request` | one request from its first packet to its statement | `MCRequest`: `RequestRun`, `RequestMarkers` | `RequestProofs` |

Each component is a module of its own because they meet at narrow interfaces: a queue
whose elements one thread gives and another takes. `Reactor` sees a service as one step
(`Serve`); `Service` sees the queue between epoll thread and worker as the place
`"queued"`; `PoolShutdown` looks inside the monitor that both take for granted and sees
only the number of items. `Reactor` and `Request` share `RequestShape`: the one takes from it
when a request is complete and what is decided on it, the other shows that the buffer and
the parser arrive at the same, packet by packet. Definitions whose name says that they are mutants (their
comment starts with *Mutant of*) are not part of a specification: each is the code with
a plausible mistake, kept beside the operator it replaces to show that the property
named in `PROJECT.json` is sensitive to it.

### Reactor

`buffers`, `connections`, `queue`, `working`, `readyq` are the program's variables
(`working[w]` is the local `wp` of `consumer`); `pc` and `cur` say where the epoll thread
is; `batch`, `listenEv`, `signalEv` are what is left of the event array. `fdtab`,
`interest`, `ready`, `inq`, `wire`, `acked`, `backlog` are the kernel's: the descriptor
table, the registrations, the ready list, receive queue, send buffer and listen queue.

One action is one step between two system calls of the epoll thread, since everything
else it does is invisible to others: `EpollWait`, `DrainOne`/`DrainDone`
(`check_ready_queue`), `HandleClose`, `HandleError`, `HandleIO`, `HandleConnect`,
`HandleSignal`, `Accept`/`AcceptFails`, `ReadData`/`ReadNothing`/`ReadFails` (the loop of
`epoll_handle_read`, with `read_request` and `run_async_task` in `ReadData`, which runs
them on what it has just read), `WriteChunk`/`WriteAgain`/`WriteEnds`. A worker takes
(`Take`), serves, pushes (`PushReady`), exits. `Revents` and `Edge` state what epoll
promises: a descriptor enters the ready list on an edge, and `epoll_wait` reports what
is true of it when it returns. The events of a batch are handled in any order, an
over-approximation of the kernel's order.

Data is abstracted to counts: a request is `head + body` pieces, an answer `RespLen`
chunks of which the kernel holds `SndBuf`. What the parser decides is a property of the
request sent (`headOk`, `bodyOk`), since it decides nothing else here (`RequestShape`,
which `Request` connects to the parser). Each connection
carries one request; the code keeps no state from one request to the next on a
connection other than its registration.

### Exchange, ReactorExchange

`Exchange` says in a page what the users of the server rely on: a connection is
admitted, its request is handed to a service at most once, answered once, sent in order,
and not closed while it is served. `StageOf` reads the stage of a connection off the
place where its request is found. One stage, `lost`, is there because of what the code
does (section 5): a socket accepted over a stale map entry.

### PoolShutdown

`wait(lock, pred)` is written as it works: predicate, then release and sleep in one step,
then lock and predicate again, with spurious wake-ups; that the stop was requested is part of
the predicate, so that only a notification makes a sleeping thread see it. `main` walks
through `shutdown`. Workers push audit records (`Record`), which takes the audit mutex.

### Service

A request walks through `at`: the form (one `SaveFile` per file field, one `KeepText` per
text that could name a document), the checks on the epoll thread, the queue, then one action
per check of `process_request` and `execute_service` in their order, the audit record, and
the handler, which may set its body, send a mail and throw, in any order. The responses
appended to the output buffer are kept as a sequence. Tokens expire at any time; writes of
uploaded files fail, before the file is there or after; the audit thread and the mail tasks
take their own steps. A record is `tried` when it is given to the database and `saved` when
the database has it, which need not be reported: a connection lost after the statement took
effect looks like a failure.

Documents are kept by name, as in the code. `params[r]` has the parameters called
`f.document`, wherever they came from: of a file, `parse_form` puts the new UUID there with
`try_emplace`, which does nothing when an earlier field took the name; a text of that name in
a form, a query string or a JSON body is what its client likes, here nothing or a document
that a handler has had and may have told a client of (`Told`). `DeleteBlobs` removes what
these parameters name, and a mail attaches it, whoever stored it.

Roles are names, of which one may occur in another (`Within`). `Suffices` is the code's
search for the name of a role in the text of the user's roles. An exception whose `what()` is
empty gets its response, but its request is taken for one that did not fail
(`FailUnnoticed`).

### SqlSession

A statement handle is an address: `owner[a]` is the session the live allocation at `a`
belongs to, and `hstmt[s]` may hold an address that is free, or that has become another
session's. Databases go down and up at any time; a statement may succeed, fail for good,
fail in a way that `db_exec` retries, or take effect and still be reported as a failure
(warnings, a connection lost afterwards). `tainted` is history: some reset has failed
to connect.

`conn[s]` is the copy of the statement handle that `connect()` leaves in the session's
`dbconn`, and only when it succeeds. When a thread ends (`End`), `~dbconn` frees what the
copies hold. That of a session whose last reset failed was freed by that reset: its
addresses may be another session's by then, which loses its statement, or its connection
and with it everything on it (`hit`; such a session then behaves like one whose database
went away).

### TaskPool

The double-checked creation, `enqueue` with its notification outside the lock, the
runners' loop, and the destructor's steps in the order C++ destroys the members, which is
the reverse of their declaration. A condition variable's destructor waits for the
threads that sleep on it (glibc); a runner that is woken with a task queued goes on to
use a destroyed queue (`TakeFreed`).

### WorkQueue, TaskPoolQueue

`WorkQueue` is the pool without threads: tasks are submitted, begun in that order, at most
`Width` at a time, and done. The mapping: what has left `m_tasks` has begun, what a
runner holds is running. Wake-ups, locks, the creation and the destruction of the pool
are stuttering steps of it.

### Text, HttpParser, Statement, Jwt

Operators, one per function of the code, on sequences of symbols. A symbol is a character
where the code looks at characters (quotes, percent signs, dots, line breaks, the bytes of
a token) and a word where it does not (`"name="`, `"Content-Type: "`, a boundary). The
conversions do what the code does: `DecodeParam` reads two hexadecimal digits, form parts
lose their line breaks and files get one after each line (`GetFormField`), `Escapes`
doubles quotes and turns `<` and `>` into HTML but leaves backslashes (`replace_str` does
nothing when the replacement is empty), base64url groups bytes by three without padding.
`Hmac` is a parameter: any function of the message serves.

`ParseUri` takes for the target what stands from the first slash after the method to the next
blank. When the target has no slash of its own, that is the slash of `HTTP/1.1`; when
something precedes it, such as an authority, that is dropped. Both are accepted, and so they are in
`RequestShape`. The token is taken from an authorization header that starts with `Bearer`
only (`SetToken`). An `INTEGER` is an `int` of 32 bits, a `DOUBLE` digits with at most one point,
each with a minus sign or none (`IsInteger`, `IsDouble`).

The payload of a token is written as `get_token` writes it, without escapes, and read as json-c
reads it: a backslash escapes what follows, another escape than JSON's is an error, a quote
ends a value (`Unescape`). So a login with a backslash comes back changed, or its token is
not readable and the service fails (`Throws`; the worker answers an error).

`Statement` ends with `Items`, the external side: how a database scans a text with
doubled quotes into literals and the rest.

### Request

One request. `Read` is a turn of the loop of `epoll_handle_read`: any number of units,
up to the room in the buffer, are appended; `Grown` is `update_pos`; the first packet is
parsed as a head; `IsWhole` is the comparison of `eof()`; the decision of
`run_async_task` follows in the same step. `Execute` is the worker: verb, rules, token,
statement. The clock ticks at any time, so that tokens expire before they are looked at.

`Wire(c)` is the client: a head with or without a defect, a body in one of the
encodings, units beyond the end. It writes what the fields mean independently of the
parser, so that `ParamsAsSent` compares the two directions. Tokens are what the login
service issues for the name the user typed (`LoginOf`), which has been through the rules
of that service and is the login its token carries from then on.

## 3. The runs

| Run | Instance | Question |
|---|---|---|
| `ReactorReuse` | 1 descriptor, 2 clients, 1 worker, four pairs of requests in which each of the seven kinds comes first and comes second, resets, socket errors, the signal | does anything of the first connection reach the second? |
| `ReactorLive` | 2 descriptors, 2 clients that may leave, 2 workers, fairness | is every request answered, every descriptor given back? do concurrent requests mix? does `Reactor` implement `Exchange`? |
| `PoolRun` | 2 workers, 2 tasks, fairness | both monitors while serving and stopping |
| `PoolStops` | 1 worker, 1 task, fairness | violated: finding 1 |
| `SqlRun` | 1 thread, 3 names, room for 2 sessions, 1 retry, fairness | handles, retries, the limit of sessions, the end of the thread |
| `SqlWrongDb` | 2 threads, 2 names | violated: finding 2 |
| `TaskRun` | 2 launchers, 2 runners, 3 tasks, fairness | creation, queue, exactly once, in order: does `TaskPool` implement `WorkQueue`? |
| `TaskExit` | 1 launcher, 1 runner, 1 task | violated: finding 3 |
| `ServiceRun` | 2 requests of 17 kinds, 2 workers | checks, audit, documents, mail |
| `ServiceError` | 1 request | violated: finding 4 |
| `RequestRun` | 1 request of some 500, in packets cut anywhere, blocks of 8 units, tokens of 2 ticks | completeness, buffer, parameters, statement, user |
| `RequestMarkers` | 1 request with a marker in a value | violated: finding 5 |

Why these bounds are enough to make the interesting cases happen. One descriptor forces
every connection onto the same number, which is where stale events, entries and closes
would do harm; a second client is enough to be harmed. An answer of two chunks and a
buffer of one gives the partial write; a two-piece head gives the split head; one extra
piece, the client that sends too much. Two descriptors for two clients give the batch with
several events; one for two, the accept that fails with `EMFILE`. The rejected kinds of request are each wrong in the later checks
too, so that an order of checks other than the code's shows. Two workers are the fewest that can
steal an item from each other; two launchers, the fewest that race to create
the pool. Two sessions for three names reach the limit and, over shared addresses, the
reuse of handles; one retry reaches the retry and the limit. Two requests suffice in
`Service`, whose requests share the workers, the audit queue and the disk only.

The requests of `RequestRun` are every combination that tells something: the same fields
in each of the three encodings, each thing that only one encoding has (null and structured
members, line breaks in a field, files, two files, a file input left empty, a form without
fields), each defect of the head, each refusal of the epoll thread, and then every value
of up to two symbols out of the seven the code treats specially, every file of up to
three, every login of up to three. Blocks of 8 units are passed several times by the
longest of them. Three bytes are one group of base64url, so that logins of up to three
reach each remainder; their bytes have all bits clear, all set, and mixed. The rules have
a required and optional field, each type, and a name that begins another. Targets have an
authority before them, or are the asterisk, without a slash of their own.

The counters the models bound: `Extra` (pieces beyond a request), `MaxTasks` of
`PoolShutdown` (requests dispatched before the signal) and of `TaskPool` (launches), the
one mail per handler of `Service`, `MaxClock` and the `extra` units of
`Request`, `MaxTime` of `Jwt` (the times a numeral is read back as), and `MaxRetries`, the
code's own.

Symmetry is declared only in runs that check invariants and action properties (`ImplementsExchange`
is one: an initial condition and a box), and over model values no definition
distinguishes; runs with liveness properties have none.

`CHECK_DEADLOCK FALSE` stands where the system may really stop or be idle for ever: the
server is stopped, every client has left, no launcher launches, the request is done. `Service` checks
deadlock: `Quiet` allows stuttering only once every request is done and the queues are
empty.

### Fairness

* Weak fairness of every thread: the operating system schedules them.
  `epoll_wait` has a 5 ms timeout, so that the loop goes round without events.
* Strong fairness of the steps that take a mutex which is released and taken again and
  again (`PushReady`, `Lock`, `Record`, `NotifyWorkers`, `LockInit`, `Enqueue`): a waiter
  on a mutex gets it in the end. The holders keep it for a few instructions and then work
  or sleep outside it.
* A client that is there reads what it is sent (`Receive`). `Answered` would be false without it,
  as it should be: the server has no timeout for a client that does not read.
* None for signals, clients that connect, send or leave, launches, databases that come
  back, spurious wake-ups.

The liveness properties except what the code does not promise: `Answered` the client that
sends more than it announced (its size never equals the announced one again, and
the server neither answers nor closes), a server that is stopped; `Answered` and `Released`
the client accepted over the stale entry of a failed read (`Overlooked`), which has no
request, is not in epoll and is never closed; `CallsEnd` a connection lost in the middle of the rows, where the fetch
loop spins. `WorkersJoined` and `TasksRun` take for granted that handlers and mail tasks come
to an end: a handler in that spinning loop would hold up the shutdown, and libcurl has no
timeout set.

## 4. What is proved

The theorems below hold for every value of the constants allowed by the named
assumptions of the modules, which TLC evaluates on each run. Those assumptions are:
`ShapesAssumption`, `BoundsAssumption`, `NullAssumption` (Reactor), `FiniteAssumption` (the
descriptor table is bounded and `m_pool` has a fixed size: a count over either is a
number; used by `ReactorAccounting` only), `ThreadsAssumption`,
`ServiceAssumption`, `TaskPoolAssumption`, `RequestAssumption`, `JwtAssumption`,
`CodeAssumption`, `BoundaryAssumption` and `ClientsAssumption` (see JwtProofs and
RequestProofs below),
`SessionAssumption` (there are addresses enough for the sessions
that can exist at once: SQLAllocHandle succeeds).

**ReactorProofs**: `ReactorTypeOK`, `ReactorSingleOwner`, `ReactorEventsFindRequest`,
`ReactorNoHangUp`. `SingleOwner` is not inductive alone: that a drained request can be
put back needs its descriptor to be still open on its own connection, that nobody closes
it meanwhile needs every event in the batch to belong to the map's own request, and
that the events of a batch remain good while others are handled needs the handlers to
touch only their own descriptor. The inductive invariant is therefore the types,
`SingleOwner` with the ownership of every registered descriptor (`Owners`), what is
watched being registered (`Watched`), what was reported of a client that left staying
true (`Reported`), and a descriptor being registered for reading before its answer and
for writing after (`Armed`). The proof has a step per action; `ReactorNoHangUp`, an
action property, follows from the same invariant with the states the clients can be in
when an event reports a hang-up or an error.

**ReactorDataProofs**: `ReactorNoMissedEdge`, `ReactorWireIsOwnAnswer`,
`ReactorAccounting`, on top of that invariant (`Inv`). One invariant each:

* `Edges` says per descriptor what `NoMissedEdge` says (`EdgeAt`), with what may be waited
  for (`Interests`) and the batch being empty when the thread waits
  (`Rested`); the work is to show, action by action,
  that whoever makes something ready that is waited for puts it on the ready list, and
  that the loops leave a descriptor only at `EAGAIN`.
* `Lives` says that a connection is open on at most one descriptor and has neither
  descriptor nor request before it is accepted; without it two descriptors could write
  to the same client.
* `Answers` relates the position in a request's response to what its connection has been
  sent, and its status to what has arrived (`Shape`'s verdict at the read that completed
  it); `WireIsOwnAnswer` follows.
* `Accounting`: its two parts (`Counted`, `Broken`), preserved with that invariant. A step
  opens or closes one descriptor, or leaves one stale entry or reuses its number, and touches
  no other; the counting is by the library's theorems on cardinality.

Its last part proves `ReactorImplements`. A connection has a stage only through its
descriptor (`FdStage`), and with `Lives` a step of the engine touches the stage of at
most one connection: each action either moves it as an action of `Exchange` does or
leaves every stage as it was (`Moves`, `Stays`).

**PoolShutdownProofs**: `PoolTypeOK`, `PoolPopsSomething`, `PoolSomebodyAwake`,
`PoolAuditStopsLast`. The invariant says who holds each mutex in terms of the places of
the threads (so that what the predicate saw is still true at `Pop`), that threads are
asked to stop in stages, and that a monitor with items has a thread that is not asleep.
The lost wake-up of finding 1 lies after the stages this covers.

**SqlSessionProofs**: `SqlTypeOK`, `SqlNoStatementLeak`, `SqlWrongDatabase`,
`SqlRunsAsReported`. The invariant adds to the properties that, while no reset has failed, a session
that is connected holds a handle that is its own, that the copy of a connected session's
handle is that handle, and how the runs of a
call are counted against its retries at each place (`Counted`).

**ServiceProofs**: `ServiceTypeOK`, `AuthorizedAlways`, `DocumentsAlways`, `MailsAlways`,
`AuditedAlways`. The invariant is one predicate per request: at each place, which checks are
behind it (`Checked`), where the documents come from that its parameters name (`Sourced`),
that a file has a parameter unless an earlier field took its name (`Kept`), which of its
documents are on disk (`Stored`), and what its mail can have found (`Mailed`). A step of
another request can disturb the last two only by failing, which then accounts for the
document that is gone (`Doomed`, `DoomedStays`), and a document that nobody was told of is in nobody
else's parameters (`FreshUnnamed`). The type invariant adds that
a file on disk is of a field `parse_form` has dealt with (`Uploads`) and that a request
that is done was answered (`Replied`). `AuditedOnce` counts: a push adds one occurrence of
a request to the queue, a pop takes one (`WaitingPush`, `WaitingPop`), and no other step
makes a record due or no longer due (`StepDue`). That needs to know that only a request
whose login check passed has a user and that such a request goes through `"audit"` when
the trail is enabled (`Vetted`), and that the audit thread holds one record at a time
(`Alone`).

**TaskPoolProofs**: `TaskTypeOK`, `TaskOnePool`, `TaskInOnePlace`, `TaskSomebodyComes`,
`TaskPoolImplements`.
`OnePool` needs to know who is in the critical section of `pool_init_mutex` and that
outside of it the pointer is set exactly when a pool was constructed (`Creation`). For the
other two the idea is to count: the tasks in the queue are the last ones launched, in
their order, so that everything before them is with a runner or finished (`Counted`);
then the task a runner takes is the next of the abstract queue, and a runner that is
about to take one holds none, which bounds how many are running (`RunningFits`). The
steps of a destroyed pool are covered: also then tasks are begun in order.
`SomebodyComes` needs that a runner sleeps on an empty queue only, and holds the mutex
from the look to the sleep (`Awake`).

**JwtProofs**: `Base64RoundTrip`, `TokenRoundTrip`: what `base64_encode` makes of any bytes
`base64_decode` turns back into them, and a token made by `get_token` is found valid until
it expires, for the user it was made for, and for nobody from then on. The first is
arithmetic for one group of three bytes (`Sextets`: which bits of the four characters are
which byte's; `CollectBytes`: the decoder's buffer after each of them) and an induction over
the groups (`Decoded`). The second cuts the token at its dots and the payload at its quotes
(`ThreeParts`, `FiveParts`) and rests on the first.

The provers have no induction over data, so the folds and recursive functions of the
model are opened by hand. A set of naturals that is not empty has a least
member, since `<` is well-founded (`LeastOf`), from which follows induction over any *set*
of naturals (`Induction`); a fold over a sequence is a function on the sets of its indices
that exists by induction over their size (`FoldExists`), and what TLA+ `CHOOSE`s as the
fold then goes through one step per element (`CollectSteps`). `FlattenSeq` and `Split`
are opened in the same way (`FlattenSteps`, `SplitSteps`). Each needs its own lemma, because
a lemma cannot take an operator.

The assumptions are `CodeAssumption` (symbols have different bytes, none of them zero; the
braces and the quote are symbols) and, in the theorem about tokens, that the token can carry
the user (`Carries`): its texts have no double quote and no backslash in them and are not all
empty, the expiry is a time the model reads back, and HMAC gives bytes. The code escapes
nothing (`jwt.cpp:239`) and json-c unescapes (`Unescape`): for other users the theorem does
not hold, nor does the code do what it says. That json-c leaves a text without these two
symbols as it is, is a lemma.

The last part of the module says what the string operations make of any text: where
`Split` cuts two texts put together (`SplitAppend`, `SplitWhole`), that what it cut is
still there (`FlatSplit`), and how `FlattenSeq` and `Without` grow with a text.

**RequestProofs**, for any clients, requests, catalog, block size and cut into packets:

* `RequestRoomToRead`: a read of at most the room there is leaves room for the next, since
  the buffer grows at three quarters, and one growth is always enough.
* `ServedAsIssued` (`TokenIdentifies`). It is about every client: one whose token cannot carry
  its user may be served as somebody else or meet the error of claims that are not readable, and
  the theorem says that nobody else meets that error. Its invariant (`IdentityInv`) says that from the
  first packet that parses until the service has run, the head has exactly the client's
  token (`TokenRead`). For that, `parse_headers` is shown to leave the value of the
  authorization header as it came, whatever the other headers are and in whatever order
  (`HeaderStep`), and a head that was cut off by the packet to be in error (`HeadParsed`).
  From there on it is `TokenRoundTrip`.
* `RequestTypeOK`. The invariant (`TypeInv`) adds to `TypeOK` what is awaited: from the first
  packet until something is decided, the head is the one its client wrote, of a POST
  without a defect (`Awaited`, `HeadKnown`). That no more files are written than there are fields
  needs a form to be divided exactly where its fields are (`FormDivided`), because the
  boundary is in no value (`FieldsWritten`).
* `DecidedAsReactor` (`DecidesAsReactor`): the parser dispatches a request at the very
  packet, and with the decision, that `RequestShape` has for it. It connects the two models
  of a request: what `Reactor`, its proofs and `Exchange` take for granted of the parser
  holds of the parser. Each defect is followed through the line it is on (`BrokenLine`,
  `DecisionMade`), and the target through the search for its slash, which always finds one, in
  the version at the latest.
* `ParametersAsSent` (`ParamsAsSent`): the fields of an accepted request are what its
  client wrote, encoding by encoding. Query strings: what a client percent-encodes is
  decoded to the same text (`DecodedBack`), and of fields with one name the first stays
  (`WordsKept`). JSON: the last stays (`MembersKept`). Forms: the form is cut at its
  boundaries, each part is read line by line to the name, the file name and the value of its
  field (`PartRead`, `NameRead`), a file is written once and described by its four
  entries (`FileParams`), and entries put before stay (`FoundStays`, `FormKeeps`).
* `TextStaysLiteral`: a text value that `get_sql` puts in the place of a marker, after
  `test_field` has escaped it, reads back as one literal, and the statement before and
  after the marker reads as it did. The marker must stand outside of the literals of the
  template, with no quote behind it. The scanner is followed symbol by symbol
  (`LexThen`): inside a literal each escaped symbol reads as the symbol, or as what HTML
  has for it (`InPlaceRead`), and items read before do not matter (`LexBehind`).

`ClientsAssumption` says what is assumed of the clients: they write what their encoding can
carry (`FieldsWritten`: names and file names without the symbols that delimit them,
values of a form without its boundary, files in forms only, nulls and structured members in
JSON only), their defect is one that
their kind of request can have, and a logged-in client's token was made by the login
service for a user it can carry. `BoundaryAssumption`: the boundary is none of the other
words of a form. TLC checks both on every client of the runs.

Only model-checked: the liveness properties (out of the prover's reach), and of `Request`
`StatementCarriesValues`. For every catalog and client it is not true as it stands: two
markers without a symbol between them put two quotes side by side, a date may have
quotes for separators, and a name may belong to a text field and a file at once. The runs
have none of these, and the code does not exclude them, so that no assumption of the model
could; what holds for every template and value is `TextStaysLiteral`. What the property
itself leaves out, markers that are met elsewhere than in their place (`Unambiguous`), is
finding 5.

## 5. What the code does otherwise than it says

1. The audit thread's stop is notified without its mutex (`server.cpp:746`): between
   predicate and sleep the notification is lost and `shutdown()` does not return, so that
   "all resources were released, server stopped" is not logged. `PoolStops`.
2. A reset that cannot connect leaves a freed statement handle in its session
   (`sql.h:132`); when the address is allocated again, the session's next statement runs on
   another session's database. `SqlWrongDb`. That this is the only way is a theorem.
3. The task pool's queue is destroyed before its threads are joined (`async.hpp:67`);
   the comment in `async.cpp:26` promises a safe shutdown. `TaskExit`.
4. `send_error` appends to what the handler has already put in the response
   (`server.cpp:284`): a `send_mail` that fails after `set_body`, the order
   `README.md:923` recommends, sends the success first and the error after it.
   `ServiceError`.
5. `get_sql` replaces marker after marker in a text that already holds values
   (`httputils.cpp:700`): a value that contains the marker of a later rule has it replaced
   instead of the statement's own, and a marker that follows a longer one it begins is replaced
   in the longer one. `README.md:738` says that the parameters "can be safely replaced into
   the SQL template". `RequestMarkers`; `StatementCarriesValues` says what holds when markers
   are met in their places.

Four more disagree with a document. No run of their own shows them violated; instead a
property that holds says what the code does in place of what the document says.

* A `read()` that fails closes the descriptor and leaves its map entry and the connection
  counter (`server.cpp:581`), so that the gauge `cpp_connections_current`, "Current client
  tcp-ip connections" (`server.cpp:690`), stays one too high. The next socket with that
  number is counted, not registered and never closed, since `try_emplace` finds the stale
  entry. `Accounting`, a theorem, says what the gauge is: the open sockets and one for each
  such entry.
* The role test is a search in a text (`httputils.cpp:732`): a user whose role's name
  contains the required one is served, while `README.md:865` says that a user must "belong
  to any of those roles, otherwise, execution will be denied". `ServiceAuthorized`, a
  theorem, says what is tested (`Suffices`), and the catalog of `ServiceRun` has such a user
  served.
* `delete_blobs` removes what the parameters called `something.document` name
  (`httputils.cpp:372`), not what the request has stored: a request that fails removes the
  stored document of another, served one when a text field names it, and keeps its own file
  when an earlier field took the name. `README.md:973` says that the upload "does store the
  file". `DocumentsMatchOutcome` and `MailsAreComplete`, theorems, say what is there and
  what is gone, and `ServiceRun` has both cases.
* A file is not stored as it was sent: each of its lines gets a line break, the last one
  too, and empty lines are gone (`httputils.cpp:110`, `143`), while `README.md:973` says
  that the upload "does store the file". `ParamsAsSent` compares files up to line breaks
  (`Unbroken`).

Met while modelling, with no document that promises otherwise in so many words:

* A request whose client sends more than its `Content-Length` is never answered.
* The fetch loops spin when a connection breaks under them (`sql.cpp:67`); a failed
  statement leaves its cursor open for the next (`sql.cpp:157`); a row of JSON beyond 8191
  characters is cut (`sql.cpp:83`).
* A thread that ends frees the handles of a session whose reset failed a second time
  (`odbcutil.cpp:52`); the new environment and connection handles of such a session, which
  `connect()` allocated before it failed, are not freed by anybody.
* Uploads of requests refused with 403 or 404 on the epoll thread stay on disk
  (`server.cpp:525`).
* Text fields of a form lose their line breaks; a file input left empty by the user
  arrives as a text field whose value is the line of its content type
  (`httputils.cpp:134`).
* Without rules `get_sql` leaves even `$userlogin` as it is (`httputils.cpp:688`). The
  removal of backslashes announced at `httputils.cpp:404` does nothing.
* The claims of a token are not escaped in its JSON (`jwt.cpp:239`): a login with a backslash
  or a quote is not the one that is read back, or the token cannot be read.
* A target that does not begin with a slash is not refused: what precedes its first slash is
  dropped, and one without a slash is taken for `/1.1` (`httputils.cpp:451`).
* A handler's exception without a text does not count as a failure (`server.cpp:349`): its
  uploads stay.
* Requests still queued when the server stops, and mails still queued when the process
  exits, are dropped; the code means to.

## 6. What is not modelled

* HMAC, SMTP, libcurl, json-c: libraries behind one outcome each. The HTTP client
  (`http_client.cpp`) is a sequential wrapper over libcurl without shared state, and
  nothing in the server calls it; JSON's getters for nested values serve its callers.
* Headers nothing decides on (`x-request-id`, `x-forwarded-for`); the characters between
  year, month and day of a date, which the code does not look at either; exponents and the
  words for infinity and not-a-number, which `std::from_chars` accepts of a double, and the
  range of a double.
* In tokens: the escapes of character codes (`\u`), and logins that spell out the JSON around
  a claim, such as a quote, a comma and a quote; in the model the text between two claims is
  one quote.
* Of handlers: which parameter they attach to a mail. The model attaches every document its
  parameters name; `README.md:975` has it as `req.get_param("document")`, while the code
  stores the name under the name of the field followed by `.document`
  (`httputils.cpp:599`).
* In `SqlSession`, the environment and connection handles, of which a failed reset leaks a
  pair, and in `TaskPool` the unsynchronised first read of the pool's pointer
  (`async.cpp:37`) as anything but an atomic one.
* What the query of the login answers: it is a call like another of `SqlSession`, and
  its columns go into the token as they come.
* Logging, metrics other than the connection counter, environment, key handling: no
  state that anything decides on.
* How rows are formatted (`sql.cpp:23-129`): no state depends on it.
* `delete_blobs` of an optional document that was not sent calls `remove("/var/blobs/")`
  (`httputils.cpp:373`), which removes the directory if it is empty and `/var` allows it.
* That a client left in the listen queue by `EMFILE` (`server.cpp:457`) is accepted once a
  descriptor is free: a liveness property that takes more clients than descriptors and
  sockets that fail. `ReactorReuse` goes through such accepts with its safety properties.
* A handler that sets no body; its answer would be empty and the connection idle. A pool
  size of 0. Clients that stay connected and silent: the server has no timeout.

## 7. Plan

The order so far: `Reactor`, because everything passes through it; `PoolShutdown`, its
other end and the shutdown; `SqlSession` and `TaskPool`, the two components with raw
resources; `Service`, the checks; `Request` with its parsers, the data; `WorkQueue`, what
the task pool is for.

Next, to model more:

1. `Service`: the directory removed by `delete_blobs`.
2. `SqlSession`: `env` lookups that fail, the environment and connection handles.
3. `Reactor` and `PoolShutdown` composed, so that the stop of the server is seen with
   requests at every place.

To prove more: `StatementCarriesValues` for the catalogs whose markers stand apart, from
`TextStaysLiteral` and one more induction, over the rules of an API.
