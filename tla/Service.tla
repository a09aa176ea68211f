------------------------------- MODULE Service -------------------------------
(***************************************************************************)
(* What the server does with a request once its bytes are complete: the    *)
(* upload (request::parse_form, save_blob), the checks of the epoll thread *)
(* (run_async_task) and of the worker (process_request, execute_service,   *)
(* request::enforce, check_security), the audit trail, the handler, and    *)
(* the clean-up of the uploaded documents when it fails.  The audit thread *)
(* and the mail tasks work at the same time.                               *)
(*                                                                         *)
(* How a request reaches a worker and its answer the client is Reactor's.  *)
(* A document is <<r, i>>, the file of the i-th field of request r: each   *)
(* gets a fresh UUID.  A handler is the user's: it may tell its client the *)
(* UUIDs of its documents, sets one body and sends at most one mail, in    *)
(* any order, then returns, or throws at any point.                        *)
(***************************************************************************)
EXTENDS Naturals, Sequences, FiniteSets

CONSTANTS
    Requests,
    Apis,         \* webapi_catalog
    Secure,       \* the APIs registered with is_secure
    Post,         \* the APIs registered with http::verb::POST; the others GET
    Roles,        \* names of roles
    RolesOf,      \* RolesOf[a]: the roles a is registered with; {}: any user
    Within,       \* <<a, b>>: the name of role a occurs in the name of role b
    Calls,        \* what a client may send, see Call
    Workers,      \* the number of worker threads
    EnableAudit   \* CPP_ENABLE_AUDIT

(* What the code tells apart in a request: whether it parses, whether its  *)
(* origin is allowed, its target, whether its parameters satisfy the rules *)
(* of the API, its token, the roles the token lists, and those of its      *)
(* parameters that can name a document: a file f, and the text f.document  *)
(* of a form, a query string or a JSON body.  Both have the name f here.   *)
Call == [method : {"GET", "POST", "OPTIONS"}, wellFormed : BOOLEAN,
         allowed : BOOLEAN, target : Apis \cup {"diagnostic", "unknown"},
         obeys : BOOLEAN, token : {"none", "bad", "good"}, roles : SUBSET Roles,
         fields : Seq([name : STRING, file : BOOLEAN])]

ASSUME ServiceAssumption ==
    /\ Secure \subseteq Apis /\ Post \subseteq Apis
    /\ Apis \cap {"diagnostic", "unknown"} = {}
    /\ RolesOf \in [Apis -> SUBSET Roles]
    /\ \A a \in Roles : <<a, a>> \in Within
    /\ \A c \in Calls :
          /\ c \in Call
          /\ c.method = "OPTIONS" => c.fields = <<>>
          /\ c.method = "GET" => \A i \in 1..Len(c.fields) : ~c.fields[i].file
    /\ Workers \in Nat \ {0} /\ EnableAudit \in BOOLEAN

VARIABLES
    call,     \* call[r]: the request as it was sent
    at,       \* at[r]: where the server is with it
    read,     \* read[r]: how many of its fields have been dealt with
    params,   \* params[r]: the parameters that can name a document
    errcode,  \* the requests with internals.errcode set
    user,     \* the requests with user_info filled in
    expired,  \* the requests whose token has expired
    answers,  \* answers[r]: the responses appended to req.response
    outcome,  \* outcome[r]: how the request ended
    disk,     \* the documents in /var/blobs
    trail,    \* m_audit_queue
    saving,   \* the records the audit thread has taken: none or one
    tried,    \* tried[r]: records of r given to exec_sqlp
    saved,    \* saved[r]: records of r in the audit database
    mail      \* mail[r]: the mail the handler of r has sent

form    == <<call, read, params>>
request == <<form, at, errcode, user, expired, answers, outcome, disk>>
audit   == <<trail, saving, tried, saved>>
vars    == <<request, audit, mail>>

Statuses == {"200", "INVALID", "ERROR", "204", "400", "401", "403", "404", "405"}
Places   == {"form", "task", "queued", "process", "rules", "login", "roles",
             "audit", "service", "done"}
Busy     == {"process", "rules", "login", "roles", "audit", "service"}
Sent     == {"400", "401", "403", "404", "405"}   \* send_error's

Target(r) == call[r].target

(* The files of r that parse_form has dealt with.                          *)
Documents(r) == {<<r, i>> : i \in {k \in 1..read[r] : call[r].fields[k].file}}

(* The documents that the parameters of r name, its own or another's.      *)
Named(r) == UNION {p.documents : p \in params[r]}

(* The documents of handlers that have been running: clients may know them.*)
Told == UNION {Documents(q) : q \in {p \in Requests :
            at[p] = "service" \/ (outcome[p] = "served" /\ Target(p) \in Apis)}}

(* One of the API's roles occurs in the text of the token's.               *)
Suffices(r) ==
    \/ RolesOf[Target(r)] = {}
    \/ \E a \in RolesOf[Target(r)], b \in call[r].roles : <<a, b>> \in Within

Init ==
    /\ call \in [Requests -> Calls]
    /\ at = [r \in Requests |-> "form"]
    /\ read = [r \in Requests |-> 0]
    /\ params = [r \in Requests |-> {}]
    /\ errcode = {} /\ user = {} /\ expired = {}
    /\ answers = [r \in Requests |-> <<>>]
    /\ outcome = [r \in Requests |-> "none"]
    /\ disk = {}
    /\ trail = <<>> /\ saving = {}
    /\ tried = [r \in Requests |-> 0] /\ saved = [r \in Requests |-> 0]
    /\ mail = [r \in Requests |-> "none"]

Goto(r, place) == at' = [at EXCEPT ![r] = place]
Answer(r, status) == answers' = [answers EXCEPT ![r] = Append(@, status)]

(* The request leaves for the client, its documents left alone.            *)
End(r, how) == Goto(r, "done") /\ outcome' = [outcome EXCEPT ![r] = how]

(* delete_blobs: whatever a parameter f.document names, whoever saved it.  *)
DeleteBlobs(r) == disk' = disk \ Named(r)

-----------------------------------------------------------------------------
(* request::parse and eof: parse_query_string, parse_form, parse_json.     *)

(* The next field is dealt with: try_emplace keeps the first of a name.    *)
NextField(r) == call[r].fields[read[r] + 1]

Keep(r, documents) ==
    /\ read' = [read EXCEPT ![r] = @ + 1]
    /\ params' = [params EXCEPT ![r] =
                     IF \E p \in @ : p.name = NextField(r).name THEN @
                     ELSE @ \cup {[name |-> NextField(r).name, documents |-> documents]}]

(* The parameter is kept before save_blob writes the file, or fails to     *)
(* open it, or fails while writing.                                        *)
SaveFile(r) ==
    /\ at[r] = "form" /\ call[r].wellFormed
    /\ read[r] < Len(call[r].fields) /\ NextField(r).file
    /\ Keep(r, {<<r, read[r] + 1>>})
    /\ \E written, ok \in BOOLEAN :
          /\ ok => written
          /\ disk' = IF written THEN disk \cup {<<r, read[r] + 1>>} ELSE disk
          /\ IF ok THEN UNCHANGED <<at, errcode>>
                   ELSE Goto(r, "task") /\ errcode' = errcode \cup {r}
    /\ UNCHANGED <<call, user, expired, answers, outcome, audit, mail>>

(* A text names no document, or one its client has been told of.           *)
KeepText(r) ==
    /\ at[r] = "form" /\ call[r].wellFormed
    /\ read[r] < Len(call[r].fields) /\ ~NextField(r).file
    /\ \E documents \in {{}} \cup {{d} : d \in Told} : Keep(r, documents)
    /\ UNCHANGED <<call, at, errcode, user, expired, answers, outcome, disk, audit, mail>>

(* Nothing is left to read, or parsing has failed before any parameter.    *)
Parsed(r) ==
    /\ at[r] = "form"
    /\ \/ call[r].wellFormed /\ read[r] = Len(call[r].fields) /\ UNCHANGED errcode
       \/ ~call[r].wellFormed /\ errcode' = errcode \cup {r}
    /\ Goto(r, "task")
    /\ UNCHANGED <<form, user, expired, answers, outcome, disk, audit, mail>>

-----------------------------------------------------------------------------
(* run_async_task, on the epoll thread.                                    *)

\* Mutant of Malformed: the request is released without a response.
MalformedSilently(r) ==
    /\ at[r] = "task" /\ r \in errcode
    /\ DeleteBlobs(r)
    /\ End(r, "failed")
    /\ UNCHANGED <<form, errcode, user, expired, answers, audit, mail>>

Malformed(r) ==
    /\ at[r] = "task" /\ r \in errcode
    /\ DeleteBlobs(r)
    /\ Answer(r, "400") /\ End(r, "failed")
    /\ UNCHANGED <<form, errcode, user, expired, audit, mail>>

(* epoll_abort_request: a denied origin, a path that is not in the catalog.*)
TurnAway(r) ==
    /\ at[r] = "task" /\ r \notin errcode
    /\ \/ ~call[r].allowed /\ Answer(r, "403")
       \/ call[r].allowed /\ Target(r) = "unknown" /\ Answer(r, "404")
    /\ End(r, "turned away")
    /\ UNCHANGED <<form, errcode, user, expired, disk, audit, mail>>

(* epoll_send_ping, epoll_send_sysinfo.                                    *)
Diagnose(r) ==
    /\ at[r] = "task" /\ r \notin errcode
    /\ call[r].allowed /\ Target(r) = "diagnostic"
    /\ Answer(r, "200") /\ End(r, "served")
    /\ UNCHANGED <<form, errcode, user, expired, disk, audit, mail>>

Enqueue(r) ==
    /\ at[r] = "task" /\ r \notin errcode
    /\ call[r].allowed /\ Target(r) \in Apis
    /\ Goto(r, "queued")
    /\ UNCHANGED <<form, errcode, user, expired, answers, outcome, disk,
                   audit, mail>>

-----------------------------------------------------------------------------
(* process_request, on a worker.                                           *)

Take(r) ==
    /\ at[r] = "queued" /\ Cardinality({q \in Requests : at[q] \in Busy}) < Workers
    /\ Goto(r, "process")
    /\ UNCHANGED <<form, errcode, user, expired, answers, outcome, disk,
                   audit, mail>>

(* A catch clause: the response, then delete_blobs.                        *)
\* Mutant of Refuse: the documents of a failed request stay.
RefuseKeeping(r, status) ==
    /\ Answer(r, status) /\ End(r, "failed")
    /\ UNCHANGED <<form, errcode, user, expired, disk>>

Refuse(r, status) ==
    /\ Answer(r, status) /\ End(r, "failed")
    /\ DeleteBlobs(r)
    /\ UNCHANGED <<form, errcode, user, expired>>

(* A check passed: the worker goes on to the next one.                     *)
Pass(r, place) ==
    /\ Goto(r, place)
    /\ UNCHANGED <<form, errcode, user, expired, answers, outcome, disk>>

SendOptions(r) ==
    /\ at[r] = "process" /\ call[r].method = "OPTIONS"
    /\ Answer(r, "204") /\ End(r, "served")
    /\ UNCHANGED <<form, errcode, user, expired, disk, audit, mail>>

EnforceVerb(r) ==
    /\ at[r] = "process" /\ call[r].method # "OPTIONS"
    /\ IF call[r].method = "POST" <=> Target(r) \in Post
         THEN Pass(r, "rules") ELSE Refuse(r, "405")
    /\ UNCHANGED <<audit, mail>>

EnforceRules(r) ==
    /\ at[r] = "rules"
    /\ IF call[r].obeys
         THEN Pass(r, IF Target(r) \in Secure THEN "login" ELSE "service")
         ELSE Refuse(r, "INVALID")
    /\ UNCHANGED <<audit, mail>>

(* check_security: the token, as valid as it is by now, then the roles.    *)
CheckToken(r) ==
    /\ at[r] = "login"
    /\ IF call[r].token = "good" /\ r \notin expired
         THEN /\ Goto(r, "roles") /\ user' = user \cup {r}
              /\ UNCHANGED <<form, errcode, expired, answers, outcome, disk>>
         ELSE Refuse(r, "401")
    /\ UNCHANGED <<audit, mail>>

\* Mutant of CheckRoles: the roles are not looked at.
CheckNoRoles(r) ==
    /\ at[r] = "roles" /\ Pass(r, IF EnableAudit THEN "audit" ELSE "service")
    /\ UNCHANGED <<audit, mail>>

CheckRoles(r) ==
    /\ at[r] = "roles"
    /\ IF Suffices(r) THEN Pass(r, IF EnableAudit THEN "audit" ELSE "service")
                      ELSE Refuse(r, "INVALID")
    /\ UNCHANGED <<audit, mail>>

SaveAuditTrail(r) ==
    /\ at[r] = "audit"
    /\ trail' = Append(trail, r)
    /\ Pass(r, "service")
    /\ UNCHANGED <<saving, tried, saved, mail>>

-----------------------------------------------------------------------------
(* The handler.                                                            *)

SetBody(r) ==
    /\ at[r] = "service" /\ answers[r] = <<>>
    /\ Answer(r, "200")
    /\ UNCHANGED <<form, at, errcode, user, expired, outcome, disk, audit, mail>>

(* send_mail: the template is read by the caller, which is told when it is *)
(* missing; the rest, the attachment too, is left to a task of the pool.   *)
SendMail(r) ==
    /\ at[r] = "service" /\ mail[r] = "none"
    /\ \/ mail' = [mail EXCEPT ![r] = "queued"] /\ UNCHANGED request
       \/ Refuse(r, "404") /\ UNCHANGED mail
    /\ UNCHANGED audit

(* Any other exception: a validator's, the database's, the parser's.       *)
Fail(r) ==
    /\ at[r] = "service"
    /\ \E status \in {"INVALID", "ERROR"} : Refuse(r, status)
    /\ UNCHANGED <<audit, mail>>

(* An exception whose what() is empty passes for none after the catch: its *)
(* response is set, but delete_blobs is not called.                        *)
FailUnnoticed(r) ==
    /\ at[r] = "service"
    /\ Answer(r, "ERROR") /\ End(r, "unnoticed")
    /\ UNCHANGED <<form, errcode, user, expired, disk, audit, mail>>

\* Mutant of Serve: the documents are removed however the handler ended.
ServeAndDelete(r) ==
    /\ at[r] = "service" /\ answers[r] # <<>>
    /\ End(r, "served")
    /\ DeleteBlobs(r)
    /\ UNCHANGED <<form, errcode, user, expired, answers, audit, mail>>

Serve(r) ==
    /\ at[r] = "service" /\ answers[r] # <<>>
    /\ End(r, "served")
    /\ UNCHANGED <<form, errcode, user, expired, answers, disk, audit, mail>>

-----------------------------------------------------------------------------
(* Meanwhile: tokens expire, mails are sent, records are saved.            *)

Expire(r) ==
    /\ call[r].token = "good" /\ at[r] # "done" /\ r \notin expired
    /\ expired' = expired \cup {r}
    /\ UNCHANGED <<form, at, errcode, user, answers, outcome, disk, audit, mail>>

(* The task attaches the documents its parameters name, if they are there. *)
Deliver(r) ==
    /\ mail[r] = "queued"
    /\ mail' = [mail EXCEPT ![r] =
                  IF Named(r) \subseteq disk THEN "sent" ELSE "incomplete"]
    /\ UNCHANGED <<request, audit>>

(* audit.                                                                  *)
TakeRecord ==
    /\ saving = {} /\ trail # <<>>
    /\ saving' = {Head(trail)} /\ trail' = Tail(trail)
    /\ UNCHANGED <<tried, saved, request, mail>>

\* Mutant of SaveRecord: the record stays with the thread when it is not saved.
SaveRecordAgain(r) ==
    /\ r \in saving
    /\ tried' = [tried EXCEPT ![r] = @ + 1]
    /\ \/ saved' = [saved EXCEPT ![r] = @ + 1] /\ saving' = {}
       \/ UNCHANGED <<saved, saving>>
    /\ UNCHANGED <<trail, request, mail>>

(* audit_task: exec_sqlp may fail before the database has the record, or   *)
(* after; either way the failure is logged and the record is gone.         *)
SaveRecord(r) ==
    /\ r \in saving
    /\ saving' = {}
    /\ tried' = [tried EXCEPT ![r] = @ + 1]
    /\ saved' = [saved EXCEPT ![r] = @ + 1] \/ UNCHANGED saved
    /\ UNCHANGED <<trail, request, mail>>

Idle == \A r \in Requests : at[r] = "done" /\ mail[r] # "queued"
Quiet == Idle /\ trail = <<>> /\ saving = {} /\ UNCHANGED vars

Receive(r) == SaveFile(r) \/ KeepText(r) \/ Parsed(r)
Dispatch(r) == Malformed(r) \/ TurnAway(r) \/ Diagnose(r) \/ Enqueue(r)
Process(r) == \/ Take(r) \/ SendOptions(r) \/ EnforceVerb(r) \/ EnforceRules(r)
              \/ CheckToken(r) \/ CheckRoles(r) \/ SaveAuditTrail(r)
Handle(r) == SetBody(r) \/ SendMail(r) \/ Fail(r) \/ FailUnnoticed(r) \/ Serve(r)

Next ==
    \/ \E r \in Requests : \/ Receive(r) \/ Dispatch(r) \/ Process(r) \/ Handle(r)
                           \/ Expire(r) \/ Deliver(r) \/ SaveRecord(r)
    \/ TakeRecord
    \/ Quiet

Spec == Init /\ [][Next]_vars

-----------------------------------------------------------------------------
(* What each variable ranges over.                                         *)
Values ==
    /\ call \in [Requests -> Calls]
    /\ at \in [Requests -> Places]
    /\ read \in [Requests -> Nat]
    /\ params \in [Requests -> SUBSET [name : STRING,
                                      documents : SUBSET (Requests \X Nat)]]
    /\ errcode \subseteq Requests /\ user \subseteq Requests /\ expired \subseteq Requests
    /\ answers \in [Requests -> Seq(Statuses)]
    /\ outcome \in [Requests -> {"none", "served", "failed", "unnoticed", "turned away"}]
    /\ trail \in Seq(Requests) /\ saving \subseteq Requests
    /\ tried \in [Requests -> Nat] /\ saved \in [Requests -> Nat]
    /\ mail \in [Requests -> {"none", "queued", "sent", "incomplete"}]

(* The values of the state.  A document belongs to a file field that has   *)
(* been dealt with; a request has an outcome once it is done, and has been *)
(* answered by then (run_async_task, process_request).                     *)
TypeOK ==
    /\ Values
    /\ \A r \in Requests : read[r] <= Len(call[r].fields)
    /\ disk \subseteq UNION {Documents(r) : r \in Requests}
    /\ \A r \in Requests : /\ (at[r] = "done") <=> (outcome[r] # "none")
                           /\ at[r] = "done" => answers[r] # <<>>

(* "Authentication and authorization are transparent to your API and       *)
(* always enforced" (README.md:434): a handler that runs was asked for     *)
(* with its own verb and parameters that obey its rules, by a request      *)
(* whose form parsed, and the handler of a secure API by a user whose      *)
(* token was valid when a worker looked, and with roles in whose text one  *)
(* of the API's roles occurs.  That is less than "must belong to any of    *)
(* those roles" (README.md:865): a role that only contains the name of one *)
(* of them does as well.                                                   *)
ServiceAuthorized ==
    \A r \in Requests : at[r] = "service" =>
        /\ r \notin errcode /\ call[r].allowed /\ call[r].obeys
        /\ Target(r) \in Apis
        /\ call[r].method = IF Target(r) \in Post THEN "POST" ELSE "GET"
        /\ Target(r) \in Secure => /\ r \in user /\ call[r].token = "good"
                                   /\ Suffices(r)

Handled(r) == at[r] = "service" \/ (at[r] = "done" /\ r \in user /\ Suffices(r))

(* One audit record per request of a secure API that got through the       *)
(* checks, from before its handler starts, and no record of any other:     *)
(* queued, with the audit thread or given to the database, never in two of *)
(* these, and never saved twice (execute_service, save_audit_trail, audit, *)
(* audit_task).                                                            *)
Records(r) == Cardinality({n \in 1..Len(trail) : trail[n] = r})
              + Cardinality(saving \cap {r}) + tried[r]

AuditedOnce ==
    \A r \in Requests :
        /\ Records(r) = IF EnableAudit /\ Target(r) \in Secure /\ Handled(r) THEN 1 ELSE 0
        /\ saved[r] <= tried[r]

(* A request that failed named the document.                               *)
Doomed(d) == \E q \in Requests : outcome[q] = "failed" /\ d \in Named(q)

(* A document of a request that parsed is there, served or not, until a    *)
(* request that names it fails; what a failed request names is gone; and   *)
(* what is left of its own is the files whose name was already taken by an *)
(* earlier field (parse_form, delete_blobs, process_request,               *)
(* run_async_task).                                                        *)
DocumentsMatchOutcome ==
    \A r \in Requests :
        /\ r \notin errcode => \A d \in Documents(r) : d \in disk \/ Doomed(d)
        /\ outcome[r] = "failed" =>
              /\ Named(r) \cap disk = {}
              /\ \A i \in 1..read[r] : <<r, i>> \in disk =>
                    \E j \in 1..(i - 1) : call[r].fields[j].name = call[r].fields[i].name

(* A mail leaves without a document it attaches only when a request that   *)
(* names the document failed: its own, after it had sent the mail, or      *)
(* another that was told of it.  delete_blobs then races the mail task     *)
(* (request::send_mail, httputils.cpp:765; process_request).               *)
MailsAreComplete ==
    \A r \in Requests : mail[r] = "incomplete" => \E d \in Named(r) : Doomed(d)

(* send_error "sends a complete HTTP error response to the client"         *)
(* (server.cpp:222): the response to a request it is called for is the     *)
(* error.                                                                  *)
ErrorIsTheResponse ==
    \A r \in Requests : \A n \in 1..Len(answers[r]) :
        answers[r][n] \in Sent => answers[r] = <<answers[r][n]>>
=============================================================================
