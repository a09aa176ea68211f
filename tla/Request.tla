------------------------------- MODULE Request -------------------------------
(***************************************************************************)
(* One request from its first packet to the statement its service runs:    *)
(* the growth of the receive buffer, the parsers on what packets brought,  *)
(* the checks of the epoll thread, and the worker's input rules, token and *)
(* statement.  Reactor has the same request among others and knows only    *)
(* its shape; Service has its way through the checks and knows only their  *)
(* outcomes.                                                               *)
(*                                                                         *)
(* The client is the environment: Wire(c) is how it writes the request it  *)
(* has in mind, which the network then cuts into packets anywhere.         *)
(***************************************************************************)
EXTENDS HttpParser, Statement, Jwt

CONSTANTS
    Clients,      \* the requests clients may make
    Catalog,      \* webapi_catalog: what is registered under a path
    AllowedOrigins,
    Block,        \* socket_buffer::_buffer_size
    MaxClock,     \* how long the clock goes on
    Boundary      \* the boundary of the clients' forms

ASSUME RequestAssumption == Block \in Nat \ {0} /\ MaxClock \in Nat

(* A boundary is none of the words a form is made of.                      *)
ASSUME BoundaryAssumption ==
    Boundary \notin {"none", "--", "form-data", "name=", "filename=", "Content-Type: ",
                     "text", Crlf, Quote}

VARIABLES
    client,    \* the request being made
    clock,     \* the server's clock
    pos,       \* units in the buffer (_pos)
    size,      \* its size
    head,      \* what parse() has made of the head
    params,    \* the parameters
    files,     \* the files written to blob_path
    verdict,   \* what run_async_task decides, "none" before
    outcome    \* what the worker comes to

vars == <<client, clock, pos, size, head, params, files, verdict, outcome>>

NoOutcome == [status |-> "none", user |-> Nobody, time |-> 0, sql |-> <<>>]

-----------------------------------------------------------------------------
(* Tokens come from the login service.  A user is known by what he types   *)
(* as his name, which the rules of that service trim and escape before it  *)
(* becomes the login of his token; the rest comes from the database.       *)

LoginRules == [i \in {1, 2} |->
                 [name |-> <<IF i = 1 THEN "username" ELSE "password">>,
                  type |-> "STRING", required |-> TRUE]]

LoginOf(user) ==
    LET entered == (<<"username">> :> user.login) @@ (<<"password">> :> <<"secret">>)
    IN [user EXCEPT !.login = Enforce(LoginRules, entered).params[<<"username">>]]

-----------------------------------------------------------------------------
(* What clients send.  A client c is a record of the method, the path, the *)
(* encoding ("none", "query", "json", "form") and the fields of a request, *)
(* its origin, the token and its time of issue, what is wrong with it      *)
(* (defect) and the units it sends beyond its end (extra).                 *)

Percent(t) == FlattenSeq([i \in DOMAIN t |->
                 IF t[i] \in DOMAIN Hex THEN <<"%">> \o Hex[t[i]] ELSE <<t[i]>>])

Join(texts, d) == IF texts = <<>> THEN <<>>
                  ELSE FlattenSeq([i \in DOMAIN texts |->
                          (IF i = 1 THEN <<>> ELSE d) \o texts[i]])

QueryOf(c) == Join([i \in DOMAIN c.fields |->
                 c.fields[i].name \o <<"=">> \o Percent(c.fields[i].value)], <<"&">>)

IsFile(f) == f.type = "file"

PartOf(f) ==
    <<"--", Boundary, Crlf, "form-data", "name=">> \o f.name \o <<Quote>>
       \o (IF IsFile(f) THEN <<"filename=">> \o f.filename
                \o <<Quote, Crlf, "Content-Type: ", "text">> ELSE <<>>)
       \o <<Crlf, Crlf>> \o f.value \o <<Crlf>>

FormOf(c) == FlattenSeq([i \in DOMAIN c.fields |-> PartOf(c.fields[i])])
                \o <<"--", Boundary, "--", Crlf>>

MemberOf(f) == [kind |-> "member", name |-> f.name, type |-> f.type, value |-> f.value]

BodyOf(c) ==
    CASE c.encoding = "json" ->
            [i \in DOMAIN c.fields |-> MemberOf(c.fields[i])]
               \o (IF c.defect = "json" THEN <<[kind |-> "broken"]>> ELSE <<[kind |-> "close"]>>)
      [] c.encoding = "form" ->
            LET form == FormOf(c)
            IN [i \in DOMAIN form |-> [kind |-> "text", text |-> form[i]]]
      [] OTHER -> <<>>

TargetOf(c) == c.path \o (IF c.encoding = "query" THEN <<"?">> \o QueryOf(c) ELSE <<>>)

Version == <<Blank, "HTTP", "/", "1.1">>

LineOf(c) == IF c.defect = "line" THEN <<>> ELSE TargetOf(c) \o Version

HeaderUnit(name, value) == <<[kind |-> "header", name |-> name, value |-> value]>>

HeadOf(c) ==
    <<[kind |-> "request", rest |-> LineOf(c),
       method |-> IF c.defect = "method" THEN "PUT" ELSE c.method]>>
    \o (IF c.method # "POST" \/ c.defect = "length" THEN <<>>
        ELSE HeaderUnit("content-length",
                IF c.defect = "number" THEN NotANumber ELSE Len(BodyOf(c))))
    \o (IF c.method # "POST" THEN <<>>
        ELSE HeaderUnit("content-type",
                [type     |-> IF c.defect = "type" THEN "other"
                                ELSE IF c.encoding = "form" THEN "multipart" ELSE "json",
                 boundary |-> IF c.encoding = "form" /\ c.defect # "boundary"
                                THEN Boundary ELSE "none"]))
    \o (IF c.user = Nobody THEN <<>>
        ELSE HeaderUnit("authorization",
                [scheme |-> IF c.defect = "scheme" THEN "Basic" ELSE "Bearer",
                 token  |-> GetToken(LoginOf(c.user), c.issued)]))
    \o (IF c.origin = "none" THEN <<>> ELSE HeaderUnit("origin", c.origin))
    \o (IF c.defect = "twice" THEN HeaderUnit("origin", c.origin) ELSE <<>>)
    \o (IF c.defect = "header" THEN <<[kind |-> "broken"]>> ELSE <<>>)
    \o <<[kind |-> "end"]>>

Wire(c) == HeadOf(c) \o BodyOf(c) \o [i \in 1 .. c.extra |-> [kind |-> "broken"]]

(* What a name may not contain: the symbols its encodings end it with, and *)
(* the suffixes of the parameters of a file.  No value has the boundary.   *)
Reserved == {"=", "&", Quote, Crlf, Boundary, "name=", "filename=", ".content_len",
             ".content_type", ".document", ".filename"}

IsText(t) == t \in Seq(ToSet(t))

(* Fields are texts that their encoding can carry, of types it has.  The   *)
(* request line ends at a line break, and its target at a blank.           *)
FieldsWritten(c) ==
    /\ IsText(c.fields) /\ (c.encoding = "none" => c.fields = <<>>)
    /\ \A f \in ToSet(c.fields) :
          /\ IsText(f.name) /\ IsText(f.value) /\ IsText(f.filename)
          /\ Reserved \cap (ToSet(f.name) \cup ToSet(f.filename)) = {}
          /\ Boundary \notin ToSet(f.value)
          /\ c.encoding = "query" => Blank \notin ToSet(f.name) /\ Crlf \notin ToSet(f.value)
          /\ f.type \in CASE c.encoding = "json" -> {"scalar", "null", "object"}
                          [] c.encoding = "form" -> {"scalar", "file"}
                          [] OTHER               -> {"scalar"}

(* Apart from a defect in what it has, a request is as RFC 9110 would have *)
(* it: the target is a path, with an authority before it or not, or the    *)
(* asterisk of OPTIONS.  Tokens were made by the login service.            *)
ASSUME ClientsAssumption ==
    \A c \in Clients :
        /\ c.method \in Methods /\ c.extra \in Nat
        /\ c.encoding \in IF c.method = "POST" THEN {"json", "form"} ELSE {"none", "query"}
        /\ FieldsWritten(c)
        /\ IsText(c.path) /\ {"?", Blank} \cap ToSet(c.path) = {}
        /\ c.encoding = "query" => "/" \in ToSet(c.path)
        /\ c.defect \in {"length", "number", "type"} => c.method = "POST"
        /\ c.defect \in {"json", "boundary"} =>
              c.encoding = IF c.defect = "json" THEN "json" ELSE "form"
        /\ c.defect = "twice" => c.origin # "none"
        /\ c.user # Nobody => Written(LoginOf(c.user), c.issued + Duration)

-----------------------------------------------------------------------------
(* The epoll thread.                                                       *)

\* Mutant of Grown: the buffer grows once it has overflowed.
GrownLate(s, n) == IF n > s THEN s + Block ELSE s

(* update_pos, with n units in a buffer of size s.                         *)
Grown(s, n) == IF n > (3 * s) \div 4 THEN s + Block ELSE s

\* Mutant of IsWhole: what comes after the body is taken for more of it.
IsWholeAtLeast(h, n) == n - h.start >= h.length

(* The test of eof().                                                      *)
IsWhole(h, n) == n - h.start = h.length

PathKind(path) == IF path[Len(path)] \in {"ping", "sysinfo"} THEN path[Len(path)]
                  ELSE IF path \in DOMAIN Catalog THEN "service" ELSE "other"

(* run_async_task.                                                         *)
Decision(h, err) ==
    IF err THEN "bad_request"
    ELSE IF h.origin # "none" /\ h.origin \notin AllowedOrigins THEN "forbidden"
    ELSE CASE PathKind(h.path) \in {"ping", "sysinfo"} -> "ok"
           [] PathKind(h.path) = "service" -> "service"
           [] PathKind(h.path) = "other" -> "not_found"

(* One turn of epoll_handle_read: read() for as much as the buffer has     *)
(* room for, read_request, and run_async_task if that was all of it.       *)
Read ==
    /\ verdict = "none"
    /\ \E n \in 1 .. size - pos :
         LET all   == Wire(client)
             got   == pos + n
             units == SubSeq(all, 1, got)
             h     == IF pos = 0 THEN ParseHead(units) ELSE head
             ended == pos = 0 /\ (h.err \/ h.method # "POST")
             form  == ParsePayload(h, SubSeq(units, h.start + 1, got))
         IN /\ got <= Len(all)
            /\ pos' = got
            /\ size' = Grown(size, got)
            /\ head' = h
            /\ \/ /\ ended
                  /\ params' = IF h.method = "GET" /\ ~h.err
                                 THEN ParseQueryString(h.target) ELSE NoEntries
                  /\ verdict' = Decision(h, h.err)
                  /\ UNCHANGED files
               \/ /\ ~ended /\ IsWhole(h, got)
                  /\ params' = form.params
                  /\ files' = form.files
                  /\ verdict' = Decision(h, form.err)
               \/ /\ ~ended /\ ~IsWhole(h, got)
                  /\ UNCHANGED <<params, files, verdict>>
    /\ UNCHANGED <<client, clock, outcome>>

-----------------------------------------------------------------------------
(* The worker: process_request and execute_service, with a handler that    *)
(* runs the statement of its API.                                          *)

Execute ==
    /\ verdict = "service" /\ outcome = NoOutcome
    /\ LET api  == Catalog[head.path]
           obey == Enforce(api.rules, params)
           user == IF api.secure /\ head.token # <<>> THEN IsValid(head.token, clock)
                                                      ELSE Nobody
           fails == api.secure /\ head.token # <<>> /\ Throws(head.token)
           end(status, sql) == outcome' = [status |-> status, user |-> user,
                                           time |-> clock, sql |-> sql]
       IN IF head.method = "OPTIONS" THEN end("options", <<>>) /\ UNCHANGED params
          ELSE IF head.method # api.verb
                 THEN end("method_not_allowed", <<>>) /\ UNCHANGED params
          ELSE /\ params' = obey.params
               /\ CASE ~obey.ok -> end("invalid_input", <<>>)
                    [] obey.ok /\ fails -> end("error", <<>>)
                    [] obey.ok /\ ~fails /\ api.secure /\ user = Nobody ->
                          end("unauthorized", <<>>)
                    [] obey.ok /\ ~fails /\ ~(api.secure /\ user = Nobody) ->
                          end("done", GetSql(FlattenSeq(api.sql), api.rules,
                                             obey.params, user))
    /\ UNCHANGED <<client, clock, pos, size, head, files, verdict>>

Tick ==
    /\ clock < MaxClock
    /\ clock' = clock + 1
    /\ UNCHANGED <<client, pos, size, head, params, files, verdict, outcome>>

Init == /\ client \in Clients
        /\ clock = 0
        /\ pos = 0
        /\ size = Block
        /\ head = NoHead
        /\ params = NoEntries
        /\ files = <<>>
        /\ verdict = "none"
        /\ outcome = NoOutcome

Next == Read \/ Execute \/ Tick

Spec == Init /\ [][Next]_vars

-----------------------------------------------------------------------------
(* Properties.                                                             *)

(* Every variable has its type.                                            *)
TypeOK ==
    /\ client \in Clients
    /\ clock \in 0 .. MaxClock
    /\ pos \in 0 .. Len(Wire(client))
    /\ size \in Nat /\ size % Block = 0
    /\ head.length \in Nat /\ head.start \in Nat
    /\ Len(files) <= Len(client.fields)
    /\ verdict \in {"none", "bad_request", "forbidden", "not_found", "ok", "service"}
    /\ outcome.status \in {"none", "options", "method_not_allowed", "invalid_input",
                           "unauthorized", "error", "done"}

(* The buffer never runs full, whatever the packets: read() is never       *)
(* called with a length of zero, whose result would be taken for the end   *)
(* of the input.  And it does not run away: the last growth was due.       *)
RoomToRead == /\ pos < size
              /\ size > Block => 3 * (size - Block) < 4 * pos

(* The defects the head of a request may have.                             *)
HeadDefects == {"line", "method", "length", "number", "type", "boundary",
                "twice", "header"}

(* The path a request is served under: what stands before the first slash  *)
(* is dropped, and without one in the target HTTP/1.1 has the first.       *)
PathSeen(c) == IF "/" \in ToSet(c.path) THEN From(c.path, <<"/">>) ELSE <<"/", "1.1">>

ShapeOf(c) ==
    [method |-> c.method, head |-> Len(HeadOf(c)), body |-> Len(BodyOf(c)),
     headOk |-> c.defect \notin HeadDefects,
     bodyOk |-> c.defect # "json" /\ (c.encoding = "form" => c.fields # <<>>),
     originOk |-> c.origin \in AllowedOrigins \cup {"none"},
     path |-> PathKind(PathSeen(c))]

(* However its bytes are cut into packets, a request is dispatched by the  *)
(* very read() at which Reactor takes it for complete, and with the same   *)
(* decision: the parser loses no byte at a packet boundary, and what its   *)
(* client did wrong, and only that, makes it a bad request.                *)
DecidesAsReactor ==
    [][pos' # pos =>
          LET s == ShapeOf(client)
          IN /\ verdict' # "none" <=> Complete(s, pos, pos')
             /\ verdict' # "none" => verdict' = Verdict(s, pos, pos')]_vars

(* Forms do not keep line breaks (parse_part), which is another matter.    *)
Unbroken(t) == Without(t, Crlf)

Kept(c, t) == IF c.encoding = "form" THEN Unbroken(t) ELSE t

(* Of fields with the same name, JSON keeps the last, the others keep the  *)
(* first.                                                                  *)
Counts(c, i) == \A j \in DOMAIN c.fields : c.fields[j].name = c.fields[i].name =>
                   IF c.encoding = "json" THEN j <= i ELSE j >= i

Arrived(c, f) ==
    LET at(suffix) == params[f.name \o <<suffix>>]
    IN CASE f.type = "scalar" ->
              f.name \in DOMAIN params /\ params[f.name] = Kept(c, f.value)
         [] IsFile(f) ->
              f.filename # <<>> =>
                \E k \in DOMAIN files :
                   /\ at(".document") = Uuid(k)
                   /\ Unbroken(files[k]) = Unbroken(f.value)
                   /\ at(".content_len") = <<ToString(Len(files[k]))>>
                   /\ at(".filename") = f.filename
         [] OTHER -> f.name \notin DOMAIN params

Accepted == verdict \in {"forbidden", "not_found", "ok", "service"}

(* The service finds under each name what the client put there, whichever  *)
(* encoding it used ("the same request can be sent as", README.md:270):    *)
(* query strings are decoded, form fields and files are cut out where they *)
(* end, each with its own document, and nothing appears that was not sent. *)
(* Two exceptions are the code's: the line breaks of a form, and a file    *)
(* input left empty by the user, which arrives as a text field.            *)
ParamsAsSent ==
    Accepted /\ outcome = NoOutcome /\ client.method # "OPTIONS" =>
        /\ \A i \in DOMAIN client.fields :
              Counts(client, i) => Arrived(client, client.fields[i])
        /\ \A n \in DOMAIN params : \E i \in DOMAIN client.fields :
              IsPrefix(client.fields[i].name, n)

IsMarker(t) == Head(t) = "$"

Entered(c, name) ==
    LET those == {i \in DOMAIN c.fields : c.fields[i].name = name
                      /\ c.fields[i].type = "scalar" /\ Counts(c, i)}
    IN IF those = {} THEN <<>> ELSE Trim(Kept(c, c.fields[Max(those)].value))

(* get_sql replaces the login's marker first, then those of the rules.     *)
Turn(api, t) == Max({0} \cup {k \in DOMAIN api.rules : Marker(api.rules[k].name) = t})

(* The value that comes to stand at a marker.                              *)
Brought(c, api, t) ==
    IF Turn(api, t) = 0 THEN c.user.login ELSE Entered(c, api.rules[Turn(api, t)].name)

(* A marker is not met before its place: neither at the beginning of one   *)
(* that is still there, nor in a value that is there already.              *)
MetInPlace(c, api, earlier, later) ==
    /\ Turn(api, later) < Turn(api, earlier) => ~IsPrefix(later, earlier)
    /\ Turn(api, earlier) < Turn(api, later) =>
          Occurs(Brought(c, api, earlier), later) = {}

Unambiguous(c, api) ==
    \A i, j \in DOMAIN api.sql :
       i < j /\ IsMarker(api.sql[i]) /\ IsMarker(api.sql[j]) =>
          MetInPlace(c, api, api.sql[i], api.sql[j])

(* The items a text of the statement must become.                          *)
Meant(c, api, t) ==
    IF ~IsMarker(t) THEN Items(t)
    ELSE IF t = Marker(<<"userlogin">>)
      THEN <<Quoted(IF api.secure THEN c.user.login ELSE <<>>)>>
    ELSE LET rule  == CHOOSE r \in ToSet(api.rules) : Marker(r.name) = t
             value == Entered(c, rule.name)
         IN IF value = <<>> THEN <<Bare("NULL")>>
            ELSE CASE rule.type = "STRING" ->
                        <<Quoted(Rewrite(value, Html))>>
                   [] rule.type = "DATE" -> <<Quoted(value)>>
                   [] OTHER -> [i \in DOMAIN value |-> Bare(value[i])]

Intended(c, api) == FlattenSeq([i \in DOMAIN api.sql |-> Meant(c, api, api.sql[i])])

IsCarried(c) == Carries(LoginOf(c.user), c.issued + Duration)

(* The statement, read as the database reads it, has the user's values at  *)
(* the places of their markers ("the name will be used to automatically    *)
(* replace the value in the SQL template", README.md:738), whatever quotes *)
(* and blanks they contain; < and > arrive as HTML, and an empty value as  *)
(* NULL.  Markers must be met in their place; when they are not, see       *)
(* StatementCarriesEveryValue.                                             *)
StatementCarriesValues ==
    outcome.status = "done" =>
        LET api == Catalog[head.path]
        IN Unambiguous(client, api) /\ (api.secure => IsCarried(client)) =>
              Items(outcome.sql) = Intended(client, api)

(* The same of every value, "so they can be safely replaced into the SQL   *)
(* template" (README.md:738).  False: a marker of a later rule is replaced *)
(* in the value that brings it, whose literal then ends there, and not in  *)
(* its place.                                                              *)
StatementCarriesEveryValue ==
    outcome.status = "done" =>
        LET api == Catalog[head.path]
        IN (api.secure => IsCarried(client)) => Items(outcome.sql) = Intended(client, api)

(* A request to a secure API is served as the user its token was issued    *)
(* to, up to the last second of the token and not at the next, and is      *)
(* turned away only for want of such a token, sent as a bearer token; no   *)
(* such token makes the request fail.  Only what a token can carry counts: *)
(* a quote or a backslash is read as JSON by is_valid but not written as   *)
(* JSON by get_token.                                                      *)
TokenIdentifies ==
    outcome.status # "none" /\ Catalog[head.path].secure =>
        /\ outcome.status = "done" =>
              /\ client.user # Nobody /\ client.defect # "scheme"
              /\ IsCarried(client) => /\ outcome.user = LoginOf(client.user)
                                     /\ outcome.time < client.issued + Duration
        /\ outcome.status = "unauthorized" =>
              \/ client.user = Nobody \/ client.defect = "scheme"
              \/ ~IsCarried(client) \/ outcome.time >= client.issued + Duration
        /\ outcome.status = "error" => client.user # Nobody /\ ~IsCarried(client)
=============================================================================
