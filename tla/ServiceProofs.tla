---------------------------- MODULE ServiceProofs ----------------------------
(***************************************************************************)
(* Proofs about Service, for any number of requests, APIs, kinds of call   *)
(* and workers: a handler only ever runs for a request that passed every   *)
(* check, the documents of a request are there until a failed request that *)
(* names them takes them away, no mail lacks a document unless that has    *)
(* happened, and a request leaves one audit record if it was due one.      *)
(***************************************************************************)
EXTENDS Service, TLAPS, FiniteSetTheorems

Routed == {"queued"} \cup Busy

(* What the place of a request says of the checks it has passed.           *)
Checked(r) ==
    /\ at[r] \in Routed => r \notin errcode /\ call[r].allowed /\ Target(r) \in Apis
    /\ at[r] \in {"rules", "login", "roles", "audit", "service"} =>
          call[r].method = IF Target(r) \in Post THEN "POST" ELSE "GET"
    /\ at[r] \in {"login", "roles", "audit", "service"} => call[r].obeys
    /\ at[r] \in {"login", "roles", "audit"} => Target(r) \in Secure
    /\ at[r] \in {"roles", "audit", "service"} /\ Target(r) \in Secure =>
          r \in user /\ call[r].token = "good"
    /\ at[r] \in {"audit", "service"} /\ Target(r) \in Secure => Suffices(r)
    /\ (at[r] = "done") <=> (outcome[r] # "none")
    /\ outcome[r] = "served" => r \notin errcode

(* A request that parsed: it keeps the documents it has.                   *)
Past(q) == at[q] # "form" /\ q \notin errcode

(* A parameter names a document of its request, or of one that had parsed. *)
Sourced(r) ==
    \A d \in Named(r) : \/ d \in Documents(r)
                        \/ \E q \in Requests : Past(q) /\ d \in Documents(q)

(* try_emplace drops a file's document only for a name it has already.     *)
Kept(r) ==
    /\ \A i \in 1..read[r] : call[r].fields[i].file =>
          \/ <<r, i>> \in Named(r)
          \/ \E j \in 1..(i - 1) : call[r].fields[j].name = call[r].fields[i].name
    /\ \A p \in params[r] : \E j \in 1..read[r] : call[r].fields[j].name = p.name

(* Documents only go when a request that names them fails.                 *)
Stored(r) ==
    /\ r \notin errcode => \A d \in Documents(r) : d \in disk \/ Doomed(d)
    /\ outcome[r] = "failed" => Named(r) \cap disk = {}

(* A mail is sent by a handler, so by a request that parsed.               *)
Mailed(r) ==
    /\ mail[r] # "none" => Past(r)
    /\ mail[r] = "incomplete" => \E d \in Named(r) : Doomed(d)

Sound(r) == Checked(r) /\ Sourced(r) /\ Kept(r) /\ Stored(r) /\ Mailed(r)

Inv == Values /\ \A r \in Requests : Sound(r)

Step(r) == \/ Receive(r) \/ Dispatch(r) \/ Process(r) \/ Handle(r)
           \/ Expire(r) \/ Deliver(r) \/ SaveRecord(r)

-----------------------------------------------------------------------------
(* What the state ranges over, without the sets spelt out.                 *)
LEMMA Known ==
    /\ Statuses = {"200", "INVALID", "ERROR", "204", "400", "401", "403", "404", "405"}
    /\ Places = {"form", "task", "queued", "process", "rules", "login", "roles",
                 "audit", "service", "done"}
  BY DEF Statuses, Places

LEMMA CallType ==
    ASSUME Values, NEW r \in Requests
    PROVE  /\ call[r] \in Call
           /\ call[r].method \in {"GET", "POST", "OPTIONS"}
           /\ call[r].fields \in Seq([name : STRING, file : BOOLEAN])
           /\ read[r] \in Nat
  <1>1. call[r] \in Calls /\ read[r] \in Nat
    BY DEF Values
  <1>2. call[r] \in Call
    BY <1>1, ServiceAssumption
  <1>3. /\ call[r].method \in {"GET", "POST", "OPTIONS"}
        /\ call[r].fields \in Seq([name : STRING, file : BOOLEAN])
    BY <1>2, Zenon DEF Call
  <1> QED
    BY <1>1, <1>2, <1>3

LEMMA DocumentsType ==
    ASSUME Values, NEW r \in Requests
    PROVE  Documents(r) \subseteq Requests \X Nat
  <1>1. read[r] \in Nat
    BY DEF Values
  <1> QED
    BY <1>1 DEF Documents

(* What keeping a parameter changes.                                       *)
LEMMA KeepParams ==
    ASSUME Values, NEW r \in Requests, NEW D, Keep(r, D)
    PROVE  /\ read'[r] = read[r] + 1
           /\ \A q \in Requests \ {r} : read'[q] = read[q] /\ params'[q] = params[q]
           /\ \/ /\ \E p \in params[r] : p.name = NextField(r).name
                 /\ params'[r] = params[r]
              \/ params'[r] = params[r] \cup {[name |-> NextField(r).name, documents |-> D]}
  BY DEF Keep, Values

LEMMA KeepType ==
    ASSUME Values, NEW r \in Requests, NEW D \in SUBSET (Requests \X Nat), Keep(r, D),
           read[r] < Len(call[r].fields)
    PROVE  /\ read' \in [Requests -> Nat]
           /\ params' \in [Requests -> SUBSET [name : STRING,
                                               documents : SUBSET (Requests \X Nat)]]
  <1> DEFINE P == [name : STRING, documents : SUBSET (Requests \X Nat)]
             new == [name |-> NextField(r).name, documents |-> D]
  <1>1. NextField(r) \in [name : STRING, file : BOOLEAN]
    <2> DEFINE F == [name : STRING, file : BOOLEAN]
               s == call[r].fields
    <2>1. s \in Seq(F) /\ read[r] \in Nat /\ read[r] < Len(s)
      BY CallType
    <2> HIDE DEF F, s
    <2>2. s[read[r] + 1] \in F
      BY <2>1
    <2> QED
      BY <2>2 DEF NextField, s, F
  <1>2. NextField(r).name \in STRING
    BY <1>1
  <1>3. new \in P
    BY <1>2
  <1>4. params \in [Requests -> SUBSET P] /\ read \in [Requests -> Nat]
    BY DEF Values
  <1>5. read' \in [Requests -> Nat]
    BY <1>4 DEF Keep
  <1>6. params' = [params EXCEPT ![r] =
            IF \E p \in @ : p.name = NextField(r).name THEN @ ELSE @ \cup {new}]
    BY DEF Keep
  <1> HIDE DEF P, new
  <1>7. params' \in [Requests -> SUBSET P]
    BY <1>3, <1>4, <1>6
  <1> QED
    BY <1>5, <1>7 DEF P

LEMMA AnswerType ==
    ASSUME Values, NEW r \in Requests, NEW status \in Statuses, Answer(r, status)
    PROVE  answers' \in [Requests -> Seq(Statuses)]
  <1>1. answers[r] \in Seq(Statuses)
    BY DEF Values
  <1>2. Append(answers[r], status) \in Seq(Statuses)
    BY <1>1
  <1> QED
    BY <1>2 DEF Answer, Values

LEMMA RefuseType ==
    ASSUME Values, NEW r \in Requests, NEW status \in Statuses,
           Refuse(r, status), UNCHANGED audit,
           mail' \in [Requests -> {"none", "queued", "sent", "incomplete"}]
    PROVE  Values'
  BY AnswerType, Known DEF Values, Refuse, End, Goto, form, audit

LEMMA PassType ==
    ASSUME Values, NEW r \in Requests, NEW place \in Places, Pass(r, place),
           UNCHANGED audit, UNCHANGED mail
    PROVE  Values'
  BY DEF Values, Pass, Goto, form, audit

LEMMA ReceiveType ==
    ASSUME Values, NEW r \in Requests, Receive(r)
    PROVE  Values'
  <1>1. CASE SaveFile(r)
    <2> DEFINE D == {<<r, read[r] + 1>>}
    <2>1. D \in SUBSET (Requests \X Nat) /\ Keep(r, D) /\ read[r] < Len(call[r].fields)
      BY <1>1, CallType DEF SaveFile
    <2> HIDE DEF D
    <2>2. /\ read' \in [Requests -> Nat]
          /\ params' \in [Requests -> SUBSET [name : STRING,
                                              documents : SUBSET (Requests \X Nat)]]
      BY <2>1, KeepType
    <2>3. at' \in [Requests -> Places] /\ errcode' \subseteq Requests
      <3>1. /\ at' = at \/ Goto(r, "task")
            /\ errcode' = errcode \/ errcode' = errcode \cup {r}
        BY <1>1 DEF SaveFile
      <3> QED
        BY <3>1, Known DEF Values, Goto
    <2>4. UNCHANGED <<call, user, expired, answers, outcome, audit, mail>>
      BY <1>1 DEF SaveFile
    <2> QED
      BY <2>2, <2>3, <2>4 DEF Values, audit
  <1>2. CASE KeepText(r)
    <2>1. Told \subseteq Requests \X Nat
      BY DocumentsType DEF Told
    <2>2. PICK D \in {{}} \cup {{d} : d \in Told} : Keep(r, D)
      BY <1>2 DEF KeepText
    <2>3. D \in SUBSET (Requests \X Nat) /\ read[r] < Len(call[r].fields)
      BY <1>2, <2>1 DEF KeepText
    <2>4. /\ read' \in [Requests -> Nat]
          /\ params' \in [Requests -> SUBSET [name : STRING,
                                              documents : SUBSET (Requests \X Nat)]]
      BY <2>2, <2>3, KeepType
    <2>5. UNCHANGED <<call, at, errcode, user, expired, answers, outcome, audit, mail>>
      BY <1>2 DEF KeepText
    <2> QED
      BY <2>4, <2>5 DEF Values, audit
  <1>3. CASE Parsed(r)
    BY <1>3, Known DEF Values, Parsed, Goto, form, audit
  <1> QED
    BY <1>1, <1>2, <1>3 DEF Receive

LEMMA DispatchType ==
    ASSUME Values, NEW r \in Requests, Dispatch(r)
    PROVE  Values'
  <1>1. CASE Malformed(r)
    BY <1>1, AnswerType, Known DEF Values, Malformed, End, Goto, form, audit
  <1>2. CASE TurnAway(r)
    BY <1>2, AnswerType, Known DEF Values, TurnAway, End, Goto, form, audit
  <1>3. CASE Diagnose(r)
    BY <1>3, AnswerType, Known DEF Values, Diagnose, End, Goto, form, audit
  <1>4. CASE Enqueue(r)
    BY <1>4, Known DEF Values, Enqueue, Goto, form, audit
  <1> QED
    BY <1>1, <1>2, <1>3, <1>4 DEF Dispatch

LEMMA ProcessType ==
    ASSUME Values, NEW r \in Requests, Process(r)
    PROVE  Values'
  <1>1. CASE Take(r)
    BY <1>1, Known DEF Values, Take, Goto, form, audit
  <1>2. CASE SendOptions(r)
    BY <1>2, AnswerType, Known DEF Values, SendOptions, End, Goto, form, audit
  <1>3. CASE EnforceVerb(r)
    BY <1>3, RefuseType, PassType, Known DEF EnforceVerb, Values
  <1>4. CASE EnforceRules(r)
    BY <1>4, RefuseType, PassType, Known DEF EnforceRules, Values
  <1>5. CASE CheckToken(r)
    <2>1. CASE call[r].token = "good" /\ r \notin expired
      <3>1. user' \subseteq Requests /\ at' \in [Requests -> Places]
        <4>1. user' = user \cup {r} /\ Goto(r, "roles")
          BY <1>5, <2>1 DEF CheckToken
        <4> QED
          BY <4>1, Known DEF Values, Goto
      <3>2. UNCHANGED <<form, errcode, expired, answers, outcome, audit, mail>>
        BY <1>5, <2>1, Zenon DEF CheckToken
      <3> QED
        BY <3>1, <3>2 DEF Values, form, audit
    <2>2. CASE ~(call[r].token = "good" /\ r \notin expired)
      BY <1>5, <2>2, RefuseType, Known DEF CheckToken, Values
    <2> QED
      BY <2>1, <2>2
  <1>6. CASE CheckRoles(r)
    BY <1>6, RefuseType, PassType, Known DEF CheckRoles, Values
  <1>7. CASE SaveAuditTrail(r)
    <2>1. trail \in Seq(Requests)
      BY DEF Values
    <2>2. trail' \in Seq(Requests)
      BY <1>7, <2>1 DEF SaveAuditTrail
    <2>3. UNCHANGED <<saving, tried, saved, mail>> /\ Pass(r, "service")
      BY <1>7 DEF SaveAuditTrail
    <2> QED
      BY <2>2, <2>3, Known DEF Values, Pass, Goto, form
  <1> QED
    BY <1>1, <1>2, <1>3, <1>4, <1>5, <1>6, <1>7 DEF Process

LEMMA HandleType ==
    ASSUME Values, NEW r \in Requests, Handle(r)
    PROVE  Values'
  <1>1. CASE SetBody(r)
    BY <1>1, AnswerType, Known DEF Values, SetBody, form, audit
  <1>2. CASE SendMail(r)
    <2>1. CASE mail' = [mail EXCEPT ![r] = "queued"] /\ UNCHANGED request
      BY <1>2, <2>1 DEF SendMail, Values, request, form, audit
    <2>2. CASE Refuse(r, "404") /\ UNCHANGED mail
      BY <1>2, <2>2, RefuseType, Known DEF SendMail, Values
    <2> QED
      BY <1>2, <2>1, <2>2 DEF SendMail
  <1>3. CASE Fail(r)
    BY <1>3, RefuseType, Known DEF Fail, Values
  <1>4. CASE FailUnnoticed(r)
    BY <1>4, AnswerType, Known DEF Values, FailUnnoticed, End, Goto, form, audit
  <1>5. CASE Serve(r)
    BY <1>5, Known DEF Values, Serve, End, Goto, form, audit
  <1> QED
    BY <1>1, <1>2, <1>3, <1>4, <1>5 DEF Handle

LEMMA SaveRecordType ==
    ASSUME Values, NEW r \in Requests, SaveRecord(r)
    PROVE  Values'
  <1>1. saved \in [Requests -> Nat] /\ tried \in [Requests -> Nat]
    BY DEF Values
  <1>2. saved' \in [Requests -> Nat] /\ tried' \in [Requests -> Nat]
    BY <1>1 DEF SaveRecord
  <1>3. saving' = {} /\ UNCHANGED <<trail, request, mail>>
    BY DEF SaveRecord
  <1> QED
    BY <1>2, <1>3 DEF Values, request, form

LEMMA TakeRecordType ==
    ASSUME Values, TakeRecord
    PROVE  Values'
  <1>1. trail \in Seq(Requests) /\ trail # <<>>
    BY DEF Values, TakeRecord
  <1>2. trail' \in Seq(Requests) /\ saving' \subseteq Requests
    BY <1>1 DEF TakeRecord
  <1>3. UNCHANGED <<tried, saved, request, mail>>
    BY DEF TakeRecord
  <1> QED
    BY <1>2, <1>3 DEF Values, request, form

LEMMA ValuesStep == Values /\ [Next]_vars => Values'
  <1> SUFFICES ASSUME Values, [Next]_vars PROVE Values'
    OBVIOUS
  <1>1. ASSUME NEW r \in Requests, Expire(r) PROVE Values'
    BY <1>1 DEF Expire, Values, form, audit
  <1>2. ASSUME NEW r \in Requests, Deliver(r) PROVE Values'
    BY <1>2 DEF Deliver, Values, request, form, audit
  <1>3. CASE UNCHANGED vars
    BY <1>3 DEF Values, vars, request, form, audit
  <1> QED
    BY <1>1, <1>2, <1>3, ReceiveType, DispatchType, ProcessType, HandleType,
       SaveRecordType, TakeRecordType DEF Next, Quiet

-----------------------------------------------------------------------------
(* A step for r leaves what the server knows of another request alone; a   *)
(* document comes with the field of r that is dealt with, and goes when r  *)
(* fails and a parameter of r names it.                                    *)
Elsewhere(r) ==
    /\ call' = call
    /\ \A q \in Requests \ {r} :
          /\ at'[q] = at[q] /\ read'[q] = read[q] /\ params'[q] = params[q]
          /\ outcome'[q] = outcome[q] /\ mail'[q] = mail[q]
          /\ (q \in errcode' <=> q \in errcode) /\ (q \in user' <=> q \in user)
    /\ read[r] <= read'[r] /\ params[r] \subseteq params'[r]
    /\ at[r] # "form" => at'[r] # "form" /\ (r \in errcode' <=> r \in errcode)
    /\ at[r] = "done" => outcome'[r] = outcome[r]
    /\ \A d \in disk \ disk' : d \in Named(r) /\ outcome'[r] = "failed"
    /\ \A d \in disk' \ disk : d = <<r, read[r] + 1>> /\ read'[r] = read[r] + 1

LEMMA FormElsewhere ==
    ASSUME Values, NEW r \in Requests, UNCHANGED <<form, errcode>>,
           \A q \in Requests \ {r} :
              /\ at'[q] = at[q] /\ outcome'[q] = outcome[q] /\ mail'[q] = mail[q]
              /\ (q \in user' <=> q \in user),
           at[r] # "form" => at'[r] # "form",
           at[r] = "done" => outcome'[r] = outcome[r],
           disk' = disk \/ (DeleteBlobs(r) /\ outcome'[r] = "failed")
    PROVE  Elsewhere(r)
  <1>1. call' = call /\ read' = read /\ params' = params /\ errcode' = errcode
    BY DEF form
  <1>2. read[r] <= read'[r]
    BY <1>1, CallType
  <1>3. \A d \in disk \ disk' : d \in Named(r) /\ outcome'[r] = "failed"
    BY DEF DeleteBlobs
  <1>4. disk' \subseteq disk
    BY DEF DeleteBlobs
  <1> QED
    BY <1>1, <1>2, <1>3, <1>4 DEF Elsewhere

LEMMA RefuseElsewhere ==
    ASSUME Values, NEW r \in Requests, NEW status, Refuse(r, status),
           at[r] # "done", UNCHANGED mail
    PROVE  Elsewhere(r)
  <1>1. /\ at'[r] = "done" /\ outcome'[r] = "failed" /\ DeleteBlobs(r)
        /\ UNCHANGED <<form, errcode, user>>
        /\ \A q \in Requests \ {r} : at'[q] = at[q] /\ outcome'[q] = outcome[q]
    BY DEF Refuse, End, Goto, Values
  <1> QED
    BY <1>1, FormElsewhere

LEMMA PassElsewhere ==
    ASSUME Values, NEW r \in Requests, NEW place, place # "form", Pass(r, place),
           UNCHANGED mail
    PROVE  Elsewhere(r)
  <1>1. /\ at'[r] = place /\ \A q \in Requests \ {r} : at'[q] = at[q]
        /\ UNCHANGED <<form, errcode, user, outcome, disk>>
    BY DEF Pass, Goto, Values
  <1> QED
    BY <1>1, FormElsewhere

LEMMA ReceiveElsewhere ==
    ASSUME Values, NEW r \in Requests, Receive(r)
    PROVE  Elsewhere(r)
  <1>1. /\ at[r] = "form" /\ UNCHANGED <<call, user, outcome, mail>>
        /\ \A q \in Requests \ {r} : at'[q] = at[q]
        /\ \A q \in Requests \ {r} : q \in errcode' <=> q \in errcode
    BY DEF Receive, SaveFile, KeepText, Parsed, Goto, Values, form
  <1>2. CASE SaveFile(r)
    <2>1. Keep(r, {<<r, read[r] + 1>>}) /\ disk \subseteq disk'
          /\ disk' \subseteq disk \cup {<<r, read[r] + 1>>}
      BY <1>2 DEF SaveFile
    <2> QED
      BY <1>1, <2>1, KeepParams, CallType DEF Elsewhere
  <1>3. CASE KeepText(r)
    <2>1. PICK D \in {{}} \cup {{d} : d \in Told} : Keep(r, D)
      BY <1>3 DEF KeepText
    <2>2. disk' = disk
      BY <1>3 DEF KeepText
    <2> QED
      BY <1>1, <2>1, <2>2, KeepParams, CallType DEF Elsewhere
  <1>4. CASE Parsed(r)
    BY <1>1, <1>4, CallType DEF Parsed, form, Elsewhere
  <1> QED
    BY <1>2, <1>3, <1>4 DEF Receive

LEMMA StepElsewhere ==
    ASSUME Values, NEW r \in Requests, Step(r)
    PROVE  Elsewhere(r)
  <1>1. CASE Malformed(r)
    <2>1. /\ at[r] = "task" /\ at'[r] = "done" /\ outcome'[r] = "failed" /\ DeleteBlobs(r)
          /\ UNCHANGED <<form, errcode, user, mail>>
          /\ \A q \in Requests \ {r} : at'[q] = at[q] /\ outcome'[q] = outcome[q]
      BY <1>1 DEF Malformed, End, Goto, Values
    <2> QED
      BY <2>1, FormElsewhere
  <1>2. CASE TurnAway(r) \/ Diagnose(r) \/ SendOptions(r) \/ FailUnnoticed(r) \/ Serve(r)
    <2>1. /\ at[r] # "done" /\ at'[r] = "done"
          /\ UNCHANGED <<form, errcode, user, mail, disk>>
          /\ \A q \in Requests \ {r} : at'[q] = at[q] /\ outcome'[q] = outcome[q]
      BY <1>2 DEF TurnAway, Diagnose, SendOptions, FailUnnoticed, Serve, End, Goto, Values
    <2> QED
      BY <2>1, FormElsewhere
  <1>3. CASE Enqueue(r) \/ Take(r) \/ SetBody(r)
    <2>1. /\ at'[r] # "form" /\ UNCHANGED <<form, errcode, user, outcome, mail, disk>>
          /\ \A q \in Requests \ {r} : at'[q] = at[q]
      BY <1>3 DEF Enqueue, Take, SetBody, Goto, Values
    <2> QED
      BY <2>1, FormElsewhere
  <1>4. CASE EnforceVerb(r) \/ EnforceRules(r) \/ CheckRoles(r)
    BY <1>4, RefuseElsewhere, PassElsewhere DEF EnforceVerb, EnforceRules, CheckRoles
  <1>5. CASE CheckToken(r)
    <2>1. CASE call[r].token = "good" /\ r \notin expired
      <3>1. /\ at[r] = "login" /\ at'[r] = "roles" /\ user' = user \cup {r}
            /\ UNCHANGED <<form, errcode, outcome, mail, disk>>
            /\ \A q \in Requests \ {r} : at'[q] = at[q]
        BY <1>5, <2>1 DEF CheckToken, Goto, Values
      <3> QED
        BY <3>1, FormElsewhere
    <2>2. CASE ~(call[r].token = "good" /\ r \notin expired)
      BY <1>5, <2>2, RefuseElsewhere DEF CheckToken
    <2> QED
      BY <2>1, <2>2
  <1>6. CASE SaveAuditTrail(r)
    BY <1>6, PassElsewhere DEF SaveAuditTrail
  <1>7. CASE SendMail(r)
    <2>1. CASE mail' = [mail EXCEPT ![r] = "queued"] /\ UNCHANGED request
      <3>1. /\ UNCHANGED <<form, at, errcode, user, outcome, disk>>
            /\ \A q \in Requests \ {r} : mail'[q] = mail[q]
        BY <2>1 DEF Values, request
      <3> QED
        BY <3>1, FormElsewhere
    <2>2. CASE Refuse(r, "404") /\ UNCHANGED mail
      BY <1>7, <2>2, RefuseElsewhere DEF SendMail
    <2> QED
      BY <1>7, <2>1, <2>2 DEF SendMail
  <1>8. CASE Fail(r)
    BY <1>8, RefuseElsewhere DEF Fail
  <1>9. CASE Expire(r) \/ Deliver(r) \/ SaveRecord(r)
    <2>1. /\ UNCHANGED <<form, at, errcode, user, outcome, disk>>
          /\ \A q \in Requests \ {r} : mail'[q] = mail[q]
      BY <1>9 DEF Expire, Deliver, SaveRecord, Values, request
    <2> QED
      BY <2>1, FormElsewhere
  <1> QED
    BY <1>1, <1>2, <1>3, <1>4, <1>5, <1>6, <1>7, <1>8, <1>9, ReceiveElsewhere
       DEF Step, Dispatch, Process, Handle

(* So parameters and documents accumulate, and what has parsed or failed   *)
(* stays so.                                                               *)
LEMMA NamedMonotone ==
    ASSUME NEW r \in Requests, Elsewhere(r), NEW q \in Requests, NEW d \in Named(q)
    PROVE  d \in Named(q)'
  <1>1. params[q] \subseteq params'[q]
    BY DEF Elsewhere
  <1> QED
    BY <1>1 DEF Named

LEMMA NamedSame ==
    ASSUME NEW q, params'[q] = params[q]
    PROVE  Named(q)' = Named(q)
  BY DEF Named

LEMMA DocumentsMonotone ==
    ASSUME Values, Values', NEW r \in Requests, Elsewhere(r), NEW q \in Requests,
           NEW d \in Documents(q)
    PROVE  d \in Documents(q)'
  <1>1. read[q] \in Nat /\ read'[q] \in Nat
    BY DEF Values
  <1>0. read[q] <= read'[q] /\ call' = call
    <2>1. CASE q = r
      BY <2>1 DEF Elsewhere
    <2>2. CASE q # r
      BY <1>1, <2>2 DEF Elsewhere
    <2> QED
      BY <2>1, <2>2
  <1>2. \A i \in 1..read[q] : i \in 1..read'[q]
    BY <1>0, <1>1
  <1> QED
    BY <1>0, <1>2 DEF Documents

LEMMA PastStays ==
    ASSUME NEW r \in Requests, Elsewhere(r), NEW q \in Requests, Past(q)
    PROVE  Past(q)'
  BY DEF Elsewhere, Past

LEMMA DoomedStays ==
    ASSUME NEW r \in Requests, Elsewhere(r), NEW d, Doomed(d),
           \A q \in Requests : Checked(q)
    PROVE  Doomed(d)'
  <1>1. PICK q \in Requests : outcome[q] = "failed" /\ d \in Named(q)
    BY DEF Doomed
  <1>2. outcome'[q] = "failed"
    BY <1>1 DEF Elsewhere, Checked
  <1>3. d \in Named(q)'
    BY <1>1, NamedMonotone
  <1> QED
    BY <1>2, <1>3 DEF Doomed

(* What is taken away is named by the request that fails.                  *)
LEMMA Taken ==
    ASSUME NEW r \in Requests, Elsewhere(r), NEW d \in disk, d \notin disk'
    PROVE  Doomed(d)'
  <1>1. outcome'[r] = "failed" /\ d \in Named(r)
    BY DEF Elsewhere
  <1>2. d \in Named(r)'
    BY <1>1, NamedMonotone
  <1> QED
    BY <1>1, <1>2 DEF Doomed

(* No step makes what is known of the parameters and documents of another  *)
(* request wrong, nor one for r that leaves the parameters of r alone.     *)
LEMMA SourcedStays ==
    ASSUME Values, Values', NEW r \in Requests, Elsewhere(r), NEW q \in Requests,
           params'[q] = params[q], Sourced(q)
    PROVE  Sourced(q)'
  <1>1. ASSUME NEW d \in Named(q)'
        PROVE  d \in Documents(q)' \/ \E p \in Requests : Past(p)' /\ d \in Documents(p)'
    <2>1. d \in Named(q)
      BY <1>1, NamedSame
    <2>2. CASE d \in Documents(q)
      BY <2>2, DocumentsMonotone
    <2>3. ASSUME NEW p \in Requests, Past(p), d \in Documents(p)
          PROVE  Past(p)' /\ d \in Documents(p)'
      BY <2>3, DocumentsMonotone, PastStays
    <2> QED
      BY <2>1, <2>2, <2>3 DEF Sourced
  <1> QED
    BY <1>1 DEF Sourced

LEMMA KeptStays ==
    ASSUME NEW q, call' = call, read'[q] = read[q], params'[q] = params[q], Kept(q)
    PROVE  Kept(q)'
  <1>1. Named(q)' = Named(q)
    BY NamedSame
  <1> QED
    BY <1>1 DEF Kept

LEMMA DocumentsHeld ==
    ASSUME NEW r \in Requests, Elsewhere(r), \A q \in Requests : Checked(q), NEW d,
           d \in disk \/ Doomed(d)
    PROVE  d \in disk' \/ Doomed(d)'
  BY DoomedStays, Taken

(* A document that is new was not named before.                            *)
LEMMA FreshUnnamed ==
    ASSUME Values, NEW r \in Requests, NEW q \in Requests, Sourced(q)
    PROVE  <<r, read[r] + 1>> \notin Named(q)
  <1>1. ASSUME NEW p \in Requests PROVE <<r, read[r] + 1>> \notin Documents(p)
    <2>1. read[p] \in Nat /\ read[r] \in Nat
      BY DEF Values
    <2>2. read[r] + 1 \notin 1..read[r]
      BY <2>1
    <2> QED
      BY <2>1, <2>2 DEF Documents
  <1> QED
    BY <1>1 DEF Sourced

LEMMA SoundElsewhere ==
    ASSUME Inv, Values', NEW r \in Requests, Elsewhere(r), NEW q \in Requests \ {r}
    PROVE  Sound(q)'
  <1>0. /\ Values /\ Sound(q) /\ \A p \in Requests : Checked(p)
        /\ call' = call /\ at'[q] = at[q] /\ read'[q] = read[q] /\ params'[q] = params[q]
        /\ outcome'[q] = outcome[q] /\ mail'[q] = mail[q]
        /\ (q \in errcode' <=> q \in errcode) /\ (q \in user' <=> q \in user)
    BY DEF Inv, Sound, Elsewhere
  <1>1. Checked(q)'
    BY <1>0 DEF Sound, Checked, Target, Suffices
  <1>2. Named(q)' = Named(q) /\ Documents(q)' = Documents(q)
    BY <1>0, NamedSame DEF Documents
  <1>3. Sourced(q)' /\ Kept(q)'
    BY <1>0, SourcedStays, KeptStays DEF Sound
  <1>4. ASSUME q \notin errcode', NEW d \in Documents(q)'
        PROVE  d \in disk' \/ Doomed(d)'
    BY <1>0, <1>2, <1>4, DocumentsHeld DEF Sound, Stored
  <1>5. ASSUME outcome'[q] = "failed", NEW d \in Named(q)'
        PROVE  d \notin disk'
    <2>1. d \in Named(q) /\ d \notin disk
      BY <1>0, <1>2, <1>5 DEF Sound, Stored
    <2>2. d # <<r, read[r] + 1>>
      BY <1>0, <2>1, FreshUnnamed DEF Sound
    <2> QED
      BY <2>1, <2>2 DEF Elsewhere
  <1>6. Stored(q)'
    BY <1>4, <1>5 DEF Stored
  <1>7. Mailed(q)'
    <2>1. mail'[q] # "none" => Past(q)'
      BY <1>0, PastStays DEF Sound, Mailed
    <2>2. ASSUME mail'[q] = "incomplete" PROVE \E d \in Named(q)' : Doomed(d)'
      <3>1. PICK d \in Named(q) : Doomed(d)
        BY <1>0, <2>2 DEF Sound, Mailed
      <3>2. d \in Named(q)' /\ Doomed(d)'
        BY <1>0, <1>2, <3>1, DoomedStays
      <3> QED
        BY <3>2
    <2> QED
      BY <2>1, <2>2 DEF Mailed
  <1> QED
    BY <1>1, <1>3, <1>6, <1>7 DEF Sound

-----------------------------------------------------------------------------
(* What a step for r does to what is known of r.                           *)

(* Past its form r only loses documents, and then it fails or another does.*)
Rest(r) == Sourced(r) /\ Kept(r) /\ Stored(r) /\ Mailed(r)

LEMMA LaterRest ==
    ASSUME Inv, Values', NEW r \in Requests, Elsewhere(r), UNCHANGED <<form, errcode>>,
           at[r] # "form",
           outcome'[r] = "failed" =>
              (outcome[r] = "failed" /\ disk' = disk) \/ DeleteBlobs(r),
           mail'[r] = mail[r] \/ (mail'[r] # "incomplete" /\ r \notin errcode)
    PROVE  Rest(r)'
  <1>0. /\ Values /\ Sound(r) /\ (\A p \in Requests : Checked(p))
        /\ call' = call /\ read' = read /\ params' = params /\ errcode' = errcode
    BY DEF Inv, Sound, form
  <1>1. Named(r)' = Named(r) /\ Documents(r)' = Documents(r)
    BY <1>0, NamedSame DEF Documents
  <1>2. Sourced(r)' /\ Kept(r)'
    BY <1>0, SourcedStays, KeptStays DEF Sound
  <1>3. ASSUME r \notin errcode', NEW d \in Documents(r)'
        PROVE  d \in disk' \/ Doomed(d)'
    BY <1>0, <1>1, <1>3, DocumentsHeld DEF Sound, Stored
  <1>4. outcome'[r] = "failed" => Named(r)' \cap disk' = {}
    BY <1>0, <1>1 DEF Sound, Stored, DeleteBlobs
  <1>5. Stored(r)'
    BY <1>3, <1>4 DEF Stored
  <1>6. mail'[r] # "none" => Past(r)'
    BY <1>0 DEF Sound, Mailed, Elsewhere, Past
  <1>7. ASSUME mail'[r] = "incomplete" PROVE \E d \in Named(r)' : Doomed(d)'
    <2>1. PICK d \in Named(r) : Doomed(d)
      BY <1>0, <1>7 DEF Sound, Mailed
    <2>2. d \in Named(r)' /\ Doomed(d)'
      BY <1>0, <1>1, <2>1, DoomedStays
    <2> QED
      BY <2>2
  <1>8. Mailed(r)'
    BY <1>6, <1>7 DEF Mailed
  <1> QED
    BY <1>2, <1>5, <1>8 DEF Rest

(* A refused request has no documents left, whatever it named.             *)
LEMMA RefuseSound ==
    ASSUME Inv, Values', NEW r \in Requests, NEW status, Refuse(r, status),
           at[r] \notin {"form", "done"}, UNCHANGED mail
    PROVE  Sound(r)'
  <1>0. Values
    BY DEF Inv
  <1>1. Elsewhere(r)
    BY <1>0, RefuseElsewhere
  <1>2. /\ at'[r] = "done" /\ outcome'[r] = "failed" /\ DeleteBlobs(r)
        /\ UNCHANGED <<form, errcode>>
    BY <1>0 DEF Refuse, End, Goto, Values
  <1>3. Rest(r)'
    BY <1>1, <1>2, LaterRest
  <1>4. Checked(r)'
    BY <1>2 DEF Checked, Routed, Busy
  <1> QED
    BY <1>3, <1>4 DEF Sound, Rest

(* A check that r passes adds what it found; the rest is as it was.        *)
LEMMA PassRest ==
    ASSUME Inv, Values', NEW r \in Requests, NEW place \in Busy, Pass(r, place),
           at[r] \in Busy, UNCHANGED mail
    PROVE  /\ Rest(r)' /\ Target(r)' = Target(r) /\ Suffices(r)' = Suffices(r)
           /\ at'[r] = place /\ UNCHANGED <<call, errcode, outcome, user>>
  <1>0. Values
    BY DEF Inv
  <1>1. /\ at'[r] = place /\ UNCHANGED <<call, errcode, outcome, user>>
        /\ UNCHANGED form /\ disk' = disk /\ place # "form" /\ at[r] # "form"
    BY <1>0 DEF Pass, Goto, Values, form, Busy
  <1>2. Elsewhere(r)
    BY <1>0, <1>1, PassElsewhere
  <1>3. Rest(r)'
    BY <1>1, <1>2, LaterRest
  <1>4. Target(r)' = Target(r) /\ Suffices(r)' = Suffices(r)
    BY <1>1 DEF Target, Suffices
  <1> QED
    BY <1>1, <1>3, <1>4

(* A field is dealt with: a file's document is new, a text's is another's. *)
LEMMA KeepNamed ==
    ASSUME Values, NEW r \in Requests, NEW D, Keep(r, D)
    PROVE  /\ Named(r) \subseteq Named(r)' /\ Named(r)' \subseteq Named(r) \cup D
           /\ \/ \E p \in params[r] : p.name = NextField(r).name
              \/ D \subseteq Named(r)'
  <1>1. \/ /\ \E p \in params[r] : p.name = NextField(r).name
           /\ params'[r] = params[r]
        \/ params'[r] = params[r] \cup {[name |-> NextField(r).name, documents |-> D]}
    BY KeepParams
  <1>2. CASE (\E p \in params[r] : p.name = NextField(r).name) /\ params'[r] = params[r]
    BY <1>2, NamedSame
  <1>3. CASE params'[r] = params[r] \cup {[name |-> NextField(r).name, documents |-> D]}
    <2>1. PICK new : /\ new = [name |-> NextField(r).name, documents |-> D]
                     /\ params'[r] = params[r] \cup {new}
      BY <1>3
    <2>2. new.documents = D
      BY <2>1
    <2>3. Named(r)' = Named(r) \cup D
      BY <2>1, <2>2 DEF Named
    <2> QED
      BY <2>3
  <1> QED
    BY <1>1, <1>2, <1>3

LEMMA KeepKept ==
    ASSUME Values, Values', NEW r \in Requests, NEW D, Keep(r, D), call' = call, Kept(r),
           NextField(r).file => D = {<<r, read[r] + 1>>}
    PROVE  Kept(r)'
  <1> DEFINE k == read[r] + 1
             fields == call[r].fields
  <1>1. read[r] \in Nat /\ read'[r] = k /\ NextField(r) = fields[k] /\ k \in Nat
    BY KeepParams, CallType DEF NextField
  <1>2. \A j \in 1..read[r] : j \in 1..(k - 1) /\ j \in 1..k
    BY <1>1
  <1>3. \A i \in 1..k : i \in 1..read[r] \/ i = k
    BY <1>1
  <1>4. ASSUME NEW p \in params'[r] PROVE \E j \in 1..k : fields[j].name = p.name
    <2>1. k \in 1..k
      BY <1>1
    <2>2. p \in params[r] \/ p.name = fields[k].name
      BY <1>1, KeepParams
    <2> QED
      BY <1>2, <2>1, <2>2 DEF Kept
  <1>5. ASSUME NEW i \in 1..k, fields[i].file
        PROVE  <<r, i>> \in Named(r)' \/ \E j \in 1..(i - 1) : fields[j].name = fields[i].name
    <2>1. CASE i \in 1..read[r]
      BY <1>5, <2>1, KeepNamed DEF Kept
    <2>2. CASE i = k
      <3>1. CASE \E p \in params[r] : p.name = fields[k].name
        <4>1. PICK p \in params[r] : p.name = fields[k].name
          BY <3>1
        <4>2. PICK j \in 1..read[r] : fields[j].name = p.name
          BY DEF Kept
        <4> QED
          BY <1>2, <2>2, <4>1, <4>2
      <3>2. CASE D \subseteq Named(r)'
        BY <1>1, <1>5, <2>2, <3>2
      <3> QED
        BY <1>1, <3>1, <3>2, KeepNamed
    <2> QED
      BY <1>3, <2>1, <2>2
  <1> HIDE DEF k
  <1> QED
    BY <1>1, <1>4, <1>5 DEF Kept

LEMMA KeepSourced ==
    ASSUME Values, Values', NEW r \in Requests, NEW D, Keep(r, D), Elsewhere(r), Sourced(r),
           \A d \in D : d \in Documents(r)' \/ \E q \in Requests : Past(q)' /\ d \in Documents(q)'
    PROVE  Sourced(r)'
  <1>1. ASSUME NEW d \in Named(r)'
        PROVE  d \in Documents(r)' \/ \E p \in Requests : Past(p)' /\ d \in Documents(p)'
    <2>1. CASE d \in D
      BY <2>1
    <2>2. CASE d \in Documents(r)
      BY <2>2, DocumentsMonotone
    <2>3. ASSUME NEW p \in Requests, Past(p), d \in Documents(p)
          PROVE  Past(p)' /\ d \in Documents(p)'
      BY <2>3, DocumentsMonotone, PastStays
    <2> QED
      BY <2>1, <2>2, <2>3, KeepNamed DEF Sourced
  <1> QED
    BY <1>1 DEF Sourced

(* The documents a client has been told of are of requests that parsed.    *)
LEMMA ToldSource ==
    ASSUME Inv, NEW d \in Told
    PROVE  \E q \in Requests : Past(q) /\ d \in Documents(q)
  <1>1. PICK q \in Requests : /\ at[q] = "service" \/ outcome[q] = "served"
                              /\ d \in Documents(q)
    BY DEF Told
  <1>2. Checked(q)
    BY DEF Inv, Sound
  <1>3. Past(q)
    BY <1>1, <1>2 DEF Checked, Past, Routed, Busy
  <1> QED
    BY <1>1, <1>3

LEMMA DocumentsNext ==
    ASSUME Values, Values', NEW r \in Requests, call' = call, read'[r] = read[r] + 1,
           NEW d \in Documents(r)'
    PROVE  d \in Documents(r) \/ (d = <<r, read[r] + 1>> /\ NextField(r).file)
  <1>1. PICK i \in 1..read'[r] : call[r].fields[i].file /\ d = <<r, i>>
    BY DEF Documents
  <1>2. read[r] \in Nat
    BY DEF Values
  <1>3. i \in 1..read[r] \/ i = read[r] + 1
    BY <1>2
  <1> QED
    BY <1>1, <1>3 DEF Documents, NextField

LEMMA ReceiveSound ==
    ASSUME Inv, Values', NEW r \in Requests, Receive(r)
    PROVE  Sound(r)'
  <1>0. /\ Values /\ Sound(r) /\ (\A p \in Requests : Checked(p)) /\ Elsewhere(r)
        /\ at[r] = "form" /\ UNCHANGED <<call, outcome, mail>>
    BY ReceiveElsewhere DEF Inv, Sound, Receive, SaveFile, KeepText, Parsed, form
  <1>1. mail[r] = "none" /\ outcome[r] = "none"
    BY <1>0 DEF Sound, Mailed, Past, Checked
  <1>2. Mailed(r)'
    BY <1>0, <1>1 DEF Mailed
  <1>3. at'[r] \in {"form", "task"}
    BY <1>0 DEF Receive, SaveFile, KeepText, Parsed, Goto, Values
  <1>4. Checked(r)'
    BY <1>0, <1>1, <1>3 DEF Checked, Routed, Busy
  <1>5. (outcome[r] = "failed" => Named(r) \cap disk = {})'
    BY <1>0, <1>1
  <1>6. CASE SaveFile(r)
    <2> DEFINE d0 == <<r, read[r] + 1>>
               D == {d0}
    <2>1. /\ Keep(r, D) /\ NextField(r).file
          /\ (errcode' = errcode /\ d0 \in disk') \/ r \in errcode'
      BY <1>6 DEF SaveFile
    <2>2. read[r] \in Nat /\ read'[r] = read[r] + 1
      BY <1>0, <2>1, KeepParams, CallType
    <2>3. d0 \in Documents(r)'
      <3>1. read'[r] \in 1..read'[r]
        BY <2>2
      <3> QED
        BY <1>0, <2>1, <2>2, <3>1 DEF Documents, NextField
    <2>4. Sourced(r)'
      BY <1>0, <2>1, <2>3, KeepSourced DEF Sound
    <2>5. Kept(r)'
      BY <1>0, <2>1, KeepKept DEF Sound
    <2>6. ASSUME r \notin errcode', NEW d \in Documents(r)'
          PROVE  d \in disk' \/ Doomed(d)'
      <3>1. CASE d \in Documents(r)
        BY <1>0, <2>1, <2>6, <3>1, DocumentsHeld DEF Sound, Stored
      <3>2. CASE d = d0
        BY <2>1, <2>6, <3>2
      <3> QED
        BY <1>0, <2>2, <3>1, <3>2, DocumentsNext
    <2> QED
      BY <1>2, <1>4, <1>5, <2>4, <2>5, <2>6 DEF Sound, Stored
  <1>7. CASE KeepText(r)
    <2>1. PICK D \in {{}} \cup {{d} : d \in Told} : Keep(r, D)
      BY <1>7 DEF KeepText
    <2>2. ~NextField(r).file /\ errcode' = errcode /\ disk' = disk
      BY <1>7 DEF KeepText
    <2>3. ASSUME NEW d \in D
          PROVE  \E q \in Requests : Past(q)' /\ d \in Documents(q)'
      <3>1. PICK q \in Requests : Past(q) /\ d \in Documents(q)
        BY <2>1, ToldSource
      <3>2. Past(q)' /\ d \in Documents(q)'
        BY <1>0, <3>1, PastStays, DocumentsMonotone
      <3> QED
        BY <3>2
    <2>4. Sourced(r)'
      BY <1>0, <2>1, <2>3, KeepSourced DEF Sound
    <2>5. Kept(r)'
      BY <1>0, <2>1, <2>2, KeepKept DEF Sound
    <2>6. ASSUME r \notin errcode', NEW d \in Documents(r)'
          PROVE  d \in disk' \/ Doomed(d)'
      <3>1. read'[r] = read[r] + 1
        BY <1>0, <2>1, KeepParams
      <3>2. d \in Documents(r)
        BY <1>0, <2>2, <3>1, DocumentsNext
      <3> QED
        BY <1>0, <2>2, <2>6, <3>2, DocumentsHeld DEF Sound, Stored
    <2> QED
      BY <1>2, <1>4, <1>5, <2>4, <2>5, <2>6 DEF Sound, Stored
  <1>8. CASE Parsed(r)
    <2>1. /\ read' = read /\ params' = params /\ disk' = disk
          /\ r \notin errcode' => r \notin errcode
      BY <1>8 DEF Parsed, form
    <2>2. Sourced(r)' /\ Kept(r)'
      BY <1>0, <2>1, SourcedStays, KeptStays DEF Sound
    <2>3. Documents(r)' = Documents(r)
      BY <1>0, <2>1 DEF Documents
    <2>4. ASSUME r \notin errcode', NEW d \in Documents(r)'
          PROVE  d \in disk' \/ Doomed(d)'
      BY <1>0, <2>1, <2>3, <2>4, DocumentsHeld DEF Sound, Stored
    <2> QED
      BY <1>2, <1>4, <1>5, <2>2, <2>4 DEF Sound, Stored
  <1> QED
    BY <1>6, <1>7, <1>8 DEF Receive

LEMMA DispatchSound ==
    ASSUME Inv, Values', NEW r \in Requests, Dispatch(r), Elsewhere(r)
    PROVE  Sound(r)'
  <1>0. /\ Values /\ Checked(r) /\ at[r] = "task" /\ call' = call
        /\ UNCHANGED <<form, errcode, user, mail>>
    BY DEF Inv, Sound, Dispatch, Malformed, TurnAway, Diagnose, Enqueue, form
  <1>1. CASE Malformed(r)
    <2>1. at'[r] = "done" /\ outcome'[r] = "failed" /\ DeleteBlobs(r)
      BY <1>0, <1>1 DEF Malformed, End, Goto, Values
    <2>2. Rest(r)'
      BY <1>0, <2>1, LaterRest
    <2> QED
      BY <2>1, <2>2 DEF Sound, Rest, Checked, Routed, Busy
  <1>2. CASE TurnAway(r) \/ Diagnose(r)
    <2>1. /\ at'[r] = "done" /\ r \notin errcode
          /\ outcome'[r] \in {"served", "turned away"}
      <3>1. End(r, "turned away") \/ End(r, "served")
        BY <1>2 DEF TurnAway, Diagnose
      <3>2. r \notin errcode
        BY <1>2 DEF TurnAway, Diagnose
      <3> QED
        BY <1>0, <3>1, <3>2 DEF End, Goto, Values
    <2>2. Rest(r)'
      BY <1>0, <2>1, LaterRest
    <2> QED
      BY <1>0, <2>1, <2>2 DEF Sound, Rest, Checked, Routed, Busy
  <1>3. CASE Enqueue(r)
    <2>1. /\ at'[r] = "queued" /\ disk' = disk /\ outcome' = outcome
          /\ r \notin errcode /\ call[r].allowed /\ Target(r) \in Apis
      BY <1>0, <1>3 DEF Enqueue, Goto, Values
    <2>2. Rest(r)'
      BY <1>0, <2>1, LaterRest
    <2> QED
      BY <1>0, <2>1, <2>2 DEF Sound, Rest, Checked, Routed, Busy, Target
  <1> QED
    BY <1>1, <1>2, <1>3 DEF Dispatch

LEMMA ProcessSound ==
    ASSUME Inv, Values', NEW r \in Requests, Process(r), Elsewhere(r)
    PROVE  Sound(r)'
  <1>0. /\ Values /\ Checked(r) /\ call' = call /\ Target(r)' = Target(r) /\ mail' = mail
    BY DEF Inv, Sound, Process, Take, SendOptions, EnforceVerb, EnforceRules, CheckToken,
           CheckRoles, SaveAuditTrail, Pass, Refuse, Target, form
  <1>1. CASE Take(r)
    <2>1. /\ at[r] = "queued" /\ at'[r] = "process"
          /\ UNCHANGED <<form, errcode, disk, outcome>>
      BY <1>0, <1>1 DEF Take, Goto, Values
    <2>2. Rest(r)'
      BY <1>0, <2>1, LaterRest
    <2> QED
      BY <1>0, <2>1, <2>2 DEF Sound, Rest, Checked, Routed, Busy
  <1>2. CASE SendOptions(r)
    <2>1. /\ at[r] = "process" /\ at'[r] = "done" /\ outcome'[r] = "served"
          /\ UNCHANGED <<form, errcode>>
      BY <1>0, <1>2 DEF SendOptions, End, Goto, Values
    <2>2. Rest(r)'
      BY <1>0, <2>1, LaterRest
    <2> QED
      BY <1>0, <2>1, <2>2 DEF Sound, Rest, Checked, Routed, Busy
  <1>3. CASE EnforceVerb(r)
    <2>1. CASE call[r].method = "POST" <=> Target(r) \in Post
      <3>1. Pass(r, "rules") /\ at[r] = "process" /\ call[r].method # "OPTIONS"
        BY <1>3, <2>1 DEF EnforceVerb
      <3>2. Rest(r)' /\ at'[r] = "rules" /\ UNCHANGED <<errcode, outcome>>
        BY <1>0, <3>1, PassRest DEF Busy
      <3> QED
        BY <1>0, <2>1, <3>1, <3>2, CallType DEF Sound, Rest, Checked, Routed, Busy
    <2>2. CASE ~(call[r].method = "POST" <=> Target(r) \in Post)
      BY <1>0, <1>3, <2>2, RefuseSound DEF EnforceVerb
    <2> QED
      BY <2>1, <2>2
  <1>4. CASE EnforceRules(r)
    <2>1. CASE call[r].obeys
      <3> DEFINE place == IF Target(r) \in Secure THEN "login" ELSE "service"
      <3>1. Pass(r, place) /\ at[r] = "rules"
        BY <1>4, <2>1 DEF EnforceRules
      <3>2. Rest(r)' /\ at'[r] = place /\ UNCHANGED <<errcode, outcome>>
        BY <1>0, <3>1, PassRest DEF Busy
      <3> QED
        BY <1>0, <2>1, <3>1, <3>2 DEF Sound, Rest, Checked, Routed, Busy
    <2>2. CASE ~call[r].obeys
      BY <1>0, <1>4, <2>2, RefuseSound DEF EnforceRules
    <2> QED
      BY <2>1, <2>2
  <1>5. CASE CheckToken(r)
    <2>1. CASE call[r].token = "good" /\ r \notin expired
      <3>1. /\ at[r] = "login" /\ at'[r] = "roles" /\ r \in user'
            /\ UNCHANGED <<form, errcode, disk, outcome>>
        <4>1. /\ at[r] = "login" /\ Goto(r, "roles") /\ user' = user \cup {r}
              /\ UNCHANGED <<form, errcode, disk, outcome>>
          BY <1>5, <2>1 DEF CheckToken
        <4> QED
          BY <1>0, <4>1 DEF Goto, Values
      <3>2. Rest(r)'
        BY <1>0, <3>1, LaterRest
      <3> QED
        BY <1>0, <2>1, <3>1, <3>2 DEF Sound, Rest, Checked, Routed, Busy
    <2>2. CASE ~(call[r].token = "good" /\ r \notin expired)
      BY <1>0, <1>5, <2>2, RefuseSound DEF CheckToken
    <2> QED
      BY <2>1, <2>2
  <1>6. CASE CheckRoles(r)
    <2>1. CASE Suffices(r)
      <3> DEFINE place == IF EnableAudit THEN "audit" ELSE "service"
      <3>1. Pass(r, place) /\ at[r] = "roles"
        BY <1>6, <2>1 DEF CheckRoles
      <3>2. /\ Rest(r)' /\ at'[r] = place /\ UNCHANGED <<errcode, outcome, user>>
            /\ Suffices(r)'
        BY <1>0, <2>1, <3>1, PassRest DEF Busy
      <3> QED
        BY <1>0, <3>1, <3>2 DEF Sound, Rest, Checked, Routed, Busy
    <2>2. CASE ~Suffices(r)
      BY <1>0, <1>6, <2>2, RefuseSound DEF CheckRoles
    <2> QED
      BY <2>1, <2>2
  <1>7. CASE SaveAuditTrail(r)
    <2>1. Pass(r, "service") /\ at[r] = "audit"
      BY <1>7 DEF SaveAuditTrail
    <2>2. /\ Rest(r)' /\ at'[r] = "service" /\ UNCHANGED <<errcode, outcome, user>>
          /\ Suffices(r)' = Suffices(r)
      BY <1>0, <2>1, PassRest DEF Busy
    <2> QED
      BY <1>0, <2>1, <2>2 DEF Sound, Rest, Checked, Routed, Busy
  <1> QED
    BY <1>1, <1>2, <1>3, <1>4, <1>5, <1>6, <1>7 DEF Process

LEMMA HandleSound ==
    ASSUME Inv, Values', NEW r \in Requests, Handle(r), Elsewhere(r)
    PROVE  Sound(r)'
  <1>0. /\ Values /\ Checked(r) /\ at[r] = "service" /\ call' = call
        /\ Target(r)' = Target(r) /\ Suffices(r)' = Suffices(r)
    BY DEF Inv, Sound, Handle, SetBody, SendMail, Fail, FailUnnoticed, Serve, Refuse, request,
           form, Target, Suffices
  <1>1. r \notin errcode
    BY <1>0 DEF Checked, Routed, Busy
  <1>2. CASE SetBody(r)
    <2>1. UNCHANGED <<form, at, errcode, user, outcome, disk, mail>>
      BY <1>2 DEF SetBody
    <2>2. Rest(r)'
      BY <1>0, <2>1, LaterRest
    <2> QED
      BY <1>0, <2>1, <2>2 DEF Sound, Rest, Checked
  <1>3. CASE SendMail(r)
    <2>1. CASE mail' = [mail EXCEPT ![r] = "queued"] /\ UNCHANGED request
      <3>1. mail'[r] = "queued" /\ UNCHANGED <<form, at, errcode, user, outcome, disk>>
        BY <1>0, <2>1 DEF Values, request
      <3>2. Rest(r)'
        BY <1>0, <1>1, <3>1, LaterRest DEF Checked
      <3> QED
        BY <1>0, <3>1, <3>2 DEF Sound, Rest, Checked
    <2>2. CASE Refuse(r, "404") /\ UNCHANGED mail
      BY <1>0, <2>2, RefuseSound
    <2> QED
      BY <1>3, <2>1, <2>2 DEF SendMail
  <1>4. CASE Fail(r)
    BY <1>0, <1>4, RefuseSound DEF Fail
  <1>5. CASE FailUnnoticed(r) \/ Serve(r)
    <2>1. /\ at'[r] = "done" /\ outcome'[r] \in {"unnoticed", "served"}
          /\ UNCHANGED <<form, errcode, disk, mail>>
      BY <1>0, <1>5 DEF FailUnnoticed, Serve, End, Goto, Values
    <2>2. Rest(r)'
      BY <1>0, <2>1, LaterRest
    <2> QED
      BY <1>1, <2>1, <2>2 DEF Sound, Rest, Checked, Routed, Busy
  <1> QED
    BY <1>2, <1>3, <1>4, <1>5 DEF Handle

(* A mail task misses a document only when the document is doomed: the     *)
(* request that saved it had parsed, so the document had been there.       *)
LEMMA DeliverSound ==
    ASSUME Inv, Values', NEW r \in Requests, Deliver(r), Elsewhere(r)
    PROVE  Sound(r)'
  <1>0. Values /\ Sound(r) /\ \A q \in Requests : Sound(q) /\ Checked(q)
    BY DEF Inv, Sound
  <1>1. /\ UNCHANGED <<form, call, at, errcode, user, outcome, disk>>
        /\ Target(r)' = Target(r) /\ Suffices(r)' = Suffices(r)
        /\ mail[r] = "queued"
        /\ mail'[r] = IF Named(r) \subseteq disk THEN "sent" ELSE "incomplete"
    BY <1>0 DEF Deliver, Values, request, form, Target, Suffices
  <1>2. Past(r) /\ r \notin errcode /\ at[r] # "form"
    BY <1>0, <1>1 DEF Sound, Mailed, Past
  <1>3. Checked(r)'
    BY <1>0, <1>1 DEF Checked
  <1>4. CASE Named(r) \subseteq disk
    <2>1. Rest(r)'
      BY <1>0, <1>1, <1>2, <1>4, LaterRest DEF Sound, Stored
    <2> QED
      BY <1>3, <2>1 DEF Sound, Rest
  <1>5. CASE ~(Named(r) \subseteq disk)
    <2>1. PICK d \in Named(r) : d \notin disk
      BY <1>5
    <2>2. \E q \in Requests : Past(q) /\ d \in Documents(q)
      BY <1>0, <1>2, <2>1 DEF Sound, Sourced
    <2>3. Doomed(d)
      BY <1>0, <2>1, <2>2 DEF Sound, Stored, Past
    <2>4. d \in Named(r)' /\ Doomed(d)'
      BY <1>0, <2>1, <2>3, NamedMonotone, DoomedStays
    <2>5. Mailed(r)'
      BY <1>1, <1>2, <2>4, PastStays DEF Mailed
    <2>6. Sourced(r)' /\ Kept(r)'
      BY <1>0, <1>1, SourcedStays, KeptStays DEF Sound, form
    <2>7. Named(r)' = Named(r) /\ Documents(r)' = Documents(r)
      BY <1>1, NamedSame DEF Documents, form
    <2>8. ASSUME r \notin errcode', NEW x \in Documents(r)'
          PROVE  x \in disk' \/ Doomed(x)'
      BY <1>0, <1>1, <2>7, <2>8, DocumentsHeld DEF Sound, Stored
    <2>9. Stored(r)'
      BY <1>0, <1>1, <2>7, <2>8 DEF Sound, Stored
    <2> QED
      BY <1>3, <2>5, <2>6, <2>9 DEF Sound
  <1> QED
    BY <1>4, <1>5

LEMMA StepSound ==
    ASSUME Inv, Values', NEW r \in Requests, Step(r)
    PROVE  Sound(r)'
  <1>0. Elsewhere(r) /\ Values /\ Sound(r)
    BY StepElsewhere DEF Inv
  <1>1. CASE Expire(r) \/ SaveRecord(r)
    <2>1. /\ UNCHANGED <<call, at, read, params, errcode, user, outcome, disk, mail>>
      BY <1>1 DEF Expire, SaveRecord, request, form
    <2>2. /\ Named(r)' = Named(r) /\ Documents(r)' = Documents(r)
          /\ Target(r)' = Target(r) /\ Suffices(r)' = Suffices(r)
      BY <2>1, NamedSame DEF Documents, Target, Suffices
    <2>3. Sourced(r)' /\ Kept(r)'
      BY <1>0, <2>1, SourcedStays, KeptStays DEF Sound
    <2>4. \A d : Doomed(d)' <=> Doomed(d)
      BY <2>1 DEF Doomed, Named
    <2>5. Stored(r)' /\ Mailed(r)'
      BY <1>0, <2>1, <2>2, <2>4 DEF Sound, Stored, Mailed, Past
    <2>6. Checked(r)'
      BY <1>0, <2>1, <2>2 DEF Sound, Checked
    <2> QED
      BY <2>3, <2>5, <2>6 DEF Sound
  <1> QED
    BY <1>0, <1>1, ReceiveSound, DispatchSound, ProcessSound, HandleSound, DeliverSound
       DEF Step

-----------------------------------------------------------------------------
LEMMA InitInv == Init => Inv
  <1> SUFFICES ASSUME Init PROVE Inv
    OBVIOUS
  <1>1. Values
    BY Known DEF Init, Values
  <1>2. ASSUME NEW r \in Requests PROVE Sound(r)
    <2>1. /\ read[r] = 0 /\ params[r] = {} /\ at[r] = "form" /\ outcome[r] = "none"
          /\ mail[r] = "none"
      BY DEF Init
    <2>2. Named(r) = {} /\ Documents(r) = {}
      BY <2>1 DEF Named, Documents
    <2>3. Checked(r) /\ Mailed(r)
      BY <2>1 DEF Checked, Mailed, Routed, Busy
    <2>4. Sourced(r) /\ Kept(r) /\ Stored(r)
      BY <2>1, <2>2 DEF Sourced, Kept, Stored
    <2> QED
      BY <2>3, <2>4 DEF Sound
  <1> QED
    BY <1>1, <1>2 DEF Inv

LEMMA NextInv == Inv /\ [Next]_vars => Inv'
  <1> SUFFICES ASSUME Inv, [Next]_vars PROVE Inv'
    OBVIOUS
  <1>0. Values /\ Values'
    BY ValuesStep DEF Inv
  <1>1. ASSUME NEW r \in Requests, Step(r), NEW q \in Requests PROVE Sound(q)'
    <2>1. Elsewhere(r)
      BY <1>0, <1>1, StepElsewhere
    <2>2. CASE q = r
      BY <1>0, <1>1, <2>2, StepSound
    <2>3. CASE q # r
      BY <1>0, <2>1, <2>3, SoundElsewhere
    <2> QED
      BY <2>2, <2>3
  <1>2. ASSUME TakeRecord \/ UNCHANGED vars, NEW q \in Requests PROVE Sound(q)'
    <2>1. UNCHANGED <<call, at, read, params, errcode, user, outcome, disk, mail>>
      BY <1>2 DEF TakeRecord, vars, request, form
    <2>2. Named(q)' = Named(q)
      BY <2>1, NamedSame
    <2>3. \A p \in Requests : Documents(p)' = Documents(p)
      BY <2>1 DEF Documents
    <2>4. \A d : Doomed(d)' <=> Doomed(d)
      BY <2>1 DEF Doomed, Named
    <2>5. Sound(q)
      BY DEF Inv
    <2>6. Checked(q)' /\ Kept(q)'
      BY <2>1, <2>5, KeptStays DEF Sound, Checked, Target, Suffices
    <2>7. Sourced(q)'
      BY <2>1, <2>2, <2>3, <2>5 DEF Sound, Sourced, Past
    <2>8. Stored(q)' /\ Mailed(q)'
      BY <2>1, <2>2, <2>3, <2>4, <2>5 DEF Sound, Stored, Mailed, Past
    <2> QED
      BY <2>6, <2>7, <2>8 DEF Sound
  <1> QED
    BY <1>0, <1>1, <1>2 DEF Inv, Next, Step, Quiet

LEMMA SpecInv == Spec => []Inv
  BY InitInv, NextInv, PTL DEF Spec

-----------------------------------------------------------------------------
(* The rest of the type invariant.                                         *)

Uploads ==
    /\ \A r \in Requests : read[r] <= Len(call[r].fields)
    /\ \A d \in disk : \E r \in Requests : d \in Documents(r)

Replied == \A r \in Requests : at[r] = "done" => answers[r] # <<>>

LEMMA ReadBound ==
    ASSUME Values, Values', NEW r \in Requests, Step(r), Uploads, NEW q \in Requests
    PROVE  read'[q] <= Len(call'[q].fields)
  <1>0. /\ read[q] <= Len(call[q].fields) /\ Elsewhere(r) /\ call' = call
        /\ \A p \in Requests \ {r} : read'[p] = read[p]
    BY StepElsewhere DEF Uploads, Elsewhere
  <1>1. CASE SaveFile(r) \/ KeepText(r)
    <2>1. (\E D : Keep(r, D)) /\ read[r] < Len(call[r].fields)
      BY <1>1 DEF SaveFile, KeepText
    <2>2. read'[r] = read[r] + 1 /\ read[r] \in Nat
      BY <2>1, KeepParams, CallType
    <2>3. Len(call[r].fields) \in Nat
      BY CallType
    <2> QED
      BY <1>0, <2>1, <2>2, <2>3
  <1>2. ASSUME ~SaveFile(r), ~KeepText(r) PROVE read' = read
    <2>1. CASE Receive(r) \/ Dispatch(r)
      BY <1>2, <2>1 DEF Receive, Parsed, Dispatch, Malformed, TurnAway, Diagnose, Enqueue, form
    <2>2. CASE Process(r)
      BY <2>2 DEF Process, Take, SendOptions, EnforceVerb, EnforceRules, CheckToken,
                  CheckRoles, SaveAuditTrail, Pass, Refuse, form
    <2>3. CASE Handle(r)
      BY <2>3 DEF Handle, SetBody, SendMail, Fail, FailUnnoticed, Serve, Refuse, request, form
    <2>4. CASE Expire(r) \/ Deliver(r) \/ SaveRecord(r)
      BY <2>4 DEF Expire, Deliver, SaveRecord, request, form
    <2> QED
      BY <2>1, <2>2, <2>3, <2>4 DEF Step
  <1> QED
    BY <1>0, <1>1, <1>2

(* A document that a step adds is of the file field the step deals with.   *)
LEMMA DiskAdds ==
    ASSUME Values, Values', NEW r \in Requests, Step(r), NEW d \in disk', d \notin disk
    PROVE  d \in Documents(r)'
  <1>1. CASE SaveFile(r)
    <2>1. /\ Keep(r, {<<r, read[r] + 1>>}) /\ NextField(r).file /\ call' = call
          /\ d = <<r, read[r] + 1>>
      BY <1>1 DEF SaveFile
    <2>2. read[r] \in Nat /\ read'[r] = read[r] + 1
      BY <2>1, KeepParams, CallType
    <2>3. read[r] + 1 \in 1..read'[r]
      BY <2>2
    <2> QED
      BY <2>1, <2>3 DEF Documents, NextField
  <1>2. ASSUME ~SaveFile(r) PROVE disk' \subseteq disk
    <2>1. CASE Receive(r) \/ Dispatch(r)
      BY <1>2, <2>1 DEF Receive, KeepText, Parsed, Dispatch, Malformed, TurnAway, Diagnose,
                        Enqueue, DeleteBlobs
    <2>2. CASE Process(r)
      BY <2>2 DEF Process, Take, SendOptions, EnforceVerb, EnforceRules, CheckToken,
                  CheckRoles, SaveAuditTrail, Pass, Refuse, DeleteBlobs
    <2>3. CASE Handle(r)
      BY <2>3 DEF Handle, SetBody, SendMail, Fail, FailUnnoticed, Serve, Refuse, request,
                  DeleteBlobs
    <2>4. CASE Expire(r) \/ Deliver(r) \/ SaveRecord(r)
      BY <2>4 DEF Expire, Deliver, SaveRecord, request
    <2> QED
      BY <2>1, <2>2, <2>3, <2>4 DEF Step
  <1> QED
    BY <1>1, <1>2

LEMMA UploadsStep ==
    ASSUME Values, Uploads, [Next]_vars
    PROVE  Uploads'
  <1>0. Values'
    BY ValuesStep
  <1>1. ASSUME NEW r \in Requests, Step(r)
        PROVE  Uploads'
    <2>1. \A q \in Requests : read'[q] <= Len(call'[q].fields)
      BY <1>0, <1>1, ReadBound
    <2>2. ASSUME NEW d \in disk' PROVE \E q \in Requests : d \in Documents(q)'
      <3>1. CASE d \in disk
        <4>1. PICK q \in Requests : d \in Documents(q)
          BY <3>1 DEF Uploads
        <4>2. d \in Documents(q)'
          BY <1>0, <1>1, <4>1, StepElsewhere, DocumentsMonotone
        <4> QED
          BY <4>2
      <3>2. CASE d \notin disk
        BY <1>0, <1>1, <3>2, DiskAdds
      <3> QED
        BY <3>1, <3>2
    <2> QED
      BY <2>1, <2>2 DEF Uploads
  <1>2. CASE TakeRecord \/ Quiet \/ UNCHANGED vars
    <2>1. UNCHANGED <<call, read, disk>>
      BY <1>2 DEF TakeRecord, Quiet, vars, request, form
    <2> QED
      BY <2>1 DEF Uploads, Documents
  <1> QED
    BY <1>1, <1>2 DEF Next, Step

LEMMA RepliedStep ==
    ASSUME Values, Replied, [Next]_vars
    PROVE  Replied'
  <1>0. /\ "200" \in Statuses /\ "INVALID" \in Statuses /\ "ERROR" \in Statuses
        /\ "204" \in Statuses /\ "400" \in Statuses /\ "401" \in Statuses
        /\ "403" \in Statuses /\ "404" \in Statuses /\ "405" \in Statuses
    BY DEF Statuses
  <1>1. ASSUME NEW r \in Requests, NEW status \in Statuses, Answer(r, status)
        PROVE  answers'[r] # <<>> /\ \A q \in Requests : q # r => answers'[q] = answers[q]
    <2>1. answers[r] \in Seq(Statuses) /\ answers'[r] = Append(answers[r], status)
      BY <1>1 DEF Answer, Values
    <2>2. Len(answers'[r]) = Len(answers[r]) + 1 /\ Len(answers[r]) \in Nat
      BY <2>1, <1>1
    <2>3. Len(<<>>) = 0
      OBVIOUS
    <2>4. answers'[r] # <<>>
      BY <2>2, <2>3
    <2>5. \A q \in Requests : q # r => answers'[q] = answers[q]
      BY <1>1 DEF Answer, Values
    <2> QED
      BY <2>4, <2>5
  <1>2. CASE /\ UNCHANGED answers
             /\ \A q \in Requests : at'[q] = "done" => at[q] = "done" \/ answers[q] # <<>>
    BY <1>2 DEF Replied
  <1>3. ASSUME NEW r \in Requests, NEW status \in Statuses, Answer(r, status),
               \A q \in Requests : q # r => at'[q] = at[q]
        PROVE  Replied'
    BY <1>1, <1>3 DEF Replied
  <1>4. ASSUME NEW r \in Requests, NEW status \in Statuses, Refuse(r, status)
        PROVE  Replied'
    BY <1>3, <1>4 DEF Refuse, End, Goto, Values
  <1>5. ASSUME NEW r \in Requests, NEW place, place # "done", Pass(r, place)
        PROVE  Replied'
    BY <1>2, <1>5 DEF Pass, Goto, Values
  <1>6. ASSUME NEW r \in Requests, Receive(r) \/ Dispatch(r)
        PROVE  Replied'
    <2>1. CASE Receive(r) \/ Enqueue(r)
      <3>1. UNCHANGED answers
        BY <2>1 DEF Receive, SaveFile, KeepText, Parsed, Enqueue
      <3>2. UNCHANGED at \/ Goto(r, "task") \/ Goto(r, "queued")
        BY <2>1 DEF Receive, SaveFile, KeepText, Parsed, Enqueue
      <3>3. \A q \in Requests : at'[q] = "done" => at[q] = "done"
        BY <3>2 DEF Goto, Values
      <3> QED
        BY <1>2, <3>1, <3>3
    <2>2. CASE Malformed(r)
      <3>1. Answer(r, "400") /\ \A q \in Requests : q # r => at'[q] = at[q]
        BY <2>2 DEF Malformed, End, Goto, Values
      <3> QED
        BY <1>0, <1>3, <3>1
    <2>3. CASE TurnAway(r)
      <3>1. \A q \in Requests : q # r => at'[q] = at[q]
        BY <2>3 DEF TurnAway, End, Goto, Values
      <3>2. Answer(r, "403") \/ Answer(r, "404")
        BY <2>3 DEF TurnAway
      <3> QED
        BY <1>0, <1>3, <3>1, <3>2
    <2>4. CASE Diagnose(r)
      BY <1>0, <1>3, <2>4 DEF Diagnose, End, Goto, Values
    <2> QED
      BY <1>6, <2>1, <2>2, <2>3, <2>4 DEF Dispatch
  <1>7. ASSUME NEW r \in Requests, Process(r)
        PROVE  Replied'
    <2>1. CASE Take(r)
      BY <1>2, <2>1 DEF Take, Goto, Values
    <2>2. CASE SendOptions(r)
      BY <1>0, <1>3, <2>2 DEF SendOptions, End, Goto, Values
    <2>3. CASE EnforceVerb(r)
      BY <1>0, <1>4, <1>5, <2>3 DEF EnforceVerb
    <2>4. CASE EnforceRules(r)
      BY <1>0, <1>4, <1>5, <2>4 DEF EnforceRules
    <2>5. CASE CheckToken(r)
      BY <1>0, <1>2, <1>4, <2>5 DEF CheckToken, Goto, Values
    <2>6. CASE CheckRoles(r)
      BY <1>0, <1>4, <1>5, <2>6 DEF CheckRoles
    <2>7. CASE SaveAuditTrail(r)
      BY <1>5, <2>7 DEF SaveAuditTrail
    <2> QED
      BY <1>7, <2>1, <2>2, <2>3, <2>4, <2>5, <2>6, <2>7 DEF Process
  <1>8. ASSUME NEW r \in Requests, Handle(r)
        PROVE  Replied'
    <2>1. CASE SetBody(r)
      BY <1>0, <1>3, <2>1 DEF SetBody
    <2>2. CASE SendMail(r)
      BY <1>0, <1>2, <1>4, <2>2 DEF SendMail, request
    <2>3. CASE Fail(r)
      BY <1>0, <1>4, <2>3 DEF Fail
    <2>4. CASE FailUnnoticed(r)
      <3>1. Answer(r, "ERROR") /\ \A q \in Requests : q # r => at'[q] = at[q]
        BY <2>4 DEF FailUnnoticed, End, Goto, Values
      <3> QED
        BY <1>0, <1>3, <3>1
    <2>5. CASE Serve(r)
      BY <1>2, <2>5 DEF Serve, End, Goto, Values
    <2> QED
      BY <1>8, <2>1, <2>2, <2>3, <2>4, <2>5 DEF Handle
  <1>9. ASSUME NEW r \in Requests, Expire(r) \/ Deliver(r) \/ SaveRecord(r)
        PROVE  Replied'
    BY <1>2, <1>9 DEF Expire, Deliver, SaveRecord, request
  <1>10. CASE TakeRecord \/ Quiet \/ UNCHANGED vars
    BY <1>2, <1>10 DEF TakeRecord, Quiet, vars, request
  <1> QED
    BY <1>6, <1>7, <1>8, <1>9, <1>10 DEF Next

(* Every variable has its type, a document on disk belongs to a file field *)
(* that was dealt with, and a request that is done has an outcome and has  *)
(* been answered.                                                          *)
THEOREM ServiceTypeOK == Spec => []TypeOK
  <1>1. Init => Uploads /\ Replied
    <2> SUFFICES ASSUME Init PROVE Uploads /\ Replied
      OBVIOUS
    <2>1. \A r \in Requests : read[r] = 0 /\ at[r] = "form"
      BY DEF Init
    <2>2. \A r \in Requests : Len(call[r].fields) \in Nat
      BY InitInv, CallType DEF Inv
    <2>3. disk = {}
      BY DEF Init
    <2> QED
      BY <2>1, <2>2, <2>3 DEF Uploads, Replied
  <1>2. Inv /\ Uploads /\ Replied /\ [Next]_vars => Uploads' /\ Replied'
    BY UploadsStep, RepliedStep DEF Inv
  <1>3. Inv /\ Uploads /\ Replied => TypeOK
    BY DEF Inv, Sound, Checked, Uploads, Replied, TypeOK
  <1> QED
    BY <1>1, <1>2, <1>3, SpecInv, PTL DEF Spec

(* A handler runs only for a request that parsed, came from an allowed     *)
(* origin and passed the checks of its API, in any interleaving of any     *)
(* number of requests (run_async_task, execute_service, check_security).   *)
THEOREM AuthorizedAlways == Spec => []ServiceAuthorized
  <1>1. Inv => ServiceAuthorized
    BY DEF Inv, Sound, Checked, ServiceAuthorized, Routed, Busy
  <1> QED
    BY <1>1, SpecInv, PTL

(* The documents of a request that parsed are in /var/blobs until a failed *)
(* request that names them removes them; what a failed request names is    *)
(* gone, and of its own documents only those stay whose name was already   *)
(* taken (parse_form, delete_blobs, process_request, run_async_task).      *)
THEOREM DocumentsAlways == Spec => []DocumentsMatchOutcome
  <1>1. ASSUME Inv, TypeOK PROVE DocumentsMatchOutcome
    <2>1. ASSUME NEW r \in Requests, outcome[r] = "failed", NEW i \in 1..read[r],
                 <<r, i>> \in disk
          PROVE  \E j \in 1..(i - 1) : call[r].fields[j].name = call[r].fields[i].name
      <3>1. Stored(r) /\ Kept(r)
        BY <1>1 DEF Inv, Sound
      <3>2. PICK q \in Requests : <<r, i>> \in Documents(q)
        BY <1>1, <2>1 DEF TypeOK
      <3>3. call[r].fields[i].file
        BY <3>2 DEF Documents
      <3> QED
        BY <2>1, <3>1, <3>3 DEF Stored, Kept
    <2>2. \A r \in Requests : Stored(r)
      BY <1>1 DEF Inv, Sound
    <2> QED
      BY <2>1, <2>2 DEF Stored, DocumentsMatchOutcome
  <1> QED
    BY <1>1, SpecInv, ServiceTypeOK, PTL

(* A mail lacks a document only if a request that names it failed: its own *)
(* after sending the mail, or another (send_mail, delete_blobs,            *)
(* process_request).                                                       *)
THEOREM MailsAlways == Spec => []MailsAreComplete
  <1>1. Inv => MailsAreComplete
    BY DEF Inv, Sound, Mailed, MailsAreComplete
  <1> QED
    BY <1>1, SpecInv, PTL

-----------------------------------------------------------------------------
(* The audit trail.  How many times a request occurs in a queue, and what  *)
(* push and pop do to that.                                                *)

Waiting(s, r) == {n \in 1..Len(s) : s[n] = r}

LEMMA WaitingFinite ==
    ASSUME NEW S, NEW s \in Seq(S), NEW r
    PROVE  IsFiniteSet(Waiting(s, r)) /\ Cardinality(Waiting(s, r)) \in Nat
  <1>1. Len(s) \in Nat /\ IsFiniteSet(1..Len(s))
    BY FS_Interval
  <1>2. Waiting(s, r) \subseteq 1..Len(s)
    BY DEF Waiting
  <1>3. IsFiniteSet(Waiting(s, r))
    BY <1>1, <1>2, FS_Subset
  <1> QED
    BY <1>3, FS_CardinalityType

LEMMA WaitingPush ==
    ASSUME NEW S, NEW s \in Seq(S), NEW x \in S, NEW r
    PROVE  Cardinality(Waiting(Append(s, x), r)) =
               IF x = r THEN Cardinality(Waiting(s, r)) + 1 ELSE Cardinality(Waiting(s, r))
  <1> DEFINE t == Append(s, x)
             k == Len(s) + 1
  <1>1. /\ Len(s) \in Nat /\ Len(t) = k /\ t[k] = x
        /\ \A n \in 1..Len(s) : t[n] = s[n]
    OBVIOUS
  <1>2. 1..k = (1..Len(s)) \cup {k} /\ k \notin 1..Len(s)
    BY <1>1
  <1> HIDE DEF t, k
  <1>3. Waiting(t, r) = IF x = r THEN Waiting(s, r) \cup {k} ELSE Waiting(s, r)
    BY <1>1, <1>2 DEF Waiting
  <1>4. k \notin Waiting(s, r)
    BY <1>2 DEF Waiting
  <1>5. Cardinality(Waiting(s, r) \cup {k}) = Cardinality(Waiting(s, r)) + 1
    BY <1>4, WaitingFinite, FS_AddElement
  <1> QED
    BY <1>3, <1>5 DEF t

LEMMA WaitingPop ==
    ASSUME NEW S, NEW s \in Seq(S), s # <<>>, NEW r
    PROVE  Cardinality(Waiting(s, r)) =
               IF Head(s) = r THEN Cardinality(Waiting(Tail(s), r)) + 1
                              ELSE Cardinality(Waiting(Tail(s), r))
  <1> DEFINE t == Tail(s)
             A == Waiting(t, r)
             B == Waiting(s, r) \ {1}
             f == [n \in A |-> n + 1]
  <1>1. /\ Len(s) \in Nat /\ Len(s) >= 1 /\ t \in Seq(S) /\ Len(t) = Len(s) - 1
        /\ Head(s) = s[1] /\ \A n \in 1..Len(t) : t[n] = s[n + 1]
    OBVIOUS
  <1>2. A = {n \in 1..Len(t) : t[n] = r} /\ B = {n \in 1..Len(s) : s[n] = r} \ {1}
    BY DEF Waiting
  <1>3. IsFiniteSet(A) /\ IsFiniteSet(Waiting(s, r)) /\ Cardinality(Waiting(s, r)) \in Nat
    BY <1>1, WaitingFinite
  <1>4. 1 \in Waiting(s, r) <=> Head(s) = r
    BY <1>1 DEF Waiting
  <1> HIDE DEF t, A, B
  <1>5. \A n \in A : n \in Nat /\ n + 1 \in B
    BY <1>1, <1>2
  <1>6. \A m \in B : m - 1 \in A /\ m \in Nat /\ (m - 1) + 1 = m
    BY <1>1, <1>2
  <1>7. f \in [A -> B]
    BY <1>5
  <1>8. \A a, b \in A : f[a] = f[b] => a = b
    BY <1>5
  <1>9. \A m \in B : \E n \in A : f[n] = m
    BY <1>6
  <1> HIDE DEF f
  <1>10. f \in Bijection(A, B)
    BY <1>7, <1>8, <1>9 DEF Bijection, Injection, Surjection, IsInjective
  <1>11. Cardinality(B) = Cardinality(A)
    BY <1>3, <1>10, FS_Bijection DEF ExistsBijection
  <1>12. Cardinality(B) = IF Head(s) = r THEN Cardinality(Waiting(s, r)) - 1
                                         ELSE Cardinality(Waiting(s, r))
    BY <1>3, <1>4, FS_RemoveElement DEF B
  <1> QED
    BY <1>3, <1>11, <1>12 DEF A, t

(* The record of r is due once r has passed the checks of a secure API.    *)
(* Only a request that passed the login check of one has a user, and it    *)
(* goes through "audit" when the trail is enabled and only then.           *)
Due(r) == EnableAudit /\ Target(r) \in Secure /\ Handled(r)

Vetted(r) ==
    /\ r \in user => at[r] \in {"roles", "audit", "service", "done"} /\ Target(r) \in Secure
    /\ at[r] = "audit" => EnableAudit

(* The audit thread holds one record at a time.                            *)
Alone == \A p, q \in saving : p = q

Counted == \A r \in Requests : Records(r) = IF Due(r) THEN 1 ELSE 0

Trailed == Alone /\ (\A r \in Requests : Vetted(r)) /\ Counted

(* exec_sqlp saves a record at most once each time it is called.           *)
Tally == \A r \in Requests : saved[r] <= tried[r]

LEMMA Single ==
    ASSUME NEW T, NEW r
    PROVE  Cardinality(T \cap {r}) = IF r \in T THEN 1 ELSE 0
  <1>1. T \cap {r} = IF r \in T THEN {r} ELSE {}
    OBVIOUS
  <1> QED
    BY <1>1, FS_Singleton, FS_EmptySet

LEMMA RecordsAre ==
    ASSUME Values, NEW r \in Requests
    PROVE  /\ Records(r) = Cardinality(Waiting(trail, r))
                           + (IF r \in saving THEN 1 ELSE 0) + tried[r]
           /\ Cardinality(Waiting(trail, r)) \in Nat /\ tried[r] \in Nat
  <1>1. Records(r) = Cardinality(Waiting(trail, r)) + Cardinality(saving \cap {r})
                     + tried[r]
    BY DEF Records, Waiting
  <1>2. trail \in Seq(Requests) /\ tried[r] \in Nat
    BY DEF Values
  <1> QED
    BY <1>1, <1>2, Single, WaitingFinite

LEMMA RecordsAreNext ==
    ASSUME Values', NEW r \in Requests
    PROVE  /\ Records(r)' = Cardinality(Waiting(trail', r))
                            + (IF r \in saving' THEN 1 ELSE 0) + tried'[r]
           /\ Cardinality(Waiting(trail', r)) \in Nat /\ tried'[r] \in Nat
  <1>1. Records(r)' = Cardinality(Waiting(trail', r)) + Cardinality(saving' \cap {r})
                      + tried'[r]
    BY DEF Records, Waiting
  <1>2. trail' \in Seq(Requests) /\ tried'[r] \in Nat
    BY DEF Values
  <1> QED
    BY <1>1, <1>2, Single, WaitingFinite

(* A request that is refused had no user yet, or not the role, or was in   *)
(* its handler; a handler of a secure API only runs for a user that has    *)
(* it, so ending leaves the record due.                                    *)
LEMMA RefuseDue ==
    ASSUME Values, NEW r \in Requests, NEW status, Refuse(r, status), Vetted(r),
           at[r] \in {"process", "rules", "login", "service"}
             \/ (at[r] = "roles" /\ ~Suffices(r)),
           Sound(r)
    PROVE  Vetted(r)' /\ (Due(r)' <=> Due(r))
  <1>1. at'[r] = "done" /\ UNCHANGED <<call, user>>
    BY DEF Refuse, End, Goto, Values, form
  <1> QED
    BY <1>1 DEF Vetted, Due, Handled, Target, Suffices, Sound, Checked

LEMMA StepDue ==
    ASSUME Values, NEW r \in Requests, Sound(r), Vetted(r), Step(r), ~SaveAuditTrail(r)
    PROVE  Vetted(r)' /\ (Due(r)' <=> Due(r))
  <1>1. CASE Receive(r) \/ Dispatch(r) \/ Take(r) \/ SendOptions(r)
    <2>1. /\ at[r] \in {"form", "task", "queued", "process"}
          /\ at'[r] \in {"form", "task", "queued", "process", "done"}
          /\ UNCHANGED <<call, user>>
      BY <1>1 DEF Receive, SaveFile, KeepText, Parsed, Dispatch, Malformed, TurnAway, Diagnose,
                  Enqueue, Take, SendOptions, End, Goto, Values, form
    <2> QED
      BY <2>1 DEF Vetted, Due, Handled, Target, Suffices
  <1>2. CASE EnforceVerb(r)
    <2>1. at[r] = "process" /\ (Pass(r, "rules") \/ Refuse(r, "405"))
      BY <1>2 DEF EnforceVerb
    <2>2. CASE Pass(r, "rules")
      BY <2>1, <2>2 DEF Pass, Goto, Values, form, Vetted, Due, Handled, Target, Suffices
    <2> QED
      BY <2>1, <2>2, RefuseDue
  <1>3. CASE EnforceRules(r)
    <2> DEFINE place == IF Target(r) \in Secure THEN "login" ELSE "service"
    <2>1. at[r] = "rules" /\ (Pass(r, place) \/ Refuse(r, "INVALID"))
      BY <1>3 DEF EnforceRules
    <2>2. CASE Pass(r, place)
      <3>1. at'[r] = place /\ UNCHANGED <<call, user>>
        BY <2>2 DEF Pass, Goto, Values, form
      <3> QED
        BY <2>1, <3>1 DEF Vetted, Due, Handled, Target, Suffices
    <2> QED
      BY <2>1, <2>2, RefuseDue
  <1>4. CASE CheckToken(r)
    <2>1. CASE call[r].token = "good" /\ r \notin expired
      <3>1. /\ at[r] = "login" /\ at'[r] = "roles" /\ UNCHANGED call
            /\ Target(r) \in Secure
        <4>1. at[r] = "login" /\ Goto(r, "roles") /\ UNCHANGED form
          BY <1>4, <2>1 DEF CheckToken
        <4> QED
          BY <4>1 DEF Goto, Values, form, Sound, Checked
      <3> QED
        BY <3>1 DEF Vetted, Due, Handled, Target, Suffices
    <2>2. CASE ~(call[r].token = "good" /\ r \notin expired)
      BY <1>4, <2>2, RefuseDue DEF CheckToken
    <2> QED
      BY <2>1, <2>2
  <1>5. CASE CheckRoles(r)
    <2> DEFINE place == IF EnableAudit THEN "audit" ELSE "service"
    <2>1. CASE Suffices(r)
      <3>1. at[r] = "roles" /\ at'[r] = place /\ UNCHANGED <<call, user>>
        BY <1>5, <2>1 DEF CheckRoles, Pass, Goto, Values, form
      <3> QED
        BY <3>1 DEF Vetted, Due, Handled, Target, Suffices
    <2>2. CASE ~Suffices(r)
      BY <1>5, <2>2, RefuseDue DEF CheckRoles
    <2> QED
      BY <2>1, <2>2
  <1>6. CASE Handle(r)
    <2>1. CASE SetBody(r)
      BY <2>1 DEF SetBody, form, Vetted, Due, Handled, Target, Suffices
    <2>2. CASE SendMail(r)
      <3>1. at[r] = "service" /\ (UNCHANGED request \/ Refuse(r, "404"))
        BY <2>2 DEF SendMail
      <3>2. CASE UNCHANGED request
        BY <3>2 DEF request, form, Vetted, Due, Handled, Target, Suffices
      <3> QED
        BY <3>1, <3>2, RefuseDue
    <2>3. CASE Fail(r)
      BY <2>3, RefuseDue DEF Fail
    <2>4. CASE FailUnnoticed(r) \/ Serve(r)
      <3>1. at[r] = "service" /\ at'[r] = "done" /\ UNCHANGED <<call, user>>
        BY <2>4 DEF FailUnnoticed, Serve, End, Goto, Values, form
      <3> QED
        BY <3>1 DEF Vetted, Due, Handled, Target, Suffices, Sound, Checked
    <2> QED
      BY <1>6, <2>1, <2>2, <2>3, <2>4 DEF Handle
  <1>7. CASE Expire(r) \/ Deliver(r) \/ SaveRecord(r)
    BY <1>7 DEF Expire, Deliver, SaveRecord, request, form, Vetted, Due, Handled, Target, Suffices
  <1> QED
    BY <1>1, <1>2, <1>3, <1>4, <1>5, <1>6, <1>7 DEF Step, Process

(* Nor does a step for another request change what is due to q.            *)
LEMMA ElsewhereDue ==
    ASSUME NEW r, Elsewhere(r), call' = call, NEW q \in Requests \ {r}, Vetted(q)
    PROVE  Vetted(q)' /\ (Due(q)' <=> Due(q))
  BY DEF Elsewhere, Vetted, Due, Handled, Target, Suffices

(* Of the steps for a request, two touch the trail.                        *)
LEMMA StepAudit ==
    ASSUME NEW r, Step(r), ~SaveAuditTrail(r), ~SaveRecord(r)
    PROVE  UNCHANGED audit
  <1>1. CASE Receive(r) \/ Dispatch(r) \/ Expire(r) \/ Deliver(r)
    BY <1>1 DEF Receive, SaveFile, KeepText, Parsed, Dispatch, Malformed, TurnAway, Diagnose,
                Enqueue, Expire, Deliver
  <1>2. CASE Process(r)
    BY <1>2 DEF Process, Take, SendOptions, EnforceVerb, EnforceRules, CheckToken, CheckRoles
  <1>3. CASE Handle(r)
    BY <1>3 DEF Handle, SetBody, SendMail, Fail, FailUnnoticed, Serve
  <1> QED
    BY <1>1, <1>2, <1>3 DEF Step

(* save_audit_trail: the record becomes due and is pushed in one step.     *)
LEMMA SaveTrailed ==
    ASSUME Inv, Values', Trailed, NEW r \in Requests, SaveAuditTrail(r)
    PROVE  Trailed'
  <1>0. Values /\ Sound(r) /\ Vetted(r)
    BY DEF Inv, Trailed
  <1>1. Elsewhere(r) /\ call' = call
    BY <1>0, StepElsewhere DEF Step, Process, Elsewhere
  <1>2. /\ at[r] = "audit" /\ at'[r] = "service" /\ UNCHANGED <<saving, tried, user>>
        /\ trail' = Append(trail, r)
    BY <1>0 DEF SaveAuditTrail, Pass, Goto, Values
  <1>3. Vetted(r)' /\ ~Due(r) /\ Due(r)'
    BY <1>0, <1>1, <1>2 DEF Vetted, Due, Handled, Target, Suffices, Sound, Checked
  <1>4. ASSUME NEW q \in Requests
        PROVE  Cardinality(Waiting(trail', q)) =
                   IF r = q THEN Cardinality(Waiting(trail, q)) + 1
                            ELSE Cardinality(Waiting(trail, q))
    <2>1. trail \in Seq(Requests)
      BY <1>0 DEF Values
    <2> QED
      BY <1>2, <2>1, WaitingPush
  <1>5. ASSUME NEW q \in Requests
        PROVE  Vetted(q)' /\ (Records(q) = IF Due(q) THEN 1 ELSE 0)'
    <2>1. Records(q) = IF Due(q) THEN 1 ELSE 0
      BY DEF Trailed, Counted, Due
    <2>2. Records(q)' = Cardinality(Waiting(trail', q))
                        + (IF q \in saving' THEN 1 ELSE 0) + tried'[q]
      BY RecordsAreNext
    <2>3. Records(q)' = IF r = q THEN Records(q) + 1 ELSE Records(q)
      <3>1. /\ Records(q) = Cardinality(Waiting(trail, q))
                            + (IF q \in saving THEN 1 ELSE 0) + tried[q]
            /\ Cardinality(Waiting(trail, q)) \in Nat /\ tried[q] \in Nat
        BY <1>0, RecordsAre
      <3> QED
        BY <1>2, <1>4, <2>2, <3>1
    <2>4. CASE q = r
      BY <1>3, <2>1, <2>3, <2>4
    <2>5. CASE q # r
      <3>1. Vetted(q)' /\ (Due(q)' <=> Due(q))
        BY <1>1, <2>5, ElsewhereDue DEF Trailed
      <3> QED
        BY <2>1, <2>3, <2>5, <3>1
    <2> QED
      BY <2>4, <2>5
  <1>6. Alone'
    BY <1>2 DEF Alone, Trailed
  <1> QED
    BY <1>5, <1>6 DEF Trailed, Counted, Due

(* audit: the record moves from the queue to the thread, and from there to *)
(* the database or the log.                                                *)
LEMMA TakeRecordTrailed ==
    ASSUME Inv, Values', Trailed, TakeRecord
    PROVE  Trailed'
  <1>1. /\ trail \in Seq(Requests) /\ trail # <<>> /\ saving = {}
        /\ saving' = {Head(trail)} /\ trail' = Tail(trail)
        /\ UNCHANGED <<call, at, user, tried>>
    BY DEF Inv, Values, TakeRecord, request, form
  <1>2. ASSUME NEW q \in Requests
        PROVE  Vetted(q)' /\ (Records(q) = IF Due(q) THEN 1 ELSE 0)'
    <2>1. Cardinality(Waiting(trail, q)) =
              IF Head(trail) = q THEN Cardinality(Waiting(trail', q)) + 1
                                 ELSE Cardinality(Waiting(trail', q))
      BY <1>1, WaitingPop
    <2>2. /\ Records(q)' = Cardinality(Waiting(trail', q))
                           + (IF q \in saving' THEN 1 ELSE 0) + tried'[q]
          /\ Cardinality(Waiting(trail', q)) \in Nat
      BY RecordsAreNext
    <2>3. Records(q)' = Records(q)
      BY <1>1, <2>1, <2>2, RecordsAre, SMTT(30) DEF Inv
    <2>4. Vetted(q)' /\ (Due(q)' <=> Due(q))
      BY <1>1 DEF Trailed, Vetted, Due, Handled, Target, Suffices
    <2> QED
      BY <2>3, <2>4 DEF Trailed, Counted, Due
  <1> QED
    BY <1>1, <1>2 DEF Alone, Trailed, Counted, Due

LEMMA SaveRecordTrailed ==
    ASSUME Inv, Values', Trailed, NEW r \in Requests, SaveRecord(r)
    PROVE  Trailed'
  <1>1. /\ r \in saving /\ saving' = {} /\ trail' = trail /\ UNCHANGED <<call, at, user>>
        /\ \A p \in saving : p = r
    BY DEF SaveRecord, request, form, Trailed, Alone
  <1>2. ASSUME NEW q \in Requests
        PROVE  Vetted(q)' /\ (Records(q) = IF Due(q) THEN 1 ELSE 0)'
    <2>1. tried[q] \in Nat /\ tried'[q] = IF q = r THEN tried[q] + 1 ELSE tried[q]
      BY DEF Inv, Values, SaveRecord
    <2>2. /\ Records(q)' = Cardinality(Waiting(trail', q))
                           + (IF q \in saving' THEN 1 ELSE 0) + tried'[q]
          /\ Cardinality(Waiting(trail', q)) \in Nat
          /\ tried'[q] \in Nat
      BY RecordsAreNext
    <2>3. Records(q)' = Records(q)
      <3>1. /\ Records(q) = Cardinality(Waiting(trail, q))
                            + (IF q \in saving THEN 1 ELSE 0) + tried[q]
            /\ Cardinality(Waiting(trail, q)) \in Nat /\ tried[q] \in Nat
        BY RecordsAre DEF Inv
      <3>2. CASE q = r
        BY <1>1, <2>1, <2>2, <3>1, <3>2
      <3>3. CASE q # r
        BY <1>1, <2>1, <2>2, <3>1, <3>3
      <3> QED
        BY <3>2, <3>3
    <2>4. Vetted(q)' /\ (Due(q)' <=> Due(q))
      BY <1>1 DEF Trailed, Vetted, Due, Handled, Target, Suffices
    <2> QED
      BY <2>3, <2>4 DEF Trailed, Counted, Due
  <1> QED
    BY <1>1, <1>2 DEF Alone, Trailed, Counted, Due

LEMMA NextTrailed == Inv /\ Trailed /\ [Next]_vars => Trailed'
  <1> SUFFICES ASSUME Inv, Trailed, [Next]_vars PROVE Trailed'
    OBVIOUS
  <1>0. Values /\ Values'
    BY ValuesStep DEF Inv
  <1>1. ASSUME NEW r \in Requests, Step(r), ~SaveAuditTrail(r), ~SaveRecord(r)
        PROVE  Trailed'
    <2>1. UNCHANGED audit /\ Elsewhere(r) /\ call' = call
      BY <1>0, <1>1, StepAudit, StepElsewhere DEF Elsewhere
    <2>2. ASSUME NEW q \in Requests
          PROVE  Vetted(q)' /\ (Records(q) = IF Due(q) THEN 1 ELSE 0)'
      <3>1. Vetted(q)' /\ (Due(q)' <=> Due(q))
        <4>1. CASE q = r
          BY <1>0, <1>1, <4>1, StepDue DEF Inv, Trailed
        <4>2. CASE q # r
          BY <2>1, <4>2, ElsewhereDue DEF Trailed
        <4> QED
          BY <4>1, <4>2
      <3>2. Records(q)' = Records(q)
        BY <2>1 DEF Records, audit
      <3> QED
        BY <3>1, <3>2 DEF Trailed, Counted, Due
    <2> QED
      BY <2>1, <2>2 DEF Alone, Trailed, Counted, Due, audit
  <1>2. CASE UNCHANGED vars
    <2>1. UNCHANGED <<call, at, user, trail, saving, tried>>
      BY <1>2 DEF vars, request, form, audit
    <2>2. \A q \in Requests : Vetted(q)' = Vetted(q) /\ Due(q)' = Due(q)
      BY <2>1 DEF Vetted, Due, Handled, Target, Suffices
    <2>3. \A q \in Requests : Records(q)' = Records(q)
      BY <2>1 DEF Records
    <2> QED
      BY <2>1, <2>2, <2>3 DEF Trailed, Alone, Counted
  <1> QED
    BY <1>0, <1>1, <1>2, SaveTrailed, TakeRecordTrailed, SaveRecordTrailed
       DEF Next, Step, Quiet

LEMMA TallyStep ==
    ASSUME Values, Tally, [Next]_vars
    PROVE  Tally'
  <1>1. ASSUME NEW r \in Requests, SaveRecord(r) PROVE Tally'
    <2>1. /\ saved \in [Requests -> Nat] /\ tried \in [Requests -> Nat]
          /\ tried' = [tried EXCEPT ![r] = tried[r] + 1]
          /\ saved' = [saved EXCEPT ![r] = saved[r] + 1] \/ saved' = saved
      BY <1>1 DEF SaveRecord, Values
    <2>2. ASSUME NEW q \in Requests PROVE saved'[q] <= tried'[q]
      <3>1. /\ saved[q] \in Nat /\ tried[q] \in Nat /\ saved[q] <= tried[q]
            /\ tried'[q] = IF q = r THEN tried[q] + 1 ELSE tried[q]
            /\ saved'[q] = saved[q] \/ (q = r /\ saved'[q] = saved[q] + 1)
        BY <2>1 DEF Tally
      <3> QED
        BY <3>1
    <2> QED
      BY <2>2 DEF Tally
  <1>2. ASSUME NEW r \in Requests, Step(r), ~SaveRecord(r) PROVE UNCHANGED <<tried, saved>>
    <2>1. CASE SaveAuditTrail(r)
      BY <2>1 DEF SaveAuditTrail
    <2> QED
      BY <1>2, <2>1, StepAudit DEF audit
  <1>3. CASE TakeRecord \/ Quiet \/ UNCHANGED vars
    BY <1>3 DEF TakeRecord, Quiet, vars, audit, Tally
  <1> QED
    BY <1>1, <1>2, <1>3 DEF Next, Step, Tally

(* One audit record per request of a secure API that got through the       *)
(* checks, none of any other, wherever the record is by now                *)
(* (execute_service, save_audit_trail, audit, audit_task).                 *)
THEOREM AuditedAlways == Spec => []AuditedOnce
  <1>1. Init => Trailed
    <2> SUFFICES ASSUME Init PROVE Trailed
      OBVIOUS
    <2>0. Values
      BY InitInv DEF Inv
    <2>1. user = {} /\ saving = {} /\ trail = <<>>
      BY DEF Init
    <2>2. ASSUME NEW r \in Requests
          PROVE  Vetted(r) /\ ~Due(r) /\ Records(r) = 0
      <3>1. at[r] = "form" /\ tried[r] = 0
        BY DEF Init
      <3>2. Waiting(trail, r) = {}
        BY <2>1 DEF Waiting
      <3>3. Cardinality(Waiting(trail, r)) = 0
        BY <3>2, FS_EmptySet
      <3>4. Records(r) = Cardinality(Waiting(trail, r)) + (IF r \in saving THEN 1 ELSE 0)
                         + tried[r]
        BY <2>0, RecordsAre
      <3>5. Records(r) = 0
        BY <2>1, <3>1, <3>3, <3>4
      <3> QED
        BY <2>1, <3>1, <3>5 DEF Vetted, Due, Handled
    <2> QED
      BY <2>1, <2>2 DEF Trailed, Alone, Counted
  <1>2. Init => Tally
    BY DEF Init, Tally
  <1>3. Inv /\ Tally /\ [Next]_vars => Tally'
    BY TallyStep DEF Inv
  <1>4. Trailed /\ Tally => AuditedOnce
    BY DEF Trailed, Counted, Due, Tally, AuditedOnce
  <1> QED
    BY <1>1, <1>2, <1>3, <1>4, SpecInv, NextTrailed, PTL DEF Spec
=============================================================================
