----------------------------- MODULE HttpParser -----------------------------
(***************************************************************************)
(* The parsers of httputils.cpp: the head of a request, its query string,  *)
(* its multipart form and, as far as get_map goes, its JSON body.          *)
(*                                                                         *)
(* A message is a sequence of units, the pieces a packet may be cut at:    *)
(*   kind "request"  the request line, a method and what follows its blank,*)
(*   kind "header"   a header line, its name and its value,                *)
(*   kind "broken"   a line that is neither,                               *)
(*   kind "end"      the blank line,                                       *)
(*   kind "text"     a symbol of a form,                                   *)
(*   kind "member"   a member of a JSON object; "close", its closing brace.*)
(***************************************************************************)
EXTENDS Text, RequestShape

Crlf  == "\r\n"
Quote == "\""

NotANumber == -1

NoHead == [err |-> FALSE, method |-> "none", target |-> <<>>, path |-> <<>>,
           start |-> 0, headers |-> {}, length |-> 0, type |-> "none",
           boundary |-> "none", token |-> <<>>, origin |-> "none"]

Failing(h) == [h EXCEPT !.err = TRUE]

-----------------------------------------------------------------------------
(* The head.                                                               *)

(* From d on, and up to it: the whole text when d is not there.            *)
From(t, d) == IF Occurs(t, d) = {} THEN t ELSE SubSeq(t, First(t, d), Len(t))
UpTo(t, d) == IF Occurs(t, d) = {} THEN t ELSE Before(t, d)

(* The target begins at the first slash of the line, be it the one of      *)
(* HTTP/1.1, and ends at the next blank.                                   *)
TargetIn(rest) == UpTo(From(rest, <<"/">>), <<Blank>>)

ParseUri(h, u) ==
    IF u.kind # "request" \/ u.method \notin Methods \/ Occurs(u.rest, <<"/">>) = {}
      THEN Failing(h)
      ELSE [h EXCEPT !.method = u.method, !.target = TargetIn(u.rest),
                     !.path = UpTo(TargetIn(u.rest), <<"?">>)]

\* Mutant of SetContentLength: what std::stoul throws is ignored.
SetContentLengthAnyhow(h, value) == [h EXCEPT !.length = value]

SetContentLength(h, value) ==
    IF value = NotANumber THEN Failing(h) ELSE [h EXCEPT !.length = value]

SetContentType(h, value) ==
    IF value.type = "multipart" /\ value.boundary = "none" THEN Failing(h)
    ELSE [h EXCEPT !.type = value.type, !.boundary = value.boundary]

SetToken(h, value) == IF value.scheme = "Bearer" THEN [h EXCEPT !.token = value.token] ELSE h

(* One turn of parse_headers: add_header, then validate_header.            *)
ParseHeader(h, u) ==
    IF h.err THEN h
    ELSE IF u.kind # "header" \/ u.name \in h.headers THEN Failing(h)
    ELSE LET g == [h EXCEPT !.headers = @ \cup {u.name}]
         IN CASE u.name = "content-length" -> SetContentLength(g, u.value)
              [] u.name = "content-type"   -> SetContentType(g, u.value)
              [] u.name = "authorization"  -> SetToken(g, u.value)
              [] u.name = "origin"         -> [g EXCEPT !.origin = u.value]
              [] OTHER                     -> g

(* The last checks of parse().                                             *)
CheckPost(h) ==
    IF /\ h.method = "POST"
       /\ h.length <= 0 \/ h.type \notin {"multipart", "json"}
      THEN Failing(h) ELSE h

(* parse(), on the units of the first packet.                              *)
ParseHead(units) ==
    LET end == SelectInSeq(units, LAMBDA u : u.kind = "end")
        h   == [ParseUri(NoHead, units[1]) EXCEPT !.start = end]
    IN IF end = 0 THEN Failing(NoHead)
       ELSE CheckPost(FoldLeft(ParseHeader, h, SubSeq(units, 2, end - 1)))

-----------------------------------------------------------------------------
(* The query string.                                                       *)

Hex == [c \in {"%", "&", "=", Blank, "'"} |->
          CASE c = "%" -> <<"2", "5">> [] c = "&" -> <<"2", "6">>
            [] c = "=" -> <<"3", "D">> [] c = Blank -> <<"2", "0">>
            [] c = "'" -> <<"2", "7">>]

CharOf(hex) == CHOOSE c \in DOMAIN Hex : Hex[c] = hex

\* Mutant of DecodeParam: off by one at the end of the text.
DecodeParamShort(t) ==
    LET decoded[i \in 1 .. Len(t) + 1] ==
          IF i > Len(t) THEN <<>>
          ELSE IF t[i] = "%" /\ i + 2 < Len(t)
                 THEN <<CharOf(SubSeq(t, i + 1, i + 2))>> \o decoded[i + 3]
          ELSE <<t[i]>> \o decoded[i + 1]
    IN decoded[1]

DecodeParam(t) ==
    LET decoded[i \in 1 .. Len(t) + 1] ==
          IF i > Len(t) THEN <<>>
          ELSE IF t[i] = "%" /\ i + 2 <= Len(t)
                 THEN <<CharOf(SubSeq(t, i + 1, i + 2))>> \o decoded[i + 3]
          ELSE <<t[i]>> \o decoded[i + 1]
    IN decoded[1]

ParseParam(params, word) ==
    IF Occurs(word, <<"=">>) = {} THEN params
    ELSE TryEmplace(params, Before(word, <<"=">>), DecodeParam(After(word, <<"=">>)))

ParseQueryString(target) ==
    IF Occurs(target, <<"?">>) = {} THEN NoEntries
    ELSE FoldLeft(ParseParam, NoEntries, Split(After(target, <<"?">>), <<"&">>))

-----------------------------------------------------------------------------
(* The multipart form.                                                     *)

(* parse_body: the parts between the delimiters, the last one without the  *)
(* closing delimiter.                                                      *)
ParseBody(body, boundary) ==
    LET delim    == <<"--", boundary, Crlf>>
        endDelim == <<"--", boundary, "--", Crlf>>
        cut(p)   == IF IsSuffix(endDelim, p) THEN Before(p, endDelim) ELSE p
        parts    == NonEmpty(Split(body, delim))
    IN [i \in DOMAIN parts |-> cut(parts[i])]

(* parse_part: its lines, the empty ones dropped.                          *)
ParsePart(part) == NonEmpty(Split(part, <<Crlf>>))

ExtractAttribute(line, name) ==
    IF Occurs(line, <<name>>) = {} THEN <<>>
    ELSE LET rest == After(line, <<name>>)
         IN IF Occurs(rest, <<Quote>>) = {} THEN <<>> ELSE Before(rest, <<Quote>>)

GetFormField(lines) ==
    LET filename == ExtractAttribute(lines[1], "filename=")
        isFile   == filename # <<>>
        content  == SubSeq(lines, IF isFile THEN 3 ELSE 2, Len(lines))
    IN [name     |-> ExtractAttribute(lines[1], "name="),
        filename |-> filename,
        type     |-> IF isFile THEN After(lines[2], <<"Content-Type: ">>) ELSE <<>>,
        data     |-> FlattenSeq([i \in DOMAIN content |->
                        content[i] \o (IF isFile THEN <<Crlf>> ELSE <<>>)])]

Uuid(i) == <<"uuid", ToString(i)>>

(* One turn of the loop of parse_form.  Each file is written under a name  *)
(* of its own; the writes that fail are in Service.                        *)
AddField(form, f) ==
    LET document == Uuid(Len(form.files) + 1)
        of(suffix) == f.name \o <<suffix>>
        p1 == TryEmplace(form.params, of(".content_len"), <<ToString(Len(f.data))>>)
        p2 == TryEmplace(p1, of(".content_type"), f.type)
        p3 == TryEmplace(p2, of(".document"), document)
        p4 == TryEmplace(p3, of(".filename"), f.filename)
    IN IF f.filename = <<>>
         THEN [form EXCEPT !.params = TryEmplace(@, f.name, f.data)]
         ELSE [form EXCEPT !.params = p4, !.files = Append(@, f.data)]

NoForm == [err |-> FALSE, params |-> NoEntries, files |-> <<>>]

(* parse_multipart reads every field before parse_form stores the first.   *)
ParseForm(body, boundary) ==
    LET parts == ParseBody(body, boundary)
    IN IF \E i \in DOMAIN parts : parts[i] = <<>>
         THEN [NoForm EXCEPT !.err = TRUE]
         ELSE FoldLeft(AddField, NoForm,
                       [i \in DOMAIN parts |-> GetFormField(ParsePart(parts[i]))])

-----------------------------------------------------------------------------
(* The JSON body.                                                          *)

(* json-c: a later member of the same name replaces the value.             *)
JsonObject(members) ==
    FoldLeft(LAMBDA object, u : Put(object, u.name, u), NoEntries, members)

(* get_map: the members that are neither null nor structured.              *)
GetMap(object) ==
    LET scalars == {n \in DOMAIN object : object[n].type = "scalar"}
    IN [n \in scalars |-> object[n].value]

ParseJson(body) ==
    IF Last(body).kind # "close" THEN [NoForm EXCEPT !.err = TRUE]
    ELSE [NoForm EXCEPT !.params = GetMap(JsonObject(Front(body)))]

-----------------------------------------------------------------------------
(* eof(), once the body is all there: a form or JSON, as parse() demands.  *)
ParsePayload(h, body) ==
    IF h.type = "multipart"
      THEN ParseForm([i \in DOMAIN body |-> body[i].text], h.boundary)
      ELSE ParseJson(body)
=============================================================================
