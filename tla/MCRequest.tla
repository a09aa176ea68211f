------------------------------ MODULE MCRequest ------------------------------
(* Instances of Request for TLC.  One API under two verbs, with a required *)
(* text, an optional number whose name begins like it, and a date.         *)
EXTENDS Request

Rule(name, type, required) == [name |-> name, type |-> type, required |-> required]

TheRules == <<Rule(<<"a">>, "STRING", TRUE), Rule(<<"a", "b">>, "INTEGER", FALSE),
              Rule(<<"d">>, "DATE", FALSE)>>

Api(verb, secure) ==
    [verb |-> verb, rules |-> TheRules, secure |-> secure,
     sql |-> << <<"run ">>, <<"$", "a">>, <<",">>, <<"$", "a", "b">>, <<",">>,
                <<"$", "d">>, <<",">>, <<"$", "userlogin">> >>]

Find == <<"/", "find">>
Add  == <<"/", "add">>

TheCatalog == (Find :> Api("GET", FALSE)) @@ (Add :> Api("POST", TRUE))

TheOrigins == {"https://here"}

\* Symbols that occur in tokens, with bytes that fill all their bits.
TheCode == ("{" :> 123) @@ ("}" :> 125) @@ ("\"" :> 34) @@ ("0" :> 48) @@ ("1" :> 49)
        @@ ("2" :> 50) @@ ("3" :> 51) @@ ("4" :> 52) @@ ("5" :> 53)
        @@ ("'" :> 39) @@ ("\\" :> 92) @@ ("u" :> 1) @@ ("v" :> 255) @@ ("w" :> 171) @@ ("s" :> 195)

\* Some function of the message, two bytes long.
Checksum(b) ==
    LET sum[i \in 0 .. Len(b)] == IF i = 0 THEN 7 ELSE (sum[i - 1] * 31 + b[i]) % 65521
    IN <<sum[Len(b)] \div 256, sum[Len(b)] % 256>>

User(login, mail) == [sid |-> <<"s">>, login |-> login, mail |-> mail, roles |-> <<>>]
Uma  == User(<<"u">>, <<"v", "w">>)
Vera == User(<<"v", "'">>, <<"w">>)
Walt == User(<<"w">>, <<"v">>)

Text(name, value)  == [name |-> name, value |-> value, type |-> "scalar", filename |-> <<>>]
Json(name, type)   == [name |-> name, value |-> <<"j">>, type |-> type, filename |-> <<>>]
File(name, filename, value) ==
    [name |-> name, value |-> value, type |-> "file", filename |-> filename]

A(value) == Text(<<"a">>, value)
B(value) == Text(<<"a", "b">>, value)
D(value) == Text(<<"d">>, value)

Asks(method, path, encoding, user, fields) ==
    [method |-> method, path |-> path, encoding |-> encoding, fields |-> fields,
     origin |-> "none", user |-> user, issued |-> 0, defect |-> "none", extra |-> 0]

Query(fields) == Asks("GET", Find, "query", Nobody, fields)
JsonOf(user, fields) == Asks("POST", Add, "json", user, fields)
Form(user, fields) == Asks("POST", Add, "form", user, fields)

Date == <<"2024", "-", "02", "-", "29">>

\* The same fields in each encoding.
Entries == { <<A(<<"x", "'">>), B(<<"4", "2">>), D(Date)>>,
             <<A(<<" ", "<", "%", " ">>), D(<<>>)>>,
             <<B(<<"7">>), A(<<"'">>), A(<<"y">>)>>,
             <<A(<<"&", "=", "%">>), B(<<"x">>)>>,
             <<A(<<"$", "a">>), B(<<"-", "2", "1", "4", "7", "4", "8", "3", "6", "4", "8">>)>>,
             <<A(<<"$", "userlogin">>), B(<<"2", "1", "4", "7", "4", "8", "3", "6", "4", "8">>)>>,
             <<B(<<"7">>)>> }

SameInEach == UNION {{Query(f), JsonOf(Uma, f), Form(Vera, f)} : f \in Entries}

Sample == <<A(<<"x">>)>>

\* What each encoding has of its own.
Special == {
    JsonOf(Walt, Sample \o <<Json(<<"n">>, "null"), Json(<<"o">>, "object")>>),
    Form(Walt, <<A(<<"x", "\r\n", "y">>), D(Date)>>),
    JsonOf(Walt, <<A(<<"x", "\r\n", "y">>), D(Date)>>),
    Form(Walt, Sample \o <<File(<<"f">>, <<"n">>, <<"x", "--", "\r\n", "\r\n", "y">>)>>),
    Form(Uma, <<File(<<"f">>, <<"n">>, <<"x", "\r\n">>), File(<<"g">>, <<"m">>, <<"y">>)>>),
    Form(Uma, Sample \o <<File(<<"f">>, <<>>, <<>>)>>),
    Form(Uma, <<>>) }

\* What stops a request, and what is beside its point.
Faulty ==
    {[Query(Sample) EXCEPT !.defect = d] : d \in {"line", "method", "header"}} \cup
    {[JsonOf(Uma, Sample) EXCEPT !.defect = d] :
        d \in {"length", "number", "type", "json"}} \cup
    {[Form(Uma, Sample) EXCEPT !.defect = "boundary"],
     [Query(Sample) EXCEPT !.defect = "twice", !.origin = "https://here"],
     [Query(Sample) EXCEPT !.origin = "https://there"],
     [Query(Sample) EXCEPT !.origin = "https://here", !.path = <<"/", "ping">>],
     [Query(Sample) EXCEPT !.path = <<"/", "nowhere">>],
     [Query(Sample) EXCEPT !.path = Add],
     [Query(Sample) EXCEPT !.path = <<"http:">> \o Find],
     [Query(Sample) EXCEPT !.path = <<"http:", "/", "/", "host">> \o Find],
     [JsonOf(Uma, Sample) EXCEPT !.defect = "scheme"],
     Asks("OPTIONS", Find, "none", Nobody, <<>>),
     Asks("OPTIONS", <<"*">>, "none", Nobody, <<>>),
     [JsonOf(Uma, Sample) EXCEPT !.extra = 1],
     JsonOf(Nobody, Sample)}

\* Every short value, every short file, every short login.
Values == {<<A(v)>> : v \in BoundedSeq({"x", "'", "<", " ", "%", "&", "=", "$"}, 2)}
Files  == {<<File(<<"f">>, <<"n">>, v)>> : v \in BoundedSeq({"x", "--", "\r\n"}, 3)}
Logins == {User(l, <<"v">>) : l \in BoundedSeq({"u", "v", "'", "\\"}, 3) \ {<<>>}}

Short == {Query(f) : f \in Values} \cup {Form(Uma, f) : f \in Values \cup Files}
            \cup {JsonOf(u, Sample) : u \in Logins}

ManyClients == SameInEach \cup Special \cup Faulty \cup Short

\* A price that is the name of another field.
Priced == {Query(<<A(<<"x", "$", "d">>), D(Date)>>)}
=============================================================================
