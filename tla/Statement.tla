----------------------------- MODULE Statement -----------------------------
(***************************************************************************)
(* From the parameters of a request to the statement a service runs: the   *)
(* input rules (enforce, test_field) and the markers of a statement        *)
(* (get_sql).  A rule is a record of a name, a type and whether the field  *)
(* is required.                                                            *)
(***************************************************************************)
EXTENDS Text

FieldTypes == {"INTEGER", "DOUBLE", "STRING", "DATE"}

Digits == {"0", "1", "2", "3", "4", "5", "6", "7", "8", "9"}

IsNumber(t) == t # <<>> /\ \A i \in DOMAIN t : t[i] \in Digits

(* yyyy-mm-dd: year, month and day are one symbol each, and what stands    *)
(* between them is not looked at.                                          *)
Days == {"2024", "02", "29"}
IsDate(t) == Len(t) = 5 /\ \A i \in {1, 3, 5} : t[i] \in Days

(* from_chars: a minus sign, then digits, of an int of 32 bits or of a     *)
(* double with at most one point.                                          *)
Unsigned(t) == IF t # <<>> /\ t[1] = "-" THEN Tail(t) ELSE t

IntMax == <<"2", "1", "4", "7", "4", "8", "3", "6", "4">>

(* Numerals as long as IntMax with its last digit, or shorter, are an int  *)
(* when they are not above it; zeros in front do not count.                *)
DigitOf(x) == CHOOSE n \in 0 .. 9 : ToString(n) = x

InRange(t, last) ==
    LET first == Min({i \in DOMAIN t : t[i] # "0"} \cup {Len(t) + 1})
        n     == SubSeq(t, first, Len(t))
        limit == IntMax \o <<last>>
    IN \/ Len(n) < Len(limit) \/ n = limit
       \/ /\ Len(n) = Len(limit)
          /\ \E i \in DOMAIN n : /\ SubSeq(n, 1, i - 1) = SubSeq(limit, 1, i - 1)
                                /\ DigitOf(n[i]) < DigitOf(limit[i])

IsInteger(t) == /\ IsNumber(Unsigned(t))
                /\ InRange(Unsigned(t), IF t[1] = "-" THEN "8" ELSE "7")

IsDouble(t) == /\ IsNumber(Without(Unsigned(t), "."))
               /\ Cardinality({i \in DOMAIN t : t[i] = "."}) <= 1

Accepts(type, t) == CASE type = "INTEGER" -> IsInteger(t)
                      [] type = "DOUBLE"  -> IsDouble(t)
                      [] type = "DATE"    -> IsDate(t)
                      [] type = "STRING"  -> TRUE

(* What HTML has for the symbols it reads as tags.                         *)
Html == [x \in {"<", ">"} |-> IF x = "<" THEN <<"&lt;">> ELSE <<"&gt;">>]

\* Mutant of Escapes: quotes are left as they are.
EscapesNoQuotes == Html

(* replace_str does nothing when there is nothing to put in place, so that *)
(* the backslash stays.                                                    *)
Escapes == [x \in {"'"} \cup DOMAIN Html |-> IF x = "'" THEN <<"'", "'">> ELSE Html[x]]

Escape(type, t) == IF type = "STRING" THEN Rewrite(t, Escapes) ELSE t

ValueOf(params, name) == IF name \in DOMAIN params THEN params[name] ELSE <<>>

(* One turn of enforce: the value of every rule is in the map from then    *)
(* on, trimmed and escaped.  The first rule broken ends it.                *)
EnforceRule(acc, rule) ==
    LET value == Trim(ValueOf(acc.params, rule.name))
        obeys == IF value = <<>> THEN ~rule.required ELSE Accepts(rule.type, value)
    IN IF ~acc.ok THEN acc
       ELSE IF rule.required /\ rule.name \notin DOMAIN acc.params
         THEN [acc EXCEPT !.ok = FALSE]
       ELSE [ok |-> obeys,
             params |-> Put(acc.params, rule.name, Escape(rule.type, value))]

Enforce(rules, params) == FoldLeft(EnforceRule, [ok |-> TRUE, params |-> params], rules)

-----------------------------------------------------------------------------
(* get_sql.                                                                *)

Literal(t) == <<"'">> \o t \o <<"'">>

Marker(name) == <<"$">> \o name

Rendered(rule, value) == IF value = <<>> THEN <<"NULL">>
                         ELSE IF rule.type \in {"INTEGER", "DOUBLE"} THEN value
                         ELSE Literal(value)

GetSql(sql, rules, params, user) ==
    LET named == ReplaceFirst(ReplaceFirst(sql,
                     Marker(<<"userlogin">>), Literal(user.login)),
                     Marker(<<"sessionid">>), Literal(user.sid))
    IN IF rules = <<>> THEN sql
       ELSE FoldLeft(LAMBDA s, rule : ReplaceFirst(s, Marker(rule.name),
                                           Rendered(rule, params[rule.name])),
                     named, rules)

-----------------------------------------------------------------------------
(* What a database makes of a statement: its symbols one by one, a literal *)
(* being one item, with a doubled quote standing for a quote.              *)

Lexer == [mode |-> "out", text |-> <<>>, items |-> <<>>]

Bare(symbol)   == [kind |-> "bare", text |-> <<symbol>>]
Quoted(text)   == [kind |-> "literal", text |-> text]
Unended(text)  == [kind |-> "unended", text |-> text]

LexSymbol(l, x) ==
    CASE l.mode = "in" /\ x # "'"    -> [l EXCEPT !.text = Append(@, x)]
      [] l.mode = "in" /\ x = "'"    -> [l EXCEPT !.mode = "quote"]
      [] l.mode = "quote" /\ x = "'" -> [l EXCEPT !.mode = "in", !.text = Append(@, x)]
      [] l.mode = "quote" /\ x # "'" ->
            [mode |-> "out", text |-> <<>>,
             items |-> l.items \o <<Quoted(l.text), Bare(x)>>]
      [] l.mode = "out" /\ x = "'"   -> [l EXCEPT !.mode = "in"]
      [] l.mode = "out" /\ x # "'"   -> [l EXCEPT !.items = Append(@, Bare(x))]

Items(sql) ==
    LET l == FoldLeft(LexSymbol, Lexer, sql)
    IN l.items \o CASE l.mode = "out"   -> <<>>
                    [] l.mode = "quote" -> <<Quoted(l.text)>>
                    [] l.mode = "in"    -> <<Unended(l.text)>>
=============================================================================
