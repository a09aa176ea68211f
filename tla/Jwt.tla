--------------------------------- MODULE Jwt ---------------------------------
(***************************************************************************)
(* Tokens (jwt.cpp): base64url, the three parts of a token, its signature  *)
(* and its expiry.  A character of base64url is the six-bit number the     *)
(* alphabet gives it, the dot is Dot.  Hmac stands for OpenSSL's; nobody   *)
(* forges signatures here, so that any function of the message will do.    *)
(***************************************************************************)
EXTENDS Text

CONSTANTS Code,      \* the byte of each symbol
          Hmac(_),   \* the signature of a sequence of bytes, in bytes
          Duration,  \* jwt_config::duration
          MaxTime    \* bound: the last time a numeral is read as

ASSUME JwtAssumption == Duration \in Nat /\ MaxTime \in Nat

(* Symbols have bytes of their own, the ones of a token's JSON among them; *)
(* none is the NUL, at which json-c stops.                                 *)
ASSUME CodeAssumption ==
    /\ {"{", "}", "\""} \subseteq DOMAIN Code
    /\ \A x \in DOMAIN Code : Code[x] \in 1 .. 255
    /\ \A x, y \in DOMAIN Code : Code[x] = Code[y] => x = y

Bytes(t) == [i \in DOMAIN t |-> Code[t[i]]]
Symbols(bytes) == [i \in DOMAIN bytes |-> CHOOSE x \in DOMAIN Code : Code[x] = bytes[i]]

Dot == 64

-----------------------------------------------------------------------------
(* base64_encode_impl: three bytes make four characters, what is left of   *)
(* them two or three.                                                      *)

ByteAt(b, i) == IF i <= Len(b) THEN b[i] ELSE 0

EncodeGroup(b, i) ==
    LET n == ByteAt(b, i) * 65536 + ByteAt(b, i + 1) * 256 + ByteAt(b, i + 2)
        all == << n \div 262144, (n \div 4096) % 64, (n \div 64) % 64, n % 64 >>
    IN SubSeq(all, 1, 2 + Cardinality({i + 1, i + 2} \cap DOMAIN b))

Base64Encode(b) ==
    FlattenSeq([k \in 1 .. (Len(b) + 2) \div 3 |-> EncodeGroup(b, 3 * k - 2)])

(* base64_decode_impl: six bits in, eight bits out.  Bits above the ones   *)
(* still to be put out never are, and are dropped.                         *)
Collector == [buffer |-> 0, bits |-> 0, output |-> <<>>]

Collect(c, value) ==
    LET buffer == c.buffer * 64 + value
        bits   == c.bits + 6
    IN IF bits >= 8
         THEN [buffer |-> buffer % 2^(bits - 8), bits |-> bits - 8,
               output |-> Append(c.output, (buffer \div 2^(bits - 8)) % 256)]
         ELSE [c EXCEPT !.buffer = buffer, !.bits = bits]

IsBase64(t) == Len(t) % 4 # 1 /\ \A i \in DOMAIN t : t[i] \in 0 .. 63

(* std::nullopt leaves the part of the token empty.                        *)
Base64Decode(t) == IF IsBase64(t) THEN FoldLeft(Collect, Collector, t).output ELSE <<>>

-----------------------------------------------------------------------------
(* get_token and is_valid.  The payload is a JSON object of strings and of *)
(* exp; its text is the values with a quote between them.                  *)

Separator == "\""
Backslash == "\\"

JsonHeader == <<"{", "}">>

Numeral(n) == <<ToString(n)>>

Payload(user, exp) ==
    user.sid \o <<Separator>> \o user.login \o <<Separator>> \o user.mail
        \o <<Separator>> \o user.roles \o <<Separator>> \o Numeral(exp)

Sign(message) == Base64Encode(Hmac(message))

Message(user, exp) == Base64Encode(Bytes(JsonHeader)) \o <<Dot>>
                         \o Base64Encode(Bytes(Payload(user, exp)))

GetToken(user, now) ==
    LET message == Message(user, now + Duration)
    IN message \o <<Dot>> \o Sign(message)

(* parse(): the texts before the first dot, up to the second, and after.   *)
ParseToken(token) ==
    LET parts == Split(token, <<Dot>>)
    IN IF Len(parts) < 3
         THEN [header |-> <<>>, payload |-> <<>>, message |-> <<>>, signature |-> <<>>]
         ELSE [header    |-> Base64Decode(parts[1]),
               payload   |-> Base64Decode(parts[2]),
               message   |-> parts[1] \o <<Dot>> \o parts[2],
               signature |-> SubSeq(token, Len(parts[1]) + Len(parts[2]) + 3, Len(token))]

(* json-c: a quote ends a value unless a backslash escapes it, and another *)
(* escape than these is an error.  The escapes of character codes, \u, are *)
(* left out.                                                               *)
JsonEscapes ==
    [x \in {Separator, Backslash, "/", "b", "f", "n", "r", "t"} |->
        CASE x = Separator -> "quote"     [] x \in {Backslash, "/"} -> x
          [] x = "b"       -> "backspace" [] x = "f" -> "\f" [] x = "n" -> "\n"
          [] x = "r"       -> "\r"        [] x = "t" -> "\t"]

Tokener == [escape |-> FALSE, ok |-> TRUE, text |-> <<>>]

ReadSymbol(r, x) ==
    CASE r.escape /\ x \in DOMAIN JsonEscapes ->
            [r EXCEPT !.escape = FALSE, !.text = Append(@, JsonEscapes[x])]
      [] r.escape /\ x \notin DOMAIN JsonEscapes -> [r EXCEPT !.escape = FALSE, !.ok = FALSE]
      [] ~r.escape /\ x = Backslash -> [r EXCEPT !.escape = TRUE]
      [] ~r.escape /\ x # Backslash -> [r EXCEPT !.text = Append(@, x)]

Unescape(t) == FoldLeft(ReadSymbol, Tokener, t)

ReadFields(bytes) == Split(Unescape(Symbols(bytes)).text, <<Separator>>)

(* Whether parse_payload finds an object with a number under exp, or json  *)
(* or stol throws.                                                         *)
Readable(bytes) ==
    /\ Unescape(Symbols(bytes)).ok
    /\ Len(ReadFields(bytes)) = 5
    /\ \E n \in 0 .. MaxTime : Numeral(n) = ReadFields(bytes)[5]

ParseClaims(bytes) ==
    LET fields == ReadFields(bytes)
    IN [sid |-> fields[1], login |-> fields[2], mail |-> fields[3], roles |-> fields[4],
        exp |-> CHOOSE n \in 0 .. MaxTime : Numeral(n) = fields[5]]

Nobody == [sid |-> <<>>, login |-> <<>>, mail |-> <<>>, roles |-> <<>>]

Users(S) == [sid : Seq(S), login : Seq(S), mail : Seq(S), roles : Seq(S)]

(* What get_token writes as it is and json-c reads as it is: get_token     *)
(* escapes nothing.                                                        *)
Plain == DOMAIN Code \ {Separator, Backslash}

(* A user and a time that get_token makes a token of; a user of four empty *)
(* texts is nobody.                                                        *)
Written(user, exp) ==
    /\ user \in Users(DOMAIN Code) /\ user # Nobody
    /\ exp \in 0 .. MaxTime /\ ToString(exp) \in Plain
    /\ \A n \in 0 .. MaxTime : Numeral(n) = Numeral(exp) => n = exp
    /\ Hmac(Message(user, exp)) \in Seq(0 .. 255)

(* What a token can carry.                                                 *)
Carries(user, exp) == Written(user, exp) /\ user \in Users(Plain)

\* Mutant of Expired: a token is still good at the second it expires.
ExpiredLate(exp, now) == now > exp

Expired(exp, now) == now >= exp

Signed(t) == t.header # <<>> /\ t.payload # <<>> /\ t.signature = Sign(t.message)

(* Whether is_valid throws: the claims of a signed token cannot be read.   *)
Throws(token) == LET t == ParseToken(token) IN Signed(t) /\ ~Readable(t.payload)

(* The user a token is good for at time now, or nobody.                    *)
IsValid(token, now) ==
    LET t    == ParseToken(token)
        user == ParseClaims(t.payload)
    IN IF ~Signed(t) \/ ~Readable(t.payload) \/ Expired(user.exp, now) THEN Nobody
       ELSE [sid |-> user.sid, login |-> user.login, mail |-> user.mail, roles |-> user.roles]
=============================================================================
