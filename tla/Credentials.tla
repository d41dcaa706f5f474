----------------------------- MODULE Credentials -----------------------------
(***************************************************************************)
(* auth.rs: the credentials a client presents, an API key, a session and a *)
(* sign-in token, as they are printed, parsed and hashed, and where they   *)
(* are presented: an Authorization header (api/auth.rs), a cookie          *)
(* (web/session.rs), the sign-in form (web/mod.rs). Pure functions.        *)
(*                                                                         *)
(* A text is a sequence of characters; a prefix, a scheme and the name of  *)
(* the cookie count as one character each. A hash is its input.            *)
(***************************************************************************)
EXTENDS Integers, SequencesExt

CONSTANTS
    ID_BYTES, SECRET_BYTES,     \* of a token: 8 and 32
    Drawn,                      \* the random bytes that tokens are made of
    Presented                   \* what clients present as credentials

ASSUME CredentialsAssumption ==
    /\ ID_BYTES \in Nat \ {0} /\ SECRET_BYTES \in Nat \ {0}
    /\ Drawn \subseteq [1..(ID_BYTES + SECRET_BYTES) -> 0..255]
    /\ Presented \subseteq Seq(STRING)

\* The first place of c in s, 0 if it has none.
find(s, c) ==
    LET at == {i \in 1..Len(s) : s[i] = c} IN IF at = {} THEN 0 ELSE Min(at)
trim(s) ==
    LET inked == {i \in 1..Len(s) : s[i] # " "}
    IN IF inked = {} THEN <<>> ELSE SubSeq(s, Min(inked), Max(inked))

Token == [prefix |-> <<"mpk_">>, domain |-> <<"api-key">>]
SessionToken == [prefix |-> <<"mps_">>, domain |-> <<"session">>]
LoginToken == [prefix |-> <<"mpl_">>, domain |-> <<"login-token">>]

Failed(reason) == [failed |-> reason]
HasFailed(result) == "failed" \in DOMAIN result

-----------------------------------------------------------------------------
(* Hexadecimal.                                                            *)

Digits == <<"0", "1", "2", "3", "4", "5", "6", "7", "8", "9", "a", "b", "c", "d", "e", "f">>
hex(bytes) ==
    [i \in 1..2 * Len(bytes) |->
        LET b == bytes[(i + 1) \div 2]
        IN Digits[1 + (IF i % 2 = 1 THEN b \div 16 ELSE b % 16)]]

\* Mutation of nibble: capital letters are digits too, as to from_str_radix.
nibble_of_radix(c) == find(Digits, IF c = "A" THEN "a" ELSE c) - 1
\* -1 for what is no digit
nibble(c) == find(Digits, c) - 1

\* <<>> for what are not n bytes
unhex(n, s) ==
    IF Len(s) # 2 * n \/ \E i \in 1..Len(s) : nibble(s[i]) = -1 THEN <<>>
    ELSE [i \in 1..n |-> 16 * nibble(s[2 * i - 1]) + nibble(s[2 * i])]

-----------------------------------------------------------------------------
(* The three kinds.                                                        *)

from_random(bytes) ==
    [id |-> hex(SubSeq(bytes, 1, ID_BYTES)),
     secret |-> SubSeq(bytes, ID_BYTES + 1, ID_BYTES + SECRET_BYTES)]
to_secret_string(kind, token) == kind.prefix \o (token.id \o <<".">> \o hex(token.secret))
\* Mutation of secret_hash: the secret alone.
secret_hash_bare(kind, token) == token.secret
secret_hash(kind, token) == kind.domain \o token.secret

\* What is before the first c and what is after it.
split_once(s, c) ==
    IF find(s, c) = 0 THEN <<>>
    ELSE <<SubSeq(s, 1, find(s, c) - 1), SubSeq(s, find(s, c) + 1, Len(s))>>

\* The first thing wrong with it is named.
parse_halves(raw, prefix) ==
    LET halves == split_once(Tail(raw), ".")
    IN IF ~IsPrefix(prefix, raw) THEN Failed("MissingPrefix")
       ELSE IF halves = <<>> THEN Failed("NotTwoParts")
       ELSE IF unhex(ID_BYTES, halves[1]) = <<>> THEN Failed("BadId")
       ELSE IF unhex(SECRET_BYTES, halves[2]) = <<>> THEN Failed("BadSecret")
       ELSE [id |-> halves[1], secret |-> unhex(SECRET_BYTES, halves[2])]

parse(raw) == parse_halves(raw, Token.prefix)
parse_session(raw) == parse_halves(raw, SessionToken.prefix)
parse_login_token(raw) == parse_halves(trim(raw), LoginToken.prefix)

from_authorization(value) ==
    LET parts == split_once(value, " ")
    IN IF parts = <<>> THEN Failed("NotBearer")
       ELSE IF parts[1] \notin {<<"Bearer">>, <<"bearer">>} THEN Failed("NotBearer")
       ELSE parse(trim(parts[2]))

-----------------------------------------------------------------------------
(* Where they are presented. A header is [is, text]: absent, not text, or  *)
(* a text; that of a Cookie header is the texts between its ";". What is   *)
(* read of a table is <<rows>>, [hash, expires] by id, or <<>> if it could *)
(* not be read. A key does not expire.                                     *)

\* The first pair of that name, its value as it stands.
cookie_value(pairs, name) ==
    LET Named(p) == "=" \in ToSet(p) /\ trim(split_once(p, "=")[1]) = name
        at == SelectInSeq(pairs, Named)
    IN IF at = 0 THEN <<>> ELSE <<split_once(pairs[at], "=")[2]>>

\* A table that cannot be read says nothing against a token.
Compared(kind, token, table) ==
    IF HasFailed(token) THEN token
    ELSE IF table = <<>> THEN Failed("Unavailable")
    ELSE IF token.id \notin DOMAIN table[1] THEN Failed("UnknownId")
    ELSE IF secret_hash(kind, token) # table[1][token.id].hash THEN Failed("WrongSecret")
    ELSE [valid |-> token.id]
\* Expiry is looked at last.
ComparedLive(kind, token, table, now) ==
    LET found == Compared(kind, token, table)
    IN IF ~HasFailed(found) /\ table[1][found.valid].expires <= now THEN Failed("Expired")
       ELSE found

evaluate_key(header, table) ==
    CASE header.is = "absent" -> Failed("Absent")
      [] header.is = "notText" -> Failed("NotText")
      [] header.is = "text" -> Compared(Token, from_authorization(header.text), table)

evaluate_session(header, table, now) ==
    LET value == cookie_value(header.text, <<"mp_session">>)
    IN IF header.is = "notText" THEN Failed("NotText")
       ELSE IF header.is = "absent" \/ value = <<>> THEN Failed("Absent")
       ELSE ComparedLive(SessionToken, parse_session(value[1]), table, now)

\* The sign-in form; redeem has the comparison.
evaluate_form(field, table, now) ==
    ComparedLive(LoginToken, parse_login_token(field), table, now)

-----------------------------------------------------------------------------
(* What the models that know a credential by its row's id rely on.         *)

Kinds == {Token, SessionToken, LoginToken}
Tokens == {from_random(bytes) : bytes \in Drawn}
Printed == {to_secret_string(kind, t) : kind \in Kinds, t \in Tokens}

Header(text) == [is |-> "text", text |-> text]
Evaluated(kind, text, table, now) ==
    CASE kind = Token -> evaluate_key(Header(<<"bearer", " ">> \o text), table)
      [] kind = SessionToken ->
            evaluate_session(
                Header(<<<<"other">>, <<" ", "mp_session", "=">> \o text>>), table, now)
      [] kind = LoginToken -> evaluate_form(text, table, now)
Meant(kind, text) == IF kind = SessionToken THEN text ELSE trim(text)

\* A row made for a token of one kind, put into the table of any kind.
Row(issued, t, expires) == <<[id \in {t.id} |-> [hash |-> secret_hash(issued, t), expires |-> expires]]>>
OneKey ==
    \A kind, issued \in Kinds, t \in Tokens, text \in Printed \cup Presented :
        Evaluated(kind, text, Row(issued, t, 2), 1) = [valid |-> t.id]
            <=> kind = issued /\ Meant(kind, text) = to_secret_string(kind, t)
LastMoment ==
    \A kind \in Kinds, t \in Tokens, now \in 1..3 :
        LET shown == to_secret_string(kind, t)
        IN /\ Evaluated(kind, shown, Row(kind, t, 2), now) = [valid |-> t.id]
                <=> kind = Token \/ now < 2
           /\ Evaluated(kind, shown, <<>>, now) = Failed("Unavailable")
=============================================================================
