------------------------------ MODULE Options ------------------------------
(***************************************************************************)
(* ConnectOptions::parse (src/src/options.rs): a connection URL is split   *)
(* into user, password and host, and the first two are percent-decoded.    *)
(* A text is a sequence of ASCII codes, with one symbol for the scheme.    *)
(* It starts as a URL somebody wrote for given credentials and a host, and *)
(* is edited a character at a time before it is parsed.                    *)
(***************************************************************************)
EXTENDS Integers, Sequences, Utf8

CONSTANTS
  Names,        \* users and passwords, as UTF-8 bytes
  Hosts,        \* hosts as written in the URL
  Typed,        \* characters that edits put into the text
  MaxEdits      \* bound: edits of the text

\* What the constants have to be.
OptionBounds == MaxEdits \in Nat

VARIABLES
  written,      \* what the URL was written for: [user, password, host]
  text,         \* the URL
  edits,        \* edits so far
  outcome       \* what parse returned

vars == <<written, text, edits, outcome>>

Scheme == -1
Percent == 37
Plus == 43
Slash == 47
Colon == 58
At == 64
Bracket == 91

\* ":3301", DEFAULT_PORT.
DefaultPort == <<Colon, 51, 51, 48, 49>>

\* An Option is the set of its value, or the empty set.
Unparsed == [kind |-> "unparsed", addr |-> <<>>, user |-> {}, password |-> {}]
UrlError == [kind |-> "url", addr |-> <<>>, user |-> {}, password |-> {}]

Has(t, c) == \E i \in 1 .. Len(t) : t[i] = c
Prefix(t, i) == SubSeq(t, 1, i - 1)
Rest(t, i) == SubSeq(t, i + 1, Len(t))

-----------------------------------------------------------------------------
(* External: what the standard library does for the code *)

\* char::to_digit(16).
HexDigit(c) == CASE c \in 48 .. 57 -> {c - 48}
                 [] c \in 65 .. 70 -> {c - 55}
                 [] c \in 97 .. 102 -> {c - 87}
                 [] OTHER -> {}

\* u8::from_str_radix(_, 16) of two characters: a sign may stand before a digit.
FromStrRadix(a, b) == IF a = Plus THEN HexDigit(b)
                      ELSE {16 * h + l : h \in HexDigit(a), l \in HexDigit(b)}

-----------------------------------------------------------------------------
(* The code *)

\* percent_decode: an escape is a percent sign and two characters that
\* from_str_radix takes; the bytes must be UTF-8.
PercentDecode(t) ==
  LET out[i \in 1 .. Len(t) + 3] ==
        IF i > Len(t) THEN {<<>>}
        ELSE IF t[i] = Percent
             THEN IF i + 2 > Len(t) THEN {}
                  ELSE {<<h>> \o more : h \in FromStrRadix(t[i + 1], t[i + 2]), more \in out[i + 3]}
             ELSE {<<t[i]>> \o more : more \in out[i + 1]}
  IN {b \in out[1] : IsUtf8(b)}

\* ConnectOptions::new: an address without a colon gets the default port.
New(host) == IF Has(host, Colon) THEN host ELSE host \o DefaultPort

\* The first and the last place of c in t.
First(t, c) == CHOOSE i \in 1 .. Len(t) : t[i] = c /\ \A k \in 1 .. i - 1 : t[k] # c
Last(t, c) == CHOOSE i \in 1 .. Len(t) : t[i] = c /\ \A k \in i + 1 .. Len(t) : t[k] # c

\* Mutant: the credentials end at the first at sign.
Split_FirstAt(rest) ==
  IF Has(rest, At)
  THEN [credentials |-> {Prefix(rest, First(rest, At))}, host |-> Rest(rest, First(rest, At))]
  ELSE [credentials |-> {}, host |-> rest]

\* rest.rsplit_once('@').
Split(rest) ==
  IF Has(rest, At)
  THEN [credentials |-> {Prefix(rest, Last(rest, At))}, host |-> Rest(rest, Last(rest, At))]
  ELSE [credentials |-> {}, host |-> rest]

\* credentials.split_once(':').
UserPart(c) == IF Has(c, Colon) THEN Prefix(c, First(c, Colon)) ELSE c
PasswordPart(c) == IF Has(c, Colon) THEN {Rest(c, First(c, Colon))} ELSE {}

\* ConnectOptions::parse.
Parsed(url) ==
  LET rest == IF url # <<>> /\ Head(url) = Scheme THEN Tail(url) ELSE url
      parts == Split(rest)
      user == UNION {PercentDecode(UserPart(c)) : c \in parts.credentials}
      raw == UNION {PasswordPart(c) : c \in parts.credentials}
      password == UNION {PercentDecode(p) : p \in raw}
  IN IF \/ parts.host = <<>>
        \/ Has(parts.host, Slash)
        \/ parts.credentials # {} /\ user = {}
        \/ raw # {} /\ password = {}
     THEN UrlError
     ELSE [kind |-> "ok", addr |-> New(parts.host), user |-> user, password |-> password]

-----------------------------------------------------------------------------

\* How a URL is written: everything but letters and digits is escaped.
HexOf(n) == IF n < 10 THEN 48 + n ELSE 55 + n
Escaped(name) ==
  LET out[i \in 1 .. Len(name) + 1] ==
        IF i > Len(name) THEN <<>>
        ELSE (IF name[i] \in 48 .. 57 \cup 97 .. 122 THEN <<name[i]>>
              ELSE <<Percent, HexOf(name[i] \div 16), HexOf(name[i] % 16)>>) \o out[i + 1]
  IN out[1]

Credentials(w) ==
  IF w.user = {} THEN <<>>
  ELSE LET user == CHOOSE u \in w.user : TRUE
           password == IF w.password = {} THEN <<>>
                       ELSE <<Colon>> \o Escaped(CHOOSE p \in w.password : TRUE)
       IN Escaped(user) \o password \o <<At>>

None == {{}}
Some == {{n} : n \in Names}

\* The type of every variable: user and password are Strings.
TypeOK ==
  /\ written \in [user : None \cup Some, password : None \cup Some, host : Hosts]
  /\ edits \in 0 .. MaxEdits
  /\ outcome.kind \in {"unparsed", "ok", "url"}
  /\ \A s \in outcome.user \cup outcome.password :
       IsUtf8(s) /\ \A i \in 1 .. Len(s) : s[i] \in 0 .. 255

Init ==
  /\ written \in [user : None \cup Some, password : None \cup Some, host : Hosts]
  /\ written.user = {} => written.password = {}
  /\ \E scheme \in {<<>>, <<Scheme>>} : text = scheme \o Credentials(written) \o written.host
  /\ edits = 0
  /\ outcome = Unparsed

\* A character is replaced, or left out.
Edit ==
  /\ outcome = Unparsed
  /\ edits < MaxEdits
  /\ \E i \in 1 .. Len(text) :
       /\ text[i] # Scheme
       /\ \E new \in {<<>>} \cup {<<c>> : c \in Typed} : text' = Prefix(text, i) \o new \o Rest(text, i)
  /\ edits' = edits + 1
  /\ UNCHANGED <<written, outcome>>

Parse ==
  /\ outcome = Unparsed
  /\ outcome' = Parsed(text)
  /\ UNCHANGED <<written, text, edits>>

Next == Edit \/ Parse

Spec == Init /\ [][Next]_vars

-----------------------------------------------------------------------------
(* Properties *)

Bare(t) == IF t # <<>> /\ Head(t) = Scheme THEN Tail(t) ELSE t

\* The ways to read t as [user[:password]@]host: a host without an at sign, a
\* user without a colon.
Readings(t) ==
  LET ats == {i \in 1 .. Len(t) : t[i] = At}
      colons(i) == {k \in 1 .. i - 1 : t[k] = Colon}
  IN (IF ats = {} THEN {[user |-> {}, password |-> {}, host |-> t]} ELSE {})
     \cup {[user |-> {Prefix(t, i)}, password |-> {}, host |-> Rest(t, i)] :
             i \in {n \in ats : ~ Has(Rest(t, n), At) /\ colons(n) = {}}}
     \cup {[user |-> {Prefix(t, pair[1])}, password |-> {SubSeq(t, pair[1] + 1, pair[2] - 1)},
            host |-> Rest(t, pair[2])] :
             pair \in {p \in (1 .. Len(t)) \X ats :
                         /\ p[1] \in colons(p[2])
                         /\ ~ Has(Prefix(t, p[1]), Colon)
                         /\ ~ Has(Rest(t, p[2]), At)}}

HasPort(host) == IF Head(host) = Bracket THEN \E i \in 2 .. Len(host) : host[i] = Colon /\ host[i - 1] = 93
                 ELSE Has(host, Colon)

\* A URL written for some credentials is parsed to them, whatever they contain,
\* and a host name without a port gets the default one.
WrittenIsRead ==
  (edits = 0 /\ outcome # Unparsed) =>
    /\ outcome.kind = "ok"
    /\ outcome.user = written.user
    /\ outcome.password = written.password
    /\ outcome.addr \in {written.host, written.host \o DefaultPort}
    /\ Head(written.host) # Bracket =>
         outcome.addr = IF HasPort(written.host) THEN written.host ELSE written.host \o DefaultPort

\* Any text has at most one reading, a text that is accepted is accepted by it,
\* and no part of the credentials ends up in the address: unescaped signs in a
\* password stay there.
OneReading ==
  outcome.kind = "ok" =>
    \E r \in Readings(Bare(text)) :
      /\ Readings(Bare(text)) = {r}
      /\ r.host # <<>> /\ ~ Has(r.host, Slash)
      /\ outcome.addr \in {r.host, r.host \o DefaultPort}
      /\ outcome.user = UNION {PercentDecode(u) : u \in r.user}
      /\ outcome.password = UNION {PercentDecode(p) : p \in r.password}
=============================================================================
