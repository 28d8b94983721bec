-------------------------------- MODULE Auth --------------------------------
(***************************************************************************)
(* chap-sha1 (src/src/auth.rs): the salt of the greeting is base64, a      *)
(* prefix of it and the password make the scramble, and the server, which  *)
(* stores the password hashed twice, checks it.  Symbols are ASCII codes.  *)
(* SHA-1 is external and symbolic: the hash of a sequence is the sequence  *)
(* in brackets, and the exclusive or of hashes is a set in which a hash    *)
(* cancels itself.                                                         *)
(***************************************************************************)
EXTENDS Integers, Sequences

CONSTANTS
  SALT_B64_LEN,   \* symbols of the salt line that are the salt
  SALT_USED_LEN,  \* decoded bytes that take part in the scramble
  Salts,          \* salts the server draws, as bytes
  Passwords,      \* passwords, as bytes
  Typed,          \* symbols that may replace one of the salt line
  MaxEdits        \* bound: symbols replaced, or cut off the end

\* What the constants have to be.
AuthBounds == /\ {SALT_B64_LEN, SALT_USED_LEN, MaxEdits} \subseteq Nat
              /\ SALT_B64_LEN % 4 = 0
              /\ SALT_USED_LEN <= 3 * (SALT_B64_LEN \div 4)

VARIABLES
  salt,       \* the salt of the server's session
  password,   \* options.password_str()
  stored,     \* the password the server has the double hash of
  line,       \* the second line of the greeting, as the client gets it
  edits,      \* symbols of it that changed on the way
  outcome,    \* what chap_sha1 returned: [kind, scramble]
  verdict     \* what the server says of the scramble

vars == <<salt, password, stored, line, edits, outcome, verdict>>

Pad == 61
Bytes == 0 .. 255

Pending == [kind |-> "pending", scramble |-> {}]
ProtocolError == [kind |-> "protocol", scramble |-> {}]

-----------------------------------------------------------------------------
(* External: SHA-1 and exclusive or *)

Sha1(x) == <<-1>> \o x \o <<-2>>
Xor(A, B) == (A \ B) \cup (B \ A)

-----------------------------------------------------------------------------
(* The code *)

\* decode_symbol.
DecodeSymbol(c) == CASE c \in 65 .. 90 -> {c - 65}
                     [] c \in 97 .. 122 -> {c - 97 + 26}
                     [] c \in 48 .. 57 -> {c - 48 + 52}
                     [] c = 43 -> {62}
                     [] c = 47 -> {63}
                     [] OTHER -> {}

\* The symbols of a chunk before its padding.
Symbols(chunk) ==
  LET pads == {i \in 1 .. Len(chunk) : chunk[i] = Pad}
  IN IF pads = {} THEN chunk
     ELSE SubSeq(chunk, 1, (CHOOSE i \in pads : \A j \in pads : i <= j) - 1)

\* The bytes of a group of two to four sextets; shifts stay within a u8.
Group(s) ==
  LET b1 == ((s[1] * 4) % 256) + s[2] \div 16
      b2 == ((s[2] * 16) % 256) + (IF Len(s) > 2 THEN s[3] \div 4 ELSE 0)
      b3 == (IF Len(s) > 2 THEN (s[3] * 64) % 256 ELSE 0) + (IF Len(s) > 3 THEN s[4] ELSE 0)
  IN SubSeq(<<b1, b2, b3>>, 1, Len(s) - 1)

\* decode_base64: every chunk of four in turn.  A chunk without symbols ends the
\* decode, a single symbol or one outside the alphabet fails it.
DecodeBase64(input) ==
  LET out[i \in 1 .. Len(input) + 4] ==
        IF i > Len(input) THEN {<<>>}
        ELSE LET chunk == SubSeq(input, i, IF i + 3 <= Len(input) THEN i + 3 ELSE Len(input))
                 s == Symbols(chunk)
                 sextet == [k \in 1 .. Len(s) |-> CHOOSE v \in DecodeSymbol(s[k]) : TRUE]
             IN IF \E k \in 1 .. Len(s) : DecodeSymbol(s[k]) = {} THEN {}
                ELSE IF s = <<>> THEN {<<>>}
                ELSE IF Len(s) = 1 THEN {}
                ELSE {Group(sextet) \o more : more \in out[i + 4]}
  IN out[1]

\* Mutant: the salt is not cut to the length both sides use.
ChapSha1_WholeSalt(salt_line, pass) ==
  LET decoded == DecodeBase64(SubSeq(salt_line, 1, SALT_B64_LEN))
      bytes == CHOOSE b \in decoded : TRUE
      step_1 == Sha1(pass)
      step_2 == Sha1(step_1)
      step_3 == Sha1(bytes \o step_2)
  IN IF Len(salt_line) < SALT_B64_LEN \/ decoded = {} THEN ProtocolError
     ELSE IF Len(bytes) < SALT_USED_LEN THEN ProtocolError
     ELSE [kind |-> "scramble", scramble |-> Xor({step_1}, {step_3})]

\* chap_sha1.
ChapSha1(salt_line, pass) ==
  LET decoded == DecodeBase64(SubSeq(salt_line, 1, SALT_B64_LEN))
      bytes == CHOOSE b \in decoded : TRUE
      step_1 == Sha1(pass)
      step_2 == Sha1(step_1)
      step_3 == Sha1(SubSeq(bytes, 1, SALT_USED_LEN) \o step_2)
  IN IF Len(salt_line) < SALT_B64_LEN \/ decoded = {} THEN ProtocolError
     ELSE IF Len(bytes) < SALT_USED_LEN THEN ProtocolError
     ELSE [kind |-> "scramble", scramble |-> Xor({step_1}, {step_3})]

-----------------------------------------------------------------------------
(* The server, external *)

Symbol(v) == CASE v < 26 -> 65 + v [] v < 52 -> 71 + v [] v < 62 -> v - 4 [] v = 62 -> 43 [] v = 63 -> 47

\* Base64 by its definition: the bits of the bytes, cut into sextets, and as
\* many pads as complete the last group.
Bit(b, i) == LET at == (i - 1) \div 8 + 1
             IN IF at > Len(b) THEN 0 ELSE (b[at] \div 2 ^ (7 - ((i - 1) % 8))) % 2
Sextet(b, k) == LET bit(j) == Bit(b, 6 * (k - 1) + j)
                IN 32 * bit(1) + 16 * bit(2) + 8 * bit(3) + 4 * bit(4) + 2 * bit(5) + bit(6)
EncodeBase64(b) ==
  LET count == (8 * Len(b) + 5) \div 6
  IN [k \in 1 .. 4 * ((Len(b) + 2) \div 3) |-> IF k <= count THEN Symbol(Sextet(b, k)) ELSE Pad]

\* The server takes back the salted hash, hashes the rest and compares.
Accepts(scramble) ==
  LET hash2 == Sha1(Sha1(stored))
      rest == Xor(scramble, {Sha1(SubSeq(salt, 1, SALT_USED_LEN) \o hash2)})
  IN {Sha1(h) : h \in rest} = {hash2}

-----------------------------------------------------------------------------

Init == /\ salt \in Salts
        /\ password \in Passwords
        /\ stored \in Passwords
        /\ line = EncodeBase64(salt)
        /\ edits = 0
        /\ outcome = Pending
        /\ verdict = "none"

\* The line arrives with another symbol, or short.
Edit ==
  /\ outcome = Pending
  /\ edits < MaxEdits
  /\ edits' = edits + 1
  /\ \/ \E i \in 1 .. Len(line), c \in Typed : line' = [line EXCEPT ![i] = c]
     \/ line # <<>> /\ line' = SubSeq(line, 1, Len(line) - 1)
  /\ UNCHANGED <<salt, password, stored, outcome, verdict>>

\* The client computes the scramble.
Scramble ==
  /\ outcome = Pending
  /\ outcome' = ChapSha1(line, password)
  /\ UNCHANGED <<salt, password, stored, line, edits, verdict>>

\* The server checks it.
Check ==
  /\ outcome.kind = "scramble"
  /\ verdict = "none"
  /\ verdict' = IF Accepts(outcome.scramble) THEN "accepted" ELSE "refused"
  /\ UNCHANGED <<salt, password, stored, line, edits, outcome>>

Next == Edit \/ Scramble \/ Check

Spec == Init /\ [][Next]_vars

-----------------------------------------------------------------------------
(* Properties *)

\* The type of every variable; what decodes is bytes.
TypeOK ==
  /\ salt \in Salts /\ {password, stored} \subseteq Passwords
  /\ edits \in 0 .. MaxEdits
  /\ outcome.kind \in {"pending", "scramble", "protocol"}
  /\ verdict \in {"none", "accepted", "refused"}
  /\ \A b \in DecodeBase64(line) : \A i \in 1 .. Len(b) : b[i] \in Bytes

\* Decoding what a server encoded gives its bytes back, for a salt of any
\* length and so for every padding.
DecodeInverts == edits = 0 => DecodeBase64(line) = {salt}

\* The server accepts exactly the client that has its password and got the salt
\* of this session, as far as the salt takes part: nobody else gets in, and the
\* right password is never refused for how it was sent.
AcceptsTheRightOne ==
  verdict # "none" =>
    (verdict = "accepted" <=>
       /\ password = stored
       /\ \A b \in DecodeBase64(SubSeq(line, 1, SALT_B64_LEN)) :
            SubSeq(b, 1, SALT_USED_LEN) = SubSeq(salt, 1, SALT_USED_LEN))
=============================================================================
