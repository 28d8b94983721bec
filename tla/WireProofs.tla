---------------------------- MODULE WireProofs -----------------------------
(***************************************************************************)
(* What reaches a caller over the wire: the packets that come out of the   *)
(* stream are the ones sent, the error of a reply that failed is the one   *)
(* the server raised for that caller, and a walk over pages sees every     *)
(* tuple that stays exactly once.                                          *)
(***************************************************************************)
EXTENDS WireParts, Sequences, FiniteSets, SequenceTheorems, FiniteSetTheorems,
        WellFoundedInduction, TLAPS

-----------------------------------------------------------------------------
(* The part that was chosen moves alone *)

LEMMA KindsDiffer == /\ "error" # "pages" /\ "error" # "frames" /\ "pages" # "frames"
  BY SMT

LEMMA ErrorPart ==
  ASSUME [Next]_vars
  PROVE  kind' = kind /\ (kind = "error" => [Er!Next]_Er!vars)
  <1>1. CASE Next
    BY Zenon, <1>1, KindsDiffer DEF Next
  <1>2. CASE UNCHANGED vars
    BY Zenon, <1>2 DEF vars, errorVars, Er!vars
  <1> QED BY Zenon, <1>1, <1>2

LEMMA PagesPart ==
  ASSUME [Next]_vars
  PROVE  kind' = kind /\ (kind = "pages" => [Pg!Next]_Pg!vars)
  <1>1. CASE Next
    BY Zenon, <1>1, KindsDiffer DEF Next
  <1>2. CASE UNCHANGED vars
    BY Zenon, <1>2 DEF vars, pageVars, Pg!vars
  <1> QED BY Zenon, <1>1, <1>2

LEMMA FramesPart ==
  ASSUME [Next]_vars
  PROVE  kind' = kind /\ (kind = "frames" => [Fr!Next]_Fr!vars)
  <1>1. CASE Next
    BY Zenon, <1>1, KindsDiffer DEF Next
  <1>2. CASE UNCHANGED vars
    BY Zenon, <1>2 DEF vars, frameVars, Fr!vars
  <1> QED BY Zenon, <1>1, <1>2

-----------------------------------------------------------------------------
(* A reply, and the error that is parsed from it *)

\* A reply a server makes.
Sent(r) == r \in Er!Reply /\ (r.body \/ r.stack = "none")

\* What ErrorsAreTheServers says of one caller's error.
Owned(r, e) ==
  /\ Er!Readable(r)
  /\ r.body => e.outer.code = Er!OwnCode(r)
  /\ r.frames # <<>> =>
       /\ e.outer.message = Er!Content(r.frames[1], "MESSAGE", 0)
       /\ [i \in DOMAIN e.cause |-> e.cause[i].message]
            = [i \in 1 .. Len(r.frames) - 1 |-> Er!Content(r.frames[i + 1], "MESSAGE", 0)]

\* A function from an initial segment is a sequence.
LEMMA SegmentIsSeq ==
  ASSUME NEW T, NEW n \in Nat, NEW f \in [1 .. n -> T]
  PROVE  f \in Seq(T)
  BY SMT

LEMMA ReplyIs ==
  ASSUME Er!ErrorBounds, NEW r, Sent(r)
  PROVE  /\ r.code \in Nat /\ r.body \in BOOLEAN
         /\ r.frames \in Seq(Frames)
         /\ r.stack = "none" => r.frames = <<>>
         /\ r # Er!NoReply
  <1> DEFINE Stacks == UNION {[1 .. n -> Frames] : n \in 0 .. MaxStack}
             Bare == [code : Codes, body : BOOLEAN, text : 0 .. 1,
                      stack : {"none", "nothing", "scalar"}, frames : {<<>>}]
             Stacked == [code : Codes, body : {TRUE}, text : 0 .. 1, stack : {"frames", "odd"},
                         frames : Stacks]
  <1>1. Codes \subseteq Nat /\ MaxStack \in Nat
    BY DEF Er!ErrorBounds
  <1>a. r \in Bare \/ r \in Stacked
    BY Zenon DEF Sent, Er!Reply
  <1> HIDE DEF Stacks
  <1>b. r \in Bare => r.code \in Codes /\ r.body \in BOOLEAN /\ r.frames = <<>>
    BY SMT
  <1>c. r \in Stacked => r.code \in Codes /\ r.body \in BOOLEAN /\ r.stack # "none" /\ r.frames \in Stacks
    <2> SUFFICES ASSUME r \in Stacked PROVE r.code \in Codes /\ r.body \in BOOLEAN /\ r.stack # "none" /\ r.frames \in Stacks
      OBVIOUS
    <2>1. r.code \in Codes /\ r.body \in {TRUE} /\ r.stack \in {"frames", "odd"} /\ r.frames \in Stacks
      BY Zenon
    <2> QED BY Zenon, <2>1
  <1> HIDE DEF Bare, Stacked
  <1>2. r.code \in Nat
    BY Zenon, <1>1, <1>a, <1>b, <1>c
  <1>3. r.body \in BOOLEAN
    BY Zenon, <1>a, <1>b, <1>c
  <1>4. r.stack = "none" => r.frames = <<>>
    BY Zenon, <1>a, <1>b, <1>c
  <1>5. r.frames = <<>> \/ r.frames \in Stacks
    BY Zenon, <1>a, <1>b, <1>c
  <1>6. r.frames \in Seq(Frames)
    <2>1. CASE r.frames = <<>>
      BY <2>1, EmptySeq
    <2>2. CASE r.frames \in Stacks
      <3>1. PICK n \in 0 .. MaxStack : r.frames \in [1 .. n -> Frames]
        BY Zenon, <2>2 DEF Stacks
      <3>2. n \in Nat
        BY SMT, <1>1
      <3> QED BY Zenon, <3>1, <3>2, SegmentIsSeq
    <2> QED BY Zenon, <1>5, <2>1, <2>2
  <1>7. r # Er!NoReply
    BY SMT, <1>2 DEF Er!NoReply, Er!Wrong
  <1> QED BY Zenon, <1>2, <1>3, <1>4, <1>6, <1>7

\* The code a frame is decoded to.
LEMMA FrameCode ==
  ASSUME Er!ErrorBounds, NEW f \in Frames
  PROVE  Er!DecodeFrame(f).code =
           LET code == IF "ERRCODE" \in DOMAIN f THEN f["ERRCODE"] ELSE 0
           IN IF code \in 0 .. U32Max THEN code ELSE 0
  <1>1. U32Max \in Nat /\ \A key \in DOMAIN f : f[key] \in Nat \cup {Er!Wrong}
    BY DEF Er!ErrorBounds
  <1>2. Er!DecodeFrame(f).code = IF Er!Content(f, "ERRCODE", 0) > U32Max THEN 0 ELSE Er!Content(f, "ERRCODE", 0)
    BY DEF Er!DecodeFrame
  <1>3. CASE "ERRCODE" \in DOMAIN f
    <2>1. f["ERRCODE"] \in Nat \/ f["ERRCODE"] = -1
      BY Zenon, <1>1, <1>3 DEF Er!Wrong
    <2>2. Er!Content(f, "ERRCODE", 0) = IF f["ERRCODE"] = -1 THEN 0 ELSE f["ERRCODE"]
      BY Zenon, <1>3 DEF Er!Content, Er!Wrong
    <2> QED BY SMT, <1>1, <1>2, <1>3, <2>1, <2>2
  <1>4. CASE "ERRCODE" \notin DOMAIN f
    <2>1. Er!Content(f, "ERRCODE", 0) = 0
      BY Zenon, <1>4 DEF Er!Content
    <2> QED BY SMT, <1>1, <1>2, <1>4, <2>1
  <1> QED BY Zenon, <1>3, <1>4

\* A stack of frames: the first is the error, the others are the causes.
LEMMA StackOwned ==
  ASSUME Er!ErrorBounds, NEW frames \in Seq(Frames), frames # <<>>,
         NEW d, d = [i \in DOMAIN frames |-> Er!DecodeFrame(frames[i])]
  PROVE  /\ d # <<>>
         /\ Head(d) = Er!DecodeFrame(frames[1]) /\ frames[1] \in Frames
         /\ [i \in DOMAIN Tail(d) |-> Tail(d)[i].message]
              = [i \in 1 .. Len(frames) - 1 |-> Er!Content(frames[i + 1], "MESSAGE", 0)]
  <1> DEFINE T == {Er!DecodeFrame(f) : f \in Frames}
             n == Len(frames)
  <1>1. n \in Nat /\ n > 0 /\ DOMAIN frames = 1 .. n /\ \A i \in 1 .. n : frames[i] \in Frames
    BY SMT
  <1>2. d \in [1 .. n -> T]
    BY Zenon, <1>1
  <1>3. d \in Seq(T)
    BY Zenon, <1>1, <1>2, SegmentIsSeq
  <1>4. Len(d) = n
    <2>1. DOMAIN d = 1 .. n /\ DOMAIN d = 1 .. Len(d) /\ Len(d) \in Nat
      BY Zenon, <1>1, <1>3, LenProperties
    <2> QED BY SMT, <1>1, <2>1
  <1> HIDE DEF T
  <1>5. d # <<>>
    BY SMT, <1>1, <1>4
  <1>6. Head(d) = d[1] /\ Tail(d) \in Seq(T) /\ Len(Tail(d)) = n - 1 /\ \A i \in 1 .. n - 1 : Tail(d)[i] = d[i + 1]
    BY SMT, <1>1, <1>3, <1>4, <1>5
  <1>7. \A i \in 1 .. n : d[i] = Er!DecodeFrame(frames[i])
    BY Zenon, <1>1
  <1>8. DOMAIN Tail(d) = 1 .. n - 1
    BY Zenon, <1>6, LenProperties
  <1>9. \A i \in 1 .. n - 1 : Tail(d)[i].message = Er!Content(frames[i + 1], "MESSAGE", 0)
    <2> SUFFICES ASSUME NEW i \in 1 .. n - 1 PROVE Tail(d)[i].message = Er!Content(frames[i + 1], "MESSAGE", 0)
      OBVIOUS
    <2>1. i + 1 \in 1 .. n
      BY SMT, <1>1
    <2>2. Tail(d)[i] = Er!DecodeFrame(frames[i + 1])
      BY Zenon, <1>6, <1>7, <2>1
    <2> QED BY <2>2 DEF Er!DecodeFrame
  <1>10. 1 \in 1 .. n
    BY SMT, <1>1
  <1> QED BY Zenon, <1>1, <1>5, <1>6, <1>7, <1>8, <1>9, <1>10

\* Response::parse, one kind of reply at a time.
LEMMA ParseIs ==
  ASSUME Er!ErrorBounds, NEW r, Sent(r)
  PROVE  LET code == IF r.code > U32Max THEN 0 ELSE r.code
         IN /\ ~ r.body => Er!Parse(r) = {Er!FromMessage(0, 9)}
            /\ r.body /\ r.stack = "none" => Er!Parse(r) = {Er!FromMessage(code, r.text)}
            /\ r.body /\ r.stack = "frames" =>
                 Er!Parse(r) = {Er!FromFrames(code, [i \in DOMAIN r.frames |-> Er!DecodeFrame(r.frames[i])])}
            /\ ~ Er!Readable(r) => Er!Parse(r) = {}
  <1> DEFINE code == IF r.code > U32Max THEN 0 ELSE r.code
             decoded == [i \in DOMAIN r.frames |-> Er!DecodeFrame(r.frames[i])]
             plain == Er!FromMessage(code, r.text)
             stacked == Er!FromFrames(code, decoded)
             none == Er!FromMessage(0, 9)
  <1>1. Er!Parse(r) = CASE ~ r.body -> {none}
                        [] r.body /\ r.stack = "none" -> {plain}
                        [] r.stack = "frames" -> {stacked}
                        [] OTHER -> {}
    BY DEF Er!Parse
  <1>2. r.body \in BOOLEAN
    BY Zenon, ReplyIs
  <1>3. ~ r.body => r.stack = "none"
    BY Zenon DEF Sent
  <1>4. Er!Readable(r) <=> r.stack = "none" \/ r.stack = "frames"
    BY Zenon DEF Er!Readable
  <1> HIDE DEF plain, stacked, none
  <1>5. ~ r.body => Er!Parse(r) = {none}
    BY Zenon, <1>1, <1>2, <1>3
  <1>6. r.body /\ r.stack = "none" => Er!Parse(r) = {plain}
    BY Zenon, <1>1, <1>2
  <1>7. r.body /\ r.stack = "frames" => Er!Parse(r) = {stacked}
    BY SMT, <1>1, <1>2
  <1>8. ~ Er!Readable(r) => Er!Parse(r) = {}
    BY SMT, <1>1, <1>2, <1>3, <1>4
  <1> QED BY Zenon, <1>5, <1>6, <1>7, <1>8 DEF plain, stacked, none

\* The code of a reply without frames.
LEMMA HeaderCode ==
  ASSUME Er!ErrorBounds, NEW r, Sent(r), r.frames = <<>>
  PROVE  Er!OwnCode(r) = IF r.code > U32Max THEN 0 ELSE r.code
  <1>1. r.code \in Nat /\ U32Max \in Nat
    BY Zenon, ReplyIs DEF Er!ErrorBounds
  <1>2. Er!OwnCode(r) = IF r.code \in 0 .. U32Max THEN r.code ELSE 0
    BY Zenon DEF Er!OwnCode
  <1> QED BY SMT, <1>1, <1>2

\* The error parsed from a reply is the one the server raised.
LEMMA ParsedRight ==
  ASSUME Er!ErrorBounds, NEW r, Sent(r), NEW e \in Er!Parse(r)
  PROVE  e.is = "Server" /\ Owned(r, e)
  <1> DEFINE code == IF r.code > U32Max THEN 0 ELSE r.code
             decoded == [i \in DOMAIN r.frames |-> Er!DecodeFrame(r.frames[i])]
  <1>1. r.body \in BOOLEAN /\ r.frames \in Seq(Frames) /\ (r.stack = "none" => r.frames = <<>>)
    BY Zenon, ReplyIs
  <1>2. ~ r.body => r.stack = "none"
    BY Zenon DEF Sent
  <1>3. \A c, t : LET m == Er!FromMessage(c, t) IN m.is = "Server" /\ m.outer.code = c
    BY DEF Er!FromMessage, Er!Failed, Er!ErrorOf
  <1>a. \A outer, cause : LET m == Er!Failed(outer, cause)
                          IN m.is = "Server" /\ m.outer = outer /\ m.cause = cause
    BY DEF Er!Failed
  <1>4. CASE ~ r.body
    <2> DEFINE none == Er!FromMessage(0, 9)
    <2>a. none.is = "Server"
      BY DEF Er!FromMessage, Er!Failed
    <2>b. Er!Parse(r) = {none}
      BY SMT, <1>4, ParseIs
    <2> HIDE DEF none
    <2>2. e.is = "Server"
      BY Zenon, <2>a, <2>b
    <2> QED BY Zenon, <1>1, <1>2, <1>4, <2>2 DEF Owned, Er!Readable
  <1>5. CASE r.body /\ r.stack = "none"
    <2>1. e = Er!FromMessage(code, r.text)
      BY Zenon, <1>5, ParseIs
    <2>2. e.is = "Server" /\ e.outer.code = code
      BY Zenon, <1>3, <2>1
    <2>3. Er!OwnCode(r) = code
      BY Zenon, <1>1, <1>5, HeaderCode
    <2> QED BY Zenon, <1>1, <1>5, <2>2, <2>3 DEF Owned, Er!Readable
  <1>6. CASE r.body /\ r.stack = "frames"
    <2>1. e = Er!FromFrames(code, decoded)
      BY Zenon, <1>6, ParseIs
    <2>2. CASE r.frames = <<>>
      <3>1. decoded = <<>>
        BY SMT, <2>2
      <3> DEFINE bare == Er!FromMessage(code, 8)
      <3>a. bare.is = "Server" /\ bare.outer.code = code
        BY DEF Er!FromMessage, Er!Failed, Er!ErrorOf
      <3>2. e = bare
        BY Zenon, <2>1, <3>1 DEF Er!FromFrames
      <3> HIDE DEF bare
      <3>3. e.is = "Server" /\ e.outer.code = code
        BY Zenon, <3>a, <3>2
      <3>4. Er!OwnCode(r) = code
        BY Zenon, <2>2, HeaderCode
      <3> QED BY Zenon, <1>6, <2>2, <3>3, <3>4 DEF Owned, Er!Readable
    <2>3. CASE r.frames # <<>>
      <3> DEFINE d == decoded
      <3>1. /\ d # <<>>
            /\ Head(d) = Er!DecodeFrame(r.frames[1]) /\ r.frames[1] \in Frames
            /\ [i \in DOMAIN Tail(d) |-> Tail(d)[i].message]
                 = [i \in 1 .. Len(r.frames) - 1 |-> Er!Content(r.frames[i + 1], "MESSAGE", 0)]
        BY Zenon, <1>1, <2>3, StackOwned
      <3> HIDE DEF d
      <3>2. e = Er!Failed(Head(d), Tail(d))
        BY Zenon, <2>1, <3>1 DEF Er!FromFrames, d
      <3>3. e.is = "Server" /\ e.outer = Er!DecodeFrame(r.frames[1]) /\ e.cause = Tail(d)
        BY Zenon, <1>a, <3>1, <3>2
      <3>4. e.outer.message = Er!Content(r.frames[1], "MESSAGE", 0)
        BY <3>3 DEF Er!DecodeFrame
      <3>5. e.outer.code = Er!OwnCode(r)
        BY Zenon, <2>3, <3>1, <3>3, FrameCode DEF Er!OwnCode
      <3> QED BY Zenon, <1>6, <3>1, <3>3, <3>4, <3>5 DEF Owned, Er!Readable
    <2> QED BY Zenon, <2>2, <2>3
  <1>7. CASE ~ Er!Readable(r)
    BY Zenon, <1>7, ParseIs
  <1> QED BY Zenon, <1>1, <1>4, <1>5, <1>6, <1>7 DEF Er!Readable

\* A reply that parses to nothing has a stack that cannot be read.
LEMMA Unparsed ==
  ASSUME Er!ErrorBounds, NEW r, Sent(r), Er!Parse(r) = {}
  PROVE  ~ Er!Readable(r)
  <1>1. r.body \in BOOLEAN
    BY Zenon, ReplyIs
  <1>2. ~ r.body => r.stack = "none"
    BY Zenon DEF Sent
  <1>3. r.body /\ r.stack = "none" => Er!Parse(r) # {}
    BY Zenon, ParseIs
  <1>4. r.body /\ r.stack = "frames" => Er!Parse(r) # {}
    BY Zenon, ParseIs
  <1>5. ~ r.body => Er!Parse(r) # {}
    BY Zenon, ParseIs
  <1> QED BY Zenon, <1>1, <1>2, <1>3, <1>4, <1>5 DEF Er!Readable

-----------------------------------------------------------------------------
(* Replies on their way *)

\* Replies s on their way, w made by the server for the callers p that wait: each
\* is the one made for its caller, and no caller has two.
OnTheWay(s, w, p) ==
  /\ s \in Seq(Caller \X Er!Reply)
  /\ \A i \in 1 .. Len(s) : s[i][1] \in p /\ s[i][2] = w[s[i][1]] /\ Sent(s[i][2])
  /\ \A i, j \in 1 .. Len(s) : s[i][1] = s[j][1] => i = j

LEMMA Enqueue ==
  ASSUME NEW s, NEW w, NEW p, OnTheWay(s, w, p), DOMAIN w = Caller,
         Er!ErrorBounds, NEW c \in Caller, c \in p, w[c] = Er!NoReply,
         NEW r \in Er!Reply, Sent(r)
  PROVE  OnTheWay(Append(s, <<c, r>>), [w EXCEPT ![c] = r], p)
  <1> DEFINE t == Append(s, <<c, r>>)
             v == [w EXCEPT ![c] = r]
             n == Len(s)
  <1>1. s \in Seq(Caller \X Er!Reply) /\ n \in Nat
    BY DEF OnTheWay
  <1>2. t \in Seq(Caller \X Er!Reply) /\ Len(t) = n + 1 /\ t[n + 1] = <<c, r>>
          /\ \A i \in 1 .. n : t[i] = s[i]
    <2>1. <<c, r>> \in Caller \X Er!Reply
      OBVIOUS
    <2> QED BY SMT, <1>1, <2>1, AppendProperties
  <1>3. \A i \in 1 .. n + 1 : i \in 1 .. n \/ i = n + 1
    BY SMT, <1>1
  <1>4. v[c] = r /\ \A d \in Caller : d # c => v[d] = w[d]
    BY Zenon
  <1>5. \A i \in 1 .. n : s[i][1] \in Caller
    BY SMT, <1>1
  <1>6. \A i \in 1 .. n : s[i][1] # c
    <2> SUFFICES ASSUME NEW i \in 1 .. n, s[i][1] = c PROVE FALSE
      OBVIOUS
    <2>1. s[i][2] = Er!NoReply /\ Sent(s[i][2])
      BY Zenon DEF OnTheWay
    <2> QED BY Zenon, <2>1, ReplyIs
  <1>7. <<c, r>>[1] = c /\ <<c, r>>[2] = r
    OBVIOUS
  <1> HIDE DEF t, v
  <1>8. ASSUME NEW i \in 1 .. n + 1
        PROVE  t[i][1] \in p /\ t[i][2] = v[t[i][1]] /\ Sent(t[i][2])
    <2>1. CASE i \in 1 .. n
      <3>1. s[i][1] \in p /\ s[i][2] = w[s[i][1]] /\ Sent(s[i][2])
        BY Zenon, <2>1 DEF OnTheWay
      <3> QED BY Zenon, <1>2, <1>4, <1>5, <1>6, <2>1, <3>1
    <2>2. CASE i = n + 1
      BY Zenon, <1>2, <1>4, <1>7, <2>2
    <2> QED BY Zenon, <1>3, <2>1, <2>2
  <1>9. ASSUME NEW i \in 1 .. n + 1, NEW j \in 1 .. n + 1, t[i][1] = t[j][1]
        PROVE  i = j
    <2>1. CASE i \in 1 .. n /\ j \in 1 .. n
      BY Zenon, <1>2, <1>9, <2>1 DEF OnTheWay
    <2>2. CASE i = n + 1 /\ j \in 1 .. n
      BY Zenon, <1>2, <1>6, <1>7, <1>9, <2>2
    <2>3. CASE i \in 1 .. n /\ j = n + 1
      BY Zenon, <1>2, <1>6, <1>7, <1>9, <2>3
    <2> QED BY Zenon, <1>3, <2>1, <2>2, <2>3
  <1> QED BY Zenon, <1>2, <1>8, <1>9 DEF OnTheWay, t, v

LEMMA Dequeue ==
  ASSUME NEW s, NEW w, NEW p, OnTheWay(s, w, p), s # <<>>
  PROVE  /\ Head(s)[1] \in Caller /\ Head(s)[1] \in p
         /\ Head(s)[2] = w[Head(s)[1]] /\ Sent(Head(s)[2])
         /\ OnTheWay(Tail(s), w, p \ {Head(s)[1]})
  <1> DEFINE t == Tail(s)
             n == Len(s)
             c == Head(s)[1]
  <1>1. s \in Seq(Caller \X Er!Reply)
    BY DEF OnTheWay
  <1>2. n \in Nat /\ n > 0 /\ Head(s) = s[1] /\ t \in Seq(Caller \X Er!Reply) /\ Len(t) = n - 1
          /\ \A i \in 1 .. n - 1 : t[i] = s[i + 1]
    BY SMT, <1>1
  <1>3. 1 \in 1 .. n /\ \A i \in 1 .. n - 1 : i + 1 \in 1 .. n /\ i + 1 # 1
    BY SMT, <1>2
  <1>4. Head(s)[1] \in p /\ Head(s)[2] = w[Head(s)[1]] /\ Sent(Head(s)[2])
    BY Zenon, <1>2, <1>3 DEF OnTheWay
  <1>5. Head(s)[1] \in Caller
    BY SMT, <1>1, <1>2
  <1> HIDE DEF t
  <1>6. ASSUME NEW i \in 1 .. n - 1
        PROVE  t[i][1] \in p \ {c} /\ t[i][2] = w[t[i][1]] /\ Sent(t[i][2])
    <2>1. i + 1 \in 1 .. n /\ i + 1 # 1 /\ t[i] = s[i + 1] /\ Head(s) = s[1] /\ 1 \in 1 .. n
      BY Zenon, <1>2, <1>3
    <2> DEFINE k == i + 1
    <2>2. k \in 1 .. n /\ k # 1 /\ t[i] = s[k]
      BY Zenon, <2>1
    <2> HIDE DEF k
    <2>3. s[k][1] \in p /\ s[k][2] = w[s[k][1]] /\ Sent(s[k][2])
      BY Zenon, <2>2 DEF OnTheWay
    <2>4. s[k][1] # s[1][1]
      BY Zenon, <2>1, <2>2 DEF OnTheWay
    <2> QED BY Zenon, <2>1, <2>2, <2>3, <2>4
  <1>7. ASSUME NEW i \in 1 .. n - 1, NEW j \in 1 .. n - 1, t[i][1] = t[j][1]
        PROVE  i = j
    <2>1. i + 1 \in 1 .. n /\ t[i] = s[i + 1] /\ j + 1 \in 1 .. n /\ t[j] = s[j + 1]
      BY Zenon, <1>2, <1>3
    <2>2. i + 1 = j + 1
      BY Zenon, <1>7, <2>1 DEF OnTheWay
    <2> QED BY SMT, <2>2
  <1>8. OnTheWay(t, w, p \ {c})
    BY Zenon, <1>2, <1>6, <1>7 DEF OnTheWay
  <1> QED BY Zenon, <1>4, <1>5, <1>8 DEF t

-----------------------------------------------------------------------------
(* Who gets which error *)

\* The inductive invariant: the constants are as they have to be, replies on
\* their way are for callers that wait, a caller has an error once it waits no
\* more, a server error is its own, and only a lost link closes calls.
Delivery ==
  /\ Er!ErrorBounds
  /\ Er!TypeOK
  /\ DOMAIN raised = Caller /\ DOMAIN got = Caller
  /\ \A c \in Caller : raised[c] = Er!NoReply \/ Sent(raised[c])
  /\ link = "up" => \A c \in Caller : c \notin pending => raised[c] # Er!NoReply
  /\ OnTheWay(replies, raised, pending)
  /\ \A c \in Caller : c \in pending => got[c].is = "none"
  /\ \A c \in Caller : got[c].is = "Server" => Owned(raised[c], got[c])
  /\ (\E c \in Caller : got[c].is = "Closed") <=> link = "lost"
  /\ link = "lost" => (\E c \in Caller : ~ Er!Readable(raised[c])) /\ pending = {}

LEMMA DeliveryInit == Er!ErrorBounds /\ Er!Init => Delivery
  <1> SUFFICES ASSUME Er!ErrorBounds, Er!Init PROVE Delivery
    OBVIOUS
  <1> USE DEF Er!Init
  <1>1. Er!Nothing.is = "none"
    BY DEF Er!Nothing
  <1>2. \A c \in Caller : got[c].is = "none" /\ c \in pending /\ raised[c] = Er!NoReply
    BY Zenon, <1>1
  <1>3. Er!TypeOK
    BY Zenon, <1>2 DEF Er!TypeOK
  <1>4. OnTheWay(replies, raised, pending)
    <2>1. replies \in Seq(Caller \X Er!Reply) /\ Len(replies) = 0
      BY SMT
    <2>2. \A i \in 1 .. 0 : FALSE
      BY SMT
    <2> QED BY Zenon, <2>1, <2>2 DEF OnTheWay
  <1>5. DOMAIN raised = Caller /\ DOMAIN got = Caller /\ link = "up"
    BY Zenon
  <1>6. "none" # "Server" /\ "none" # "Closed" /\ "up" # "lost"
    OBVIOUS
  <1> QED BY Zenon, <1>2, <1>3, <1>4, <1>5, <1>6 DEF Delivery

LEMMA DeliveryServerFails ==
  ASSUME Delivery, NEW c \in Caller, NEW r \in Er!Reply, Er!ServerFails(c, r)
  PROVE  Delivery'
  <1>1. /\ link = "up" /\ raised[c] = Er!NoReply
        /\ raised' = [raised EXCEPT ![c] = r] /\ replies' = Append(replies, <<c, r>>)
        /\ pending' = pending /\ got' = got /\ link' = link
    BY Zenon DEF Er!ServerFails
  <1>2. Sent(r)
    BY Zenon DEF Er!ServerFails, Sent
  <1>3. Er!ErrorBounds /\ Er!ErrorBounds' /\ DOMAIN raised = Caller /\ DOMAIN got = Caller
    BY Zenon DEF Delivery, Er!ErrorBounds
  <1>4. r # Er!NoReply
    BY Zenon, <1>2, <1>3, ReplyIs
  <1>5. c \in pending
    BY Zenon, <1>1 DEF Delivery
  <1>6. raised'[c] = r /\ DOMAIN raised' = Caller /\ \A d \in Caller : d # c => raised'[d] = raised[d]
    BY Zenon, <1>1, <1>3
  <1>7. OnTheWay(replies', raised', pending')
    <2>1. OnTheWay(replies, raised, pending)
      BY Zenon DEF Delivery
    <2>2. OnTheWay(Append(replies, <<c, r>>), [raised EXCEPT ![c] = r], pending)
      BY Zenon, <1>1, <1>2, <1>3, <1>5, <2>1, Enqueue
    <2> QED BY Zenon, <1>1, <2>2
  <1>8. Er!TypeOK'
    BY Zenon, <1>1 DEF Delivery, Er!TypeOK
  <1>9. \A d \in Caller : raised'[d] = Er!NoReply \/ Sent(raised'[d])
    BY Zenon, <1>2, <1>6 DEF Delivery
  <1>10. \A d \in Caller : d \notin pending' => raised'[d] # Er!NoReply
    BY Zenon, <1>1, <1>4, <1>6 DEF Delivery
  <1>11. \A d \in Caller : got'[d].is = "Server" => Owned(raised'[d], got'[d])
    <2>1. got[c].is = "none" /\ "none" # "Server"
      BY Zenon, <1>5 DEF Delivery
    <2> QED BY Zenon, <1>1, <1>6, <2>1 DEF Delivery
  <1>12. "up" # "lost"
    OBVIOUS
  <1>13. ~ \E d \in Caller : got'[d].is = "Closed"
    BY Zenon, <1>1, <1>12 DEF Delivery
  <1>14. \A d \in Caller : d \in pending' => got'[d].is = "none"
    BY Zenon, <1>1 DEF Delivery
  <1>15. link' # "lost"
    BY Zenon, <1>1, <1>12
  <1>16. DOMAIN got' = Caller
    BY Zenon, <1>1, <1>3
  <1> QED BY Zenon, <1>3, <1>6, <1>7, <1>8, <1>9, <1>10, <1>11, <1>13, <1>14, <1>15, <1>16 DEF Delivery

LEMMA DeliveryReceive ==
  ASSUME Delivery, Er!Receive
  PROVE  Delivery'
  <1> DEFINE c == Head(replies)[1]
             r == Head(replies)[2]
  <1>1. link = "up" /\ replies # <<>> /\ raised' = raised
    BY Zenon DEF Er!Receive
  <1>2. Er!ErrorBounds /\ Er!ErrorBounds' /\ DOMAIN raised = Caller /\ DOMAIN got = Caller
          /\ Er!TypeOK /\ OnTheWay(replies, raised, pending)
    BY Zenon DEF Delivery, Er!ErrorBounds
  <1>3. c \in Caller /\ c \in pending /\ r = raised[c] /\ Sent(r) /\ OnTheWay(Tail(replies), raised, pending \ {c})
    BY Zenon, <1>1, <1>2, Dequeue
  <1>4. \A d \in Caller : raised'[d] = Er!NoReply \/ Sent(raised'[d])
    BY Zenon, <1>1 DEF Delivery
  <1>5. "up" # "lost" /\ "none" # "Closed" /\ "Server" # "Closed"
    OBVIOUS
  <1>6. DOMAIN raised' = Caller
    BY Zenon, <1>1, <1>2
  <1>7. CASE Er!Parse(r) # {}
    <2> DEFINE e == CHOOSE e \in Er!Parse(r) : TRUE
    <2>1. e \in Er!Parse(r)
      BY Zenon, <1>7
    <2>2. /\ got' = [got EXCEPT ![c] = e] /\ pending' = pending \ {c}
          /\ replies' = Tail(replies) /\ link' = link
      BY Zenon, <1>7 DEF Er!Receive
    <2> HIDE DEF e, c, r
    <2>3. e.is = "Server" /\ Owned(r, e)
      BY Zenon, <1>2, <1>3, <2>1, ParsedRight
    <2>4. got'[c] = e /\ DOMAIN got' = Caller /\ \A d \in Caller : d # c => got'[d] = got[d]
      BY Zenon, <1>2, <1>3, <2>2
    <2>5. Er!TypeOK'
      BY Zenon, <1>2, <2>2, <2>3, <2>4 DEF Er!TypeOK
    <2>6. OnTheWay(replies', raised', pending')
      BY Zenon, <1>1, <1>3, <2>2
    <2>7. \A d \in Caller : d \notin pending' => raised'[d] # Er!NoReply
      <3>1. r # Er!NoReply
        BY Zenon, <1>2, <1>3, ReplyIs
      <3> QED BY Zenon, <1>1, <1>3, <2>2, <3>1 DEF Delivery
    <2>8. \A d \in Caller : d \in pending' => got'[d].is = "none"
      BY Zenon, <2>2, <2>4 DEF Delivery
    <2>9. \A d \in Caller : got'[d].is = "Server" => Owned(raised'[d], got'[d])
      BY Zenon, <1>1, <1>3, <2>3, <2>4 DEF Delivery
    <2>10. ~ \E d \in Caller : got'[d].is = "Closed"
      BY Zenon, <1>1, <1>5, <2>3, <2>4 DEF Delivery
    <2>11. link' # "lost"
      BY Zenon, <1>1, <1>5, <2>2
    <2> QED BY Zenon, <1>2, <1>4, <1>6, <2>4, <2>5, <2>6, <2>7, <2>8, <2>9, <2>10, <2>11 DEF Delivery
  <1>8. CASE Er!Parse(r) = {}
    <2>1. /\ got' = [d \in Caller |-> IF d \in pending THEN Er!Closed ELSE got[d]]
          /\ pending' = {} /\ replies' = <<>> /\ link' = "lost"
      BY Zenon, <1>8 DEF Er!Receive
    <2> HIDE DEF c, r
    <2>2. ~ Er!Readable(raised'[c])
      BY Zenon, <1>1, <1>2, <1>3, <1>8, Unparsed
    <2>3. Er!Closed.is = "Closed"
      BY DEF Er!Closed
    <2>4. DOMAIN got' = Caller /\ \A d \in Caller : IF d \in pending THEN got'[d] = Er!Closed ELSE got'[d] = got[d]
      BY Zenon, <2>1
    <2>5. got'[c].is = "Closed"
      BY Zenon, <1>3, <2>3, <2>4
    <2>6. Er!TypeOK'
      BY Zenon, <1>2, <2>1, <2>3, <2>4 DEF Er!TypeOK
    <2>7. OnTheWay(replies', raised', pending')
      <3>1. replies' \in Seq(Caller \X Er!Reply) /\ Len(replies') = 0
        BY SMT, <2>1
      <3>2. \A i \in 1 .. 0 : FALSE
        BY SMT
      <3> QED BY Zenon, <3>1, <3>2 DEF OnTheWay
    <2>8. \A d \in Caller : got'[d].is = "Server" => Owned(raised'[d], got'[d])
      BY Zenon, <1>1, <1>5, <2>3, <2>4 DEF Delivery
    <2> QED BY Zenon, <1>2, <1>3, <1>4, <1>5, <1>6, <2>1, <2>2, <2>4, <2>5, <2>6, <2>7, <2>8 DEF Delivery
  <1> QED BY Zenon, <1>7, <1>8

LEMMA DeliveryStep == Delivery /\ [Er!Next]_Er!vars => Delivery'
  <1> SUFFICES ASSUME Delivery, [Er!Next]_Er!vars PROVE Delivery'
    OBVIOUS
  <1>1. CASE Er!Receive
    BY Zenon, <1>1, DeliveryReceive
  <1>2. CASE \E c \in Caller, r \in Er!Reply : Er!ServerFails(c, r)
    BY Zenon, <1>2, DeliveryServerFails
  <1>3. CASE UNCHANGED Er!vars
    <2>1. raised' = raised /\ replies' = replies /\ pending' = pending /\ got' = got /\ link' = link
      BY Zenon, <1>3 DEF Er!vars
    <2> QED BY Zenon, <2>1 DEF Delivery, Er!ErrorBounds, Er!TypeOK
  <1> QED BY Zenon, <1>1, <1>2, <1>3 DEF Er!Next

LEMMA DeliveryIsRight == Delivery => Er!ErrorsAreTheServers
  <1> SUFFICES ASSUME Delivery PROVE Er!ErrorsAreTheServers
    OBVIOUS
  <1>1. \A c \in Caller : \A e \in Er!AsServer(got[c]) : Owned(raised[c], e)
    BY Zenon DEF Delivery, Er!AsServer
  <1>2. \A c \in Caller : Er!IsTransient(got[c]) <=> got[c].is = "Closed"
    BY Zenon DEF Er!IsTransient
  <1> QED BY Zenon, <1>1, <1>2 DEF Delivery, Er!ErrorsAreTheServers, Owned

\* Errors: whatever the callers, the frames a server may stack and the order of
\* its answers, everyone who gets a server error gets its own, with its code, its
\* message and its causes in order; and calls end with a closed connection
\* exactly when a stack could not be read, which leaves nobody waiting.
THEOREM ErrorsDelivered == Er!ErrorBounds /\ Spec => []ErrorsAreTheServers
  <1> DEFINE Chosen == kind = "error" => Delivery
  <1>1. Er!ErrorBounds /\ Init => Chosen
    BY Zenon, DeliveryInit, KindsDiffer DEF Init
  <1>2. Chosen /\ [Next]_vars => Chosen'
    BY Zenon, DeliveryStep, ErrorPart
  <1>3. Chosen => ErrorsAreTheServers
    BY Zenon, DeliveryIsRight DEF ErrorsAreTheServers
  <1> QED BY <1>1, <1>2, <1>3, PTL DEF Spec

-----------------------------------------------------------------------------
(* The first keys of a set *)

\* The keys of S before k.
Before(S, k) == {j \in S : j < k}

LEMMA SameCardinality == \A S : Pg!Cardinality(S) = Cardinality(S)
  BY Zenon DEF Cardinality, Pg!Cardinality

LEMMA FirstOfIs ==
  ASSUME NEW S, NEW n, NEW k
  PROVE  k \in Pg!FirstOf(S, n) <=> k \in S /\ Cardinality(Before(S, k)) < n
  <1>1. k \in Pg!FirstOf(S, n) <=> k \in S /\ Pg!Cardinality(Before(S, k)) < n
    BY Zenon DEF Pg!FirstOf, Before
  <1> QED BY Zenon, <1>1, SameCardinality

LEMMA BeforeIs ==
  ASSUME Pg!PagingBounds, NEW S \in SUBSET Pg!Keys, NEW k
  PROVE  Before(S, k) \in SUBSET Pg!Keys /\ Before(S, k) \in SUBSET S
  BY Zenon DEF Before

LEMMA Least ==
  ASSUME NEW S \in SUBSET Nat, S # {}
  PROVE  \E m \in S : \A k \in S : m <= k
  <1> DEFINE R == OpToRel(<, Nat)
  <1>1. IsWellFoundedOn(R, Nat)
    BY Zenon, NatLessThanWellFounded
  <1>2. \A x, y \in Nat : y < x => <<y, x>> \in R
    BY DEF OpToRel
  <1> HIDE DEF R
  <1>3. S \subseteq Nat
    OBVIOUS
  <1>4. PICK m \in S : \A k \in S : ~ (<<k, m>> \in R)
    BY Zenon, <1>1, <1>3, WFMin
  <1>5. \A k \in S : ~ (k < m)
    BY Zenon, <1>2, <1>3, <1>4
  <1>6. \A k \in S : m <= k
    BY SMT, <1>3, <1>5
  <1> QED BY Zenon, <1>6

LEMMA Greatest ==
  ASSUME Pg!PagingBounds, NEW S \in SUBSET Pg!Keys, S # {}
  PROVE  Pg!Max(S) \in S /\ \A k \in S : k <= Pg!Max(S)
  <1> DEFINE T == {MaxKey - k : k \in S}
  <1>1. MaxKey \in Nat /\ \A k \in S : k \in 1 .. MaxKey
    BY DEF Pg!PagingBounds, Pg!Keys
  <1>2. T \in SUBSET Nat /\ T # {}
    <2>1. \A k \in S : MaxKey - k \in Nat
      BY SMT, <1>1
    <2> QED BY Zenon, <2>1
  <1>3. PICK m \in T : \A k \in T : m <= k
    BY Zenon, <1>2, Least
  <1>4. PICK x \in S : m = MaxKey - x
    BY Zenon, <1>3
  <1>5. \A k \in S : MaxKey - x <= MaxKey - k
    BY Zenon, <1>3, <1>4
  <1>6. \A k \in S : x >= k
    BY SMT, <1>1, <1>5
  <1>7. \E y \in S : \A k \in S : y >= k
    BY Zenon, <1>6
  <1>8. Pg!Max(S) \in S /\ \A k \in S : Pg!Max(S) >= k
    BY Zenon, <1>7 DEF Pg!Max
  <1> QED BY SMT, <1>1, <1>8

LEMMA KeysFinite ==
  ASSUME Pg!PagingBounds, NEW S \in SUBSET Pg!Keys
  PROVE  IsFiniteSet(S) /\ Cardinality(S) \in Nat /\ Cardinality(S) <= MaxKey /\ S \subseteq Nat
  <1>1. MaxKey \in Nat
    BY DEF Pg!PagingBounds
  <1>2. IsFiniteSet(1 .. MaxKey) /\ Cardinality(1 .. MaxKey) = MaxKey
    BY SMT, <1>1, FS_Interval
  <1>3. S \in SUBSET (1 .. MaxKey)
    BY DEF Pg!Keys
  <1>4. IsFiniteSet(S) /\ Cardinality(S) <= Cardinality(1 .. MaxKey)
    BY Zenon, <1>2, <1>3, FS_Subset
  <1>5. Cardinality(S) \in Nat
    BY Zenon, <1>4, FS_CardinalityType
  <1>6. S \subseteq Nat
    BY SMT, <1>3
  <1> QED BY SMT, <1>2, <1>4, <1>5, <1>6

\* What is before one of the first n keys is among them.
LEMMA FirstIsClosed ==
  ASSUME Pg!PagingBounds, NEW S \in SUBSET Pg!Keys, NEW n \in Nat,
         NEW k \in Pg!FirstOf(S, n), NEW j \in S, j < k
  PROVE  j \in Pg!FirstOf(S, n)
  <1> DEFINE A == Before(S, j)
             B == Before(S, k)
  <1>1. k \in S /\ Cardinality(B) < n
    BY Zenon, FirstOfIs
  <1>2. S \subseteq Nat
    BY Zenon, KeysFinite
  <1>3. A \in SUBSET B
    <2>1. \A i \in S : i < j => i < k
      BY SMT, <1>1, <1>2
    <2> QED BY Zenon, <2>1 DEF Before
  <1>4. B \in SUBSET Pg!Keys /\ A \in SUBSET Pg!Keys
    BY Zenon, BeforeIs
  <1> HIDE DEF A, B
  <1>5. IsFiniteSet(B) /\ Cardinality(B) \in Nat
    BY Zenon, <1>4, KeysFinite
  <1>6. Cardinality(A) \in Nat
    BY Zenon, <1>4, KeysFinite
  <1>7. Cardinality(A) <= Cardinality(B)
    BY Zenon, <1>3, <1>5, FS_Subset
  <1>8. Cardinality(A) < n
    BY SMT, <1>1, <1>5, <1>6, <1>7
  <1> QED BY Zenon, <1>8, FirstOfIs DEF A

LEMMA FirstOfNone ==
  ASSUME Pg!PagingBounds, NEW S \in SUBSET Pg!Keys
  PROVE  Pg!FirstOf(S, 0) = {}
  <1>1. ASSUME NEW k \in Pg!FirstOf(S, 0) PROVE FALSE
    <2> DEFINE B == Before(S, k)
    <2>1. Cardinality(B) < 0
      BY Zenon, FirstOfIs
    <2>2. B \in SUBSET Pg!Keys
      BY Zenon, BeforeIs
    <2> HIDE DEF B
    <2>3. Cardinality(B) \in Nat
      BY Zenon, <2>2, KeysFinite
    <2> QED BY SMT, <2>1, <2>3
  <1> QED BY Zenon, <1>1

\* There is a first key.
LEMMA FirstOfSome ==
  ASSUME Pg!PagingBounds, NEW S \in SUBSET Pg!Keys, NEW n \in Nat \ {0}, Pg!FirstOf(S, n) = {}
  PROVE  S = {}
  <1> SUFFICES ASSUME S # {} PROVE FALSE
    OBVIOUS
  <1>1. S \in SUBSET Nat
    BY Zenon, KeysFinite
  <1>2. PICK m \in S : \A k \in S : m <= k
    BY Zenon, <1>1, Least
  <1>3. \A k \in S : ~ (k < m)
    BY SMT, <1>1, <1>2
  <1>4. Before(S, m) = {}
    BY Zenon, <1>3 DEF Before
  <1>5. Cardinality(Before(S, m)) = 0
    BY Zenon, <1>4, FS_EmptySet
  <1>6. Cardinality(Before(S, m)) < n
    BY SMT, <1>5
  <1> QED BY Zenon, <1>6, FirstOfIs

\* n keys of which nothing is left out are the first n.
LEMMA FirstAreThese ==
  ASSUME Pg!PagingBounds, NEW S \in SUBSET Pg!Keys, NEW D \in SUBSET S,
         \A k \in D : \A j \in S : j < k => j \in D
  PROVE  Pg!FirstOf(S, Cardinality(D)) = D
  <1>1. S \subseteq Nat
    BY Zenon, KeysFinite
  <1>2. IsFiniteSet(D) /\ Cardinality(D) \in Nat
    BY Zenon, KeysFinite
  <1>3. ASSUME NEW k \in D PROVE k \in Pg!FirstOf(S, Cardinality(D))
    <2> DEFINE B == Before(S, k)
    <2>1. B \in SUBSET (D \ {k})
      <3>1. \A i \in S : i < k => i # k
        BY SMT, <1>1
      <3> QED BY Zenon, <3>1 DEF Before
    <2>2. IsFiniteSet(D \ {k}) /\ Cardinality(D \ {k}) = Cardinality(D) - 1
      BY Zenon, <1>2, FS_RemoveElement
    <2>3. B \in SUBSET Pg!Keys
      BY Zenon, BeforeIs
    <2> HIDE DEF B
    <2>4. Cardinality(B) <= Cardinality(D \ {k})
      BY Zenon, <2>1, <2>2, FS_Subset
    <2>5. Cardinality(B) \in Nat
      BY Zenon, <2>3, KeysFinite
    <2>6. Cardinality(B) < Cardinality(D)
      BY SMT, <1>2, <2>2, <2>4, <2>5
    <2> QED BY Zenon, <2>6, FirstOfIs DEF B
  <1>4. ASSUME NEW k \in Pg!FirstOf(S, Cardinality(D)), k \notin D PROVE FALSE
    <2> DEFINE B == Before(S, k)
    <2>1. k \in S /\ Cardinality(B) < Cardinality(D)
      BY Zenon, FirstOfIs
    <2>2. D \in SUBSET B
      <3> SUFFICES ASSUME NEW d \in D PROVE d < k
        BY Zenon DEF Before
      <3>1. ~ (k < d) /\ d # k
        BY Zenon, <1>4, <2>1
      <3> QED BY SMT, <1>1, <2>1, <3>1
    <2>3. B \in SUBSET Pg!Keys
      BY Zenon, BeforeIs
    <2> HIDE DEF B
    <2>4. IsFiniteSet(B) /\ Cardinality(B) \in Nat
      BY Zenon, <2>3, KeysFinite
    <2>5. Cardinality(D) <= Cardinality(B)
      BY Zenon, <2>2, <2>4, FS_Subset
    <2> QED BY SMT, <1>2, <2>1, <2>4, <2>5
  <1>5. Pg!FirstOf(S, Cardinality(D)) \subseteq D
    BY Zenon, <1>4
  <1> QED BY Zenon, <1>3, <1>5

-----------------------------------------------------------------------------
(* What the server answers *)

\* A page g of the keys S after the first keys in skip: the next ones, with
\* nothing left out, and no position only when there is nothing behind it.
PageOf(g, S, skip) ==
  /\ g.rows \subseteq S \ skip
  /\ \A k \in g.rows : \A j \in S : j < k => j \in skip \/ j \in g.rows
  /\ g.position # 0 => g.position \in g.rows /\ \A k \in g.rows : k <= g.position
  /\ g.rows = {} \/ g.position = 0 => \A k \in S : k \in skip \/ k \in g.rows

LEMMA AnswerIs ==
  ASSUME Pg!PagingBounds, NEW P \in SUBSET Pg!Keys, present = P, NEW p,
         p.LIMIT \in Nat \ {0}, p.OFFSET \in Nat, p.AFTER \in Nat, p.FETCH_POSITION = TRUE,
         NEW g \in Pg!Answer(p)
  PROVE  LET behind == {k \in P : k > p.AFTER}
         IN /\ g \in [rows : SUBSET Pg!Keys, position : 0 .. MaxKey]
            /\ PageOf(g, behind, Pg!FirstOf(behind, p.OFFSET))
  <1> DEFINE S == {k \in P : k > p.AFTER}
             skip == Pg!FirstOf(S, p.OFFSET)
             rows == Pg!FirstOf(S \ skip, p.LIMIT)
             Places == IF ~ p.FETCH_POSITION \/ rows = {} THEN {0}
                       ELSE IF \E k \in S \ rows : k > Pg!Max(rows) THEN {Pg!Max(rows)}
                       ELSE {Pg!Max(rows), 0}
  <1>1. Pg!Answer(p) = {[rows |-> rows, position |-> pos] : pos \in Places}
    BY Zenon DEF Pg!Answer, Pg!Nothing
  <1>2. PICK pos \in Places : g = [rows |-> rows, position |-> pos]
    BY Zenon, <1>1
  <1>3. S \in SUBSET Pg!Keys /\ MaxKey \in Nat
    BY Zenon DEF Pg!PagingBounds
  <1> HIDE DEF S
  <1>4. S \ skip \in SUBSET Pg!Keys
    BY Zenon, <1>3
  <1>5. rows \subseteq S \ skip
    BY Zenon DEF Pg!FirstOf
  <1>6. \A k \in rows : \A j \in S \ skip : j < k => j \in rows
    BY Zenon, <1>4, FirstIsClosed
  <1>7. rows = {} => S \ skip = {}
    BY Zenon, <1>4, FirstOfSome
  <1>8. rows \in SUBSET Pg!Keys
    BY Zenon, <1>3, <1>5
  <1>9. rows # {} => Pg!Max(rows) \in rows /\ \A k \in rows : k <= Pg!Max(rows)
    BY Zenon, <1>8, Greatest
  <1> HIDE DEF skip, rows
  <1>10. \/ rows = {} /\ pos = 0
         \/ rows # {} /\ pos = Pg!Max(rows)
         \/ rows # {} /\ pos = 0 /\ \A k \in S \ rows : ~ (k > Pg!Max(rows))
    BY Zenon, <1>2
  <1> HIDE DEF Places
  <1>11. g.rows = rows /\ g.position = pos
    BY <1>2
  <1>12. S \subseteq Nat /\ 0 \notin rows
    BY SMT, <1>3, <1>8 DEF Pg!Keys
  <1>13. pos \in 0 .. MaxKey
    <2>1. CASE pos = 0
      BY SMT, <1>3, <2>1
    <2>2. CASE pos \in rows
      BY SMT, <1>3, <1>8, <2>2 DEF Pg!Keys
    <2> QED BY Zenon, <1>9, <1>10, <2>1, <2>2
  <1>14. g \in [rows : SUBSET Pg!Keys, position : 0 .. MaxKey]
    BY Zenon, <1>2, <1>8, <1>13
  <1>15. rows = {} \/ pos = 0 => \A k \in S : k \in skip \/ k \in rows
    <2>1. CASE rows = {}
      BY Zenon, <1>7, <2>1
    <2>2. CASE rows # {} /\ pos = 0
      <3> SUFFICES ASSUME NEW k \in S, k \notin skip, k \notin rows PROVE FALSE
        BY Zenon
      <3>1. Pg!Max(rows) \in rows /\ ~ (k > Pg!Max(rows))
        BY Zenon, <1>9, <1>10, <1>12, <2>2
      <3>2. k # Pg!Max(rows) /\ Pg!Max(rows) \in S
        BY Zenon, <1>5, <3>1
      <3>3. k < Pg!Max(rows)
        <4> DEFINE m == Pg!Max(rows)
        <4>1. k \in Nat /\ m \in Nat /\ ~ (k > m) /\ k # m
          BY Zenon, <1>12, <3>1, <3>2
        <4> HIDE DEF m
        <4>2. k < m
          BY SMT, <4>1
        <4> QED BY Zenon, <4>2 DEF m
      <3> QED BY Zenon, <1>6, <3>1, <3>3
    <2> QED BY Zenon, <2>1, <2>2
  <1>16. PageOf(g, S, skip)
    BY Zenon, <1>5, <1>6, <1>9, <1>10, <1>11, <1>15 DEF PageOf
  <1> QED BY Zenon, <1>14, <1>16 DEF S, skip

-----------------------------------------------------------------------------
(* A walk over the pages *)

\* The keys the walk was given.
Given == {k \in Pg!Keys : seen[k] = 1}

\* A page g, asked for after key a, as it looks to a walk to which the keys S
\* matter: all behind a, and those of S up to the position all there.
Ahead(g, S, a) ==
  /\ \A k \in g.rows : k > a
  /\ g.position # 0 => g.position \in g.rows /\ \A k \in g.rows : k <= g.position
  /\ \A k \in S : k > a /\ (g.rows = {} \/ g.position = 0 \/ k <= g.position) => k \in g.rows

\* The packet asks for what is behind the walk.
AsksOn ==
  /\ packet.LIMIT = limit /\ packet.FETCH_POSITION = TRUE
  /\ IF style = "offset" THEN packet.OFFSET = at /\ packet.AFTER = 0
                         ELSE packet.OFFSET = 0 /\ packet.AFTER = at

\* A walk by position or by tuple was given what stays up to at, and nothing
\* behind it.
ByKey == \A k \in Pg!Keys : /\ seen[k] < 2
                            /\ seen[k] = 1 => k <= at
                            /\ k \in steady /\ k <= at => seen[k] = 1

\* A walk by offset was given the first keys, as many as the offset.
ByCount == /\ \A k \in Pg!Keys : seen[k] < 2
           /\ Given \subseteq present /\ Cardinality(Given) = at
           /\ \A k \in Given : \A j \in present : j < k => j \in Given

\* The walk is over and was given everything that stays.
AllGiven == /\ \A k \in Pg!Keys : seen[k] < 2
            /\ \A k \in steady : seen[k] = 1

\* The inductive invariant.
Walked ==
  /\ Pg!PagingBounds
  /\ Pg!TypeOK
  /\ steady \subseteq present /\ (writes = 0 => steady = present)
  /\ pc = "asked" => AsksOn
  /\ style # "offset" =>
       /\ at <= MaxKey
       /\ IF pc = "over" THEN AllGiven ELSE ByKey
       /\ pc = "answered" => Ahead(page, steady, at)
  /\ style = "offset" /\ writes = 0 =>
       /\ IF pc = "over" THEN AllGiven ELSE ByCount
       /\ pc = "answered" => PageOf(page, present, Given)

\* The packet of a select that resumes with no, a position's, a tuple's or an
\* offset's place.
Packed(l, offset, after) == [LIMIT |-> l, OFFSET |-> offset, AFTER |-> after, FETCH_POSITION |-> TRUE]

LEMMA PackedIs ==
  ASSUME NEW l, NEW a
  PROVE  /\ Pg!Build(Pg!Page(Pg!Select(l))) = Packed(l, 0, 0)
         /\ Pg!Build(Pg!Page(Pg!After(Pg!Select(l), a))) = Packed(l, 0, a)
         /\ Pg!Build(Pg!Page(Pg!AfterTuple(Pg!Select(l), a))) = Packed(l, 0, a)
         /\ Pg!Build(Pg!Page(Pg!Offset(Pg!Select(l), a))) = Packed(l, a, 0)
  <1> USE DEF Pg!Build, Pg!Page, Pg!Select, Packed, Pg!Nothing
  <1>1. Pg!Build(Pg!Page(Pg!Select(l))) = Packed(l, 0, 0)
    OBVIOUS
  <1>2. Pg!Build(Pg!Page(Pg!After(Pg!Select(l), a))) = Packed(l, 0, a)
    BY DEF Pg!After
  <1>3. Pg!Build(Pg!Page(Pg!AfterTuple(Pg!Select(l), a))) = Packed(l, 0, a)
    BY DEF Pg!AfterTuple
  <1>4. Pg!Build(Pg!Page(Pg!Offset(Pg!Select(l), a))) = Packed(l, a, 0)
    BY DEF Pg!Offset
  <1> QED BY Zenon, <1>1, <1>2, <1>3, <1>4

LEMMA PackedType ==
  ASSUME Pg!PagingBounds, NEW l \in Limits, NEW a \in 0 .. 2 * MaxKey, NEW b \in 0 .. MaxKey,
         NEW f \in BOOLEAN
  PROVE  [LIMIT |-> l, OFFSET |-> a, AFTER |-> b, FETCH_POSITION |-> f]
           \in [LIMIT : Limits, OFFSET : 0 .. 2 * MaxKey, AFTER : 0 .. MaxKey, FETCH_POSITION : BOOLEAN]
  BY Zenon

LEMMA BoundsAre ==
  ASSUME Pg!PagingBounds
  PROVE  /\ MaxKey \in Nat /\ MaxWrites \in Nat /\ MaxFailures \in Nat /\ Limits \subseteq Nat \ {0}
         /\ 0 \in 0 .. MaxKey /\ 0 \in 0 .. 2 * MaxKey /\ 0 \in 0 .. MaxWrites /\ 0 \in 0 .. MaxFailures
         /\ \A k \in Pg!Keys : k \in Nat /\ k > 0 /\ k <= MaxKey
  <1>1. MaxKey \in Nat /\ MaxWrites \in Nat /\ MaxFailures \in Nat /\ Limits \subseteq Nat \ {0}
    BY Zenon DEF Pg!PagingBounds
  <1> QED BY SMT, <1>1 DEF Pg!Keys

LEMMA NoPageType == ASSUME Pg!PagingBounds
                    PROVE  Pg!NoPage \in [rows : SUBSET Pg!Keys, position : 0 .. MaxKey]
  <1>1. 0 \in 0 .. MaxKey
    BY Zenon, BoundsAre
  <1> QED BY Zenon, <1>1 DEF Pg!NoPage, Pg!Nothing

LEMMA WalkedInit == Pg!PagingBounds /\ Pg!Init => Walked
  <1> SUFFICES ASSUME Pg!PagingBounds, Pg!Init PROVE Walked
    OBVIOUS
  <1>1. /\ present \in SUBSET Pg!Keys /\ steady = present /\ writes = 0 /\ failures = 0
        /\ style \in {"position", "tuple", "offset"} /\ limit \in Limits /\ at = 0 /\ pc = "idle"
        /\ packet = Pg!Build(Pg!Select(limit)) /\ page = Pg!NoPage /\ seen = [k \in Pg!Keys |-> 0]
    BY Zenon DEF Pg!Init, Pg!Nothing
  <1>2. packet = [LIMIT |-> limit, OFFSET |-> 0, AFTER |-> 0, FETCH_POSITION |-> FALSE]
    BY <1>1 DEF Pg!Build, Pg!Select, Pg!Nothing
  <1>3. packet \in [LIMIT : Limits, OFFSET : 0 .. 2 * MaxKey, AFTER : 0 .. MaxKey, FETCH_POSITION : BOOLEAN]
    <2>1. limit \in Limits /\ 0 \in 0 .. 2 * MaxKey /\ 0 \in 0 .. MaxKey /\ FALSE \in BOOLEAN
      BY Zenon, <1>1, BoundsAre
    <2> DEFINE p == [LIMIT |-> limit, OFFSET |-> 0, AFTER |-> 0, FETCH_POSITION |-> FALSE]
    <2>2. p \in [LIMIT : Limits, OFFSET : 0 .. 2 * MaxKey, AFTER : 0 .. MaxKey, FETCH_POSITION : BOOLEAN]
      BY Zenon, <2>1
    <2> HIDE DEF p
    <2> QED BY Zenon, <1>2, <2>2 DEF p
  <1>4. seen \in [Pg!Keys -> 0 .. 2] /\ \A k \in Pg!Keys : seen[k] = 0 /\ seen[k] < 2 /\ seen[k] # 1
    <2>1. 0 \in 0 .. 2 /\ 0 < 2 /\ 0 # 1
      BY SMT
    <2> QED BY Zenon, <1>1, <2>1
  <1>5. Pg!TypeOK
    <2>1. page \in [rows : SUBSET Pg!Keys, position : 0 .. MaxKey]
      BY Zenon, <1>1, NoPageType
    <2> QED BY Zenon, <1>1, <1>3, <1>4, <2>1, BoundsAre DEF Pg!TypeOK
  <1>6. ByKey
    <2>1. \A k \in Pg!Keys : ~ (k <= at)
      BY SMT, <1>1, BoundsAre
    <2> QED BY Zenon, <1>4, <2>1 DEF ByKey
  <1>7. ByCount
    <2>1. Given = {}
      BY Zenon, <1>4 DEF Given
    <2>2. Cardinality(Given) = 0
      BY Zenon, <2>1, FS_EmptySet
    <2> QED BY Zenon, <1>1, <1>4, <2>1, <2>2 DEF ByCount
  <1>8. at <= MaxKey
    BY SMT, <1>1, BoundsAre
  <1>9. pc # "asked" /\ pc # "over" /\ pc # "answered"
    BY <1>1
  <1> QED BY Zenon, <1>1, <1>5, <1>6, <1>7, <1>8, <1>9 DEF Walked

LEMMA WalkedAsk ==
  ASSUME Walked, Pg!Ask
  PROVE  Walked'
  <1>1. /\ pc = "idle" /\ pc' = "asked" /\ present' = present /\ steady' = steady /\ writes' = writes
        /\ failures' = failures /\ style' = style /\ limit' = limit /\ at' = at /\ page' = page /\ seen' = seen
    BY Zenon DEF Pg!Ask
  <1>2. Pg!PagingBounds /\ Pg!PagingBounds' /\ Pg!TypeOK
    BY Zenon DEF Walked, Pg!PagingBounds
  <1>3. limit \in Limits /\ at \in 0 .. 2 * MaxKey /\ style \in {"position", "tuple", "offset"}
    BY Zenon, <1>2 DEF Pg!TypeOK
  <1>4. style # "offset" => at \in 0 .. MaxKey
    <2>1. style # "offset" => at <= MaxKey
      BY Zenon DEF Walked
    <2> QED BY SMT, <1>2, <1>3, <2>1, BoundsAre
  <1>5. packet' = IF style = "offset" THEN Packed(limit, at, 0) ELSE Packed(limit, 0, at)
    <2> DEFINE s == Pg!Select(limit)
               from == IF at = Pg!Nothing THEN s
                       ELSE CASE style = "position" -> Pg!After(s, at)
                              [] style = "tuple" -> Pg!AfterTuple(s, at)
                              [] style = "offset" -> Pg!Offset(s, at)
    <2>1. packet' = Pg!Build(Pg!Page(from))
      BY Zenon DEF Pg!Ask
    <2>2. CASE at = Pg!Nothing
      <3>1. from = s
        BY Zenon, <2>2
      <3> HIDE DEF from
      <3>2. packet' = Packed(limit, 0, 0)
        BY SMT, <2>1, <3>1, PackedIs
      <3> QED BY Zenon, <2>2, <3>2 DEF Pg!Nothing
    <2>3. CASE at # Pg!Nothing /\ style = "position"
      <3>1. from = Pg!After(s, at)
        BY SMT, <2>3
      <3>2. packet' = Packed(limit, 0, at)
        BY Zenon, <2>1, <3>1, PackedIs
      <3> QED BY <2>3, <3>2
    <2>4. CASE at # Pg!Nothing /\ style = "tuple"
      <3>1. from = Pg!AfterTuple(s, at)
        BY SMT, <2>4
      <3>2. packet' = Packed(limit, 0, at)
        BY Zenon, <2>1, <3>1, PackedIs
      <3> QED BY <2>4, <3>2
    <2>5. CASE at # Pg!Nothing /\ style = "offset"
      <3>1. from = Pg!Offset(s, at)
        BY SMT, <2>5
      <3>2. packet' = Packed(limit, at, 0)
        BY Zenon, <2>1, <3>1, PackedIs
      <3> QED BY <2>5, <3>2
    <2> QED BY Zenon, <1>3, <2>2, <2>3, <2>4, <2>5
  <1>6. packet' \in [LIMIT : Limits, OFFSET : 0 .. 2 * MaxKey, AFTER : 0 .. MaxKey, FETCH_POSITION : BOOLEAN]
    <2>1. CASE style = "offset"
      BY Zenon, <1>2, <1>3, <1>5, <2>1, BoundsAre, PackedType DEF Packed
    <2>2. CASE style # "offset"
      BY Zenon, <1>2, <1>3, <1>4, <1>5, <2>2, BoundsAre, PackedType DEF Packed
    <2> QED BY Zenon, <2>1, <2>2
  <1>7. AsksOn'
    <2>1. CASE style = "offset"
      BY <1>1, <1>5, <2>1 DEF AsksOn, Packed
    <2>2. CASE style # "offset"
      BY <1>1, <1>5, <2>2 DEF AsksOn, Packed
    <2> QED BY Zenon, <2>1, <2>2
  <1>8. Pg!TypeOK'
    BY Zenon, <1>1, <1>2, <1>6 DEF Pg!TypeOK
  <1>9. (ByKey => ByKey') /\ (ByCount => ByCount')
    BY Zenon, <1>1 DEF ByKey, ByCount, Given, Pg!Keys
  <1>10. pc # "over" /\ pc' # "over" /\ pc' # "answered"
    BY <1>1
  <1> QED BY Zenon, <1>1, <1>2, <1>7, <1>8, <1>9, <1>10 DEF Walked

\* A page of what is behind a, seen from the keys that stay.
LEMMA PageIsAhead ==
  ASSUME Pg!PagingBounds, NEW P \in SUBSET Pg!Keys, NEW S \in SUBSET P, NEW a, NEW g,
         PageOf(g, {k \in P : k > a}, {})
  PROVE  Ahead(g, S, a)
  <1> DEFINE B == {k \in P : k > a}
  <1>1. \A k \in B : k > a /\ k \in P
    BY Zenon
  <1>2. \A k \in S : k > a => k \in B
    BY Zenon
  <1>3. PageOf(g, B, {})
    BY Zenon
  <1> HIDE DEF B
  <1>4. /\ g.rows \subseteq B
        /\ \A k \in g.rows : \A j \in B : j < k => j \in g.rows
        /\ g.position # 0 => g.position \in g.rows /\ \A k \in g.rows : k <= g.position
        /\ g.rows = {} \/ g.position = 0 => \A k \in B : k \in g.rows
    BY Zenon, <1>3 DEF PageOf
  <1>5. ASSUME NEW k \in B, g.position # 0, k <= g.position PROVE k \in g.rows
    <2>1. g.position \in g.rows /\ k \in Pg!Keys /\ g.position \in Pg!Keys
      BY Zenon, <1>1, <1>4, <1>5
    <2>2. k < g.position \/ k = g.position
      <3> DEFINE m == g.position
      <3>1. k \in Nat /\ m \in Nat
        BY Zenon, <2>1, BoundsAre
      <3>2. k <= m
        BY Zenon, <1>5
      <3> HIDE DEF m
      <3>3. k < m \/ k = m
        BY SMT, <3>1, <3>2
      <3> QED BY Zenon, <3>3 DEF m
    <2> QED BY Zenon, <1>4, <2>1, <2>2
  <1> QED BY Zenon, <1>1, <1>2, <1>4, <1>5 DEF Ahead

LEMMA WalkedServerSelects ==
  ASSUME Walked, Pg!ServerSelects
  PROVE  Walked'
  <1>1. /\ pc = "asked" /\ pc' = "answered" /\ page' \in Pg!Answer(packet)
        /\ present' = present /\ steady' = steady /\ writes' = writes /\ failures' = failures
        /\ style' = style /\ limit' = limit /\ at' = at /\ packet' = packet /\ seen' = seen
    BY Zenon DEF Pg!ServerSelects
  <1>2. Pg!PagingBounds /\ Pg!PagingBounds' /\ Pg!TypeOK /\ AsksOn
    BY Zenon, <1>1 DEF Walked, Pg!PagingBounds
  <1>3. present \in SUBSET Pg!Keys /\ limit \in Limits /\ at \in 0 .. 2 * MaxKey
          /\ seen \in [Pg!Keys -> 0 .. 2]
    BY Zenon, <1>2 DEF Pg!TypeOK
  <1>4. packet.LIMIT \in Nat \ {0} /\ packet.FETCH_POSITION = TRUE
    BY Zenon, <1>2, <1>3, BoundsAre DEF AsksOn
  <1>5. at \in Nat /\ packet.OFFSET \in Nat /\ packet.AFTER \in Nat
    <2>1. at \in Nat
      BY SMT, <1>2, <1>3, BoundsAre
    <2> QED BY <1>2, <2>1 DEF AsksOn
  <1> DEFINE B == {k \in present : k > packet.AFTER}
  <1>6. /\ page' \in [rows : SUBSET Pg!Keys, position : 0 .. MaxKey]
        /\ PageOf(page', B, Pg!FirstOf(B, packet.OFFSET))
    BY Zenon, <1>1, <1>2, <1>3, <1>4, <1>5, AnswerIs
  <1>7. Pg!TypeOK'
    <2>1. pc' \in {"idle", "asked", "answered", "over"}
      BY Zenon, <1>1
    <2> QED BY Zenon, <1>1, <1>2, <1>6, <2>1 DEF Pg!TypeOK
  <1>8. style # "offset" => Ahead(page', steady, at)
    <2> SUFFICES ASSUME style # "offset" PROVE Ahead(page', steady, at)
      OBVIOUS
    <2>1. packet.AFTER = at /\ packet.OFFSET = 0
      BY Zenon, <1>2 DEF AsksOn
    <2>2. B \in SUBSET Pg!Keys /\ B = {k \in present : k > at}
      BY Zenon, <1>3, <2>1
    <2> HIDE DEF B
    <2>3. Pg!FirstOf(B, 0) = {}
      BY Zenon, <1>2, <2>2, FirstOfNone
    <2>4. PageOf(page', B, {})
      BY Zenon, <1>6, <2>1, <2>3
    <2>5. PageOf(page', {k \in present : k > at}, {})
      BY Zenon, <2>2, <2>4
    <2>6. steady \in SUBSET present
      BY Zenon DEF Walked
    <2> QED BY Zenon, <1>2, <1>3, <2>5, <2>6, PageIsAhead
  <1>9. style = "offset" /\ writes = 0 => PageOf(page', present, Given)
    <2> SUFFICES ASSUME style = "offset", writes = 0 PROVE PageOf(page', present, Given)
      OBVIOUS
    <2>1. packet.AFTER = 0 /\ packet.OFFSET = at
      BY Zenon, <1>2 DEF AsksOn
    <2>2. \A k \in present : k > 0
      BY Zenon, <1>2, <1>3, BoundsAre
    <2>3. B = present
      BY Zenon, <2>1, <2>2
    <2>4. pc # "over"
      BY <1>1
    <2>5. Given \in SUBSET present /\ Cardinality(Given) = at
            /\ \A k \in Given : \A j \in present : j < k => j \in Given
      BY Zenon, <2>4 DEF Walked, ByCount
    <2> HIDE DEF B
    <2>6. Pg!FirstOf(present, Cardinality(Given)) = Given
      BY Zenon, <1>2, <1>3, <2>5, FirstAreThese
    <2> QED BY Zenon, <1>6, <2>1, <2>3, <2>5, <2>6
  <1>10. (ByKey => ByKey') /\ (ByCount => ByCount') /\ Given' = Given
    BY Zenon, <1>1 DEF ByKey, ByCount, Given, Pg!Keys
  <1>11. pc # "over" /\ pc' # "over" /\ pc' # "asked"
    BY <1>1
  <1>12. style' # "offset" => at' <= MaxKey /\ ByKey' /\ Ahead(page', steady', at')
    BY Zenon, <1>1, <1>8, <1>10, <1>11 DEF Walked
  <1>13. style' = "offset" /\ writes' = 0 => ByCount' /\ PageOf(page', present', Given')
    BY Zenon, <1>1, <1>9, <1>10, <1>11 DEF Walked
  <1>14. steady' \subseteq present' /\ (writes' = 0 => steady' = present')
    BY Zenon, <1>1 DEF Walked
  <1> QED BY Zenon, <1>2, <1>7, <1>11, <1>12, <1>13, <1>14 DEF Walked

LEMMA WalkedPageFails ==
  ASSUME Walked, Pg!PageFails
  PROVE  Walked'
  <1>1. /\ pc \in {"asked", "answered"} /\ pc' = "idle" /\ failures < MaxFailures
        /\ failures' = failures + 1 /\ page' = Pg!NoPage
        /\ present' = present /\ steady' = steady /\ writes' = writes
        /\ style' = style /\ limit' = limit /\ at' = at /\ packet' = packet /\ seen' = seen
    BY Zenon DEF Pg!PageFails
  <1>2. Pg!PagingBounds /\ Pg!PagingBounds' /\ Pg!TypeOK
    BY Zenon DEF Walked, Pg!PagingBounds
  <1>3. failures' \in 0 .. MaxFailures
    <2>1. failures \in 0 .. MaxFailures
      BY Zenon, <1>2 DEF Pg!TypeOK
    <2> QED BY SMT, <1>1, <1>2, <2>1, BoundsAre
  <1>4. Pg!TypeOK'
    <2>1. pc' \in {"idle", "asked", "answered", "over"}
      BY Zenon, <1>1
    <2>2. page' \in [rows : SUBSET Pg!Keys, position : 0 .. MaxKey]
      BY Zenon, <1>1, <1>2, NoPageType
    <2> QED BY Zenon, <1>1, <1>2, <1>3, <2>1, <2>2 DEF Pg!TypeOK
  <1>5. (ByKey => ByKey') /\ (ByCount => ByCount')
    BY Zenon, <1>1 DEF ByKey, ByCount, Given, Pg!Keys
  <1>6. pc # "over" /\ pc' # "over" /\ pc' # "asked" /\ pc' # "answered"
    BY <1>1
  <1> QED BY Zenon, <1>1, <1>2, <1>4, <1>5, <1>6 DEF Walked

\* What a page does to what was seen: seen[k] goes up for its rows.
Noted(old, new, rows) ==
  new = [k \in Pg!Keys |-> IF k \in rows /\ old[k] < 2 THEN old[k] + 1 ELSE old[k]]

LEMMA NotedType ==
  ASSUME NEW old \in [Pg!Keys -> 0 .. 2], NEW new, NEW rows, Noted(old, new, rows)
  PROVE  new \in [Pg!Keys -> 0 .. 2]
  <1>1. \A k \in Pg!Keys : (IF k \in rows /\ old[k] < 2 THEN old[k] + 1 ELSE old[k]) \in 0 .. 2
    <2> SUFFICES ASSUME NEW k \in Pg!Keys
                 PROVE  (IF k \in rows /\ old[k] < 2 THEN old[k] + 1 ELSE old[k]) \in 0 .. 2
      OBVIOUS
    <2>1. old[k] \in 0 .. 2
      BY Zenon
    <2> QED BY SMT, <2>1
  <1> QED BY Zenon, <1>1 DEF Noted

LEMMA NotedOnce ==
  ASSUME NEW old, NEW new, NEW rows, Noted(old, new, rows), \A k \in rows : old[k] = 0,
         \A k \in Pg!Keys : old[k] < 2
  PROVE  \A k \in Pg!Keys : new[k] = (IF k \in rows THEN 1 ELSE old[k]) /\ new[k] < 2
  <1> SUFFICES ASSUME NEW k \in Pg!Keys
               PROVE  new[k] = (IF k \in rows THEN 1 ELSE old[k]) /\ new[k] < 2
    OBVIOUS
  <1>1. new[k] = IF k \in rows /\ old[k] < 2 THEN old[k] + 1 ELSE old[k]
    BY Zenon DEF Noted
  <1>2. CASE k \in rows
    <2>1. old[k] = 0 /\ old[k] < 2
      BY Zenon, <1>2
    <2> QED BY SMT, <1>1, <1>2, <2>1
  <1>3. CASE k \notin rows
    BY Zenon, <1>1, <1>3
  <1> QED BY Zenon, <1>2, <1>3

\* TakePage, with a page that is the last one or not.
LEMMA TakePageIs ==
  ASSUME Pg!TakePage
  PROVE  /\ pc = "answered" /\ Noted(seen, seen', page.rows) /\ page' = Pg!NoPage
         /\ present' = present /\ steady' = steady /\ writes' = writes /\ failures' = failures
         /\ style' = style /\ limit' = limit /\ packet' = packet
         /\ page.rows = {} \/ page.position = 0 => pc' = "over" /\ at' = at
         /\ ~ (page.rows = {} \/ page.position = 0) =>
              /\ pc' = "idle"
              /\ style = "position" => at' = page.position
              /\ style = "tuple" => at' = Pg!Max(page.rows)
              /\ style = "offset" =>
                   at' = IF at + Cardinality(page.rows) > 2 * MaxKey THEN 2 * MaxKey
                         ELSE at + Cardinality(page.rows)
  <1>1. /\ pc = "answered" /\ Noted(seen, seen', page.rows) /\ page' = Pg!NoPage
        /\ present' = present /\ steady' = steady /\ writes' = writes /\ failures' = failures
        /\ style' = style /\ limit' = limit /\ packet' = packet
    BY Zenon DEF Pg!TakePage, Noted
  <1>2. page.rows = {} \/ page.position = 0 => pc' = "over" /\ at' = at
    BY Zenon DEF Pg!TakePage, Pg!Nothing
  <1>3. ASSUME ~ (page.rows = {} \/ page.position = 0)
        PROVE  /\ pc' = "idle"
               /\ style = "position" => at' = page.position
               /\ style = "tuple" => at' = Pg!Max(page.rows)
               /\ style = "offset" =>
                    at' = IF at + Cardinality(page.rows) > 2 * MaxKey THEN 2 * MaxKey
                          ELSE at + Cardinality(page.rows)
    <2> DEFINE n == IF at + Pg!Cardinality(page.rows) > 2 * MaxKey THEN 2 * MaxKey
                    ELSE at + Pg!Cardinality(page.rows)
               m == Pg!Max(page.rows)
    <2>1. /\ pc' = "idle"
          /\ at' = CASE style = "position" -> page.position
                     [] style = "tuple" -> m
                     [] style = "offset" -> n
      BY Zenon, <1>3 DEF Pg!TakePage, Pg!Nothing
    <2>2. n = IF at + Cardinality(page.rows) > 2 * MaxKey THEN 2 * MaxKey
              ELSE at + Cardinality(page.rows)
      BY Zenon, SameCardinality
    <2> HIDE DEF n, m
    <2>3. style = "position" => at' = page.position
      BY SMT, <2>1
    <2>4. style = "tuple" => at' = m
      BY SMT, <2>1
    <2>5. style = "offset" => at' = n
      BY SMT, <2>1
    <2> QED BY Zenon, <2>1, <2>2, <2>3, <2>4, <2>5 DEF m
  <1> QED BY Zenon, <1>1, <1>2, <1>3

\* A page is added to a walk by position or by tuple.
LEMMA TakenByKey ==
  ASSUME Walked, Pg!TakePage, style # "offset"
  PROVE  at' <= MaxKey /\ at' \in Nat /\ IF pc' = "over" THEN AllGiven' ELSE ByKey'
  <1> DEFINE rows == page.rows
             last == rows = {} \/ page.position = 0
  <1>1. Pg!PagingBounds /\ Pg!TypeOK /\ pc = "answered" /\ pc # "over"
    BY TakePageIs DEF Walked
  <1>2. ByKey /\ Ahead(page, steady, at) /\ at <= MaxKey
    BY Zenon, <1>1 DEF Walked
  <1>3. /\ rows \subseteq Pg!Keys /\ steady \subseteq Pg!Keys /\ seen \in [Pg!Keys -> 0 .. 2]
        /\ at \in 0 .. 2 * MaxKey /\ style \in {"position", "tuple", "offset"}
    BY Zenon, <1>1 DEF Pg!TypeOK
  <1>4. at \in Nat /\ MaxKey \in Nat /\ \A k \in Pg!Keys : k \in Nat /\ k > 0 /\ k <= MaxKey
    BY SMT, <1>1, <1>3, BoundsAre
  <1>5. \A k \in rows : seen[k] = 0
    <2> SUFFICES ASSUME NEW k \in rows PROVE seen[k] = 0
      OBVIOUS
    <2>1. k \in Pg!Keys /\ k > at /\ seen[k] < 2 /\ (seen[k] = 1 => k <= at)
      BY Zenon, <1>2, <1>3 DEF ByKey, Ahead
    <2>2. seen[k] \in 0 .. 2 /\ k \in Nat
      BY Zenon, <1>3, <1>4, <2>1
    <2> QED BY SMT, <1>4, <2>1, <2>2
  <1>6. \A k \in Pg!Keys : seen'[k] = (IF k \in rows THEN 1 ELSE seen[k]) /\ seen'[k] < 2
    <2>1. Noted(seen, seen', rows) /\ \A k \in Pg!Keys : seen[k] < 2
      BY Zenon, <1>2, TakePageIs DEF ByKey
    <2> QED BY Zenon, <1>5, <2>1, NotedOnce
  <1>7. \A k \in Pg!Keys : k <= at \/ k > at
    BY SMT, <1>4
  <1>8. Pg!Keys' = Pg!Keys
    BY DEF Pg!Keys
  <1>9. steady' = steady
    BY Zenon, TakePageIs
  <1>10. CASE last
    <2>1. pc' = "over" /\ at' = at
      BY Zenon, <1>10, TakePageIs
    <2>2. \A k \in steady : seen'[k] = 1
      <3> SUFFICES ASSUME NEW k \in steady PROVE seen'[k] = 1
        OBVIOUS
      <3>1. CASE k <= at
        <4>1. k \in Pg!Keys /\ seen[k] = 1
          BY Zenon, <1>2, <1>3, <3>1 DEF ByKey
        <4> QED BY SMT, <1>6, <4>1
      <3>2. CASE k > at
        BY Zenon, <1>2, <1>3, <1>6, <1>10, <3>2 DEF Ahead
      <3> QED BY Zenon, <1>3, <1>7, <3>1, <3>2
    <2>3. AllGiven'
      BY Zenon, <1>6, <1>8, <1>9, <2>2 DEF AllGiven
    <2> QED BY Zenon, <1>2, <1>4, <2>1, <2>3
  <1>11. CASE ~ last
    <2> DEFINE m == page.position
    <2>1. pc' = "idle" /\ rows # {} /\ m # 0
      BY Zenon, <1>11, TakePageIs
    <2>2. m \in rows /\ \A k \in rows : k <= m
      BY Zenon, <1>2, <2>1 DEF Ahead
    <2>3. at' = m
      <3>1. CASE style = "position"
        BY Zenon, <1>11, <3>1, TakePageIs
      <3>2. CASE style = "tuple"
        <4>1. at' = Pg!Max(rows)
          BY Zenon, <1>11, <3>2, TakePageIs
        <4>2. rows \in SUBSET Pg!Keys
          BY Zenon, <1>3
        <4>3. Pg!Max(rows) \in rows /\ \A k \in rows : k <= Pg!Max(rows)
          BY Zenon, <1>1, <2>1, <4>2, Greatest
        <4> DEFINE x == Pg!Max(rows)
        <4>4. x <= m /\ m <= x /\ x \in Nat /\ m \in Nat
          BY Zenon, <1>3, <1>4, <2>2, <4>3
        <4> HIDE DEF x, m
        <4>5. x = m
          BY SMT, <4>4
        <4> QED BY Zenon, <4>1, <4>5 DEF x
      <3> QED BY Zenon, <1>3, <3>1, <3>2
    <2> HIDE DEF m
    <2>4. m \in Nat /\ m <= MaxKey /\ m > at
      BY Zenon, <1>2, <1>3, <1>4, <2>2 DEF Ahead
    <2>5. \A k \in Pg!Keys : seen'[k] = 1 => k <= m
      <3> SUFFICES ASSUME NEW k \in Pg!Keys, seen'[k] = 1 PROVE k <= m
        OBVIOUS
      <3>1. CASE k \in rows
        BY Zenon, <2>2, <3>1
      <3>2. CASE k \notin rows
        <4>1. k <= at
          BY Zenon, <1>2, <1>6, <3>2 DEF ByKey
        <4>2. k \in Nat
          BY Zenon, <1>4
        <4> QED BY SMT, <1>4, <2>4, <4>1, <4>2
      <3> QED BY Zenon, <3>1, <3>2
    <2>6. \A k \in steady : k <= m => seen'[k] = 1
      <3> SUFFICES ASSUME NEW k \in steady, k <= m PROVE seen'[k] = 1
        OBVIOUS
      <3>1. CASE k <= at
        <4>1. k \in Pg!Keys /\ seen[k] = 1
          BY Zenon, <1>2, <1>3, <3>1 DEF ByKey
        <4> QED BY SMT, <1>6, <4>1
      <3>2. CASE k > at
        BY Zenon, <1>2, <1>3, <1>6, <3>2 DEF Ahead, m
      <3> QED BY Zenon, <1>3, <1>7, <3>1, <3>2
    <2>7. ByKey'
      BY Zenon, <1>6, <1>8, <1>9, <2>3, <2>5, <2>6 DEF ByKey
    <2>8. pc' # "over"
      BY <2>1
    <2> QED BY Zenon, <2>3, <2>4, <2>7, <2>8
  <1> QED BY Zenon, <1>10, <1>11

\* A page is added to a walk by offset while nobody writes.
LEMMA TakenByCount ==
  ASSUME Walked, Pg!TakePage, style = "offset", writes = 0
  PROVE  IF pc' = "over" THEN AllGiven' ELSE ByCount'
  <1> DEFINE rows == page.rows
             last == rows = {} \/ page.position = 0
  <1>1. Pg!PagingBounds /\ Pg!TypeOK /\ pc = "answered" /\ pc # "over" /\ steady = present
    BY TakePageIs DEF Walked
  <1>2. ByCount /\ PageOf(page, present, Given)
    BY Zenon, <1>1 DEF Walked
  <1>3. /\ rows \subseteq Pg!Keys /\ present \subseteq Pg!Keys /\ seen \in [Pg!Keys -> 0 .. 2]
        /\ at \in 0 .. 2 * MaxKey
    BY Zenon, <1>1 DEF Pg!TypeOK
  <1>4. at \in Nat /\ MaxKey \in Nat
    BY SMT, <1>1, <1>3, BoundsAre
  <1>5. \A k \in rows : seen[k] = 0
    <2> SUFFICES ASSUME NEW k \in rows PROVE seen[k] = 0
      OBVIOUS
    <2>1. k \in Pg!Keys /\ k \notin Given /\ seen[k] < 2
      BY Zenon, <1>2, <1>3 DEF ByCount, PageOf
    <2>2. seen[k] \in 0 .. 2 /\ seen[k] # 1
      BY Zenon, <1>3, <2>1 DEF Given
    <2> QED BY SMT, <2>1, <2>2
  <1>6. \A k \in Pg!Keys : seen'[k] = (IF k \in rows THEN 1 ELSE seen[k]) /\ seen'[k] < 2
    <2>1. Noted(seen, seen', rows) /\ \A k \in Pg!Keys : seen[k] < 2
      BY Zenon, <1>2, TakePageIs DEF ByCount
    <2> QED BY Zenon, <1>5, <2>1, NotedOnce
  <1>7. steady' = steady /\ present' = present /\ Pg!Keys' = Pg!Keys
    BY Zenon, TakePageIs DEF Pg!Keys
  <1>8. \A k \in Pg!Keys : k \in Given' <=> k \in Given \/ k \in rows
    <2> SUFFICES ASSUME NEW k \in Pg!Keys PROVE seen'[k] = 1 <=> seen[k] = 1 \/ k \in rows
      BY Zenon, <1>7 DEF Given
    <2> QED BY SMT, <1>6
  <1>9. Given' = Given \cup rows
    BY Zenon, <1>3, <1>7, <1>8 DEF Given
  <1>10. CASE last
    <2>1. pc' = "over"
      BY Zenon, <1>10, TakePageIs
    <2>2. \A k \in present : k \in Given'
      BY Zenon, <1>2, <1>9, <1>10 DEF PageOf
    <2>3. AllGiven'
      BY Zenon, <1>1, <1>6, <1>7, <2>2 DEF AllGiven, Given
    <2> QED BY Zenon, <2>1, <2>3
  <1>11. CASE ~ last
    <2>1. pc' = "idle" /\ at' = IF at + Cardinality(rows) > 2 * MaxKey THEN 2 * MaxKey
                                ELSE at + Cardinality(rows)
      BY Zenon, <1>11, TakePageIs
    <2>2. Given \in SUBSET Pg!Keys /\ rows \in SUBSET Pg!Keys /\ Given \cup rows \in SUBSET Pg!Keys
      BY Zenon, <1>3 DEF Given
    <2>3. IsFiniteSet(Given)
      BY Zenon, <1>1, <2>2, KeysFinite
    <2>4. IsFiniteSet(rows) /\ Cardinality(rows) \in Nat
      BY Zenon, <1>1, <2>2, KeysFinite
    <2>5. Cardinality(Given \cup rows) <= MaxKey
      BY Zenon, <1>1, <2>2, KeysFinite
    <2>6. Given \cap rows = {}
      BY Zenon, <1>2 DEF PageOf
    <2>7. Cardinality(Given \cup rows) = Cardinality(Given) + Cardinality(rows) - Cardinality(Given \cap rows)
      BY Zenon, <2>3, <2>4, FS_Union
    <2>8. Cardinality(Given \cap rows) = 0
      BY Zenon, <2>6, FS_EmptySet
    <2>9. Cardinality(Given) = at
      BY Zenon, <1>2 DEF ByCount
    <2>10. Cardinality(Given \cup rows) = at'
      BY SMT, <1>4, <2>1, <2>4, <2>5, <2>7, <2>8, <2>9
    <2>11. Cardinality(Given') = at'
      BY Zenon, <1>9, <2>10
    <2>12. Given' \subseteq present'
      BY Zenon, <1>2, <1>7, <1>9 DEF ByCount, PageOf
    <2>13. \A k \in Given' : \A j \in present' : j < k => j \in Given'
      BY Zenon, <1>2, <1>7, <1>9 DEF ByCount, PageOf
    <2>14. ByCount'
      BY Zenon, <1>6, <1>7, <2>11, <2>12, <2>13 DEF ByCount
    <2>15. pc' # "over"
      BY <2>1
    <2> QED BY Zenon, <2>14, <2>15
  <1> QED BY Zenon, <1>10, <1>11

LEMMA WalkedTakePage ==
  ASSUME Walked, Pg!TakePage
  PROVE  Walked'
  <1>1. /\ pc = "answered" /\ Noted(seen, seen', page.rows) /\ page' = Pg!NoPage
        /\ present' = present /\ steady' = steady /\ writes' = writes /\ failures' = failures
        /\ style' = style /\ limit' = limit /\ packet' = packet
    BY Zenon, TakePageIs
  <1>2. Pg!PagingBounds /\ Pg!PagingBounds' /\ Pg!TypeOK
    BY Zenon DEF Walked, Pg!PagingBounds
  <1>3. pc' = "over" \/ pc' = "idle"
    BY Zenon, TakePageIs
  <1>4. pc' # "asked" /\ pc' # "answered"
    BY <1>3
  <1>5. seen' \in [Pg!Keys -> 0 .. 2]
    <2>1. seen \in [Pg!Keys -> 0 .. 2]
      BY Zenon, <1>2 DEF Pg!TypeOK
    <2> QED BY Zenon, <1>1, <2>1, NotedType
  <1>6. at \in 0 .. 2 * MaxKey /\ MaxKey \in Nat /\ page.rows \in SUBSET Pg!Keys
    BY Zenon, <1>2, BoundsAre DEF Pg!TypeOK
  <1>7. at' \in 0 .. 2 * MaxKey
    <2>1. CASE style # "offset"
      <3>1. at' <= MaxKey /\ at' \in Nat
        BY Zenon, <2>1, TakenByKey
      <3> QED BY SMT, <1>6, <3>1
    <2>2. CASE style = "offset"
      <3>1. Cardinality(page.rows) \in Nat
        BY Zenon, <1>2, <1>6, KeysFinite
      <3> DEFINE n == Cardinality(page.rows)
      <3>2. at' = at \/ at' = IF at + n > 2 * MaxKey THEN 2 * MaxKey ELSE at + n
        BY Zenon, <2>2, TakePageIs
      <3>3. n \in Nat
        BY <3>1
      <3> HIDE DEF n
      <3> QED BY SMT, <1>6, <3>2, <3>3
    <2> QED BY Zenon, <2>1, <2>2
  <1>8. Pg!TypeOK'
    <2>1. pc' \in {"idle", "asked", "answered", "over"}
      BY Zenon, <1>3
    <2>2. page' \in [rows : SUBSET Pg!Keys, position : 0 .. MaxKey]
      BY Zenon, <1>1, <1>2, NoPageType
    <2> QED BY Zenon, <1>1, <1>2, <1>5, <1>7, <2>1, <2>2 DEF Pg!TypeOK
  <1>9. style' # "offset" => at' <= MaxKey /\ IF pc' = "over" THEN AllGiven' ELSE ByKey'
    BY Zenon, <1>1, TakenByKey
  <1>10. style' = "offset" /\ writes' = 0 => IF pc' = "over" THEN AllGiven' ELSE ByCount'
    BY Zenon, <1>1, TakenByCount
  <1>11. steady' \subseteq present' /\ (writes' = 0 => steady' = present')
    BY Zenon, <1>1 DEF Walked
  <1> QED BY Zenon, <1>2, <1>4, <1>8, <1>9, <1>10, <1>11 DEF Walked

LEMMA WalkedWrite ==
  ASSUME Walked, NEW w \in Pg!Keys, Pg!Write(w)
  PROVE  Walked'
  <1>1. /\ pc # "over" /\ writes < MaxWrites /\ writes' = writes + 1
        /\ present' = (IF w \in present THEN present \ {w} ELSE present \cup {w})
        /\ steady' = steady \ {w} /\ failures' = failures /\ style' = style /\ limit' = limit
        /\ at' = at /\ pc' = pc /\ packet' = packet /\ page' = page /\ seen' = seen
    BY Zenon DEF Pg!Write
  <1>2. Pg!PagingBounds /\ Pg!PagingBounds' /\ Pg!TypeOK
    BY Zenon DEF Walked, Pg!PagingBounds
  <1>3. writes' \in 0 .. MaxWrites /\ writes' # 0
    <2>1. writes \in 0 .. MaxWrites
      BY Zenon, <1>2 DEF Pg!TypeOK
    <2> QED BY SMT, <1>1, <1>2, <2>1, BoundsAre
  <1>4. Pg!TypeOK'
    <2>1. {present', steady'} \subseteq SUBSET Pg!Keys
      BY Zenon, <1>1, <1>2 DEF Pg!TypeOK
    <2> QED BY Zenon, <1>1, <1>2, <1>3, <2>1 DEF Pg!TypeOK
  <1>5. steady' \subseteq present'
    BY Zenon, <1>1 DEF Walked
  <1>6. \A k \in steady' : k \in steady
    BY Zenon, <1>1
  <1>7. ByKey => ByKey'
    BY Zenon, <1>1, <1>6 DEF ByKey, Pg!Keys
  <1>8. Ahead(page, steady, at) => Ahead(page', steady', at')
    BY Zenon, <1>1, <1>6 DEF Ahead
  <1>9. AsksOn => AsksOn'
    BY Zenon, <1>1 DEF AsksOn
  <1> QED BY Zenon, <1>1, <1>2, <1>3, <1>4, <1>5, <1>7, <1>8, <1>9 DEF Walked

LEMMA WalkedStep == Walked /\ [Pg!Next]_Pg!vars => Walked'
  <1> SUFFICES ASSUME Walked, [Pg!Next]_Pg!vars PROVE Walked'
    OBVIOUS
  <1>1. CASE Pg!Ask
    BY Zenon, <1>1, WalkedAsk
  <1>2. CASE Pg!ServerSelects
    BY Zenon, <1>2, WalkedServerSelects
  <1>3. CASE Pg!PageFails
    BY Zenon, <1>3, WalkedPageFails
  <1>4. CASE Pg!TakePage
    BY Zenon, <1>4, WalkedTakePage
  <1>5. CASE \E k \in Pg!Keys : Pg!Write(k)
    BY Zenon, <1>5, WalkedWrite
  <1>6. CASE UNCHANGED Pg!vars
    <2>1. /\ present' = present /\ steady' = steady /\ writes' = writes /\ failures' = failures
          /\ style' = style /\ limit' = limit /\ at' = at /\ pc' = pc /\ packet' = packet
          /\ page' = page /\ seen' = seen
      BY Zenon, <1>6 DEF Pg!vars
    <2>2. Pg!PagingBounds' /\ Pg!TypeOK'
      BY Zenon, <2>1 DEF Walked, Pg!PagingBounds, Pg!TypeOK, Pg!Keys
    <2>3. Given' = Given /\ (ByKey => ByKey') /\ (ByCount => ByCount') /\ (AsksOn => AsksOn')
            /\ (AllGiven => AllGiven')
      BY Zenon, <2>1 DEF Given, ByKey, ByCount, AsksOn, AllGiven, Pg!Keys
    <2> QED BY Zenon, <2>1, <2>2, <2>3 DEF Walked
  <1> QED BY Zenon, <1>1, <1>2, <1>3, <1>4, <1>5, <1>6 DEF Pg!Next

LEMMA WalkedIsOnce == Walked => Pg!RowsOnce
  <1> SUFFICES ASSUME Walked PROVE Pg!RowsOnce
    OBVIOUS
  <1>1. style # "offset" \/ writes = 0 =>
          /\ \A k \in Pg!Keys : seen[k] < 2
          /\ pc = "over" => \A k \in steady : seen[k] = 1
    BY Zenon DEF Walked, AllGiven, ByKey, ByCount
  <1> QED BY Zenon, <1>1 DEF Walked, Pg!RowsOnce, Pg!EachOnce

\* Paging: whatever the keys, the page sizes, the writes of others and the pages
\* that fail, a walk by position or by tuple is given every tuple that stays
\* exactly once and none twice, and so is a walk by offset while nobody writes.
THEOREM PagesSeeEachOnce == Pg!PagingBounds /\ Spec => []RowsOnce
  <1> DEFINE Chosen == kind = "pages" => Walked
  <1>1. Pg!PagingBounds /\ Init => Chosen
    BY Zenon, WalkedInit, KindsDiffer DEF Init
  <1>2. Chosen /\ [Next]_vars => Chosen'
    BY Zenon, WalkedStep, PagesPart
  <1>3. Chosen => RowsOnce
    BY Zenon, WalkedIsOnce DEF RowsOnce
  <1> QED BY <1>1, <1>2, <1>3, PTL DEF Spec

-----------------------------------------------------------------------------
(* The length in front of a packet *)

\* What was read for the length m: it, or something over the limit as m is.
Stands(r, m) ==
  /\ r \in Nat /\ m \in Nat
  /\ r = m \/ (r > MaxPacketLen /\ m > MaxPacketLen)

\* A number from its lowest byte and the rest.
Joined(m, b) == m * 256 + b
Low(n) == n % 256

LEMMA ShiftStands ==
  ASSUME MaxPacketLen \in Nat, NEW r, NEW m, Stands(r, m), NEW b \in Fr!Byte
  PROVE  Stands(Fr!Shift(r, b), Joined(m, b))
  BY SMT DEF Stands, Fr!Shift, Joined, Fr!Byte

LEMMA HighIs ==
  ASSUME NEW n \in Nat
  PROVE  Fr!High(n) \in Nat /\ Low(n) \in Fr!Byte /\ n = Joined(Fr!High(n), Low(n))
  BY SMT DEF Fr!High, Low, Joined, Fr!Byte

\* A length below 2^32 from its four bytes.
LEMMA FourBytes ==
  ASSUME NEW n \in Nat, Fr!High(Fr!High(Fr!High(n))) < 256
  PROVE  LET b1 == Fr!High(Fr!High(Fr!High(n)))
             b2 == Low(Fr!High(Fr!High(n)))
             b3 == Low(Fr!High(n))
             b4 == Low(n)
         IN /\ b1 \in Fr!Byte /\ b2 \in Fr!Byte /\ b3 \in Fr!Byte /\ b4 \in Fr!Byte
            /\ Joined(Joined(Joined(b1, b2), b3), b4) = n
  <1> DEFINE h1 == Fr!High(n)
             h2 == Fr!High(h1)
             h3 == Fr!High(h2)
  <1>1. h1 \in Nat /\ Low(n) \in Fr!Byte /\ n = Joined(h1, Low(n))
    BY Zenon, HighIs
  <1>2. h2 \in Nat /\ Low(h1) \in Fr!Byte /\ h1 = Joined(h2, Low(h1))
    BY Zenon, <1>1, HighIs
  <1>3. h3 \in Nat /\ Low(h2) \in Fr!Byte /\ h2 = Joined(h3, Low(h2))
    BY Zenon, <1>2, HighIs
  <1>4. h3 < 256
    OBVIOUS
  <1> HIDE DEF h1, h2, h3
  <1>5. h3 \in Fr!Byte
    BY SMT, <1>3, <1>4 DEF Fr!Byte
  <1>6. Joined(Joined(Joined(h3, Low(h2)), Low(h1)), Low(n)) = n
    BY Zenon, <1>1, <1>2, <1>3
  <1> QED BY Zenon, <1>1, <1>2, <1>3, <1>5, <1>6 DEF h1, h2, h3

\* A prefix h for the length n in front of a buffer.
Leads(buf, h) == \A j \in 1 .. Len(h) : buf[j] = h[j]

\* What LengthIn makes of it.
Read(buf, h, n) == Stands(Fr!LengthIn(buf, Len(h)), n)

LEMMA Read5 ==
  ASSUME MaxPacketLen \in Nat, NEW n \in Nat, Fr!High(Fr!High(Fr!High(n))) < 256,
         NEW buf, Leads(buf, Fr!Prefix32(n))
  PROVE  Read(buf, Fr!Prefix32(n), n)
  <1> DEFINE b1 == Fr!High(Fr!High(Fr!High(n)))
             b2 == Low(Fr!High(Fr!High(n)))
             b3 == Low(Fr!High(n))
             b4 == Low(n)
  <1>1. /\ b1 \in Fr!Byte /\ b2 \in Fr!Byte /\ b3 \in Fr!Byte /\ b4 \in Fr!Byte
        /\ Joined(Joined(Joined(b1, b2), b3), b4) = n
    BY FourBytes
  <1>2. Fr!Prefix32(n) = <<206, b1, b2, b3, b4>>
    BY SMT DEF Fr!Prefix32, Low
  <1> HIDE DEF b1, b2, b3, b4
  <1>3. Len(Fr!Prefix32(n)) = 5 /\ buf[2] = b1 /\ buf[3] = b2 /\ buf[4] = b3 /\ buf[5] = b4
    BY SMT, <1>2 DEF Leads
  <1>4. Stands(b1, b1)
    BY SMT, <1>1 DEF Stands, Fr!Byte
  <1>5. Stands(Fr!Shift(b1, b2), Joined(b1, b2))
    BY Zenon, <1>1, <1>4, ShiftStands
  <1>6. Stands(Fr!Shift(Fr!Shift(b1, b2), b3), Joined(Joined(b1, b2), b3))
    BY Zenon, <1>1, <1>5, ShiftStands
  <1>7. Stands(Fr!Shift(Fr!Shift(Fr!Shift(b1, b2), b3), b4), Joined(Joined(Joined(b1, b2), b3), b4))
    BY Zenon, <1>1, <1>6, ShiftStands
  <1>8. Fr!LengthIn(buf, 5) = Fr!Shift(Fr!Shift(Fr!Shift(b1, b2), b3), b4)
    BY SMT, <1>3 DEF Fr!LengthIn
  <1>9. Stands(Fr!LengthIn(buf, 5), n)
    BY SMT, <1>1, <1>7, <1>8
  <1> QED BY Zenon, <1>3, <1>9 DEF Read

\* The prefix of eight bytes, four of them zero.
Prefix64(n) == <<207, 0, 0, 0, 0, Fr!High(Fr!High(Fr!High(n))), Fr!High(Fr!High(n)) % 256,
                 Fr!High(n) % 256, n % 256>>

\* The shorter ones.
Prefix16(n) == <<205, Fr!High(n), n % 256>>
Prefix8(n) == <<204, n>>
Prefix7(n) == <<n>>

LEMMA Read9 ==
  ASSUME MaxPacketLen \in Nat, NEW n \in Nat, Fr!High(Fr!High(Fr!High(n))) < 256,
         NEW buf, Leads(buf, Prefix64(n))
  PROVE  Read(buf, Prefix64(n), n)
  <1> DEFINE b1 == Fr!High(Fr!High(Fr!High(n)))
             b2 == Low(Fr!High(Fr!High(n)))
             b3 == Low(Fr!High(n))
             b4 == Low(n)
             z == Fr!Shift(Fr!Shift(Fr!Shift(0, 0), 0), 0)
             s1 == Fr!Shift(z, b1)
             s2 == Fr!Shift(s1, b2)
             s3 == Fr!Shift(s2, b3)
             s4 == Fr!Shift(s3, b4)
  <1>1. /\ b1 \in Fr!Byte /\ b2 \in Fr!Byte /\ b3 \in Fr!Byte /\ b4 \in Fr!Byte
        /\ Joined(Joined(Joined(b1, b2), b3), b4) = n
    BY FourBytes
  <1>2. Prefix64(n) = <<207, 0, 0, 0, 0, b1, b2, b3, b4>>
    BY SMT DEF Prefix64, Low
  <1> HIDE DEF b1, b2, b3, b4
  <1>3. /\ Len(Prefix64(n)) = 9 /\ buf[2] = 0 /\ buf[3] = 0 /\ buf[4] = 0 /\ buf[5] = 0
        /\ buf[6] = b1 /\ buf[7] = b2 /\ buf[8] = b3 /\ buf[9] = b4
    BY SMT, <1>2 DEF Leads
  <1>4. z = 0
    BY SMT DEF Fr!Shift
  <1>5. Fr!LengthIn(buf, 9) = s4
    BY SMT, <1>3 DEF Fr!LengthIn
  <1> HIDE DEF z
  <1>6. Stands(s1, b1)
    BY SMT, <1>1, <1>4 DEF Stands, Fr!Shift, Fr!Byte
  <1> HIDE DEF s1
  <1>7. Stands(s2, Joined(b1, b2))
    BY Zenon, <1>1, <1>6, ShiftStands
  <1> HIDE DEF s2
  <1>8. Stands(s3, Joined(Joined(b1, b2), b3))
    BY Zenon, <1>1, <1>7, ShiftStands
  <1> HIDE DEF s3
  <1>9. Stands(s4, Joined(Joined(Joined(b1, b2), b3), b4))
    BY Zenon, <1>1, <1>8, ShiftStands
  <1> HIDE DEF s4
  <1>10. Stands(Fr!LengthIn(buf, 9), n)
    BY SMT, <1>1, <1>5, <1>9
  <1> QED BY Zenon, <1>3, <1>10 DEF Read

LEMMA Read3 ==
  ASSUME MaxPacketLen \in Nat, NEW n \in Nat, Fr!High(n) < 256,
         NEW buf, Leads(buf, Prefix16(n))
  PROVE  Read(buf, Prefix16(n), n)
  <1> DEFINE b1 == Fr!High(n)
             b2 == Low(n)
  <1>1. b1 \in Fr!Byte /\ b2 \in Fr!Byte /\ Joined(b1, b2) = n
    <2>1. b1 \in Nat /\ b2 \in Fr!Byte /\ n = Joined(b1, b2)
      BY Zenon, HighIs
    <2>2. b1 < 256
      OBVIOUS
    <2> HIDE DEF b1, b2
    <2>3. b1 \in Fr!Byte
      BY SMT, <2>1, <2>2 DEF Fr!Byte
    <2> QED BY Zenon, <2>1, <2>3
  <1>a. Prefix16(n) = <<205, b1, b2>>
    BY SMT DEF Prefix16, Low
  <1> HIDE DEF b1, b2
  <1>2. Len(Prefix16(n)) = 3 /\ buf[2] = b1 /\ buf[3] = b2
    BY SMT, <1>a DEF Leads
  <1>3. Fr!LengthIn(buf, 3) = Fr!Shift(b1, b2)
    BY SMT, <1>2 DEF Fr!LengthIn
  <1>4. Stands(b1, b1)
    BY SMT, <1>1 DEF Stands, Fr!Byte
  <1>5. Stands(Fr!Shift(b1, b2), Joined(b1, b2))
    BY Zenon, <1>1, <1>4, ShiftStands
  <1>6. Stands(Fr!LengthIn(buf, 3), n)
    BY SMT, <1>1, <1>3, <1>5
  <1> QED BY Zenon, <1>2, <1>6 DEF Read

LEMMA Read2 ==
  ASSUME NEW n \in Nat, NEW buf, Leads(buf, Prefix8(n))
  PROVE  Read(buf, Prefix8(n), n)
  <1>1. Len(Prefix8(n)) = 2 /\ buf[2] = n
    BY SMT DEF Leads, Prefix8
  <1>2. Fr!LengthIn(buf, 2) = n
    BY SMT, <1>1 DEF Fr!LengthIn
  <1>3. Stands(n, n)
    BY SMT DEF Stands
  <1> QED BY Zenon, <1>1, <1>2, <1>3 DEF Read

LEMMA Read1 ==
  ASSUME NEW n \in Nat, NEW buf, Leads(buf, Prefix7(n))
  PROVE  Read(buf, Prefix7(n), n)
  <1>1. Len(Prefix7(n)) = 1 /\ buf[1] = n
    BY SMT DEF Leads, Prefix7
  <1>2. Fr!LengthIn(buf, 1) = n
    BY SMT, <1>1 DEF Fr!LengthIn
  <1>3. Stands(n, n)
    BY SMT DEF Stands
  <1> QED BY Zenon, <1>1, <1>2, <1>3 DEF Read

\* The five prefixes.
LEMMA PrefixIs ==
  ASSUME NEW n \in Nat, Fr!High(Fr!High(Fr!High(n))) < 256, NEW h \in Fr!LengthPrefixes(n)
  PROVE  \/ h = Fr!Prefix32(n)
         \/ h = Prefix64(n)
         \/ n < 128 /\ h = Prefix7(n)
         \/ n < 256 /\ h = Prefix8(n)
         \/ Fr!High(n) < 256 /\ h = Prefix16(n)
  <1>1. Fr!LengthPrefixes(n) = {Fr!Prefix32(n), Prefix64(n)}
                                 \cup (IF n < 128 THEN {Prefix7(n)} ELSE {})
                                 \cup (IF n < 256 THEN {Prefix8(n)} ELSE {})
                                 \cup (IF Fr!High(n) < 256 THEN {Prefix16(n)} ELSE {})
    BY DEF Fr!LengthPrefixes, Prefix64, Prefix16, Prefix8, Prefix7
  <1> QED BY SMT, <1>1

\* A prefix is bytes, and its first one tells its size.
LEMMA PrefixSizeIs ==
  ASSUME NEW n \in Nat, Fr!High(Fr!High(Fr!High(n))) < 256, NEW h \in Fr!LengthPrefixes(n)
  PROVE  h \in Seq(Fr!Byte) /\ Len(h) \in Nat /\ Len(h) > 0 /\ Fr!PrefixSize(h[1]) = Len(h)
  <1> DEFINE b1 == Fr!High(Fr!High(Fr!High(n)))
             b2 == Low(Fr!High(Fr!High(n)))
             b3 == Low(Fr!High(n))
             b4 == Low(n)
  <1>1. b1 \in Fr!Byte /\ b2 \in Fr!Byte /\ b3 \in Fr!Byte /\ b4 \in Fr!Byte
    BY Zenon, FourBytes
  <1>2. CASE h = Fr!Prefix32(n)
    <2>1. h = <<206, b1, b2, b3, b4>>
      BY SMT, <1>2 DEF Fr!Prefix32, Low
    <2> HIDE DEF b1, b2, b3, b4
    <2>2. h \in Seq(0 .. 255) /\ Len(h) = 5 /\ h[1] = 206
      BY SMT, <1>1, <2>1 DEF Fr!Byte
    <2> QED BY SMT, <2>2 DEF Fr!PrefixSize, Fr!Byte
  <1>3. CASE h = Prefix64(n)
    <2>1. h = <<207, 0, 0, 0, 0, b1, b2, b3, b4>>
      BY SMT, <1>3 DEF Prefix64, Low
    <2> HIDE DEF b1, b2, b3, b4
    <2>2. h \in Seq(0 .. 255) /\ Len(h) = 9 /\ h[1] = 207
      BY SMT, <1>1, <2>1 DEF Fr!Byte
    <2> QED BY SMT, <2>2 DEF Fr!PrefixSize, Fr!Byte
  <1>4. CASE n < 128 /\ h = Prefix7(n)
    <2>1. h \in Seq(0 .. 255) /\ Len(h) = 1 /\ h[1] = n /\ n < 128
      BY SMT, <1>4 DEF Prefix7
    <2> QED BY SMT, <2>1 DEF Fr!PrefixSize, Fr!Byte
  <1>5. CASE n < 256 /\ h = Prefix8(n)
    <2>1. h \in Seq(0 .. 255) /\ Len(h) = 2 /\ h[1] = 204
      BY SMT, <1>5 DEF Prefix8
    <2> QED BY SMT, <2>1 DEF Fr!PrefixSize, Fr!Byte
  <1>6. CASE Fr!High(n) < 256 /\ h = Prefix16(n)
    <2> DEFINE c == Fr!High(n)
    <2>a. c \in Nat
      BY Zenon, HighIs
    <2>b. c < 256
      BY <1>6
    <2>2. h = <<205, c, b4>>
      BY SMT, <1>6 DEF Prefix16, Low
    <2> HIDE DEF c, b4
    <2>1. c \in 0 .. 255
      BY SMT, <2>a, <2>b
    <2>3. h \in Seq(0 .. 255) /\ Len(h) = 3 /\ h[1] = 205
      BY SMT, <1>1, <2>1, <2>2 DEF Fr!Byte
    <2> QED BY SMT, <2>3 DEF Fr!PrefixSize, Fr!Byte
  <1> QED BY Zenon, <1>2, <1>3, <1>4, <1>5, <1>6, PrefixIs

LEMMA LengthRead ==
  ASSUME MaxPacketLen \in Nat, NEW n \in Nat, Fr!High(Fr!High(Fr!High(n))) < 256,
         NEW h \in Fr!LengthPrefixes(n), NEW buf, Leads(buf, h)
  PROVE  Read(buf, h, n)
  <1>1. CASE h = Fr!Prefix32(n)
    BY Zenon, <1>1, Read5
  <1>2. CASE h = Prefix64(n)
    BY Zenon, <1>2, Read9
  <1>3. CASE n < 128 /\ h = Prefix7(n)
    BY Zenon, <1>3, Read1
  <1>4. CASE n < 256 /\ h = Prefix8(n)
    BY Zenon, <1>4, Read2
  <1>5. CASE Fr!High(n) < 256 /\ h = Prefix16(n)
    BY Zenon, <1>5, Read3
  <1> QED BY Zenon, <1>1, <1>2, <1>3, <1>4, <1>5, PrefixIs

-----------------------------------------------------------------------------
(* One call of decode *)

\* The buffer starts with the prefix h and the packet p, as far as it goes.
Starts(buf, h, p) ==
  /\ \A j \in 1 .. Len(h) : j <= Len(buf) => buf[j] = h[j]
  /\ \A j \in 1 .. Len(p) : Len(h) + j <= Len(buf) => buf[Len(h) + j] = p[j]

\* What decode makes of such a buffer.
Decoded(buf, h, p) ==
  \/ Fr!Decode(buf).tag = "more" /\ Len(buf) < Len(h) + Len(p)
  \/ Fr!Decode(buf).tag = "error" /\ Len(p) > MaxPacketLen
  \/ /\ Fr!Decode(buf).tag = "packet" /\ Len(buf) >= Len(h) + Len(p)
     /\ Fr!Decode(buf).packet = p
     /\ Fr!Decode(buf).rest = SubSeq(buf, Len(h) + Len(p) + 1, Len(buf))

LEMMA MoreIs == /\ Fr!More.tag = "more" /\ Fr!Bad.tag = "error"
                /\ Fr!Decode(<<>>).tag = "more"
  BY DEF Fr!More, Fr!Bad, Fr!Decode

LEMMA DecodeIs ==
  ASSUME Fr!FramingBounds, NEW p \in Payload, NEW h \in Fr!LengthPrefixes(Len(p)),
         NEW buf \in Seq(Fr!Byte), Starts(buf, h, p)
  PROVE  Decoded(buf, h, p)
  <1> DEFINE n == Len(p)
             size == Len(h)
             len == Fr!LengthIn(buf, size)
             whole == [tag |-> "packet", packet |-> SubSeq(buf, size + 1, size + len),
                       rest |-> SubSeq(buf, size + len + 1, Len(buf))]
  <1>1. MaxPacketLen \in Nat /\ p \in Seq(Fr!Byte) /\ Fr!High(Fr!High(Fr!High(n))) < 256
    BY Zenon DEF Fr!FramingBounds
  <1>2. n \in Nat /\ Len(buf) \in Nat
    BY <1>1
  <1>3. h \in Seq(Fr!Byte) /\ size \in Nat /\ size > 0 /\ Fr!PrefixSize(h[1]) = size
    BY Zenon, <1>1, <1>2, PrefixSizeIs
  <1>4. CASE buf = <<>>
    <2>1. Len(buf) = 0
      BY <1>4
    <2>2. Len(buf) < size + n
      BY SMT, <1>2, <1>3, <2>1
    <2> QED BY Zenon, <1>4, <2>2, MoreIs DEF Decoded
  <1>5. CASE buf # <<>>
    <2>1. Len(buf) > 0
      BY SMT, <1>5
    <2>2. buf[1] = h[1]
      <3>1. 1 \in 1 .. Len(h) /\ 1 <= Len(buf)
        BY SMT, <1>2, <1>3, <2>1
      <3> QED BY Zenon, <3>1 DEF Starts
    <2>3. Fr!PrefixSize(buf[1]) = size /\ size # 0
      BY <1>3, <2>2
    <2>4. Fr!Decode(buf) = IF Len(buf) < size THEN Fr!More
                           ELSE IF Fr!OverLimit(len) THEN Fr!Bad
                           ELSE IF ~ Fr!Holds(buf, size + len) THEN Fr!More
                           ELSE whole
      BY Zenon, <1>5, <2>3 DEF Fr!Decode
    <2> HIDE DEF whole
    <2>5. CASE Len(buf) < size
      <3>1. Fr!Decode(buf).tag = "more"
        BY Zenon, <2>4, <2>5, MoreIs
      <3>2. Len(buf) < size + n
        BY SMT, <1>2, <1>3, <2>5
      <3> QED BY Zenon, <3>1, <3>2 DEF Decoded
    <2>6. CASE ~ (Len(buf) < size)
      <3>1. Leads(buf, h)
        <4>1. \A j \in 1 .. Len(h) : j <= Len(buf)
          BY SMT, <1>2, <1>3, <2>6
        <4> QED BY Zenon, <4>1 DEF Starts, Leads
      <3>2. Read(buf, h, n)
        BY Zenon, <1>1, <1>2, <3>1, LengthRead
      <3>3. Stands(len, n)
        BY Zenon, <3>2 DEF Read
      <3> HIDE DEF len
      <3>4. len \in Nat /\ (len > MaxPacketLen => n > MaxPacketLen) /\ (~ (len > MaxPacketLen) => len = n)
        BY SMT, <1>1, <1>2, <3>3 DEF Stands
      <3>5. CASE len > MaxPacketLen
        BY Zenon, <2>4, <2>6, <3>4, <3>5, MoreIs DEF Decoded, Fr!OverLimit
      <3>6. CASE ~ (len > MaxPacketLen)
        <4>1. len = n
          BY Zenon, <3>4, <3>6
        <4>2. Fr!Decode(buf) = IF ~ Fr!Holds(buf, size + len) THEN Fr!More ELSE whole
          BY Zenon, <2>4, <2>6, <3>6 DEF Fr!OverLimit
        <4>3. CASE ~ (Len(buf) >= size + n)
          <5>1. Fr!Decode(buf).tag = "more"
            BY Zenon, <4>1, <4>2, <4>3, MoreIs DEF Fr!Holds
          <5>2. Len(buf) < size + n
            BY SMT, <1>2, <1>3, <4>3
          <5> QED BY Zenon, <5>1, <5>2 DEF Decoded
        <4>4. CASE Len(buf) >= size + n
          <5>1. Fr!Decode(buf) = whole
            BY Zenon, <4>1, <4>2, <4>4 DEF Fr!Holds
          <5>2. /\ whole.tag = "packet" /\ whole.packet = SubSeq(buf, size + 1, size + n)
                /\ whole.rest = SubSeq(buf, size + n + 1, Len(buf))
            BY <4>1 DEF whole
          <5>3. SubSeq(buf, size + 1, size + n) = p
            <6> DEFINE q == SubSeq(buf, size + 1, size + n)
            <6>1. q \in Seq(Fr!Byte) /\ Len(q) = n /\ \A i \in 1 .. n : q[i] = buf[size + i]
              <7>1. \A i \in size + 1 .. size + n : i \in 1 .. Len(buf)
                BY SMT, <1>2, <1>3, <4>4
              <7>2. \A i \in size + 1 .. size + n : buf[i] \in Fr!Byte
                BY <7>1, ElementOfSeq
              <7>3. size + 1 \in Int /\ size + n \in Int
                BY SMT, <1>2, <1>3
              <7>4. /\ q \in Seq(Fr!Byte)
                    /\ Len(q) = IF size + 1 <= size + n THEN (size + n) - (size + 1) + 1 ELSE 0
                    /\ \A i \in 1 .. (size + n) - (size + 1) + 1 : q[i] = buf[(size + 1) + i - 1]
                BY <7>2, <7>3, SubSeqProperties
              <7> HIDE DEF q
              <7>5. Len(q) = n
                BY SMT, <1>2, <1>3, <7>4
              <7>6. \A i \in 1 .. n : q[i] = buf[size + i]
                <8> SUFFICES ASSUME NEW i \in 1 .. n PROVE q[i] = buf[size + i]
                  OBVIOUS
                <8>1. i \in 1 .. (size + n) - (size + 1) + 1 /\ (size + 1) + i - 1 = size + i
                  BY SMT, <1>2, <1>3
                <8> QED BY Zenon, <7>4, <8>1
              <7> QED BY Zenon, <7>4, <7>5, <7>6
            <6>2. \A i \in 1 .. n : buf[size + i] = p[i]
              <7>1. \A i \in 1 .. n : size + i <= Len(buf)
                BY SMT, <1>2, <1>3, <4>4
              <7> QED BY Zenon, <7>1 DEF Starts
            <6> HIDE DEF q
            <6>3. Len(q) = Len(p) /\ \A i \in 1 .. Len(q) : q[i] = p[i]
              BY Zenon, <6>1, <6>2
            <6>4. q = p
              BY Zenon, <1>1, <6>1, <6>3, SeqEqual
            <6> QED BY Zenon, <6>4 DEF q
          <5> QED BY Zenon, <4>4, <5>1, <5>2, <5>3 DEF Decoded
        <4> QED BY Zenon, <4>3, <4>4
      <3> QED BY Zenon, <3>5, <3>6
    <2> QED BY Zenon, <2>5, <2>6
  <1> QED BY Zenon, <1>4, <1>5

-----------------------------------------------------------------------------
(* The bytes of a stream *)

\* The packet p behind a prefix in the bytes w, from a to b.
Placed(w, a, b, p) ==
  \E h \in Fr!LengthPrefixes(Len(p)) :
    /\ b = a + Len(h) + Len(p)
    /\ \A j \in 1 .. Len(h) : w[a + j] = h[j]
    /\ \A j \in 1 .. Len(p) : w[a + (Len(h) + j)] = p[j]

\* The packets s one after the other are the bytes w, and packet i ends where
\* packet i + 1 begins, at ends[i + 1].
Laid(w, ends, s) ==
  /\ w \in Seq(Fr!Byte) /\ ends \in [1 .. Len(s) + 1 -> Nat] /\ ends[Len(s) + 1] = Len(w)
  /\ \A i \in 1 .. Len(s) + 1 : ends[i] <= Len(w)
  /\ \A i \in 1 .. Len(s) : Placed(w, ends[i], ends[i + 1], s[i])

\* What follows a in w is in x and then in y, or its beginning is.
Runs(w, a, x, y) ==
  /\ a + Len(x) + Len(y) <= Len(w)
  /\ \A j \in 1 .. Len(x) : x[j] = w[a + j]
  /\ \A j \in 1 .. Len(y) : y[j] = w[a + (Len(x) + j)]

\* x and y are all of what follows a in w.
Whole(w, a, x, y) == a + Len(x) + Len(y) = Len(w)

LEMMA FirstPart ==
  ASSUME NEW S, NEW s \in Seq(S), NEW n \in 0 .. Len(s)
  PROVE  /\ SubSeq(s, 1, n) \in Seq(S) /\ Len(SubSeq(s, 1, n)) = n
         /\ \A i \in 1 .. n : SubSeq(s, 1, n)[i] = s[i]
  BY SMT

LEMMA LastPart ==
  ASSUME NEW S, NEW s \in Seq(S), NEW n \in 0 .. Len(s)
  PROVE  /\ SubSeq(s, n + 1, Len(s)) \in Seq(S) /\ Len(SubSeq(s, n + 1, Len(s))) = Len(s) - n
         /\ \A i \in 1 .. Len(s) - n : SubSeq(s, n + 1, Len(s))[i] = s[n + i]
  <1> DEFINE q == SubSeq(s, n + 1, Len(s))
             m == Len(s)
  <1>1. m \in Nat /\ n \in Nat /\ n <= m /\ n + 1 \in Int /\ m \in Int
    BY SMT
  <1>2. \A i \in n + 1 .. m : s[i] \in S
    BY SMT
  <1>3. /\ q \in Seq(S) /\ Len(q) = IF n + 1 <= m THEN m - (n + 1) + 1 ELSE 0
        /\ \A i \in 1 .. m - (n + 1) + 1 : q[i] = s[(n + 1) + i - 1]
    BY <1>1, <1>2, SubSeqProperties
  <1> HIDE DEF q, m
  <1>4. Len(q) = m - n
    BY SMT, <1>1, <1>3
  <1>5. \A i \in 1 .. m - n : q[i] = s[n + i]
    <2> SUFFICES ASSUME NEW i \in 1 .. m - n PROVE q[i] = s[n + i]
      OBVIOUS
    <2>1. i \in 1 .. m - (n + 1) + 1 /\ (n + 1) + i - 1 = n + i
      BY SMT, <1>1
    <2> QED BY Zenon, <1>3, <2>1
  <1> QED BY Zenon, <1>3, <1>4, <1>5 DEF q, m

\* More bytes behind do not move a packet.
LEMMA PlacedStays ==
  ASSUME Fr!FramingBounds, NEW w \in Seq(Fr!Byte), NEW f \in Seq(Fr!Byte), NEW a \in Nat, NEW b,
         NEW p \in Payload, Placed(w, a, b, p), b <= Len(w)
  PROVE  Placed(w \o f, a, b, p)
  <1>1. PICK h \in Fr!LengthPrefixes(Len(p)) :
          /\ b = a + Len(h) + Len(p)
          /\ \A j \in 1 .. Len(h) : w[a + j] = h[j]
          /\ \A j \in 1 .. Len(p) : w[a + (Len(h) + j)] = p[j]
    BY Zenon DEF Placed
  <1>2. Len(p) \in Nat /\ Fr!High(Fr!High(Fr!High(Len(p)))) < 256
    BY DEF Fr!FramingBounds
  <1>3. Len(h) \in Nat
    BY Zenon, <1>2, PrefixSizeIs
  <1> DEFINE v == w \o f
  <1>4. Len(w) \in Nat /\ \A i \in 1 .. Len(w) : v[i] = w[i]
    BY SMT
  <1> HIDE DEF v
  <1>5. /\ \A j \in 1 .. Len(h) : a + j \in 1 .. Len(w)
        /\ \A j \in 1 .. Len(p) : a + (Len(h) + j) \in 1 .. Len(w)
    BY SMT, <1>1, <1>2, <1>3, <1>4
  <1>6. \A j \in 1 .. Len(h) : v[a + j] = h[j]
    BY Zenon, <1>1, <1>4, <1>5
  <1>7. \A j \in 1 .. Len(p) : v[a + (Len(h) + j)] = p[j]
    BY Zenon, <1>1, <1>4, <1>5
  <1>8. Placed(v, a, b, p)
    BY Zenon, <1>1, <1>6, <1>7 DEF Placed
  <1> QED BY Zenon, <1>8 DEF v

\* A packet that is sent comes behind the others.
LEMMA PlacedLast ==
  ASSUME Fr!FramingBounds, NEW w \in Seq(Fr!Byte), NEW p \in Payload,
         NEW h \in Fr!LengthPrefixes(Len(p))
  PROVE  /\ h \o p \in Seq(Fr!Byte) /\ Len(h \o p) = Len(h) + Len(p)
         /\ Placed(w \o (h \o p), Len(w), Len(w) + Len(h \o p), p)
  <1>1. p \in Seq(Fr!Byte) /\ Len(p) \in Nat /\ Fr!High(Fr!High(Fr!High(Len(p)))) < 256
    BY DEF Fr!FramingBounds
  <1>2. h \in Seq(Fr!Byte) /\ Len(h) \in Nat
    BY Zenon, <1>1, PrefixSizeIs
  <1> DEFINE f == h \o p
             v == w \o f
  <1>3. /\ f \in Seq(Fr!Byte) /\ Len(f) = Len(h) + Len(p)
        /\ \A j \in 1 .. Len(h) : f[j] = h[j]
        /\ \A j \in 1 .. Len(p) : f[Len(h) + j] = p[j]
    BY SMT, <1>1, <1>2
  <1> HIDE DEF f
  <1>4. Len(w) \in Nat /\ \A j \in 1 .. Len(f) : v[Len(w) + j] = f[j]
    BY SMT, <1>3
  <1> HIDE DEF v
  <1>5. /\ \A j \in 1 .. Len(h) : j \in 1 .. Len(f)
        /\ \A j \in 1 .. Len(p) : Len(h) + j \in 1 .. Len(f)
        /\ Len(w) + Len(f) = Len(w) + Len(h) + Len(p)
    BY SMT, <1>1, <1>2, <1>3, <1>4
  <1>6. \A j \in 1 .. Len(h) : v[Len(w) + j] = h[j]
    BY Zenon, <1>3, <1>4, <1>5
  <1>7. \A j \in 1 .. Len(p) : v[Len(w) + (Len(h) + j)] = p[j]
    BY Zenon, <1>3, <1>4, <1>5
  <1>8. Placed(v, Len(w), Len(w) + Len(f), p)
    BY Zenon, <1>5, <1>6, <1>7 DEF Placed
  <1> QED BY Zenon, <1>3, <1>8 DEF f, v

\* The ends of n packets and of one more.
Longer(ends, n, e) == [i \in 1 .. n + 2 |-> IF i = n + 2 THEN e ELSE ends[i]]

\* The ends of the first n packets are the same.
SameEnds(later, ends, n) == \A i \in 1 .. n + 1 : later[i] = ends[i]

\* The stream after one more packet.
LEMMA LaidOn ==
  ASSUME Fr!FramingBounds, NEW s \in Seq(Payload), NEW w, NEW ends, Laid(w, ends, s),
         NEW p \in Payload, NEW h \in Fr!LengthPrefixes(Len(p))
  PROVE  /\ Laid(w \o (h \o p), Longer(ends, Len(s), Len(w) + Len(h \o p)), Append(s, p))
         /\ SameEnds(Longer(ends, Len(s), Len(w) + Len(h \o p)), ends, Len(s))
  <1> DEFINE f == h \o p
             v == w \o (h \o p)
             later == Longer(ends, Len(s), Len(w) + Len(h \o p))
             n == Len(s)
             t == Append(s, p)
  <1>1. /\ w \in Seq(Fr!Byte) /\ ends \in [1 .. n + 1 -> Nat] /\ ends[n + 1] = Len(w)
        /\ \A i \in 1 .. n + 1 : ends[i] <= Len(w)
        /\ \A i \in 1 .. n : Placed(w, ends[i], ends[i + 1], s[i])
    BY Zenon DEF Laid
  <1>2. f \in Seq(Fr!Byte) /\ Placed(v, Len(w), Len(w) + Len(f), p)
    BY Zenon, <1>1, PlacedLast
  <1>3. v = w \o f /\ later = [i \in 1 .. n + 2 |-> IF i = n + 2 THEN Len(w) + Len(f) ELSE ends[i]]
    BY Zenon DEF Longer
  <1> HIDE DEF f, v, later
  <1>4. Len(w) \in Nat /\ Len(f) \in Nat /\ n \in Nat
    BY <1>1, <1>2
  <1>5. v \in Seq(Fr!Byte) /\ Len(v) = Len(w) + Len(f)
    BY SMT, <1>1, <1>2, <1>3
  <1>6. /\ t \in Seq(Payload) /\ Len(t) = n + 1 /\ t[n + 1] = p
        /\ \A i \in 1 .. n : t[i] = s[i] /\ s[i] \in Payload
    BY SMT
  <1> HIDE DEF t, n
  <1>7. /\ \A i \in 1 .. n + 1 : i \in 1 .. n + 2 /\ i # n + 2
        /\ \A i \in 1 .. n + 2 : i \in 1 .. n + 1 \/ i = n + 2
        /\ \A i \in 1 .. n : i \in 1 .. n + 1 /\ i + 1 \in 1 .. n + 1
        /\ \A i \in 1 .. n + 1 : i \in 1 .. n \/ i = n + 1
        /\ n + 2 \in 1 .. n + 2 /\ n + 1 \in 1 .. n + 1 /\ (n + 1) + 1 = n + 2
    BY SMT, <1>4
  <1>8. later[n + 2] = Len(v) /\ \A i \in 1 .. n + 1 : later[i] = ends[i]
    BY Zenon, <1>3, <1>5, <1>7
  <1>9. Len(v) \in Nat /\ Len(w) <= Len(v)
    BY SMT, <1>4, <1>5
  <1>10. later \in [1 .. n + 2 -> Nat]
    <2>1. ASSUME NEW i \in 1 .. n + 2
          PROVE  (IF i = n + 2 THEN Len(w) + Len(f) ELSE ends[i]) \in Nat
      <3>1. CASE i \in 1 .. n + 1
        BY Zenon, <1>1, <1>7, <3>1
      <3>2. CASE i = n + 2
        BY Zenon, <1>5, <1>9, <3>2
      <3> QED BY Zenon, <1>7, <3>1, <3>2
    <2> QED BY Zenon, <1>3, <2>1
  <1>11. \A i \in 1 .. n + 2 : later[i] <= Len(v)
    <2> SUFFICES ASSUME NEW i \in 1 .. n + 2 PROVE later[i] <= Len(v)
      OBVIOUS
    <2>1. CASE i \in 1 .. n + 1
      <3>1. later[i] = ends[i] /\ ends[i] <= Len(w) /\ ends[i] \in Nat
        BY Zenon, <1>1, <1>8, <2>1
      <3> QED BY SMT, <1>4, <1>9, <3>1
    <2>2. CASE i = n + 2
      BY SMT, <1>8, <1>9, <2>2
    <2> QED BY Zenon, <1>7, <2>1, <2>2
  <1>12. \A i \in 1 .. n + 1 : Placed(v, later[i], later[i + 1], t[i])
    <2> SUFFICES ASSUME NEW i \in 1 .. n + 1 PROVE Placed(v, later[i], later[i + 1], t[i])
      OBVIOUS
    <2>1. CASE i \in 1 .. n
      <3>1. /\ Placed(w, ends[i], ends[i + 1], s[i]) /\ ends[i] \in Nat /\ ends[i + 1] <= Len(w)
            /\ s[i] \in Payload /\ later[i] = ends[i] /\ later[i + 1] = ends[i + 1] /\ t[i] = s[i]
        BY Zenon, <1>1, <1>6, <1>7, <1>8, <2>1
      <3>2. Placed(w \o f, ends[i], ends[i + 1], s[i])
        BY Zenon, <1>1, <1>2, <3>1, PlacedStays
      <3> QED BY Zenon, <1>3, <3>1, <3>2
    <2>2. CASE i = n + 1
      <3>1. later[i] = Len(w) /\ later[i + 1] = Len(w) + Len(f) /\ t[i] = p
        BY Zenon, <1>1, <1>5, <1>6, <1>7, <1>8, <2>2
      <3> QED BY Zenon, <1>2, <3>1
    <2> QED BY Zenon, <1>7, <2>1, <2>2
  <1>13. Len(t) + 1 = n + 2
    BY SMT, <1>4, <1>6
  <1>14. Laid(v, later, t)
    BY Zenon, <1>5, <1>6, <1>8, <1>10, <1>11, <1>12, <1>13 DEF Laid
  <1> QED BY Zenon, <1>8, <1>14 DEF SameEnds, t, n, v, later

\* Bytes under way, after one more packet.
LEMMA RunsOn ==
  ASSUME NEW w \in Seq(Fr!Byte), NEW a \in Nat, NEW x \in Seq(Fr!Byte), NEW y \in Seq(Fr!Byte),
         NEW f \in Seq(Fr!Byte), Runs(w, a, x, y), Whole(w, a, x, y)
  PROVE  /\ Runs(w \o f, a, x, y \o f) /\ y \o f \in Seq(Fr!Byte)
         /\ Whole(w \o f, a, x, y \o f)
  <1> DEFINE v == w \o f
             z == y \o f
             lw == Len(w)
             lx == Len(x)
             ly == Len(y)
             lf == Len(f)
  <1>1. lw \in Nat /\ lx \in Nat /\ ly \in Nat /\ lf \in Nat /\ a + lx + ly = lw
    BY DEF Whole
  <1>2. /\ Len(v) = lw + lf
        /\ \A i \in 1 .. lw : v[i] = w[i]
        /\ \A i \in 1 .. lf : v[lw + i] = f[i]
    BY SMT
  <1>3. /\ z \in Seq(Fr!Byte) /\ Len(z) = ly + lf
        /\ \A i \in 1 .. ly : z[i] = y[i]
        /\ \A i \in 1 .. lf : z[ly + i] = f[i]
    BY SMT
  <1> HIDE DEF v, z, lw, lx, ly, lf
  <1>4. a + lx + Len(z) = Len(v) /\ a + lx + Len(z) <= Len(v)
    BY SMT, <1>1, <1>2, <1>3
  <1>5. \A j \in 1 .. lx : x[j] = v[a + j]
    <2>1. \A j \in 1 .. lx : a + j \in 1 .. lw
      BY SMT, <1>1
    <2> QED BY Zenon, <1>2, <2>1 DEF Runs, lw, lx, ly, lf
  <1>6. ASSUME NEW j \in 1 .. Len(z) PROVE z[j] = v[a + (lx + j)]
    <2>1. CASE j <= ly
      <3>1. j \in 1 .. ly /\ a + (lx + j) \in 1 .. lw
        BY SMT, <1>1, <1>3, <2>1
      <3> QED BY Zenon, <1>2, <1>3, <3>1 DEF Runs, lw, lx, ly, lf
    <2>2. CASE ~ (j <= ly)
      <3> DEFINE i == j - ly
      <3>1. i \in 1 .. lf /\ j = ly + i /\ a + (lx + j) = lw + i
        BY SMT, <1>1, <1>3, <2>2
      <3> HIDE DEF i
      <3>2. z[ly + i] = f[i] /\ v[lw + i] = f[i]
        BY Zenon, <1>2, <1>3, <3>1
      <3> QED BY Zenon, <3>1, <3>2
    <2> QED BY Zenon, <2>1, <2>2
  <1>7. Runs(v, a, x, z)
    BY Zenon, <1>4, <1>5, <1>6 DEF Runs, lw, lx, ly, lf
  <1> QED BY Zenon, <1>3, <1>4, <1>7 DEF Whole, v, z, lw, lx, ly, lf

\* The stream is cut.
LEMMA RunsCut ==
  ASSUME NEW w \in Seq(Fr!Byte), NEW a \in Nat, NEW x \in Seq(Fr!Byte), NEW y \in Seq(Fr!Byte),
         Runs(w, a, x, y), NEW n \in 0 .. Len(y)
  PROVE  Runs(w, a, x, SubSeq(y, 1, n)) /\ SubSeq(y, 1, n) \in Seq(Fr!Byte)
  <1> DEFINE z == SubSeq(y, 1, n)
  <1>1. z \in Seq(Fr!Byte) /\ Len(z) = n /\ \A i \in 1 .. n : z[i] = y[i]
    BY Zenon, FirstPart
  <1> HIDE DEF z
  <1>2. Len(w) \in Nat /\ Len(x) \in Nat /\ Len(y) \in Nat
    OBVIOUS
  <1>3. a + Len(x) + Len(z) <= Len(w)
    BY SMT, <1>1, <1>2 DEF Runs
  <1>4. \A j \in 1 .. n : j \in 1 .. Len(y)
    BY SMT, <1>2
  <1>5. Runs(w, a, x, z)
    BY Zenon, <1>1, <1>3, <1>4 DEF Runs
  <1> QED BY Zenon, <1>1, <1>5 DEF z

\* Some bytes are read.
LEMMA RunsRead ==
  ASSUME NEW w \in Seq(Fr!Byte), NEW a \in Nat, NEW x \in Seq(Fr!Byte), NEW y \in Seq(Fr!Byte),
         Runs(w, a, x, y), NEW n \in 1 .. Len(y)
  PROVE  LET u == x \o SubSeq(y, 1, n)
             z == SubSeq(y, n + 1, Len(y))
         IN /\ Runs(w, a, u, z) /\ u \in Seq(Fr!Byte) /\ z \in Seq(Fr!Byte)
            /\ Whole(w, a, x, y) => Whole(w, a, u, z)
  <1> DEFINE q == SubSeq(y, 1, n)
             u == x \o q
             z == SubSeq(y, n + 1, Len(y))
  <1>1. Len(w) \in Nat /\ Len(x) \in Nat /\ Len(y) \in Nat /\ n \in 0 .. Len(y) /\ n \in Nat
    BY SMT
  <1>2. q \in Seq(Fr!Byte) /\ Len(q) = n /\ \A i \in 1 .. n : q[i] = y[i]
    BY Zenon, <1>1, FirstPart
  <1>3. z \in Seq(Fr!Byte) /\ Len(z) = Len(y) - n /\ \A i \in 1 .. Len(y) - n : z[i] = y[n + i]
    BY Zenon, <1>1, LastPart
  <1> HIDE DEF q, z
  <1>4. /\ u \in Seq(Fr!Byte) /\ Len(u) = Len(x) + n
        /\ \A i \in 1 .. Len(x) : u[i] = x[i]
        /\ \A i \in 1 .. n : u[Len(x) + i] = q[i]
    <2>1. /\ u \in Seq(Fr!Byte) /\ Len(u) = Len(x) + Len(q)
          /\ \A i \in 1 .. Len(x) : u[i] = x[i]
          /\ \A i \in 1 .. Len(q) : u[Len(x) + i] = q[i]
      <3>1. q \in Seq(Fr!Byte)
        BY Zenon, <1>2
      <3> QED BY SMT, <3>1
    <2> HIDE DEF u
    <2> QED BY Zenon, <1>2, <2>1
  <1> HIDE DEF u
  <1>5. /\ a + Len(u) + Len(z) = a + Len(x) + Len(y)
        /\ a + Len(u) + Len(z) <= Len(w)
    BY SMT, <1>1, <1>3, <1>4 DEF Runs
  <1>6. ASSUME NEW j \in 1 .. Len(u) PROVE u[j] = w[a + j]
    <2>1. CASE j <= Len(x)
      <3>1. j \in 1 .. Len(x)
        BY SMT, <1>1, <1>4, <2>1
      <3> QED BY Zenon, <1>4, <3>1 DEF Runs
    <2>2. CASE ~ (j <= Len(x))
      <3> DEFINE i == j - Len(x)
      <3>1. i \in 1 .. n /\ i \in 1 .. Len(y) /\ j = Len(x) + i
        BY SMT, <1>1, <1>4, <2>2
      <3> HIDE DEF i
      <3>2. u[Len(x) + i] = y[i]
        BY Zenon, <1>2, <1>4, <3>1
      <3>3. y[i] = w[a + (Len(x) + i)]
        BY Zenon, <3>1 DEF Runs
      <3> QED BY Zenon, <3>1, <3>2, <3>3
    <2> QED BY Zenon, <2>1, <2>2
  <1>7. ASSUME NEW j \in 1 .. Len(z) PROVE z[j] = w[a + (Len(u) + j)]
    <2>1. j \in 1 .. Len(y) - n /\ n + j \in 1 .. Len(y) /\ Len(u) + j = Len(x) + (n + j)
      BY SMT, <1>1, <1>3, <1>4
    <2>2. z[j] = y[n + j]
      BY Zenon, <1>3, <2>1
    <2>3. y[n + j] = w[a + (Len(x) + (n + j))]
      BY Zenon, <2>1 DEF Runs
    <2> QED BY Zenon, <2>1, <2>2, <2>3
  <1>8. Runs(w, a, u, z)
    BY Zenon, <1>5, <1>6, <1>7 DEF Runs
  <1>9. Whole(w, a, x, y) => Whole(w, a, u, z)
    BY Zenon, <1>5 DEF Whole
  <1> QED BY Zenon, <1>3, <1>4, <1>8, <1>9 DEF u, z, q

\* The first m bytes of the buffer are taken.
LEMMA RunsTaken ==
  ASSUME NEW w \in Seq(Fr!Byte), NEW a \in Nat, NEW x \in Seq(Fr!Byte), NEW y \in Seq(Fr!Byte),
         Runs(w, a, x, y), NEW m \in 0 .. Len(x)
  PROVE  LET u == SubSeq(x, m + 1, Len(x))
         IN /\ Runs(w, a + m, u, y) /\ u \in Seq(Fr!Byte)
            /\ Whole(w, a, x, y) => Whole(w, a + m, u, y)
  <1> DEFINE u == SubSeq(x, m + 1, Len(x))
             b == a + m
  <1>1. Len(w) \in Nat /\ Len(x) \in Nat /\ Len(y) \in Nat /\ m \in Nat /\ m <= Len(x)
    BY SMT
  <1>2. u \in Seq(Fr!Byte) /\ Len(u) = Len(x) - m /\ \A i \in 1 .. Len(x) - m : u[i] = x[m + i]
    BY Zenon, LastPart
  <1> HIDE DEF u
  <1>3. b + Len(u) + Len(y) = a + Len(x) + Len(y) /\ b + Len(u) + Len(y) <= Len(w)
    BY SMT, <1>1, <1>2 DEF Runs
  <1>4. ASSUME NEW j \in 1 .. Len(u) PROVE u[j] = w[b + j]
    <2>1. j \in 1 .. Len(x) - m /\ m + j \in 1 .. Len(x) /\ b + j = a + (m + j)
      BY SMT, <1>1, <1>2
    <2> HIDE DEF b
    <2>2. u[j] = x[m + j]
      BY Zenon, <1>2, <2>1
    <2>3. x[m + j] = w[a + (m + j)]
      BY Zenon, <2>1 DEF Runs
    <2> QED BY Zenon, <2>1, <2>2, <2>3
  <1>5. ASSUME NEW j \in 1 .. Len(y) PROVE y[j] = w[b + (Len(u) + j)]
    <2>1. b + (Len(u) + j) = a + (Len(x) + j)
      BY SMT, <1>1, <1>2
    <2> HIDE DEF b
    <2>2. y[j] = w[a + (Len(x) + j)]
      BY Zenon DEF Runs
    <2> QED BY Zenon, <2>1, <2>2
  <1> HIDE DEF b
  <1>6. Runs(w, b, u, y)
    BY Zenon, <1>3, <1>4, <1>5 DEF Runs
  <1>7. Whole(w, a, x, y) => Whole(w, b, u, y)
    BY Zenon, <1>3 DEF Whole
  <1> QED BY Zenon, <1>2, <1>6, <1>7 DEF u, b

-----------------------------------------------------------------------------
(* The packets of a stream *)

\* The bytes w are the packets s, the buffer x starts where packet g ended, the
\* bytes y follow it, and nothing is missing behind them unless the stream is cut.
Carried(w, ends, s, g, x, y, c) ==
  /\ Laid(w, ends, s)
  /\ Runs(w, ends[g + 1], x, y)
  /\ ~c => Whole(w, ends[g + 1], x, y)

\* The packets q are the first ones of s.
CameOut(s, q) == Len(q) <= Len(s) /\ \A i \in 1 .. Len(q) : q[i] = s[i]

\* The buffer x starts with the next packet, which ends at ends[g + 2], or
\* nothing is under way.
ComesNext(ends, s, g, x, h) ==
  /\ h \in Fr!LengthPrefixes(Len(s[g + 1]))
  /\ Starts(x, h, s[g + 1])
  /\ ends[g + 2] = ends[g + 1] + Len(h) + Len(s[g + 1])

LEMMA CarriedIs ==
  ASSUME NEW s \in Seq(Payload), NEW g \in 0 .. Len(s), NEW x, NEW y, NEW c, NEW w, NEW ends,
         Carried(w, ends, s, g, x, y, c)
  PROVE  /\ w \in Seq(Fr!Byte) /\ Len(w) \in Nat /\ Len(s) \in Nat /\ g \in Nat
         /\ ends[g + 1] \in Nat /\ ends[g + 1] <= Len(w)
         /\ ends[Len(s) + 1] = Len(w)
         /\ Runs(w, ends[g + 1], x, y)
         /\ g < Len(s) => /\ g + 1 \in 1 .. Len(s)
                          /\ ends[g + 2] \in Nat /\ ends[g + 2] <= Len(w)
                          /\ Placed(w, ends[g + 1], ends[g + 2], s[g + 1])
  <1>1. /\ w \in Seq(Fr!Byte) /\ ends \in [1 .. Len(s) + 1 -> Nat] /\ ends[Len(s) + 1] = Len(w)
        /\ \A i \in 1 .. Len(s) + 1 : ends[i] <= Len(w)
        /\ \A i \in 1 .. Len(s) : Placed(w, ends[i], ends[i + 1], s[i])
        /\ Runs(w, ends[g + 1], x, y)
    BY Zenon DEF Carried, Laid
  <1>2. Len(w) \in Nat /\ Len(s) \in Nat
    BY <1>1
  <1>3. /\ g \in Nat /\ g + 1 \in 1 .. Len(s) + 1
        /\ g < Len(s) => /\ g + 1 \in 1 .. Len(s) /\ g + 2 \in 1 .. Len(s) + 1
                         /\ (g + 1) + 1 = g + 2
    BY SMT, <1>2
  <1>4. ends[g + 1] \in Nat /\ ends[g + 1] <= Len(w)
    BY Zenon, <1>1, <1>3
  <1>5. ASSUME g < Len(s)
        PROVE  /\ ends[g + 2] \in Nat /\ ends[g + 2] <= Len(w)
               /\ Placed(w, ends[g + 1], ends[g + 2], s[g + 1])
    <2>1. Placed(w, ends[g + 1], ends[(g + 1) + 1], s[g + 1])
      BY Zenon, <1>1, <1>3, <1>5
    <2> QED BY Zenon, <1>1, <1>3, <1>5, <2>1
  <1> QED BY Zenon, <1>1, <1>2, <1>3, <1>4, <1>5

\* At the end of the packets nothing is left over.
LEMMA NothingLeft ==
  ASSUME NEW s \in Seq(Payload), NEW g \in 0 .. Len(s), ~ (g < Len(s)), NEW x \in Seq(Fr!Byte),
         NEW y \in Seq(Fr!Byte), NEW c, NEW w, NEW ends, Carried(w, ends, s, g, x, y, c)
  PROVE  x = <<>>
  <1>1. Len(w) \in Nat /\ Len(s) \in Nat /\ g \in Nat
    BY Zenon, CarriedIs
  <1>b. ends[Len(s) + 1] = Len(w) /\ Runs(w, ends[g + 1], x, y)
    BY Zenon DEF Carried, Laid
  <1>a. g = Len(s)
    BY SMT, <1>1
  <1>2. Len(w) \in Nat /\ Runs(w, Len(w), x, y)
    BY Zenon, <1>1, <1>a, <1>b
  <1>3. Len(w) + Len(x) + Len(y) <= Len(w)
    BY Zenon, <1>2 DEF Runs
  <1>4. Len(x) = 0
    <2>1. Len(x) \in Nat /\ Len(y) \in Nat
      OBVIOUS
    <2> DEFINE lw == Len(w)
               lx == Len(x)
               ly == Len(y)
    <2>2. lw \in Nat /\ lx \in Nat /\ ly \in Nat /\ lw + lx + ly <= lw
      BY Zenon, <1>2, <1>3, <2>1
    <2> HIDE DEF lw, lx, ly
    <2>3. lx = 0
      BY SMT, <2>2
    <2> QED BY Zenon, <2>3 DEF lx
  <1> QED BY SMT, <1>4

\* Before it the buffer holds the beginning of the next packet.
LEMMA NextIsThere ==
  ASSUME Fr!FramingBounds, NEW s \in Seq(Payload), NEW g \in 0 .. Len(s), g < Len(s),
         NEW x \in Seq(Fr!Byte), NEW y \in Seq(Fr!Byte), NEW c, NEW w, NEW ends,
         Carried(w, ends, s, g, x, y, c)
  PROVE  \E h : ComesNext(ends, s, g, x, h)
  <1> DEFINE p == s[g + 1]
             a == ends[g + 1]
  <1>1. /\ Placed(w, a, ends[g + 2], p) /\ Runs(w, a, x, y) /\ g + 1 \in 1 .. Len(s)
        /\ a \in Nat
    BY Zenon, CarriedIs
  <1>2. p \in Payload
    BY SMT, <1>1
  <1> HIDE DEF p, a
  <1>3. PICK h \in Fr!LengthPrefixes(Len(p)) :
          /\ ends[g + 2] = a + Len(h) + Len(p)
          /\ \A j \in 1 .. Len(h) : w[a + j] = h[j]
          /\ \A j \in 1 .. Len(p) : w[a + (Len(h) + j)] = p[j]
    BY Zenon, <1>1 DEF Placed
  <1>4. \A j \in 1 .. Len(x) : x[j] = w[a + j]
    BY Zenon, <1>1 DEF Runs
  <1>5. Len(p) \in Nat /\ Fr!High(Fr!High(Fr!High(Len(p)))) < 256
    BY <1>2 DEF Fr!FramingBounds
  <1>6. Len(h) \in Nat /\ Len(x) \in Nat
    <2>1. Len(h) \in Nat
      BY Zenon, <1>5, PrefixSizeIs
    <2>2. Len(x) \in Nat
      OBVIOUS
    <2> QED BY Zenon, <2>1, <2>2
  <1> DEFINE lh == Len(h)
             lx == Len(x)
  <1>7. /\ \A j \in 1 .. lh : j <= lx => j \in 1 .. lx
        /\ \A j \in 1 .. Len(p) : lh + j <= lx => lh + j \in 1 .. lx
    <2> HIDE DEF lh, lx
    <2>1. lh \in Nat /\ lx \in Nat
      BY Zenon, <1>6 DEF lh, lx
    <2> QED BY SMT, <1>5, <2>1
  <1>8. \A j \in 1 .. Len(h) : j <= Len(x) => x[j] = h[j]
    BY Zenon, <1>3, <1>4, <1>7
  <1>9. \A j \in 1 .. Len(p) : Len(h) + j <= Len(x) => x[Len(h) + j] = p[j]
    BY Zenon, <1>3, <1>4, <1>7
  <1>10. Starts(x, h, p)
    BY Zenon, <1>8, <1>9 DEF Starts
  <1>11. ComesNext(ends, s, g, x, h)
    BY Zenon, <1>3, <1>10 DEF ComesNext, p, a
  <1> QED BY Zenon, <1>11

\* What decode makes of the buffer, when a packet is still to come.
LEMMA NextDecoded ==
  ASSUME Fr!FramingBounds, NEW s \in Seq(Payload), NEW g \in 0 .. Len(s), g < Len(s),
         NEW x \in Seq(Fr!Byte), NEW ends, NEW h, ComesNext(ends, s, g, x, h)
  PROVE  /\ Decoded(x, h, s[g + 1]) /\ s[g + 1] \in Payload /\ Len(h) \in Nat
         /\ Len(s[g + 1]) \in Nat /\ s[g + 1] \in Seq(Fr!Byte)
  <1> DEFINE p == s[g + 1]
  <1>1. g + 1 \in 1 .. Len(s)
    BY SMT
  <1>2. p \in Payload
    BY SMT, <1>1
  <1>3. h \in Fr!LengthPrefixes(Len(p)) /\ Starts(x, h, p)
    BY Zenon DEF ComesNext
  <1> HIDE DEF p
  <1>4. p \in Seq(Fr!Byte) /\ Len(p) \in Nat /\ Fr!High(Fr!High(Fr!High(Len(p)))) < 256
    BY <1>2 DEF Fr!FramingBounds
  <1>5. Len(h) \in Nat
    BY Zenon, <1>3, <1>4, PrefixSizeIs
  <1>6. Decoded(x, h, p)
    BY Zenon, <1>2, <1>3, DecodeIs
  <1> QED BY Zenon, <1>2, <1>4, <1>5, <1>6 DEF p

-----------------------------------------------------------------------------
(* The stream step by step *)

\* The inductive invariant of Framing: what is in the buffer and under way is
\* a part of the packets sent, laid out in some legal framing, and the buffer
\* starts with the first packet that has not come out.
Flows ==
  /\ Fr!FramingBounds /\ Fr!TypeOK
  /\ CameOut(sent, yielded)
  /\ \E w, ends : Carried(w, ends, sent, Len(yielded), src, arriving, cut)
  /\ state \in {"eof", "ended"} => cut
  /\ Fr!ErrorsAreReal

\* The same with its parts named, for a step.
LEMMA FlowsIs ==
  ASSUME Flows
  PROVE  /\ Fr!FramingBounds /\ CameOut(sent, yielded) /\ Fr!ErrorsAreReal
         /\ sent \in Seq(Payload) /\ Len(sent) <= MaxPackets /\ arriving \in Seq(Fr!Byte)
         /\ src \in Seq(Fr!Byte) /\ yielded \in Seq(Seq(Fr!Byte))
         /\ state \in {"open", "eof", "ended", "error"} /\ cut \in BOOLEAN
         /\ Len(yielded) \in 0 .. Len(sent) /\ Len(yielded) \in Nat /\ Len(sent) \in Nat
         /\ state \in {"eof", "ended"} => cut
         /\ \E w, ends : Carried(w, ends, sent, Len(yielded), src, arriving, cut)
  <1>1. /\ Fr!FramingBounds /\ CameOut(sent, yielded) /\ Fr!ErrorsAreReal
        /\ sent \in Seq(Payload) /\ Len(sent) <= MaxPackets /\ arriving \in Seq(Fr!Byte)
        /\ src \in Seq(Fr!Byte) /\ yielded \in Seq(Seq(Fr!Byte))
        /\ state \in {"open", "eof", "ended", "error"} /\ cut \in BOOLEAN
        /\ state \in {"eof", "ended"} => cut
        /\ \E w, ends : Carried(w, ends, sent, Len(yielded), src, arriving, cut)
    BY Zenon DEF Flows, Fr!TypeOK
  <1>2. Len(yielded) <= Len(sent)
    BY Zenon, <1>1 DEF CameOut
  <1>3. Len(yielded) \in 0 .. Len(sent) /\ Len(yielded) \in Nat /\ Len(sent) \in Nat
    BY SMT, <1>1, <1>2
  <1> QED BY Zenon, <1>1, <1>3

LEMMA FlowsInit == Fr!FramingBounds /\ Fr!Init => Flows
  <1> SUFFICES ASSUME Fr!FramingBounds, Fr!Init PROVE Flows
    OBVIOUS
  <1>1. /\ sent = <<>> /\ arriving = <<>> /\ src = <<>> /\ yielded = <<>> /\ state = "open"
        /\ cut = FALSE
    BY Zenon DEF Fr!Init
  <1>2. Fr!TypeOK
    <2>1. Len(sent) <= MaxPackets
      BY SMT, <1>1 DEF Fr!FramingBounds
    <2>2. sent \in Seq(Payload) /\ arriving \in Seq(Fr!Byte) /\ src \in Seq(Fr!Byte)
      BY SMT, <1>1
    <2>3. yielded \in Seq(Seq(Fr!Byte))
      BY SMT, <1>1
    <2>4. state \in {"open", "eof", "ended", "error"} /\ cut \in BOOLEAN
      BY Zenon, <1>1
    <2> QED BY Zenon, <2>1, <2>2, <2>3, <2>4 DEF Fr!TypeOK
  <1>3. CameOut(sent, yielded)
    BY SMT, <1>1 DEF CameOut
  <1> DEFINE ends == [i \in 1 .. 1 |-> 0]
  <1>4. Carried(<<>>, ends, sent, Len(yielded), src, arriving, cut)
    BY SMT, <1>1 DEF Carried, Laid, Runs, Whole
  <1>5. Fr!ErrorsAreReal
    BY Zenon, <1>1 DEF Fr!ErrorsAreReal
  <1>6. state \in {"eof", "ended"} => cut
    BY SMT, <1>1
  <1> HIDE DEF ends
  <1> QED BY Zenon, <1>2, <1>3, <1>4, <1>5, <1>6 DEF Flows

LEMMA FlowsPeerSends ==
  ASSUME Flows, NEW p \in Payload, Fr!PeerSends(p)
  PROVE  Flows'
  <1>1. /\ state = "open" /\ ~cut /\ Len(sent) < MaxPackets /\ sent' = Append(sent, p)
        /\ src' = src /\ yielded' = yielded /\ state' = state /\ cut' = cut
    BY Zenon DEF Fr!PeerSends
  <1>2. PICK h \in Fr!LengthPrefixes(Len(p)) : arriving' = arriving \o (h \o p)
    BY Zenon DEF Fr!PeerSends
  <1>3. /\ Fr!FramingBounds /\ CameOut(sent, yielded) /\ sent \in Seq(Payload)
        /\ arriving \in Seq(Fr!Byte) /\ src \in Seq(Fr!Byte) /\ yielded \in Seq(Seq(Fr!Byte))
        /\ state \in {"open", "eof", "ended", "error"} /\ cut \in BOOLEAN
        /\ Len(yielded) \in 0 .. Len(sent) /\ Len(yielded) \in Nat /\ Len(sent) \in Nat
    BY Zenon, FlowsIs
  <1>4. PICK w, ends : Carried(w, ends, sent, Len(yielded), src, arriving, cut)
    BY Zenon, FlowsIs
  <1> DEFINE f == h \o p
             v == w \o (h \o p)
             g == Len(yielded)
             later == Longer(ends, Len(sent), Len(w) + Len(h \o p))
  <1>5. /\ Laid(w, ends, sent) /\ Runs(w, ends[g + 1], src, arriving)
        /\ Whole(w, ends[g + 1], src, arriving)
    BY Zenon, <1>1, <1>4 DEF Carried
  <1>6. w \in Seq(Fr!Byte) /\ ends[g + 1] \in Nat
    BY Zenon, <1>3, <1>4, CarriedIs
  <1>7. Laid(v, later, Append(sent, p)) /\ SameEnds(later, ends, Len(sent))
    BY Zenon, <1>3, <1>5, LaidOn
  <1>8. f \in Seq(Fr!Byte)
    BY Zenon, <1>3, <1>6, PlacedLast
  <1>9. v = w \o f /\ arriving' = arriving \o f
    BY Zenon, <1>2
  <1> HIDE DEF f, v, later, g
  <1>10. /\ Runs(w \o f, ends[g + 1], src, arriving \o f) /\ arriving \o f \in Seq(Fr!Byte)
         /\ Whole(w \o f, ends[g + 1], src, arriving \o f)
    BY Zenon, <1>3, <1>5, <1>6, <1>8, RunsOn
  <1>11. g + 1 \in 1 .. Len(sent) + 1
    BY SMT, <1>3 DEF g
  <1>12. later[g + 1] = ends[g + 1]
    BY Zenon, <1>7, <1>11 DEF SameEnds
  <1>13. Carried(v, later, sent', Len(yielded'), src', arriving', cut')
    BY Zenon, <1>1, <1>7, <1>9, <1>10, <1>12 DEF Carried, g
  <1>14. /\ sent' \in Seq(Payload) /\ Len(sent') = Len(sent) + 1
         /\ \A i \in 1 .. Len(sent) : sent'[i] = sent[i]
    BY SMT, <1>1, <1>3
  <1>15. Len(sent') <= MaxPackets
    BY SMT, <1>1, <1>3, <1>14 DEF Fr!FramingBounds
  <1>16. Fr!TypeOK'
    BY Zenon, <1>1, <1>3, <1>9, <1>10, <1>14, <1>15 DEF Fr!TypeOK, Fr!Byte
  <1>17. CameOut(sent', yielded')
    <2>1. Len(yielded) <= Len(sent')
      BY SMT, <1>3, <1>14
    <2>2. \A i \in 1 .. Len(yielded) : i \in 1 .. Len(sent)
      BY SMT, <1>3
    <2> QED BY Zenon, <1>1, <1>3, <1>14, <2>1, <2>2 DEF CameOut
  <1>18. state' # "error" /\ ~ (state' \in {"eof", "ended"})
    BY SMT, <1>1
  <1>19. Fr!ErrorsAreReal'
    BY Zenon, <1>18 DEF Fr!ErrorsAreReal
  <1>20. Fr!FramingBounds'
    BY Zenon, <1>3 DEF Fr!FramingBounds, Fr!High, Fr!Byte
  <1> QED BY Zenon, <1>13, <1>16, <1>17, <1>18, <1>19, <1>20 DEF Flows

LEMMA FlowsPeerBreaks ==
  ASSUME Flows, Fr!PeerBreaks
  PROVE  Flows'
  <1>1. /\ state = "open" /\ cut' = TRUE
        /\ sent' = sent /\ src' = src /\ yielded' = yielded /\ state' = state
    BY Zenon DEF Fr!PeerBreaks
  <1>2. PICK n \in 0 .. Len(arriving) : arriving' = SubSeq(arriving, 1, n)
    BY Zenon DEF Fr!PeerBreaks
  <1>3. /\ Fr!FramingBounds /\ CameOut(sent, yielded) /\ sent \in Seq(Payload)
        /\ Len(sent) <= MaxPackets
        /\ arriving \in Seq(Fr!Byte) /\ src \in Seq(Fr!Byte) /\ yielded \in Seq(Seq(Fr!Byte))
        /\ state \in {"open", "eof", "ended", "error"} /\ Len(yielded) \in 0 .. Len(sent)
    BY Zenon, FlowsIs
  <1>4. PICK w, ends : Carried(w, ends, sent, Len(yielded), src, arriving, cut)
    BY Zenon, FlowsIs
  <1> DEFINE a == ends[Len(yielded) + 1]
  <1>5. Laid(w, ends, sent) /\ Runs(w, a, src, arriving) /\ w \in Seq(Fr!Byte)
    BY Zenon, <1>4 DEF Carried, Laid
  <1>6. a \in Nat
    BY Zenon, <1>3, <1>4, CarriedIs
  <1>7. Runs(w, a, src, SubSeq(arriving, 1, n)) /\ SubSeq(arriving, 1, n) \in Seq(Fr!Byte)
    BY Zenon, <1>3, <1>5, <1>6, RunsCut
  <1>8. Carried(w, ends, sent', Len(yielded'), src', arriving', cut')
    BY Zenon, <1>1, <1>2, <1>5, <1>7 DEF Carried
  <1>9. cut' \in BOOLEAN /\ arriving' \in Seq(Fr!Byte)
    BY Zenon, <1>1, <1>2, <1>7
  <1>10. Fr!TypeOK'
    BY Zenon, <1>1, <1>3, <1>9 DEF Fr!TypeOK, Fr!Byte
  <1>11. CameOut(sent', yielded') /\ (state' \in {"eof", "ended"} => cut')
    BY Zenon, <1>1, <1>3
  <1>12. state' # "error"
    BY SMT, <1>1
  <1>13. Fr!ErrorsAreReal'
    BY Zenon, <1>12 DEF Fr!ErrorsAreReal
  <1>14. Fr!FramingBounds'
    BY Zenon, <1>3 DEF Fr!FramingBounds, Fr!High, Fr!Byte
  <1> QED BY Zenon, <1>8, <1>10, <1>11, <1>13, <1>14 DEF Flows

LEMMA FlowsRead ==
  ASSUME Flows, Fr!Read
  PROVE  Flows'
  <1>1. /\ state = "open" /\ cut' = cut
        /\ sent' = sent /\ yielded' = yielded /\ state' = state
    BY Zenon DEF Fr!Read
  <1>2. PICK n \in 1 .. Len(arriving) :
          /\ src' = src \o SubSeq(arriving, 1, n)
          /\ arriving' = SubSeq(arriving, n + 1, Len(arriving))
    BY Zenon DEF Fr!Read
  <1>3. /\ Fr!FramingBounds /\ CameOut(sent, yielded) /\ sent \in Seq(Payload)
        /\ Len(sent) <= MaxPackets /\ cut \in BOOLEAN
        /\ arriving \in Seq(Fr!Byte) /\ src \in Seq(Fr!Byte) /\ yielded \in Seq(Seq(Fr!Byte))
        /\ state \in {"open", "eof", "ended", "error"} /\ Len(yielded) \in 0 .. Len(sent)
    BY Zenon, FlowsIs
  <1>4. PICK w, ends : Carried(w, ends, sent, Len(yielded), src, arriving, cut)
    BY Zenon, FlowsIs
  <1> DEFINE a == ends[Len(yielded) + 1]
             u == src \o SubSeq(arriving, 1, n)
             z == SubSeq(arriving, n + 1, Len(arriving))
  <1>5. Laid(w, ends, sent) /\ Runs(w, a, src, arriving) /\ w \in Seq(Fr!Byte)
    BY Zenon, <1>4 DEF Carried, Laid
  <1>6. a \in Nat
    BY Zenon, <1>3, <1>4, CarriedIs
  <1>7. /\ Runs(w, a, u, z) /\ u \in Seq(Fr!Byte) /\ z \in Seq(Fr!Byte)
        /\ Whole(w, a, src, arriving) => Whole(w, a, u, z)
    BY Zenon, <1>3, <1>5, <1>6, RunsRead
  <1> HIDE DEF a, u, z
  <1>8. src' = u /\ arriving' = z
    BY Zenon, <1>2 DEF u, z
  <1>9. ~cut => Whole(w, a, u, z)
    BY Zenon, <1>4, <1>7 DEF Carried, a
  <1>10. Carried(w, ends, sent', Len(yielded'), src', arriving', cut')
    BY Zenon, <1>1, <1>5, <1>7, <1>8, <1>9 DEF Carried, a
  <1>11. Fr!TypeOK'
    BY Zenon, <1>1, <1>3, <1>7, <1>8 DEF Fr!TypeOK, Fr!Byte
  <1>12. CameOut(sent', yielded')
    BY Zenon, <1>1, <1>3
  <1>13. state' # "error" /\ ~ (state' \in {"eof", "ended"})
    BY SMT, <1>1
  <1>14. Fr!ErrorsAreReal'
    BY Zenon, <1>13 DEF Fr!ErrorsAreReal
  <1>15. Fr!FramingBounds'
    BY Zenon, <1>3 DEF Fr!FramingBounds, Fr!High, Fr!Byte
  <1> QED BY Zenon, <1>10, <1>11, <1>12, <1>13, <1>14, <1>15 DEF Flows

\* A step that moves nothing but the state of the stream.
LEMMA FlowsState ==
  ASSUME Flows, sent' = sent, arriving' = arriving, src' = src, yielded' = yielded, cut' = cut,
         state' \in {"open", "eof", "ended", "error"}, state' \in {"eof", "ended"} => cut,
         Fr!ErrorsAreReal'
  PROVE  Flows'
  <1>1. /\ Fr!FramingBounds /\ CameOut(sent, yielded) /\ sent \in Seq(Payload)
        /\ Len(sent) <= MaxPackets /\ cut \in BOOLEAN
        /\ arriving \in Seq(Fr!Byte) /\ src \in Seq(Fr!Byte) /\ yielded \in Seq(Seq(Fr!Byte))
    BY Zenon, FlowsIs
  <1>2. PICK w, ends : Carried(w, ends, sent, Len(yielded), src, arriving, cut)
    BY Zenon, FlowsIs
  <1>3. Carried(w, ends, sent', Len(yielded'), src', arriving', cut')
    BY Zenon, <1>2
  <1>4. Fr!TypeOK'
    BY Zenon, <1>1 DEF Fr!TypeOK, Fr!Byte
  <1>5. CameOut(sent', yielded') /\ (state' \in {"eof", "ended"} => cut')
    BY Zenon, <1>1
  <1>6. Fr!FramingBounds'
    BY Zenon, <1>1 DEF Fr!FramingBounds, Fr!High, Fr!Byte
  <1> QED BY Zenon, <1>3, <1>4, <1>5, <1>6 DEF Flows

\* What comes out of the buffer, unless decode wants more: the packet that is
\* next, or an error when that is over the limit.
LEMMA OutIsNext ==
  ASSUME Flows, NEW w, NEW ends, Carried(w, ends, sent, Len(yielded), src, arriving, cut),
         Fr!Decode(src).tag # "more"
  PROVE  /\ Len(yielded) < Len(sent)
         /\ \E h : /\ ComesNext(ends, sent, Len(yielded), src, h)
                   /\ Decoded(src, h, sent[Len(yielded) + 1])
  <1> DEFINE g == Len(yielded)
  <1>1. /\ Fr!FramingBounds /\ sent \in Seq(Payload) /\ arriving \in Seq(Fr!Byte)
        /\ src \in Seq(Fr!Byte) /\ g \in 0 .. Len(sent)
    BY Zenon, FlowsIs
  <1> HIDE DEF g
  <1>2. Carried(w, ends, sent, g, src, arriving, cut)
    BY Zenon DEF g
  <1>3. g < Len(sent)
    <2> SUFFICES ASSUME ~ (g < Len(sent)) PROVE FALSE
      OBVIOUS
    <2>1. src = <<>>
      BY Zenon, <1>1, <1>2, NothingLeft
    <2> QED BY Zenon, <2>1, MoreIs
  <1>4. PICK h : ComesNext(ends, sent, g, src, h)
    BY Zenon, <1>1, <1>2, <1>3, NextIsThere
  <1>5. Decoded(src, h, sent[g + 1])
    BY Zenon, <1>1, <1>3, <1>4, NextDecoded
  <1> QED BY Zenon, <1>3, <1>4, <1>5 DEF g

LEMMA FlowsYield ==
  ASSUME Flows, Fr!Yield
  PROVE  Flows'
  <1> DEFINE d == Fr!Decode(src)
             g == Len(yielded)
             p == sent[g + 1]
  <1>1. /\ state = "open" /\ d.tag = "packet" /\ yielded' = Append(yielded, d.packet)
        /\ src' = d.rest
        /\ sent' = sent /\ arriving' = arriving /\ state' = state /\ cut' = cut
    BY Zenon DEF Fr!Yield
  <1>2. d.tag # "more" /\ d.tag # "error"
    BY SMT, <1>1
  <1>3. /\ Fr!FramingBounds /\ CameOut(sent, yielded) /\ sent \in Seq(Payload)
        /\ Len(sent) <= MaxPackets /\ cut \in BOOLEAN
        /\ arriving \in Seq(Fr!Byte) /\ src \in Seq(Fr!Byte) /\ yielded \in Seq(Seq(Fr!Byte))
        /\ state \in {"open", "eof", "ended", "error"} /\ g \in 0 .. Len(sent)
        /\ g \in Nat /\ Len(sent) \in Nat
    BY Zenon, FlowsIs
  <1>4. PICK w, ends : Carried(w, ends, sent, g, src, arriving, cut)
    BY Zenon, FlowsIs
  <1>5. /\ g < Len(sent)
        /\ \E h : ComesNext(ends, sent, g, src, h) /\ Decoded(src, h, p)
    BY Zenon, <1>2, <1>4, OutIsNext
  <1>6. PICK h : ComesNext(ends, sent, g, src, h) /\ Decoded(src, h, p)
    BY Zenon, <1>5
  <1> DEFINE m == Len(h) + Len(p)
             a == ends[g + 1]
             u == SubSeq(src, m + 1, Len(src))
  <1>7. d.packet = p /\ d.rest = u /\ Len(src) >= m
    BY Zenon, <1>2, <1>6 DEF Decoded
  <1>8. Len(h) \in Nat /\ Len(p) \in Nat /\ p \in Seq(Fr!Byte)
    BY Zenon, <1>3, <1>5, <1>6, NextDecoded
  <1> HIDE DEF d, g, p
  <1>9. m \in 0 .. Len(src)
    BY SMT, <1>3, <1>7, <1>8
  <1>10. ends[g + 2] = a + m
    <2>1. ends[g + 2] = a + Len(h) + Len(p)
      BY Zenon, <1>6 DEF ComesNext, p
    <2>2. a \in Nat
      BY Zenon, <1>3, <1>4, CarriedIs
    <2> HIDE DEF a
    <2> QED BY SMT, <1>8, <2>1, <2>2
  <1>11. Laid(w, ends, sent) /\ Runs(w, a, src, arriving) /\ w \in Seq(Fr!Byte)
    BY Zenon, <1>4 DEF Carried, Laid
  <1>12. a \in Nat
    BY Zenon, <1>3, <1>4, CarriedIs
  <1> HIDE DEF m, a
  <1>13. /\ Runs(w, a + m, u, arriving) /\ u \in Seq(Fr!Byte)
         /\ Whole(w, a, src, arriving) => Whole(w, a + m, u, arriving)
    BY Zenon, <1>3, <1>9, <1>11, <1>12, RunsTaken
  <1> HIDE DEF u
  <1>14. ~cut => Whole(w, a, src, arriving)
    BY Zenon, <1>4 DEF Carried, a
  <1>15. /\ yielded' \in Seq(Seq(Fr!Byte)) /\ Len(yielded') = g + 1
         /\ yielded'[g + 1] = p
         /\ \A i \in 1 .. g : yielded'[i] = yielded[i]
    BY SMT, <1>1, <1>3, <1>7, <1>8 DEF g
  <1>16. Len(yielded') + 1 = g + 2
    BY SMT, <1>3, <1>15
  <1>17. src' = u
    BY Zenon, <1>1, <1>7
  <1>18. Carried(w, ends, sent', Len(yielded'), src', arriving', cut')
    BY Zenon, <1>1, <1>10, <1>11, <1>13, <1>14, <1>16, <1>17 DEF Carried
  <1>19. Fr!TypeOK'
    BY Zenon, <1>1, <1>3, <1>13, <1>15, <1>17 DEF Fr!TypeOK, Fr!Byte
  <1>20. CameOut(sent', yielded')
    <2>1. g + 1 <= Len(sent) /\ \A i \in 1 .. g + 1 : i \in 1 .. g \/ i = g + 1
      BY SMT, <1>3, <1>5
    <2>2. \A i \in 1 .. g : yielded[i] = sent[i]
      BY Zenon, <1>3 DEF CameOut, g
    <2>3. \A i \in 1 .. g + 1 : yielded'[i] = sent[i]
      BY Zenon, <1>15, <2>1, <2>2 DEF p
    <2> QED BY Zenon, <1>1, <1>15, <2>1, <2>3 DEF CameOut
  <1>21. state' # "error" /\ ~ (state' \in {"eof", "ended"})
    BY SMT, <1>1
  <1>22. Fr!ErrorsAreReal'
    BY Zenon, <1>21 DEF Fr!ErrorsAreReal
  <1>23. Fr!FramingBounds'
    BY Zenon, <1>3 DEF Fr!FramingBounds, Fr!High, Fr!Byte
  <1> QED BY Zenon, <1>18, <1>19, <1>20, <1>21, <1>22, <1>23 DEF Flows

LEMMA FlowsYieldError ==
  ASSUME Flows, Fr!YieldError
  PROVE  Flows'
  <1>1. /\ state' = "error" /\ Fr!Decode(src).tag = "error"
        /\ sent' = sent /\ arriving' = arriving /\ src' = src /\ yielded' = yielded /\ cut' = cut
    BY Zenon DEF Fr!YieldError
  <1>2. Fr!Decode(src).tag # "more" /\ Fr!Decode(src).tag # "packet"
    BY SMT, <1>1
  <1>3. PICK w, ends : Carried(w, ends, sent, Len(yielded), src, arriving, cut)
    BY Zenon, FlowsIs
  <1>4. /\ Len(yielded) < Len(sent)
        /\ \E h : /\ ComesNext(ends, sent, Len(yielded), src, h)
                  /\ Decoded(src, h, sent[Len(yielded) + 1])
    BY Zenon, <1>2, <1>3, OutIsNext
  <1>5. Len(sent[Len(yielded) + 1]) > MaxPacketLen
    BY Zenon, <1>2, <1>4 DEF Decoded
  <1>6. Len(yielded) + 1 \in 1 .. Len(sent)
    <2>1. Len(yielded) \in Nat /\ Len(sent) \in Nat
      BY Zenon, FlowsIs
    <2> QED BY SMT, <1>4, <2>1
  <1>7. \E i \in 1 .. Len(sent') : Len(sent'[i]) > MaxPacketLen
    BY Zenon, <1>1, <1>5, <1>6
  <1>8. Fr!ErrorsAreReal'
    BY Zenon, <1>7 DEF Fr!ErrorsAreReal
  <1>9. state' \in {"open", "eof", "ended", "error"} /\ ~ (state' \in {"eof", "ended"})
    BY SMT, <1>1
  <1> QED BY Zenon, <1>1, <1>8, <1>9, FlowsState

LEMMA FlowsReadEnd ==
  ASSUME Flows, Fr!ReadEnd
  PROVE  Flows'
  <1>1. /\ state' = "eof" /\ cut
        /\ sent' = sent /\ arriving' = arriving /\ src' = src /\ yielded' = yielded /\ cut' = cut
    BY Zenon DEF Fr!ReadEnd
  <1>2. state' \in {"open", "eof", "ended", "error"} /\ state' # "error"
    BY SMT, <1>1
  <1>3. Fr!ErrorsAreReal'
    BY Zenon, <1>2 DEF Fr!ErrorsAreReal
  <1> QED BY Zenon, <1>1, <1>2, <1>3, FlowsState

LEMMA FlowsYieldEnd ==
  ASSUME Flows, Fr!YieldEnd
  PROVE  Flows'
  <1>1. /\ state = "eof" /\ state' = (IF src = <<>> THEN "ended" ELSE "error")
        /\ sent' = sent /\ arriving' = arriving /\ src' = src /\ yielded' = yielded /\ cut' = cut
    BY Zenon DEF Fr!YieldEnd
  <1>2. cut
    BY Zenon, <1>1, FlowsIs
  <1>3. state' \in {"open", "eof", "ended", "error"}
    BY Zenon, <1>1
  <1>4. state' = "error" => src' # <<>>
    BY SMT, <1>1
  <1>5. Fr!ErrorsAreReal'
    BY Zenon, <1>1, <1>2, <1>4 DEF Fr!ErrorsAreReal
  <1> QED BY Zenon, <1>1, <1>2, <1>3, <1>5, FlowsState

LEMMA FlowsStep == Flows /\ [Fr!Next]_Fr!vars => Flows'
  <1> SUFFICES ASSUME Flows, [Fr!Next]_Fr!vars PROVE Flows'
    OBVIOUS
  <1>1. CASE \E p \in Payload : Fr!PeerSends(p)
    BY Zenon, <1>1, FlowsPeerSends
  <1>2. CASE Fr!PeerBreaks
    BY Zenon, <1>2, FlowsPeerBreaks
  <1>3. CASE Fr!Read
    BY Zenon, <1>3, FlowsRead
  <1>4. CASE Fr!ReadEnd
    BY Zenon, <1>4, FlowsReadEnd
  <1>5. CASE Fr!Yield
    BY Zenon, <1>5, FlowsYield
  <1>6. CASE Fr!YieldError
    BY Zenon, <1>6, FlowsYieldError
  <1>7. CASE Fr!YieldEnd
    BY Zenon, <1>7, FlowsYieldEnd
  <1>8. CASE UNCHANGED Fr!vars
    <2>1. /\ sent' = sent /\ arriving' = arriving /\ src' = src /\ yielded' = yielded
          /\ state' = state /\ cut' = cut
      BY Zenon, <1>8 DEF Fr!vars
    <2>2. /\ state \in {"open", "eof", "ended", "error"} /\ Fr!ErrorsAreReal
          /\ state \in {"eof", "ended"} => cut
      BY Zenon, FlowsIs
    <2>3. Fr!ErrorsAreReal'
      BY Zenon, <2>1, <2>2 DEF Fr!ErrorsAreReal
    <2>4. state' \in {"open", "eof", "ended", "error"} /\ (state' \in {"eof", "ended"} => cut)
      BY Zenon, <2>1, <2>2
    <2> QED BY Zenon, <2>1, <2>3, <2>4, FlowsState
  <1> QED BY Zenon, <1>1, <1>2, <1>3, <1>4, <1>5, <1>6, <1>7, <1>8 DEF Fr!Next

\* Packets that are the first of those sent are a prefix of them, and all of
\* them when there are as many.
LEMMA OutIsPrefix ==
  ASSUME Fr!FramingBounds, NEW s \in Seq(Payload), NEW q \in Seq(Seq(Fr!Byte)), CameOut(s, q)
  PROVE  Fr!IsPrefix(q, s) /\ (Len(q) >= Len(s) => q = s)
  <1>1. \A p \in Payload : p \in Seq(Fr!Byte)
    BY Zenon DEF Fr!FramingBounds
  <1>2. s \in Seq(Seq(Fr!Byte)) /\ Len(s) \in Nat /\ Len(q) \in Nat
    BY SMT, <1>1
  <1>3. Len(q) <= Len(s) /\ \A i \in 1 .. Len(q) : q[i] = s[i]
    BY Zenon DEF CameOut
  <1> DEFINE S == Seq(Fr!Byte)
             n == Len(q)
             x == SubSeq(q, 1, n)
             y == SubSeq(s, 1, n)
  <1> HIDE DEF S
  <1>4. q \in Seq(S) /\ s \in Seq(S) /\ n \in 0 .. Len(s) /\ n \in 0 .. Len(q)
    <2>1. n \in 0 .. Len(s) /\ n \in 0 .. Len(q)
      BY SMT, <1>2, <1>3
    <2> QED BY Zenon, <1>2, <2>1 DEF S
  <1>5. x \in Seq(S) /\ Len(x) = n /\ \A i \in 1 .. n : x[i] = q[i]
    BY <1>4, FirstPart
  <1>6. y \in Seq(S) /\ Len(y) = n /\ \A i \in 1 .. n : y[i] = s[i]
    BY <1>4, FirstPart
  <1> HIDE DEF n, x, y
  <1>7. Len(x) = Len(y) /\ \A i \in 1 .. Len(x) : x[i] = y[i]
    BY Zenon, <1>3, <1>5, <1>6 DEF n
  <1>8. x = y
    BY Zenon, <1>5, <1>6, <1>7, SeqEqual
  <1>9. Fr!IsPrefix(q, s)
    BY Zenon, <1>3, <1>8 DEF Fr!IsPrefix, x, y, n
  <1>10. ASSUME Len(q) >= Len(s) PROVE q = s
    <2>1. Len(q) = Len(s)
      BY SMT, <1>2, <1>3, <1>10
    <2> QED BY Zenon, <1>3, <1>4, <2>1, SeqEqual
  <1> QED BY Zenon, <1>9, <1>10

LEMMA FlowsIsExact == Flows => Fr!FramesAreExact
  <1> SUFFICES ASSUME Flows PROVE Fr!FramesAreExact
    OBVIOUS
  <1> DEFINE g == Len(yielded)
  <1>1. /\ Fr!FramingBounds /\ CameOut(sent, yielded) /\ sent \in Seq(Payload)
        /\ arriving \in Seq(Fr!Byte) /\ src \in Seq(Fr!Byte) /\ yielded \in Seq(Seq(Fr!Byte))
        /\ g \in 0 .. Len(sent) /\ g \in Nat /\ Len(sent) \in Nat /\ Fr!ErrorsAreReal
    BY Zenon, FlowsIs
  <1>2. Fr!IsPrefix(yielded, sent) /\ (Len(yielded) >= Len(sent) => yielded = sent)
    BY Zenon, <1>1, OutIsPrefix
  <1>3. ASSUME arriving = <<>>, ~cut, Fr!Decode(src).tag = "more"
        PROVE  yielded = sent
    <2>1. PICK w, ends : Carried(w, ends, sent, g, src, arriving, cut)
      BY Zenon, FlowsIs
    <2> HIDE DEF g
    <2>2. ~ (g < Len(sent))
      <3> SUFFICES ASSUME g < Len(sent) PROVE FALSE
        OBVIOUS
      <3>1. PICK h : ComesNext(ends, sent, g, src, h)
        BY Zenon, <1>1, <2>1, NextIsThere
      <3> DEFINE p == sent[g + 1]
                 a == ends[g + 1]
                 b == ends[g + 2]
                 lw == Len(w)
                 lx == Len(src)
                 lh == Len(h)
                 lp == Len(p)
      <3>2. Decoded(src, h, p) /\ lh \in Nat /\ lp \in Nat
        BY Zenon, <1>1, <3>1, NextDecoded
      <3>3. lx < lh + lp
        <4>1. Fr!Decode(src).tag # "error" /\ Fr!Decode(src).tag # "packet"
          BY SMT, <1>3
        <4> QED BY Zenon, <3>2, <4>1 DEF Decoded
      <3>4. b = a + lh + lp
        BY Zenon, <3>1 DEF ComesNext
      <3>5. lw \in Nat /\ a \in Nat /\ b <= lw
        BY Zenon, <1>1, <2>1, CarriedIs
      <3>6. a + lx + Len(arriving) = lw
        BY Zenon, <1>3, <2>1 DEF Carried, Whole
      <3>7. Len(arriving) = 0 /\ lx \in Nat
        BY SMT, <1>1, <1>3
      <3> HIDE DEF p, a, b, lw, lx, lh, lp
      <3> QED BY SMT, <3>2, <3>3, <3>4, <3>5, <3>6, <3>7
    <2>3. g >= Len(sent)
      BY SMT, <1>1, <2>2
    <2> QED BY Zenon, <1>2, <2>3 DEF g
  <1>4. Fr!FramesExact
    BY Zenon, <1>2, <1>3 DEF Fr!FramesExact
  <1>5. Fr!TypeOK
    BY Zenon DEF Flows
  <1> QED BY Zenon, <1>1, <1>4, <1>5 DEF Fr!FramesAreExact

(***************************************************************************)
(* Codec::decode under Framed: whatever the framing of each packet and     *)
(* however the bytes are cut into reads, the packets that come out are the *)
(* ones sent, in order, every one of them as soon as its bytes are there,  *)
(* and the stream fails only when it was broken inside a packet or a       *)
(* packet is over MAX_PACKET_LEN.  For every set of packets whose lengths  *)
(* fit a u32, every limit and every number of packets.                     *)
(***************************************************************************)
THEOREM FramesComeOut == Fr!FramingBounds /\ Spec => []FramesAreExact
  <1> DEFINE Chosen == kind = "frames" => Flows
  <1>1. Fr!FramingBounds /\ Init => Chosen
    BY Zenon, FlowsInit, KindsDiffer DEF Init
  <1>2. Chosen /\ [Next]_vars => Chosen'
    BY Zenon, FlowsStep, FramesPart
  <1>3. Chosen => FramesAreExact
    BY Zenon, FlowsIsExact DEF FramesAreExact
  <1> QED BY <1>1, <1>2, <1>3, PTL DEF Spec
=============================================================================
