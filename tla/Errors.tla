------------------------------- MODULE Errors -------------------------------
(***************************************************************************)
(* The error a caller gets for a reply that failed (src/src/codec.rs,      *)
(* src/src/error.rs): Response::parse prefers the error stack under        *)
(* IPROTO_ERROR to the message under IPROTO_ERROR_24, its first frame is   *)
(* the error and the others are the cause.  A stack that cannot be read    *)
(* fails the packet, and with it the link and everyone who waits on it.    *)
(* Several callers wait; the server, external, answers them in any order.  *)
(***************************************************************************)
EXTENDS Integers, Sequences

CONSTANTS
  Caller,     \* callers with a request on the link
  Frames,     \* error frames: functions from keys to contents, Wrong for a content
              \* of another type
  MaxStack,   \* bound: frames of one error
  Codes,      \* codes in the header
  U32Max      \* u32::MAX

\* A content of another type.
Wrong == -1

\* What the constants have to be.
ErrorBounds == /\ MaxStack \in Nat /\ U32Max \in Nat /\ Codes \subseteq Nat
               /\ \A f \in Frames : \A key \in DOMAIN f : f[key] \in Nat \cup {Wrong}

VARIABLES
  raised,     \* history: raised[c], the reply the server made for c, or NoReply
  replies,    \* replies on their way, as <<caller, reply>>
  pending,    \* callers that wait: Task.pending
  got,        \* got[c]: what its call returned
  link        \* "up" or "lost"

vars == <<raised, replies, pending, got, link>>

ClientError == 1

\* A reply: the type without the flag, and the body.  The stack is one of
\* "none" (no IPROTO_ERROR), "frames", "nothing" (no stack in the map), "scalar"
\* (not a map), "odd" (the last frame is not a map).
Reply == [code : Codes, body : BOOLEAN, text : 0 .. 1, stack : {"none", "nothing", "scalar"}, frames : {<<>>}]
           \cup [code : Codes, body : {TRUE}, text : 0 .. 1, stack : {"frames", "odd"},
                 frames : UNION {[1 .. n -> Frames] : n \in 0 .. MaxStack}]
NoReply == [code |-> Wrong, body |-> FALSE, text |-> 0, stack |-> "none", frames |-> <<>>]

\* ServerError, and what a call returned.
ErrorOf(code, message, kind) ==
  [code |-> code, message |-> message, kind |-> kind, file |-> 0, line |-> 0, errno |-> 0, fields |-> 0]
Failed(outer, cause) == [is |-> "Server", outer |-> outer, cause |-> cause]
Blank == ErrorOf(0, 0, 0)
Closed == [is |-> "Closed", outer |-> Blank, cause |-> <<>>]
Nothing == [is |-> "none", outer |-> Blank, cause |-> <<>>]

\* The type of every variable.
TypeOK == /\ pending \subseteq Caller
          /\ link \in {"up", "lost"}
          /\ \A c \in Caller : got[c].is \in {"none", "Server", "Closed"}

Init == /\ raised = [c \in Caller |-> NoReply]
        /\ replies = <<>>
        /\ pending = Caller
        /\ got = [c \in Caller |-> Nothing]
        /\ link = "up"

-----------------------------------------------------------------------------
(* Decoding *)

\* A content of a frame: absent it is the initial value, of another type the
\* empty one.
Content(frame, key, initial) ==
  IF key \notin DOMAIN frame THEN initial ELSE IF frame[key] = Wrong THEN 0 ELSE frame[key]

\* decode_error_frame: a code beyond u32 is 0, unknown keys are skipped.
DecodeFrame(frame) ==
  [code |-> IF Content(frame, "ERRCODE", 0) > U32Max THEN 0 ELSE Content(frame, "ERRCODE", 0),
   message |-> Content(frame, "MESSAGE", 0), kind |-> Content(frame, "TYPE", ClientError),
   file |-> Content(frame, "FILE", 0), line |-> Content(frame, "LINE", 0),
   errno |-> Content(frame, "ERRNO", 0), fields |-> Content(frame, "FIELDS", 0)]

\* ServerError::from_message; messages of the client's own are 8 and 9.
FromMessage(code, message) == Failed(ErrorOf(code, message, ClientError), <<>>)

\* Mutant: the innermost frame is the error.
FromFrames_Innermost(code, frames) ==
  IF frames = <<>>
  THEN FromMessage(code, 8)
  ELSE Failed(frames[Len(frames)], SubSeq(frames, 1, Len(frames) - 1))

\* decode_error_map, with a stack.
FromFrames(code, frames) ==
  IF frames = <<>> THEN FromMessage(code, 8) ELSE Failed(Head(frames), Tail(frames))

\* Response::parse of an error reply and Response::into_error: nothing when the
\* packet is refused.  An empty body loses the code of the header.
Parse(r) ==
  LET code == IF r.code > U32Max THEN 0 ELSE r.code
  IN CASE ~r.body -> {FromMessage(0, 9)}
       [] r.body /\ r.stack = "none" -> {FromMessage(code, r.text)}
       [] r.stack = "frames" -> {FromFrames(code, [i \in DOMAIN r.frames |-> DecodeFrame(r.frames[i])])}
       [] OTHER -> {}

-----------------------------------------------------------------------------

\* The server answers c with an error; an empty body has nothing in it.
ServerFails(c, r) ==
  /\ link = "up"
  /\ raised[c] = NoReply
  /\ r.body \/ (r.text = 0 /\ r.stack = "none")
  /\ raised' = [raised EXCEPT ![c] = r]
  /\ replies' = Append(replies, <<c, r>>)
  /\ UNCHANGED <<pending, got, link>>

\* Task::run reads a reply; one that does not parse ends the link (fail_link).
Receive ==
  /\ link = "up"
  /\ replies # <<>>
  /\ LET c == Head(replies)[1]
         parsed == Parse(Head(replies)[2])
     IN IF parsed # {}
        THEN /\ got' = [got EXCEPT ![c] = CHOOSE e \in parsed : TRUE]
             /\ pending' = pending \ {c}
             /\ replies' = Tail(replies)
             /\ UNCHANGED link
        ELSE /\ got' = [d \in Caller |-> IF d \in pending THEN Closed ELSE got[d]]
             /\ pending' = {}
             /\ replies' = <<>>
             /\ link' = "lost"
  /\ UNCHANGED raised

Next == Receive \/ \E c \in Caller, r \in Reply : ServerFails(c, r)

Spec == Init /\ [][Next]_vars

\* Error::as_server and Error::is_transient.
AsServer(e) == IF e.is = "Server" THEN {e} ELSE {}
IsTransient(e) == e.is = "Closed"

-----------------------------------------------------------------------------
(* Properties *)

\* A stack the client can read: a list of maps.
Readable(r) == r.stack \in {"none", "frames"}

\* The code of an error the server raised with a stack or a message is the one a
\* caller branches on: the first frame's if it has one, the header's if there is
\* no frame.
OwnCode(r) ==
  LET code == IF r.frames = <<>> THEN r.code
              ELSE IF "ERRCODE" \in DOMAIN r.frames[1] THEN r.frames[1]["ERRCODE"] ELSE 0
  IN IF code \in 0 .. U32Max THEN code ELSE 0

\* Everyone who gets a server error gets its own, with its code, the first
\* frame's message and as many causes as the server stacked under it, in order;
\* an error is transient exactly when somebody's stack on the same link could
\* not be read, and then nobody is left waiting.
ErrorsAreTheServers ==
  /\ TypeOK
  /\ \A c \in Caller : \A e \in AsServer(got[c]) :
       /\ Readable(raised[c])
       /\ raised[c].body => e.outer.code = OwnCode(raised[c])
       /\ LET frames == raised[c].frames
          IN frames # <<>> =>
               /\ e.outer.message = Content(frames[1], "MESSAGE", 0)
               /\ [i \in DOMAIN e.cause |-> e.cause[i].message]
                    = [i \in 1 .. Len(frames) - 1 |-> Content(frames[i + 1], "MESSAGE", 0)]
  /\ (\E c \in Caller : IsTransient(got[c])) <=> link = "lost"
  /\ link = "lost" => (\E c \in Caller : ~Readable(raised[c])) /\ pending = {}
=============================================================================
