----------------------------- MODULE WireParts ------------------------------
(***************************************************************************)
(* Frames, pages and errors in one state machine: three sequential parts   *)
(* between the caller and the socket that share no state.  The initial     *)
(* state chooses one of them, and the variables of the others are unused.  *)
(***************************************************************************)
EXTENDS Integers

CONSTANTS Caller, Frames, MaxStack, Codes, U32Max            \* of Errors
VARIABLES raised, replies, pending, got, link

CONSTANTS MaxKey, Limits, MaxWrites, MaxFailures             \* of Paging
VARIABLES present, steady, writes, failures, style, limit, at, pc, packet, page, seen

CONSTANTS Payload, MaxPackets, MaxPacketLen                  \* of Framing
VARIABLES sent, arriving, src, yielded, state, cut

VARIABLE kind   \* the part that was chosen

Er == INSTANCE Errors
Pg == INSTANCE Paging
Fr == INSTANCE Framing WITH got <- yielded

errorVars == <<raised, replies, pending, got, link>>
pageVars == <<present, steady, writes, failures, style, limit, at, pc, packet, page, seen>>
frameVars == <<sent, arriving, src, yielded, state, cut>>
vars == <<kind, errorVars, pageVars, frameVars>>

Unused == 0

NoErrors == /\ raised = Unused /\ replies = Unused /\ pending = Unused /\ got = Unused
            /\ link = Unused
NoPages == /\ present = Unused /\ steady = Unused /\ writes = Unused /\ failures = Unused
           /\ style = Unused /\ limit = Unused /\ at = Unused /\ pc = Unused
           /\ packet = Unused /\ page = Unused /\ seen = Unused
NoFrames == /\ sent = Unused /\ arriving = Unused /\ src = Unused /\ yielded = Unused
            /\ state = Unused /\ cut = Unused

Init == \/ kind = "error" /\ Er!Init /\ NoPages /\ NoFrames
        \/ kind = "pages" /\ Pg!Init /\ NoErrors /\ NoFrames
        \/ kind = "frames" /\ Fr!Init /\ NoErrors /\ NoPages

Next == \/ kind = "error" /\ Er!Next /\ UNCHANGED <<kind, pageVars, frameVars>>
        \/ kind = "pages" /\ Pg!Next /\ UNCHANGED <<kind, errorVars, frameVars>>
        \/ kind = "frames" /\ Fr!Next /\ UNCHANGED <<kind, errorVars, pageVars>>

Spec == Init /\ [][Next]_vars

-----------------------------------------------------------------------------
(* One property per part *)

\* A caller gets the server's error for its own request with its code and cause,
\* and a transient one exactly when an error on its link could not be read.
ErrorsAreTheServers == kind = "error" => Er!ErrorsAreTheServers

\* A walk over pages sees a tuple that stays in the space exactly once.
RowsOnce == kind = "pages" => Pg!RowsOnce

\* Codec::decode yields the packets sent, in order, in whatever pieces the bytes
\* arrive, and fails only for a cut packet or one over the limit.
FramesAreExact == kind = "frames" => Fr!FramesAreExact
=============================================================================
