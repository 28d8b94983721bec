----------------------------- MODULE Handshake -----------------------------
(***************************************************************************)
(* The handshake of a link (src/src/connection.rs, handshake_inner): read  *)
(* the greeting, send IPROTO_ID and IPROTO_AUTH without waiting, then read *)
(* their replies in order.  Handle::connect keeps what the first handshake *)
(* negotiated for the life of the client; Task::reconnect runs the same    *)
(* handshake with whatever server answers by then.  Callers of             *)
(* Stream::begin ask the handle for a feature and send BEGIN on the link.  *)
(* The server is external: it answers the requests of a link in order.     *)
(***************************************************************************)
EXTENDS Integers, Sequences

CONSTANTS
  Caller,       \* callers of Stream::begin
  Servers,      \* servers the address may lead to
  MaxLinks,     \* bound: handshakes started
  Absent        \* a key the reply to IPROTO_ID does not have

\* A server: its release, whether it greets as Tarantool, whether the greeting
\* holds a usable salt, whether it takes the credentials, and its reply to
\* IPROTO_ID.
ServerType ==
  [release : STRING, greets : BOOLEAN, salt : BOOLEAN, accepts : BOOLEAN,
   kind : {"ok", "garbled", "error", "other"}, version : Nat \cup {Absent},
   codes : (SUBSET Nat) \cup {Absent}]

ASSUME HandshakeBounds == MaxLinks \in Nat \ {0} /\ Servers \subseteq ServerType

VARIABLES
  user,         \* options.user_name()
  pc,           \* where the connection is in the handshake
  err,          \* error of the last handshake
  negotiated,   \* what the handshake of this link read, or NoInfo
  handle,       \* Handle.negotiated
  links,        \* handshakes started
  server,       \* the server at the other end
  gone,         \* it has closed the link
  session,      \* the user of its session
  toServer,     \* requests on their way
  toClient,     \* replies on their way
  next_sync,    \* Shared.next_sync
  begin,        \* begin[c]: [at, sync, got] of the call of caller c
  lacked        \* lacked[c]: the link's server lacked the feature when c was refused

net == <<server, gone, session, toServer, toClient>>
calls == <<next_sync, begin, lacked>>
handshakeVars == <<user, pc, err, negotiated, handle, links, server, gone, session, toServer,
                   toClient, next_sync, begin, lacked>>

NoInfo == [release |-> "", version |-> 0, features |-> {-1}]

\* Feature::code of the feature that Stream::begin needs.
Transactions == 1

\* Feature::ALL by code.
Features == 0 .. 12

Handshaking == {"dial", "greeting", "send_id", "send_auth", "await_id", "await_auth"}
Errors == {"none", "io", "protocol", "decode", "auth", "closed", "timeout"}
InfoType == [release : STRING, version : Nat, features : SUBSET Features] \cup {NoInfo}

\* The type of every variable.
HandshakeTypes ==
  /\ user \in {"none", "guest", "app"}
  /\ pc \in Handshaking \cup {"ready", "backoff", "failed"}
  /\ err \in Errors
  /\ {negotiated, handle} \subseteq InfoType
  /\ links \in 1 .. MaxLinks
  /\ server \in Servers
  /\ gone \in BOOLEAN
  /\ session \in {"guest", "app"}
  /\ \A i \in 1 .. Len(toServer) : toServer[i] \in [type : {"ID", "AUTH", "BEGIN"}, sync : Nat]
  /\ \A i \in 1 .. Len(toClient) :
       toClient[i] \in [type : {"ID", "AUTH", "BEGIN"}, sync : Nat, kind : {"ok", "garbled", "error", "other"}]
  /\ next_sync \in Nat
  /\ \A c \in Caller : begin[c] \in [at : {"idle", "queued", "sent", "done"}, sync : Nat,
                                      got : {"none", "unsupported", "closed", "ID", "AUTH", "BEGIN"}]
  /\ lacked \in [Caller -> BOOLEAN]

HandshakeInit ==
  /\ user \in {"none", "guest", "app"}
  /\ pc = "dial"
  /\ err = "none"
  /\ negotiated = NoInfo
  /\ handle = NoInfo
  /\ links = 1
  /\ server \in Servers
  /\ gone = FALSE
  /\ session = "guest"
  /\ toServer = <<>>
  /\ toClient = <<>>
  /\ next_sync = 1
  /\ begin = [c \in Caller |-> [at |-> "idle", sync |-> 0, got |-> "none"]]
  /\ lacked = [c \in Caller |-> TRUE]

-----------------------------------------------------------------------------
(* handshake_inner *)

\* options.user_name().filter(|user| *user != "guest"): whether to authenticate.
Authenticates == user \notin {"none", "guest"}

\* The handshake fails with e.  The first one fails Handle::connect; a later
\* one is tried again after the backoff.
Fail(e) ==
  /\ pc' = IF handle = NoInfo THEN "failed" ELSE "backoff"
  /\ err' = e
  /\ negotiated' = NoInfo
  /\ toServer' = <<>>
  /\ toClient' = <<>>
  /\ gone' = TRUE
  /\ UNCHANGED <<user, handle, links, server, session, calls>>

\* The link is ready.  Only Handle::connect keeps what was negotiated.
Accept(info) ==
  /\ pc' = "ready"
  /\ negotiated' = info
  /\ handle' = IF handle = NoInfo THEN info ELSE handle

\* TcpStream::connect.
Dial ==
  /\ pc = "dial"
  /\ pc' = "greeting"
  /\ UNCHANGED <<user, err, negotiated, handle, links, net, calls>>

DialFails == pc = "dial" /\ Fail("io")

\* The 128 bytes of the greeting; its first line must be Tarantool's.
ReadGreeting ==
  /\ pc = "greeting"
  /\ ~gone
  /\ IF server.greets
     THEN /\ pc' = "send_id"
          /\ UNCHANGED <<user, err, negotiated, handle, links, net, calls>>
     ELSE Fail("protocol")

\* The link ends before the greeting is complete.
GreetingCut == pc = "greeting" /\ gone /\ Fail("io")

\* A request of the handshake is written.
Write(type, sync, next) ==
  /\ pc' = next
  /\ toServer' = IF gone THEN toServer ELSE Append(toServer, [type |-> type, sync |-> sync])
  /\ UNCHANGED <<user, err, negotiated, handle, links, server, gone, session, toClient, calls>>

SendId ==
  /\ pc = "send_id"
  /\ Write("ID", 0, IF Authenticates THEN "send_auth" ELSE "await_id")

\* chap_sha1 refuses a salt it cannot use; otherwise AUTH follows ID at once.
SendAuth ==
  /\ pc = "send_auth"
  /\ IF server.salt THEN Write("AUTH", 1, "await_id") ELSE Fail("protocol")

\* Writing to a link the server has closed may fail.
SendFails == pc \in {"send_id", "send_auth"} /\ gone /\ Fail("io")

\* parse_id: a missing version is 0, missing features are none, and codes the
\* client does not know are dropped.
ParseId ==
  [release |-> server.release,
   version |-> IF server.version = Absent THEN 0 ELSE server.version,
   features |-> IF server.codes = Absent THEN {} ELSE server.codes \cap Features]

\* Mutant: an error reply to IPROTO_ID is read like an answer.
ReadId_ErrorIsOk ==
  /\ pc = "await_id"
  /\ toClient # <<>>
  /\ IF Head(toClient).kind = "other" THEN Fail("protocol")
     ELSE /\ IF Authenticates
             THEN /\ pc' = "await_auth"
                  /\ negotiated' = [ParseId EXCEPT !.features = Features]
                  /\ UNCHANGED handle
             ELSE Accept([ParseId EXCEPT !.features = Features])
          /\ toClient' = Tail(toClient)
          /\ UNCHANGED <<user, err, links, server, gone, session, toServer, calls>>

\* The reply to IPROTO_ID.  Its body may not decode.  A server that rejects it is
\* older than 2.10 and has no features; AUTH was sent all the same, and its reply
\* is read next.
ReadId ==
  /\ pc = "await_id"
  /\ toClient # <<>>
  /\ LET reply == Head(toClient)
         old == [release |-> server.release, version |-> 0, features |-> {}]
         info == IF reply.kind = "ok" THEN ParseId ELSE old
     IN IF reply.kind = "other" THEN Fail("protocol")
        ELSE IF reply.kind = "garbled" THEN Fail("decode")
        ELSE /\ IF Authenticates
                THEN /\ pc' = "await_auth"
                     /\ negotiated' = info
                     /\ UNCHANGED handle
                ELSE Accept(info)
             /\ toClient' = Tail(toClient)
             /\ UNCHANGED <<user, err, links, server, gone, session, toServer, calls>>

\* Mutant: the reply to AUTH is looked at and left for the task.
ReadAuth_Peeks ==
  /\ pc = "await_auth"
  /\ toClient # <<>>
  /\ IF Head(toClient).kind = "error" THEN Fail("auth")
     ELSE /\ Accept(negotiated)
          /\ UNCHANGED <<user, err, links, server, gone, session, toServer, toClient, calls>>

\* Mutant: the reply to AUTH is not looked at.
ReadAuth_Ignored ==
  /\ pc = "await_auth"
  /\ toClient # <<>>
  /\ Accept(negotiated)
  /\ toClient' = Tail(toClient)
  /\ UNCHANGED <<user, err, links, server, gone, session, toServer, calls>>

\* The reply to AUTH: an error is Error::Auth, anything else is taken.
ReadAuth ==
  /\ pc = "await_auth"
  /\ toClient # <<>>
  /\ IF Head(toClient).kind = "error" THEN Fail("auth")
     ELSE /\ Accept(negotiated)
          /\ toClient' = Tail(toClient)
          /\ UNCHANGED <<user, err, links, server, gone, session, toServer, calls>>

\* next_reply: the link ended.
ReplyCut ==
  /\ pc \in {"await_id", "await_auth"}
  /\ toClient = <<>>
  /\ gone
  /\ Fail("closed")

\* next_reply: what comes in is no packet.
ReplyBroken ==
  /\ pc \in {"await_id", "await_auth"}
  /\ toClient # <<>>
  /\ Fail("protocol")

\* Mutant: the timer covers the connection and the greeting, not the replies.
Timeout_Early == pc \in {"dial", "greeting"} /\ Fail("timeout")

\* handshake: connect_timeout covers every step of handshake_inner.
Timeout == pc \in Handshaking /\ Fail("timeout")

\* Task::reconnect tries again, and the address may lead to another server.
Redial ==
  /\ pc = "backoff"
  /\ links < MaxLinks
  /\ links' = links + 1
  /\ pc' = "dial"
  /\ server' \in Servers
  /\ gone' = FALSE
  /\ session' = "guest"
  /\ UNCHANGED <<user, err, negotiated, handle, toServer, toClient, calls>>

-----------------------------------------------------------------------------
(* Callers and the ready link *)

\* What the link's server said of the feature in its reply to ID.
ServerHasTransactions ==
  server.kind = "ok" /\ server.codes # Absent /\ Transactions \in server.codes

\* Stream::begin asks the handle for the feature and queues the request.
Begin(c) ==
  /\ handle # NoInfo
  /\ begin[c].at = "idle"
  /\ IF Transactions \in handle.features
     THEN /\ begin' = [begin EXCEPT ![c] = [at |-> "queued", sync |-> next_sync, got |-> "none"]]
          /\ next_sync' = next_sync + 1
          /\ UNCHANGED lacked
     ELSE /\ begin' = [begin EXCEPT ![c] = [at |-> "done", sync |-> 0, got |-> "unsupported"]]
          /\ lacked' = [lacked EXCEPT ![c] = pc = "ready" => ~ ServerHasTransactions]
          /\ UNCHANGED next_sync
  /\ UNCHANGED <<user, pc, err, negotiated, handle, links, net>>

\* The task writes a queued request.
SendBegin(c) ==
  /\ pc = "ready"
  /\ begin[c].at = "queued"
  /\ begin' = [begin EXCEPT ![c].at = "sent"]
  /\ toServer' = IF gone THEN toServer
                 ELSE Append(toServer, [type |-> "BEGIN", sync |-> begin[c].sync])
  /\ UNCHANGED <<user, pc, err, negotiated, handle, links, server, gone, session, toClient,
                 next_sync, lacked>>

\* on_response: a reply goes to the pending request with its sync.
DeliverReply ==
  /\ pc = "ready"
  /\ toClient # <<>>
  /\ LET reply == Head(toClient)
     IN begin' = [c \in Caller |-> IF begin[c].at = "sent" /\ begin[c].sync = reply.sync
                                   THEN [begin[c] EXCEPT !.at = "done", !.got = reply.type]
                                   ELSE begin[c]]
  /\ toClient' = Tail(toClient)
  /\ UNCHANGED <<user, pc, err, negotiated, handle, links, server, gone, session, toServer,
                 next_sync, lacked>>

\* fail_link: pending requests fail, and the task reconnects.
HandshakeLost ==
  /\ pc = "ready"
  /\ gone
  /\ toClient = <<>>
  /\ pc' = "backoff"
  /\ negotiated' = NoInfo
  /\ begin' = [c \in Caller |-> IF begin[c].at = "sent"
                                THEN [begin[c] EXCEPT !.at = "done", !.got = "closed"]
                                ELSE begin[c]]
  /\ UNCHANGED <<user, err, handle, links, net, next_sync, lacked>>

-----------------------------------------------------------------------------
(* The server *)

\* It answers the first request on its way; AUTH changes its session.
ServerAnswers ==
  /\ ~gone
  /\ toServer # <<>>
  /\ LET req == Head(toServer)
         ok == \/ req.type = "AUTH" /\ server.accepts
               \/ req.type = "BEGIN" /\ server.codes # Absent /\ Transactions \in server.codes
         kind == IF req.type = "ID" THEN server.kind ELSE IF ok THEN "ok" ELSE "error"
     IN /\ toClient' = Append(toClient, [type |-> req.type, sync |-> req.sync, kind |-> kind])
        /\ session' = IF req.type = "AUTH" /\ ok THEN user ELSE session
  /\ toServer' = Tail(toServer)
  /\ UNCHANGED <<user, pc, err, negotiated, handle, links, server, gone, calls>>

\* It closes the link; replies it wrote may still be read.
ServerCloses ==
  /\ ~gone
  /\ pc \notin {"dial", "backoff", "failed"}
  /\ gone' = TRUE
  /\ toServer' = <<>>
  /\ UNCHANGED <<user, pc, err, negotiated, handle, links, server, session, toClient, calls>>

-----------------------------------------------------------------------------

Connect == \/ Dial
           \/ DialFails
           \/ ReadGreeting
           \/ GreetingCut
           \/ SendId
           \/ SendAuth
           \/ SendFails
           \/ ReadId
           \/ ReadAuth
           \/ ReplyCut
           \/ ReplyBroken
           \/ Timeout
           \/ Redial

Ready == (\E c \in Caller : Begin(c) \/ SendBegin(c)) \/ DeliverReply \/ HandshakeLost

HandshakeNext == Connect \/ Ready \/ ServerAnswers \/ ServerCloses

HandshakeSpec == HandshakeInit /\ [][HandshakeNext]_handshakeVars

\* The timers of connect_timeout and of the backoff fire, and the task takes up
\* what is queued while a link is ready.  Nothing is assumed of the servers,
\* which may stay silent at any step.
HandshakeFairness == /\ WF_handshakeVars(Timeout)
                     /\ WF_handshakeVars(Redial)
                     /\ \A c \in Caller : WF_handshakeVars(SendBegin(c))

FairHandshake == HandshakeSpec /\ HandshakeFairness

-----------------------------------------------------------------------------
(* Properties *)

\* A ready link is authenticated: its session on the server is the session of
\* the user the options name, however the two pipelined replies turned out (and
\* every variable has its type).
SessionIsTheUsers ==
  /\ HandshakeTypes
  /\ pc = "ready" => session = IF Authenticates THEN user ELSE "guest"

\* A request never gets a reply of the handshake, although AUTH and the first
\* request of a client have the same sync.
OwnReplies == \A c \in Caller : begin[c].got \notin {"ID", "AUTH"}

\* On the link whose handshake filled the handle, BEGIN only reaches a server
\* that has the feature, and Unsupported is only said of a server that lacks it.
FirstLinkHasFeature ==
  links = 1 => /\ \A i \in 1 .. Len(toServer) : toServer[i].type = "BEGIN" => ServerHasTransactions
               /\ \A c \in Caller : lacked[c]

\* The bound on handshakes is used up.
OutOfDials == pc = "backoff" /\ links = MaxLinks

\* A request made while the link is down is sent in the end, whatever servers
\* the reconnect meets on the way: one that refuses, and one that accepts the
\* connection and then stops talking in the greeting, before either reply, or
\* between the two.  It gets stuck behind none of them.
QueuedIsSent == \A c \in Caller : begin[c].at = "queued" ~> begin[c].at # "queued" \/ OutOfDials
=============================================================================
