-------------------------- MODULE HandshakeProofs --------------------------
(***************************************************************************)
(* The pipelined handshake: whatever server answers, and wherever a link   *)
(* ends, a ready link has the session of the user, no reply of the         *)
(* handshake reaches a request, and the handle tells the truth about the   *)
(* server of the first link.                                               *)
(***************************************************************************)
EXTENDS Handshake, TLAPS

-----------------------------------------------------------------------------
(* The inductive invariant *)

Request == [type : {"ID", "AUTH", "BEGIN"}, sync : Nat]
Reply == [type : {"ID", "AUTH", "BEGIN"}, sync : Nat, kind : {"ok", "garbled", "error", "other"}]
Call == [at : {"idle", "queued", "sent", "done"}, sync : Nat,
         got : {"none", "unsupported", "closed", "ID", "AUTH", "BEGIN"}]

\* TypeOK, with the queues and the calls as functions.
Types ==
  /\ user \in {"none", "guest", "app"}
  /\ pc \in Handshaking \cup {"ready", "backoff", "failed"}
  /\ err \in Errors
  /\ negotiated \in InfoType
  /\ handle \in InfoType
  /\ links \in 1 .. MaxLinks
  /\ server \in Servers
  /\ gone \in BOOLEAN
  /\ session \in {"guest", "app"}
  /\ toServer \in Seq(Request)
  /\ toClient \in Seq(Reply)
  /\ next_sync \in Nat
  /\ begin \in [Caller -> Call]
  /\ lacked \in [Caller -> BOOLEAN]

\* The requests of the handshake whose replies are still to be read.
Expected ==
  CASE pc = "send_auth"  -> <<"ID">>
    [] pc = "await_id"   -> IF Authenticates THEN <<"ID", "AUTH">> ELSE <<"ID">>
    [] pc = "await_auth" -> <<"AUTH">>
    [] OTHER             -> <<>>

\* During the handshake the replies on their way, and then the requests, are
\* what it waits for, in that order; a ready link carries neither.
FlightInv ==
  /\ gone => toServer = <<>>
  /\ pc = "ready" => /\ \A i \in 1 .. Len(toServer) : toServer[i].type = "BEGIN"
                     /\ \A i \in 1 .. Len(toClient) : toClient[i].type = "BEGIN"
  /\ pc # "ready" =>
       /\ Len(toClient) <= Len(Expected)
       /\ \A i \in 1 .. Len(toClient) : toClient[i].type = Expected[i]
       /\ ~ gone => /\ Len(toServer) = Len(Expected) - Len(toClient)
                    /\ \A i \in 1 .. Len(toServer) : toServer[i].type = Expected[Len(toClient) + i]

\* A reply of the handshake says what the server did.
ReplyInv ==
  \A i \in 1 .. Len(toClient) :
    /\ toClient[i].type = "ID" => toClient[i].kind = server.kind
    /\ toClient[i].type = "AUTH" /\ toClient[i].kind # "error" => session = user

SessionInv == /\ pc \in {"send_auth", "await_auth"} => Authenticates
              /\ ~ Authenticates => session = "guest"
              /\ pc = "ready" /\ Authenticates => session = user

\* What was read of a link is kept for good by the first one, and calls go by it.
HandleInv ==
  /\ pc = "await_auth" => negotiated # NoInfo /\ (Transactions \in negotiated.features <=> ServerHasTransactions)
  /\ links = 1 /\ pc \in Handshaking \cup {"failed"} => handle = NoInfo
  /\ links = 1 /\ handle # NoInfo => (Transactions \in handle.features <=> ServerHasTransactions)
  /\ \A c \in Caller : begin[c].at \in {"queued", "sent"} => handle # NoInfo /\ Transactions \in handle.features

IndInv == Types /\ FlightInv /\ ReplyInv /\ SessionInv /\ HandleInv /\ OwnReplies /\ FirstLinkHasFeature
-----------------------------------------------------------------------------
(* Queues and records *)

\* A message at the end of a queue.
LEMMA PushFacts ==
  ASSUME NEW S, NEW q \in Seq(S), NEW x \in S
  PROVE  /\ Append(q, x) \in Seq(S)
         /\ Len(q) \in Nat /\ Len(Append(q, x)) = Len(q) + 1
         /\ \A i \in 1 .. Len(q) : Append(q, x)[i] = q[i]
         /\ Append(q, x)[Len(q) + 1] = x
  OBVIOUS

\* A queue and its tail.
LEMMA PopFacts ==
  ASSUME NEW S, NEW q \in Seq(S), q # <<>>
  PROVE  /\ Tail(q) \in Seq(S)
         /\ Len(q) \in Nat /\ Len(q) >= 1 /\ Len(Tail(q)) = Len(q) - 1
         /\ Head(q) = q[1] /\ q[1] \in S
         /\ \A i \in 1 .. Len(Tail(q)) : i + 1 \in 1 .. Len(q) /\ Tail(q)[i] = q[i + 1]
  OBVIOUS

\* What is read of a server is information, and says whether it has the feature.
LEMMA ParsedIsInfo ==
  ASSUME server \in Servers
  PROVE  /\ ParseId \in InfoType /\ ParseId # NoInfo
         /\ server.kind = "ok" => (Transactions \in ParseId.features <=> ServerHasTransactions)
         /\ LET old == [release |-> server.release, version |-> 0, features |-> {}]
            IN  old \in InfoType /\ old # NoInfo /\ Transactions \notin old.features
  <1>1. server \in ServerType
    BY HandshakeBounds
  <1>2. /\ server.release \in STRING
        /\ server.version # Absent => server.version \in Nat
        /\ server.codes # Absent => server.codes \subseteq Nat
    BY <1>1 DEF ServerType
  <1>3. ASSUME NEW v \in Nat, NEW f \in SUBSET Features
        PROVE  LET info == [release |-> server.release, version |-> v, features |-> f]
               IN  info \in InfoType /\ info # NoInfo
    <2> DEFINE info == [release |-> server.release, version |-> v, features |-> f]
    <2>1. info \in [release : STRING, version : Nat, features : SUBSET Features]
      BY <1>2, <1>3
    <2>2. info.features # NoInfo.features
      BY <1>3 DEF NoInfo, Features
    <2> QED BY <2>1, <2>2 DEF InfoType
  <1>4. (IF server.version = Absent THEN 0 ELSE server.version) \in Nat
    BY <1>2
  <1>5. (IF server.codes = Absent THEN {} ELSE server.codes \cap Features) \in SUBSET Features
    OBVIOUS
  <1>6. ParseId \in InfoType /\ ParseId # NoInfo
    BY <1>3, <1>4, <1>5 DEF ParseId
  <1>7. server.kind = "ok" => (Transactions \in ParseId.features <=> ServerHasTransactions)
    BY <1>2 DEF ParseId, ServerHasTransactions, Transactions, Features
  <1>8. LET old == [release |-> server.release, version |-> 0, features |-> {}]
        IN  old \in InfoType /\ old # NoInfo /\ Transactions \notin old.features
    BY <1>3
  <1> QED BY <1>6, <1>7, <1>8

LEMMA NoInfoIsInfo == NoInfo \in InfoType /\ Transactions \notin NoInfo.features
  BY DEF NoInfo, InfoType, Transactions

-----------------------------------------------------------------------------
(* The steps of the handshake *)

\* A handshake that fails leaves nothing on the link.
LEMMA FailStep ==
  ASSUME IndInv, pc \in Handshaking, NEW e \in Errors, Fail(e)
  PROVE  IndInv'
  <1> USE DEF Fail, IndInv, net, calls
  <1>1. Types'
    BY NoInfoIsInfo DEF Types, Handshaking, InfoType
  <1>2. FlightInv'
    BY DEF FlightInv, Expected
  <1>3. ReplyInv' /\ SessionInv'
    BY DEF ReplyInv, SessionInv, Authenticates
  <1>4. HandleInv' /\ OwnReplies' /\ FirstLinkHasFeature'
    BY DEF HandleInv, OwnReplies, FirstLinkHasFeature, ServerHasTransactions, Handshaking
  <1> QED BY <1>1, <1>2, <1>3, <1>4

\* Steps before anything is sent.
LEMMA OpeningStep ==
  ASSUME IndInv, Dial \/ DialFails \/ ReadGreeting \/ GreetingCut \/ SendFails \/ Timeout
                 \/ ReplyCut \/ ReplyBroken
  PROVE  IndInv'
  <1>1. CASE \E e \in Errors : pc \in Handshaking /\ Fail(e)
    BY <1>1, FailStep
  <1>2. CASE /\ \/ pc = "dial" /\ pc' = "greeting"
                \/ pc = "greeting" /\ pc' = "send_id"
             /\ UNCHANGED <<user, err, negotiated, handle, links, net, calls>>
    <2> USE <1>2 DEF IndInv, net, calls
    <2>1. Types'  BY DEF Types, Handshaking
    <2>2. FlightInv'  BY DEF FlightInv, Expected
    <2>3. ReplyInv' /\ SessionInv'
      BY DEF ReplyInv, SessionInv, Authenticates
    <2>4. HandleInv' /\ OwnReplies' /\ FirstLinkHasFeature'
      BY DEF HandleInv, OwnReplies, FirstLinkHasFeature, ServerHasTransactions, Handshaking
    <2> QED BY <2>1, <2>2, <2>3, <2>4
  <1> QED BY <1>1, <1>2 DEF Dial, DialFails, ReadGreeting, GreetingCut, SendFails, Timeout,
                            ReplyCut, ReplyBroken, Handshaking, Errors

\* ID and AUTH follow each other on the link.
LEMMA SendStep ==
  ASSUME IndInv, SendId \/ SendAuth
  PROVE  IndInv'
  <1>1. CASE pc \in Handshaking /\ Fail("protocol")
    BY <1>1, FailStep DEF Errors
  <1>2. ASSUME NEW type \in {"ID", "AUTH"}, NEW sync \in {0, 1}, NEW next, Write(type, sync, next),
               \/ pc = "send_id" /\ type = "ID" /\ next = IF Authenticates THEN "send_auth" ELSE "await_id"
               \/ pc = "send_auth" /\ Authenticates /\ type = "AUTH" /\ next = "await_id"
        PROVE  IndInv'
    <2> DEFINE m == [type |-> type, sync |-> sync]
    <2> USE <1>2 DEF IndInv, net, calls, Write
    <2>1. m \in Request /\ m.type = type  BY DEF Request
    <2>2. toServer' = IF gone THEN toServer ELSE Append(toServer, m)
      OBVIOUS
    <2> HIDE DEF m
    <2>3. Types'  BY <2>1, <2>2, PushFacts DEF Types, Handshaking
    <2>4. FlightInv'
      <3>1. CASE gone
        BY <2>2, <3>1 DEF FlightInv, Expected, Types, Authenticates
      <3>2. CASE ~ gone
        <4>1. /\ toServer \in Seq(Request) /\ toServer' = Append(toServer, m)
              /\ toClient' = toClient /\ Len(toClient) \in Nat
          BY <2>2, <3>2 DEF Types
        <4>2. /\ Len(toServer) \in Nat /\ Len(toServer') = Len(toServer) + 1
              /\ \A i \in 1 .. Len(toServer) : toServer'[i] = toServer[i]
              /\ toServer'[Len(toServer) + 1] = m
          BY <4>1, <2>1, PushFacts
        <4>3. CASE pc = "send_id"
          BY <2>1, <3>2, <4>1, <4>2, <4>3 DEF FlightInv, Expected, Authenticates
        <4>4. CASE pc = "send_auth"
          BY <2>1, <3>2, <4>1, <4>2, <4>4 DEF FlightInv, Expected, Authenticates
        <4> QED BY <4>3, <4>4
      <3> QED BY <3>1, <3>2 DEF Types
    <2>5. ReplyInv' /\ SessionInv'
      BY DEF ReplyInv, SessionInv, Authenticates
    <2>6. HandleInv' /\ OwnReplies'
      BY DEF HandleInv, OwnReplies, ServerHasTransactions, Handshaking
    <2>7. FirstLinkHasFeature'
      <3>1. ServerHasTransactions' = ServerHasTransactions /\ links' = links /\ lacked' = lacked
        BY DEF ServerHasTransactions
      <3>2. toServer \in Seq(Request)
        BY DEF Types
      <3>3. m.type # "BEGIN"
        BY <2>1
      <3> HIDE <1>2
      <3>4. \A i \in 1 .. Len(toServer') : toServer'[i].type = "BEGIN" =>
              i \in 1 .. Len(toServer) /\ toServer'[i] = toServer[i]
        <4>1. CASE gone
          BY <2>2, <4>1
        <4>2. CASE ~ gone
          <5>1. /\ Len(toServer) \in Nat /\ Len(toServer') = Len(toServer) + 1
                /\ \A i \in 1 .. Len(toServer) : toServer'[i] = toServer[i]
                /\ toServer'[Len(toServer) + 1] = m
            BY <2>1, <2>2, <3>2, <4>2, PushFacts
          <5> QED BY <3>3, <5>1
        <4> QED BY <4>1, <4>2
      <3> QED BY <3>1, <3>4 DEF FirstLinkHasFeature
    <2> QED BY <2>3, <2>4, <2>5, <2>6, <2>7
  <1>3. CASE SendId
    BY <1>2, <1>3 DEF SendId
  <1>4. CASE SendAuth
    BY <1>1, <1>2, <1>4 DEF SendAuth, Handshaking, IndInv, SessionInv
  <1> QED BY <1>3, <1>4
\* The two replies come back in order; the link is ready when the last is read.
LEMMA ReadStep ==
  ASSUME IndInv, ReadId \/ ReadAuth
  PROVE  IndInv'
  <1>1. CASE \E e \in Errors : pc \in Handshaking /\ Fail(e)
    BY <1>1, FailStep
  <1>2. ASSUME NEW info \in InfoType, info # NoInfo,
               Transactions \in info.features <=> ServerHasTransactions,
               toClient # <<>>,
               \/ pc = "await_id" /\ Head(toClient).kind \in {"ok", "error"}
               \/ pc = "await_auth" /\ Head(toClient).kind # "error",
               IF pc = "await_id" /\ Authenticates
               THEN pc' = "await_auth" /\ negotiated' = info /\ UNCHANGED handle
               ELSE Accept(info),
               toClient' = Tail(toClient),
               UNCHANGED <<user, err, links, server, gone, session, toServer, calls>>
        PROVE  IndInv'
    <2> USE <1>2 DEF IndInv, calls, Accept
    <2>1. /\ toClient' \in Seq(Reply) /\ toServer \in Seq(Request) /\ Len(toServer) \in Nat
          /\ Len(toClient) \in Nat /\ Len(toClient) >= 1 /\ Len(toClient') = Len(toClient) - 1
          /\ Head(toClient) = toClient[1]
          /\ \A i \in 1 .. Len(toClient') : i + 1 \in 1 .. Len(toClient) /\ toClient'[i] = toClient[i + 1]
      BY PopFacts DEF Types
    <2>2. Types'
      BY <2>1 DEF Types, Handshaking
    <2>3. FlightInv'
      <3>1. CASE pc = "await_id" /\ Authenticates
        BY <2>1, <3>1 DEF FlightInv, Expected, Authenticates
      <3>2. CASE pc = "await_id" /\ ~ Authenticates
        BY <2>1, <3>2 DEF FlightInv, Expected, Authenticates
      <3>3. CASE pc = "await_auth"
        BY <2>1, <3>3 DEF FlightInv, Expected, Authenticates
      <3> QED BY <3>1, <3>2, <3>3
    <2>4. ReplyInv'
      BY <2>1 DEF ReplyInv
    <2>5. SessionInv'
      <3>1. pc = "await_auth" => toClient[1].type = "AUTH"
        BY <2>1 DEF FlightInv, Expected
      <3> QED BY <2>1, <3>1 DEF SessionInv, ReplyInv, Authenticates
    <2>6. HandleInv' /\ OwnReplies' /\ FirstLinkHasFeature'
      BY DEF HandleInv, OwnReplies, FirstLinkHasFeature, ServerHasTransactions, Handshaking
    <2> QED BY <2>2, <2>3, <2>4, <2>5, <2>6
  <1>3. CASE ReadId
    <2> DEFINE old == [release |-> server.release, version |-> 0, features |-> {}]
    <2> DEFINE info == IF Head(toClient).kind = "ok" THEN ParseId ELSE old
    <2>1. toClient # <<>> /\ pc = "await_id"  BY <1>3 DEF ReadId
    <2>2. /\ Head(toClient) = toClient[1] /\ Len(toClient) \in Nat /\ Len(toClient) >= 1
          /\ Head(toClient).kind \in {"ok", "garbled", "error", "other"}
      <3>1. /\ Head(toClient) = toClient[1] /\ Len(toClient) \in Nat /\ Len(toClient) >= 1
            /\ toClient[1] \in Reply
        BY <2>1, PopFacts DEF IndInv, Types
      <3> QED BY <3>1 DEF Reply
    <2>3. Head(toClient).kind = server.kind
      BY <2>1, <2>2 DEF IndInv, FlightInv, Expected, ReplyInv
    <2>4. CASE Head(toClient).kind \in {"garbled", "other"}
      BY <1>1, <1>3, <2>1, <2>4 DEF ReadId, Errors, Handshaking
    <2>5. CASE Head(toClient).kind \in {"ok", "error"}
      <3>1. info \in InfoType /\ info # NoInfo /\ (Transactions \in info.features <=> ServerHasTransactions)
        BY <2>3, <2>5, ParsedIsInfo DEF IndInv, Types, ServerHasTransactions
      <3>2. /\ IF pc = "await_id" /\ Authenticates
               THEN pc' = "await_auth" /\ negotiated' = info /\ UNCHANGED handle
               ELSE Accept(info)
            /\ toClient' = Tail(toClient)
            /\ UNCHANGED <<user, err, links, server, gone, session, toServer, calls>>
        BY <1>3, <2>1, <2>5 DEF ReadId
      <3> HIDE DEF info
      <3> QED BY <1>2, <2>1, <2>5, <3>1, <3>2
    <2> QED BY <2>2, <2>4, <2>5
  <1>4. CASE ReadAuth
    <2>1. CASE Head(toClient).kind = "error"
      BY <1>1, <1>4, <2>1 DEF ReadAuth, Errors, Handshaking
    <2>2. CASE Head(toClient).kind # "error"
      <3>1. /\ pc = "await_auth" /\ toClient # <<>> /\ Accept(negotiated) /\ toClient' = Tail(toClient)
            /\ UNCHANGED <<user, err, links, server, gone, session, toServer, calls>>
        BY <1>4, <2>2 DEF ReadAuth
      <3>2. /\ negotiated \in InfoType /\ negotiated # NoInfo
            /\ Transactions \in negotiated.features <=> ServerHasTransactions
        BY <3>1 DEF IndInv, Types, HandleInv
      <3> QED BY <1>2, <2>2, <3>1, <3>2
    <2> QED BY <2>1, <2>2
  <1> QED BY <1>3, <1>4

\* The next link starts with an empty session.
LEMMA RedialStep ==
  ASSUME IndInv, Redial
  PROVE  IndInv'
  <1> USE HandshakeBounds DEF Redial, IndInv, calls
  <1>0. toServer = <<>> /\ toClient = <<>>
    BY DEF FlightInv, Expected, Types
  <1>1. Types'
    <2>1. links' \in 1 .. MaxLinks  BY DEF Types
    <2>2. pc' \in Handshaking  BY DEF Handshaking
    <2> QED BY <2>1, <2>2 DEF Types
  <1>2. FlightInv'  BY <1>0 DEF FlightInv, Expected
  <1>3. ReplyInv' /\ SessionInv'  BY <1>0 DEF ReplyInv, SessionInv, Authenticates
  <1>4. HandleInv' /\ OwnReplies' /\ FirstLinkHasFeature'
    BY <1>0 DEF HandleInv, OwnReplies, FirstLinkHasFeature, Types
  <1> QED BY <1>1, <1>2, <1>3, <1>4

-----------------------------------------------------------------------------
(* The steps of callers, of the ready link and of the server *)

\* A caller goes by the handle.
LEMMA BeginStep ==
  ASSUME IndInv, NEW c \in Caller, Begin(c)
  PROVE  IndInv'
  <1> USE DEF Begin, IndInv, net
  <1>0. /\ begin' \in [Caller -> Call] /\ next_sync' \in Nat /\ lacked' \in [Caller -> BOOLEAN]
        /\ handle # NoInfo
        /\ \A d \in Caller : /\ begin'[d].at \in {"queued", "sent"} =>
                                  begin[d].at \in {"queued", "sent"} \/ Transactions \in handle.features
                             /\ begin'[d].got \in {"none", "unsupported", begin[d].got}
    <2>1. CASE Transactions \in handle.features
      <3> DEFINE b == [at |-> "queued", sync |-> next_sync, got |-> "none"]
      <3>1. b \in Call /\ b.got = "none"  BY DEF Types, Call
      <3>2. begin' = [begin EXCEPT ![c] = b] /\ next_sync' = next_sync + 1 /\ lacked' = lacked
        BY <2>1
      <3> HIDE DEF b
      <3> QED BY <2>1, <3>1, <3>2 DEF Types
    <2>2. CASE Transactions \notin handle.features
      <3> DEFINE b == [at |-> "done", sync |-> 0, got |-> "unsupported"]
      <3>1. b \in Call /\ b.got = "unsupported" /\ b.at = "done"  BY DEF Call
      <3>2. begin' = [begin EXCEPT ![c] = b] /\ next_sync' = next_sync
            /\ lacked' = [lacked EXCEPT ![c] = (pc = "ready" => ~ ServerHasTransactions)]
        BY <2>2
      <3> HIDE DEF b
      <3> QED BY <2>2, <3>1, <3>2 DEF Types
    <2> QED BY <2>1, <2>2
  <1>1. Types'  BY <1>0 DEF Types
  <1>2. FlightInv' /\ ReplyInv' /\ SessionInv'
    BY DEF FlightInv, Expected, ReplyInv, SessionInv, Authenticates
  <1>3. HandleInv'  BY <1>0 DEF HandleInv, ServerHasTransactions
  <1>4. OwnReplies'  BY <1>0 DEF OwnReplies
  <1>5. FirstLinkHasFeature'
    BY DEF FirstLinkHasFeature, HandleInv, ServerHasTransactions, Types
  <1> QED BY <1>1, <1>2, <1>3, <1>4, <1>5

\* Only a request of a caller follows the handshake.
LEMMA SendBeginStep ==
  ASSUME IndInv, NEW c \in Caller, SendBegin(c)
  PROVE  IndInv'
  <1> DEFINE m == [type |-> "BEGIN", sync |-> begin[c].sync]
  <1> USE DEF SendBegin, IndInv
  <1>1. m \in Request /\ m.type = "BEGIN"  BY DEF Request, Types, Call
  <1>2. toServer' = IF gone THEN toServer ELSE Append(toServer, m)
    OBVIOUS
  <1> HIDE DEF m
  <1>3. Types'  BY <1>1, <1>2, PushFacts DEF Types, Call
  <1>4. FlightInv'  BY <1>1, <1>2, PushFacts DEF FlightInv, Types
  <1>5. ReplyInv' /\ SessionInv'  BY DEF ReplyInv, SessionInv, Authenticates
  <1>6. HandleInv' /\ OwnReplies'  BY DEF HandleInv, OwnReplies, ServerHasTransactions, Types, Call
  <1>7. FirstLinkHasFeature'
    BY <1>1, <1>2, PushFacts DEF FirstLinkHasFeature, HandleInv, ServerHasTransactions, Types
  <1> QED BY <1>3, <1>4, <1>5, <1>6, <1>7

\* A ready link delivers replies to BEGIN only.
LEMMA DeliverStep ==
  ASSUME IndInv, DeliverReply
  PROVE  IndInv'
  <1> USE DEF IndInv
  <1>0. /\ pc = "ready" /\ toClient # <<>> /\ toClient' = Tail(toClient)
        /\ UNCHANGED <<user, pc, err, negotiated, handle, links, server, gone, session, toServer,
                       next_sync, lacked>>
        /\ begin' = [c \in Caller |->
                       IF begin[c].at = "sent" /\ begin[c].sync = Head(toClient).sync
                       THEN [begin[c] EXCEPT !.at = "done", !.got = Head(toClient).type]
                       ELSE begin[c]]
    BY DEF DeliverReply
  <1>1. /\ toClient' \in Seq(Reply)
        /\ Len(toClient) \in Nat /\ Len(toClient) >= 1 /\ Len(toClient') = Len(toClient) - 1
        /\ Head(toClient) = toClient[1]
        /\ \A i \in 1 .. Len(toClient') : i + 1 \in 1 .. Len(toClient) /\ toClient'[i] = toClient[i + 1]
    BY <1>0, PopFacts DEF Types
  <1>2. Head(toClient).type = "BEGIN"
    <2>1. 1 \in 1 .. Len(toClient)  BY <1>1
    <2> QED BY <1>0, <1>1, <2>1 DEF FlightInv
  <1>3. \A c \in Caller : /\ begin'[c] \in Call
                          /\ begin'[c] = begin[c] \/ (begin'[c].at = "done" /\ begin'[c].got = "BEGIN")
    BY <1>0, <1>2 DEF Types, Call
  <1>4. Types'  BY <1>0, <1>1, <1>3 DEF Types
  <1>5. FlightInv'  BY <1>0, <1>1 DEF FlightInv
  <1>6. ReplyInv' /\ SessionInv'  BY <1>0, <1>1 DEF ReplyInv, SessionInv, Authenticates
  <1>7. HandleInv' /\ OwnReplies'
    BY <1>0, <1>3 DEF HandleInv, OwnReplies, ServerHasTransactions
  <1>8. FirstLinkHasFeature'  BY <1>0 DEF FirstLinkHasFeature, ServerHasTransactions
  <1> QED BY <1>4, <1>5, <1>6, <1>7, <1>8

LEMMA LinkLostStep ==
  ASSUME IndInv, HandshakeLost
  PROVE  IndInv'
  <1> USE DEF IndInv, net
  <1>1. /\ pc = "ready" /\ gone /\ toClient = <<>> /\ pc' = "backoff" /\ negotiated' = NoInfo
        /\ UNCHANGED <<user, err, handle, links, net, next_sync, lacked>>
    BY DEF HandshakeLost
  <1>2. \A c \in Caller : /\ begin'[c] \in Call
                          /\ begin'[c] = begin[c] \/ (begin'[c].at = "done" /\ begin'[c].got = "closed")
    BY DEF HandshakeLost, Types, Call
  <1>3. begin' \in [Caller -> Call]
    BY <1>2 DEF HandshakeLost
  <1>4. Types'  BY <1>1, <1>3, NoInfoIsInfo DEF Types
  <1>5. FlightInv'  BY <1>1 DEF FlightInv, Expected
  <1>6. ReplyInv' /\ SessionInv'  BY <1>1 DEF ReplyInv, SessionInv, Authenticates
  <1>7. HandleInv' /\ OwnReplies' /\ FirstLinkHasFeature'
    BY <1>1, <1>2 DEF HandleInv, OwnReplies, FirstLinkHasFeature, ServerHasTransactions, Handshaking
  <1> QED BY <1>4, <1>5, <1>6, <1>7

\* The server answers in order, and a session changes with the answer to AUTH.
LEMMA ServerStep ==
  ASSUME IndInv, ServerAnswers
  PROVE  IndInv'
  <1> DEFINE req == Head(toServer)
             ok == \/ req.type = "AUTH" /\ server.accepts
                   \/ req.type = "BEGIN" /\ server.codes # Absent /\ Transactions \in server.codes
             kind == IF req.type = "ID" THEN server.kind ELSE IF ok THEN "ok" ELSE "error"
             m == [type |-> req.type, sync |-> req.sync, kind |-> kind]
  <1> USE DEF IndInv, calls
  <1>1. /\ ~ gone /\ toServer # <<>> /\ toServer' = Tail(toServer) /\ toClient' = Append(toClient, m)
        /\ session' = IF req.type = "AUTH" /\ ok THEN user ELSE session
        /\ UNCHANGED <<user, pc, err, negotiated, handle, links, server, gone, calls>>
    BY DEF ServerAnswers
  <1>2. /\ Tail(toServer) \in Seq(Request)
        /\ Len(toServer) \in Nat /\ Len(toServer) >= 1 /\ Len(toServer') = Len(toServer) - 1
        /\ req = toServer[1] /\ req \in Request
        /\ \A i \in 1 .. Len(toServer') : i + 1 \in 1 .. Len(toServer) /\ toServer'[i] = toServer[i + 1]
    BY <1>1, PopFacts DEF Types
  <1>3. server.kind \in {"ok", "garbled", "error", "other"}
    BY HandshakeBounds DEF Types, ServerType
  <1>4. /\ m \in Reply /\ m.type = req.type /\ m.kind = kind
    BY <1>2, <1>3 DEF Request, Reply
  <1>5. /\ m.type = "ID" => m.kind = server.kind
        /\ m.type = "AUTH" /\ m.kind # "error" => session' = user
    BY <1>1, <1>4
  <1>6. session' = session \/ (req.type = "AUTH" /\ session' = user)
    BY <1>1
  <1> HIDE DEF m, req, ok, kind
  <1>7. /\ toClient' \in Seq(Reply) /\ Len(toClient) \in Nat /\ Len(toClient') = Len(toClient) + 1
        /\ \A i \in 1 .. Len(toClient) : toClient'[i] = toClient[i]
        /\ toClient'[Len(toClient) + 1] = m
    BY <1>1, <1>4, PushFacts DEF Types
  <1>8. req.type = "AUTH" => Authenticates
    <2>1. CASE pc = "ready"
      BY <1>2, <2>1 DEF FlightInv
    <2>2. CASE pc # "ready"
      BY <1>1, <1>2, <1>7, <2>2 DEF FlightInv, Expected, SessionInv, Types
    <2> QED BY <2>1, <2>2
  <1>9. Types'
    BY <1>1, <1>2, <1>6, <1>7, <1>8 DEF Types, Authenticates
  <1>10. FlightInv'
    <2>1. CASE pc = "ready"
      BY <1>1, <1>2, <1>4, <1>7, <2>1 DEF FlightInv
    <2>2. CASE pc # "ready"
      <3>1. /\ Len(toServer) = Len(Expected) - Len(toClient)
            /\ \A i \in 1 .. Len(toServer) : toServer[i].type = Expected[Len(toClient) + i]
            /\ \A i \in 1 .. Len(toClient) : toClient[i].type = Expected[i]
            /\ Expected' = Expected /\ Len(Expected) \in Nat
        BY <1>1, <2>2 DEF FlightInv, Expected, Authenticates
      <3>2. \A i \in 1 .. Len(toClient') : toClient'[i].type = Expected[i]
        BY <1>2, <1>4, <1>7, <3>1
      <3>3. \A i \in 1 .. Len(toServer') : toServer'[i].type = Expected[Len(toClient') + i]
        <4> SUFFICES ASSUME NEW i \in 1 .. Len(toServer')
                     PROVE  toServer'[i].type = Expected[Len(toClient') + i]
          OBVIOUS
        <4>1. toServer[i + 1].type = Expected[Len(toClient) + (i + 1)]
          BY <1>2, <3>1
        <4>2. Len(toClient) + (i + 1) = Len(toClient') + i
          BY <1>2, <1>7
        <4> QED BY <1>2, <4>1, <4>2
      <3> QED BY <1>1, <1>2, <1>7, <2>2, <3>1, <3>2, <3>3 DEF FlightInv
    <2> QED BY <2>1, <2>2
  <1>11. ReplyInv'
    BY <1>1, <1>5, <1>6, <1>7 DEF ReplyInv
  <1>12. SessionInv'
    BY <1>1, <1>6, <1>8 DEF SessionInv, Authenticates
  <1>13. HandleInv' /\ OwnReplies' /\ FirstLinkHasFeature'
    BY <1>1, <1>2 DEF HandleInv, OwnReplies, FirstLinkHasFeature, ServerHasTransactions
  <1> QED BY <1>9, <1>10, <1>11, <1>12, <1>13

LEMMA ServerClosesStep ==
  ASSUME IndInv, ServerCloses
  PROVE  IndInv'
  <1> USE DEF ServerCloses, IndInv, calls
  <1>1. Types'  BY DEF Types
  <1>2. FlightInv'  BY DEF FlightInv, Expected, Authenticates
  <1>3. ReplyInv' /\ SessionInv'  BY DEF ReplyInv, SessionInv, Authenticates
  <1>4. HandleInv' /\ OwnReplies' /\ FirstLinkHasFeature'
    BY DEF HandleInv, OwnReplies, FirstLinkHasFeature, ServerHasTransactions
  <1> QED BY <1>1, <1>2, <1>3, <1>4

-----------------------------------------------------------------------------
(* The theorems *)

LEMMA IndInvInit == HandshakeInit => IndInv
  <1> SUFFICES ASSUME HandshakeInit PROVE IndInv
    OBVIOUS
  <1> USE HandshakeBounds DEF HandshakeInit, IndInv
  <1>1. Types
    <2>1. [at |-> "idle", sync |-> 0, got |-> "none"] \in Call  BY DEF Call
    <2>2. begin \in [Caller -> Call] /\ lacked \in [Caller -> BOOLEAN]  BY <2>1
    <2>3. links \in 1 .. MaxLinks  OBVIOUS
    <2>4. toServer \in Seq(Request) /\ toClient \in Seq(Reply)  OBVIOUS
    <2> QED BY <2>2, <2>3, <2>4, NoInfoIsInfo DEF Types, Handshaking, Errors
  <1>2. FlightInv /\ ReplyInv /\ SessionInv
    BY DEF FlightInv, Expected, ReplyInv, SessionInv
  <1>3. HandleInv /\ OwnReplies /\ FirstLinkHasFeature
    BY DEF HandleInv, OwnReplies, FirstLinkHasFeature
  <1> QED BY <1>1, <1>2, <1>3

LEMMA IndInvStep == IndInv /\ [HandshakeNext]_handshakeVars => IndInv'
  <1> SUFFICES ASSUME IndInv, [HandshakeNext]_handshakeVars PROVE IndInv'
    OBVIOUS
  <1>1. CASE Connect
    BY <1>1, OpeningStep, SendStep, ReadStep, RedialStep DEF Connect
  <1>2. CASE Ready
    BY <1>2, BeginStep, SendBeginStep, DeliverStep, LinkLostStep DEF Ready
  <1>3. CASE ServerAnswers
    BY <1>3, ServerStep
  <1>4. CASE ServerCloses
    BY <1>4, ServerClosesStep
  <1>5. CASE UNCHANGED handshakeVars
    BY <1>5 DEF handshakeVars, IndInv, Types, FlightInv, Expected, ReplyInv, SessionInv, HandleInv,
                OwnReplies, FirstLinkHasFeature, ServerHasTransactions, Authenticates
  <1> QED BY <1>1, <1>2, <1>3, <1>4, <1>5 DEF HandshakeNext

LEMMA Inductive == HandshakeSpec => []IndInv
  BY IndInvInit, IndInvStep, PTL DEF HandshakeSpec

\* A link that is ready has the session of the user the options name, for every
\* set of servers and any number of links.
THEOREM ReadyIsAuthenticated == HandshakeSpec => []SessionIsTheUsers
  <1>1. IndInv => SessionIsTheUsers
    <2> SUFFICES ASSUME IndInv PROVE SessionIsTheUsers
      OBVIOUS
    <2>1. \A i \in 1 .. Len(toServer) : toServer[i] \in Request
      BY DEF IndInv, Types
    <2>2. \A i \in 1 .. Len(toClient) : toClient[i] \in Reply
      BY DEF IndInv, Types
    <2>3. HandshakeTypes
      BY <2>1, <2>2 DEF IndInv, Types, HandshakeTypes, Request, Reply, Call
    <2> QED BY <2>3 DEF IndInv, SessionInv, SessionIsTheUsers
  <1> QED BY <1>1, Inductive, PTL

\* No request is answered by a reply of the handshake.
THEOREM RepliesAreOwn == HandshakeSpec => []OwnReplies
  BY Inductive, PTL DEF IndInv

\* What the handle says of transactions is true of the server of the first link.
THEOREM HandleIsTrue == HandshakeSpec => []FirstLinkHasFeature
  BY Inductive, PTL DEF IndInv
=============================================================================
