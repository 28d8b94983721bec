---- MODULE MCLink ----
(***************************************************************************)
(* A link while it is established, and while it carries the pushes of      *)
(* calls.  A behaviour is one of either; the other stands still at its     *)
(* start.                                                                  *)
(***************************************************************************)
EXTENDS Handshake, Pushes

VARIABLE part    \* what this behaviour is about

Server(release, kind, version, codes) ==
  [release |-> release, greets |-> TRUE, salt |-> TRUE, accepts |-> TRUE,
   kind |-> kind, version |-> version, codes |-> codes]

Modern == Server("3.3", "ok", 8, {0, 1, 2, 13})
Old == Server("2.8", "error", Absent, Absent)
Bare == Server("2.10", "ok", Absent, Absent)

\* Servers with transactions, without, and ones that refuse some step.
MCServers == {Modern, Old, Bare,
              [Modern EXCEPT !.accepts = FALSE],
              [Old EXCEPT !.accepts = FALSE],
              [Modern EXCEPT !.salt = FALSE],
              [Modern EXCEPT !.greets = FALSE],
              [Modern EXCEPT !.kind = "other"],
              [Modern EXCEPT !.kind = "garbled"]}

\* Beside the pushes one user and one server will do.
MCInit == /\ HandshakeInit /\ Init
          /\ part \in {"handshake", "pushes"}
          /\ part = "pushes" => user = "none" /\ server = Modern

MCNext == \/ part = "handshake" /\ HandshakeNext /\ UNCHANGED <<vars, part>>
          \/ part = "pushes" /\ Next /\ UNCHANGED <<handshakeVars, part>>

MCSpec == /\ MCInit /\ [][MCNext]_<<handshakeVars, vars, part>>
          /\ part = "handshake" => HandshakeFairness
          /\ Fairness
====
