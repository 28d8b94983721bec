---- MODULE MCSessions ----
(***************************************************************************)
(* Two users of a connection that share nothing but the links: a prepared  *)
(* statement and the transactions of a stream.  A behaviour is one of      *)
(* either; the other stands still at its start, where no step that         *)
(* fairness asks for is enabled.                                           *)
(***************************************************************************)
EXTENDS Statements, Transactions

VARIABLE part    \* the user this behaviour is about

MCInit == StatementInit /\ Init /\ part \in {"statements", "transactions"}

MCNext == \/ part = "statements" /\ StatementNext /\ UNCHANGED <<vars, part>>
          \/ part = "transactions" /\ Next /\ UNCHANGED <<statementVars, part>>

MCSpec == MCInit /\ [][MCNext]_<<statementVars, vars, part>> /\ StatementFairness /\ Fairness
====
