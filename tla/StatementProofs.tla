-------------------------- MODULE StatementProofs --------------------------
(***************************************************************************)
(* A prepared statement: whatever links are lost and whatever runs share   *)
(* it, a run executes it at most once, fails with an unknown id only when  *)
(* disturbed, and a release lets go of every id the runs obtained.         *)
(***************************************************************************)
EXTENDS Statements, FiniteSetTheorems, TLAPS

-----------------------------------------------------------------------------
(* The inductive invariant *)

\* Every variable has its type, the ids unbounded.
Types == /\ pc \in [Run -> Waiting \cup {"idle", "store", "resend", "done"}]
         /\ op \in [Run -> {"EXECUTE", "PREPARE"}]
         /\ asked \in [Run -> Nat]
         /\ at \in [Run -> {"none", "queued", "sent", "answered"}]
         /\ answer \in [Run -> {"none", "ok", "wrong", "failed"}]
         /\ result \in [Run -> {"none", "ok", "wrong", "failed", "closed", "timeout"}]
         /\ id \in Nat \ {0}
         /\ owned \in {"yes", "queued", "over", "lost"}
         /\ session \in {"up", "down"}
         /\ sessions \in 1 .. MaxSessions
         /\ known \subseteq Nat \ {0}
         /\ used \in Nat \ {0}
         /\ replaced \subseteq Nat
         /\ execs \in [Run -> Nat]
         /\ disturbed \subseteq Run

\* The PREPARE of r came back with an id.
Yielded(r) == pc[r] = "prepare" /\ at[r] = "answered" /\ answer[r] = "ok"

\* No id is ahead of the ones handed out, and there is a link left to come up.
IdsInv == /\ \A r \in Run : asked[r] <= used
          /\ \A r \in Run : pc[r] = "store" \/ Yielded(r) => asked[r] # 0
          /\ \A r \in Run : op[r] = "PREPARE" /\ at[r] \in {"queued", "sent"} => asked[r] = 0
          /\ id <= used
          /\ \A i \in known : i <= used
          /\ \A i \in replaced : i # 0 /\ i <= used
          /\ session = "down" => sessions < MaxSessions

\* Runs whose PREPARE the server may still answer.
Unserved == {r \in Run : \/ pc[r] \in {"idle", "execute"}
                         \/ (op[r] = "PREPARE" /\ at[r] \in {"queued", "sent"})}

\* Every id beyond the first was handed out to a run that will get no other.
CountInv == used + Cardinality(Unserved) <= MaxId

\* The request of r belongs to the step r is at, and no EXECUTE follows one
\* that ran the statement.
RunInv(r) ==
  /\ pc[r] = "idle" => op[r] = "EXECUTE" /\ at[r] = "none" /\ execs[r] = 0
  /\ pc[r] \in {"execute", "retry"} => op[r] = "EXECUTE" /\ at[r] # "none"
  /\ pc[r] = "prepare" => op[r] = "PREPARE" /\ at[r] # "none"
  /\ pc[r] \in {"store", "resend"} => op[r] = "PREPARE" /\ at[r] = "none"
  /\ op[r] = "PREPARE" => execs[r] = 0
  /\ op[r] = "EXECUTE" /\ at[r] \in {"queued", "sent"} => execs[r] = 0
  /\ op[r] = "EXECUTE" /\ at[r] = "answered" =>
       \/ answer[r] = "ok" /\ execs[r] = 1
       \/ answer[r] \in {"wrong", "failed"} /\ execs[r] = 0
  /\ op[r] = "PREPARE" /\ at[r] = "answered" => answer[r] \in {"ok", "failed"}
  /\ op[r] = "PREPARE" /\ at[r] \in {"queued", "sent"} => pc[r] = "prepare" \/ result[r] = "timeout"
  /\ execs[r] \in 0 .. 1
  /\ result[r] = "ok" => execs[r] = 1
  /\ result[r] = "none" <=> pc[r] # "done"

\* From the answer to its PREPARE on, an undisturbed run goes by an id the
\* session knows.
FreshInv(r) ==
  \/ r \in disturbed
  \/ /\ Yielded(r) => asked[r] \in known
     /\ pc[r] = "store" => asked[r] \in known
     /\ pc[r] = "resend" => id \in known
     /\ pc[r] = "retry" => IF at[r] = "answered" THEN answer[r] # "wrong" ELSE asked[r] \in known
     /\ result[r] # "wrong"

\* Only runs that are over, or never began, survive the statement.
OwnedInv == owned # "yes" => \A r \in Run : pc[r] \in {"idle", "done"}

\* The id a run obtained is with the run until it stores it, and stays there
\* when it timed out waiting for it.
Holds(r, i) == /\ asked[r] = i
               /\ \/ pc[r] = "store"
                  \/ Yielded(r)
                  \/ op[r] = "PREPARE" /\ result[r] = "timeout"

\* Every id of the session is accounted for.
KnownInv == \A i \in known : \/ i = id /\ owned # "over"
                            \/ i \in replaced
                            \/ \E r \in Run : Holds(r, i)

IndInv == /\ Types
          /\ IdsInv
          /\ CountInv
          /\ \A r \in Run : RunInv(r)
          /\ \A r \in Run : FreshInv(r)
          /\ OwnedInv
          /\ KnownInv

-----------------------------------------------------------------------------
(* Its parts, step by step *)

\* The steps of one run, and the ones of the whole system.
LEMMA StepCases ==
  ASSUME [StatementNext]_statementVars
  PROVE  \/ \E r \in Run : Step(r)
         \/ Release \/ ReleaseLost \/ SessionLost \/ SessionRestored \/ ServerRelease
         \/ UNCHANGED statementVars
  BY DEF StatementNext

\* Types and the bound on ids: they are handed out in order.
LEMMA TypesStep ==
  ASSUME Types, IdsInv, \A r \in Run : RunInv(r), [StatementNext]_statementVars
  PROVE  Types' /\ IdsInv'
  <1> USE StatementBounds DEF Types, IdsInv, Yielded, Waiting, stmt, serverVars, runHistory
  <1>1. ASSUME NEW r \in Run, Step(r) PROVE Types' /\ IdsInv'
    <2>1. CASE Start(r)  BY <2>1 DEF Start, Ask
    <2>2. CASE Executed(r)  BY <2>2 DEF Executed, Ask, Finish
    <2>3. CASE Prepared(r)  BY <2>3 DEF Prepared, Finish
    <2>4. CASE Store(r)  BY <2>4 DEF Store
    <2>5. CASE Resend(r)  BY <2>5 DEF Resend, Ask
    <2>6. CASE Retried(r)  BY <2>6 DEF Retried, Finish
    <2>7. CASE Timeout(r)  BY <2>7 DEF Timeout
    <2>8. CASE SendRequest(r)  BY <2>8 DEF SendRequest
    <2>9. CASE ServerExecute(r)  BY <2>9 DEF ServerExecute, RunInv
    <2>10. CASE ServerPrepare(r)  BY <2>10 DEF ServerPrepare
    <2>11. CASE ServerRefuses(r)  BY <2>11 DEF ServerRefuses
    <2> QED BY <1>1, <2>1, <2>2, <2>3, <2>4, <2>5, <2>6, <2>7, <2>8, <2>9, <2>10, <2>11 DEF Step
  <1>2. CASE Release  BY <1>2 DEF Release
  <1>3. CASE ReleaseLost  BY <1>3 DEF ReleaseLost
  <1>4. CASE SessionLost  BY <1>4 DEF SessionLost, CutOff, Running
  <1>5. CASE SessionRestored  BY <1>5 DEF SessionRestored
  <1>6. CASE ServerRelease  BY <1>6 DEF ServerRelease
  <1>7. CASE UNCHANGED statementVars  BY <1>7 DEF statementVars
  <1> QED BY <1>1, <1>2, <1>3, <1>4, <1>5, <1>6, <1>7, StepCases
\* A run asks for nothing twice.
LEMMA RunStep ==
  ASSUME Types, \A r \in Run : RunInv(r), [StatementNext]_statementVars
  PROVE  \A q \in Run : RunInv(q)'
  <1> USE DEF Types, RunInv, Waiting, stmt, serverVars, runHistory
  <1>1. ASSUME NEW r \in Run, Step(r) PROVE \A q \in Run : RunInv(q)'
    <2>1. CASE Start(r)  BY <2>1 DEF Start, Ask
    <2>2. CASE Executed(r)  BY <2>2 DEF Executed, Ask, Finish
    <2>3. CASE Prepared(r)  BY <2>3 DEF Prepared, Finish
    <2>4. CASE Store(r)  BY <2>4 DEF Store
    <2>5. CASE Resend(r)  BY <2>5 DEF Resend, Ask
    <2>6. CASE Retried(r)  BY <2>6 DEF Retried, Finish
    <2>7. CASE Timeout(r)  BY <2>7 DEF Timeout
    <2>8. CASE SendRequest(r)  BY <2>8 DEF SendRequest
    <2>9. CASE ServerExecute(r)  BY <2>9 DEF ServerExecute
    <2>10. CASE ServerPrepare(r)  BY <2>10 DEF ServerPrepare
    <2>11. CASE ServerRefuses(r)  BY <2>11 DEF ServerRefuses
    <2> QED BY <1>1, <2>1, <2>2, <2>3, <2>4, <2>5, <2>6, <2>7, <2>8, <2>9, <2>10, <2>11 DEF Step
  <1>2. CASE Release  BY <1>2 DEF Release
  <1>3. CASE ReleaseLost  BY <1>3 DEF ReleaseLost
  <1>4. CASE SessionLost  BY <1>4 DEF SessionLost, CutOff, Running
  <1>5. CASE SessionRestored  BY <1>5 DEF SessionRestored
  <1>6. CASE ServerRelease  BY <1>6 DEF ServerRelease
  <1>7. CASE UNCHANGED statementVars  BY <1>7 DEF statementVars
  <1> QED BY <1>1, <1>2, <1>3, <1>4, <1>5, <1>6, <1>7, StepCases

\* An undisturbed run keeps to an id of the session.
LEMMA FreshStep ==
  ASSUME Types, IdsInv, OwnedInv, \A r \in Run : RunInv(r), \A r \in Run : FreshInv(r), [StatementNext]_statementVars
  PROVE  \A q \in Run : FreshInv(q)'
  <1> USE DEF Types, OwnedInv, RunInv, FreshInv, Yielded, Waiting, stmt, serverVars, runHistory
  <1>1. ASSUME NEW r \in Run, Step(r) PROVE \A q \in Run : FreshInv(q)'
    <2>1. CASE Start(r)  BY <2>1 DEF Start, Ask
    <2>2. CASE Executed(r)  BY <2>2 DEF Executed, Ask, Finish
    <2>3. CASE Prepared(r)  BY <2>3 DEF Prepared, Finish
    <2>4. CASE Store(r)  BY <2>4 DEF Store
    <2>5. CASE Resend(r)  BY <2>5 DEF Resend, Ask
    <2>6. CASE Retried(r)  BY <2>6 DEF Retried, Finish
    <2>7. CASE Timeout(r)  BY <2>7 DEF Timeout
    <2>8. CASE SendRequest(r)  BY <2>8 DEF SendRequest
    <2>9. CASE ServerExecute(r)  BY <2>9 DEF ServerExecute
    <2>10. CASE ServerPrepare(r)  BY <2>10 DEF ServerPrepare
    <2>11. CASE ServerRefuses(r)  BY <2>11 DEF ServerRefuses
    <2> QED BY <1>1, <2>1, <2>2, <2>3, <2>4, <2>5, <2>6, <2>7, <2>8, <2>9, <2>10, <2>11 DEF Step
  <1>2. CASE Release  BY <1>2 DEF Release
  <1>3. CASE ReleaseLost  BY <1>3 DEF ReleaseLost
  <1>4. CASE SessionLost  BY <1>4 DEF SessionLost, CutOff, Running
  <1>5. CASE SessionRestored  BY <1>5 DEF SessionRestored
  <1>6. CASE ServerRelease  BY <1>6 DEF ServerRelease
  <1>7. CASE UNCHANGED statementVars  BY <1>7 DEF statementVars
  <1> QED BY <1>1, <1>2, <1>3, <1>4, <1>5, <1>6, <1>7, StepCases

\* A released statement does not run.
LEMMA OwnedStep ==
  ASSUME Types, IdsInv, OwnedInv, [StatementNext]_statementVars
  PROVE  OwnedInv'
  <1> USE DEF Types, IdsInv, OwnedInv, Waiting, stmt, serverVars, runHistory
  <1>1. ASSUME NEW r \in Run, Step(r) PROVE OwnedInv'
    <2>1. CASE Start(r)  BY <2>1 DEF Start, Ask
    <2>2. CASE Executed(r)  BY <2>2 DEF Executed, Ask, Finish
    <2>3. CASE Prepared(r)  BY <2>3 DEF Prepared, Finish
    <2>4. CASE Store(r)  BY <2>4 DEF Store
    <2>5. CASE Resend(r)  BY <2>5 DEF Resend, Ask
    <2>6. CASE Retried(r)  BY <2>6 DEF Retried, Finish
    <2>7. CASE Timeout(r)  BY <2>7 DEF Timeout
    <2>8. CASE SendRequest(r)  BY <2>8 DEF SendRequest
    <2>9. CASE ServerExecute(r)  BY <2>9 DEF ServerExecute
    <2>10. CASE ServerPrepare(r)  BY <2>10 DEF ServerPrepare
    <2>11. CASE ServerRefuses(r)  BY <2>11 DEF ServerRefuses
    <2> QED BY <1>1, <2>1, <2>2, <2>3, <2>4, <2>5, <2>6, <2>7, <2>8, <2>9, <2>10, <2>11 DEF Step
  <1>2. CASE Release  BY <1>2 DEF Release
  <1>3. CASE ReleaseLost  BY <1>3 DEF ReleaseLost
  <1>4. CASE SessionLost  BY <1>4 DEF SessionLost, CutOff, Running
  <1>5. CASE SessionRestored  BY <1>5 DEF SessionRestored
  <1>6. CASE ServerRelease  BY <1>6 DEF ServerRelease
  <1>7. CASE UNCHANGED statementVars  BY <1>7 DEF statementVars
  <1> QED BY <1>1, <1>2, <1>3, <1>4, <1>5, <1>6, <1>7, StepCases

\* No step loses track of an id.
LEMMA KnownStep ==
  ASSUME Types, IdsInv, OwnedInv, KnownInv, \A r \in Run : RunInv(r), [StatementNext]_statementVars
  PROVE  KnownInv'
  <1> USE DEF Types, IdsInv, OwnedInv, KnownInv, Holds, Yielded, RunInv, Waiting, stmt, serverVars, runHistory
  <1>1. ASSUME NEW r \in Run, Step(r) PROVE KnownInv'
    <2>1. CASE Start(r)  BY <2>1 DEF Start, Ask
    <2>2. CASE Executed(r)  BY <2>2 DEF Executed, Ask, Finish
    <2>3. CASE Prepared(r)  BY <2>3 DEF Prepared, Finish
    <2>4. CASE Store(r)  BY <2>4 DEF Store
    <2>5. CASE Resend(r)  BY <2>5 DEF Resend, Ask
    <2>6. CASE Retried(r)  BY <2>6 DEF Retried, Finish
    <2>7. CASE Timeout(r)  BY <2>7 DEF Timeout
    <2>8. CASE SendRequest(r)  BY <2>8 DEF SendRequest
    <2>9. CASE ServerExecute(r)  BY <2>9 DEF ServerExecute
    <2>10. CASE ServerPrepare(r)
      <3>1. asked[r] = 0 /\ op[r] = "PREPARE" /\ (pc[r] = "prepare" \/ result[r] = "timeout")
        BY <2>10 DEF ServerPrepare
      <3>2. PICK n \in known \cup {used + 1} : /\ asked' = [asked EXCEPT ![r] = n]
                                             /\ known' = known \cup {n}
        BY <2>10 DEF ServerPrepare
      <3>3. Holds(r, n)'  BY <2>10, <3>1, <3>2 DEF ServerPrepare
      <3>4. ASSUME NEW q \in Run, NEW i \in known, Holds(q, i) PROVE Holds(q, i)'
        BY <2>10, <3>1, <3>2, <3>4 DEF ServerPrepare
      <3>5. id' = id /\ owned' = owned /\ replaced' = replaced  BY <2>10 DEF ServerPrepare
      <3> HIDE DEF Holds
      <3> QED BY <3>2, <3>3, <3>4, <3>5
    <2>11. CASE ServerRefuses(r)  BY <2>11 DEF ServerRefuses
    <2> QED BY <1>1, <2>1, <2>2, <2>3, <2>4, <2>5, <2>6, <2>7, <2>8, <2>9, <2>10, <2>11 DEF Step
  <1>2. CASE Release  BY <1>2 DEF Release
  <1>3. CASE ReleaseLost  BY <1>3 DEF ReleaseLost
  <1>4. CASE SessionLost  BY <1>4 DEF SessionLost, CutOff, Running
  <1>5. CASE SessionRestored  BY <1>5 DEF SessionRestored
  <1>6. CASE ServerRelease  BY <1>6 DEF ServerRelease
  <1>7. CASE UNCHANGED statementVars  BY <1>7 DEF statementVars
  <1> QED BY <1>1, <1>2, <1>3, <1>4, <1>5, <1>6, <1>7, StepCases

\* Unserved only ever shrinks, and shrinks when an id is handed out.
LEMMA UnservedShrinks ==
  ASSUME Types, \A r \in Run : RunInv(r), [StatementNext]_statementVars
  PROVE  /\ Unserved' \subseteq Unserved
         /\ used' # used => used' = used + 1 /\ \E r \in Unserved : r \notin Unserved'
  <1> USE DEF Types, RunInv, Unserved, Waiting, stmt, serverVars, runHistory
  <1> DEFINE Goal == /\ Unserved' \subseteq Unserved
                     /\ used' # used => used' = used + 1 /\ \E r \in Unserved : r \notin Unserved'
  <1>1. ASSUME NEW r \in Run, Step(r) PROVE Goal
    <2>1. CASE Start(r)  BY <2>1 DEF Start, Ask
    <2>2. CASE Executed(r)  BY <2>2 DEF Executed, Ask, Finish
    <2>3. CASE Prepared(r)  BY <2>3 DEF Prepared, Finish
    <2>4. CASE Store(r)  BY <2>4 DEF Store
    <2>5. CASE Resend(r)  BY <2>5 DEF Resend, Ask
    <2>6. CASE Retried(r)  BY <2>6 DEF Retried, Finish
    <2>7. CASE Timeout(r)  BY <2>7 DEF Timeout
    <2>8. CASE SendRequest(r)  BY <2>8 DEF SendRequest
    <2>9. CASE ServerExecute(r)  BY <2>9 DEF ServerExecute
    <2>10. CASE ServerPrepare(r)  BY <2>10 DEF ServerPrepare
    <2>11. CASE ServerRefuses(r)  BY <2>11 DEF ServerRefuses
    <2> QED BY <1>1, <2>1, <2>2, <2>3, <2>4, <2>5, <2>6, <2>7, <2>8, <2>9, <2>10, <2>11 DEF Step
  <1>2. CASE Release  BY <1>2 DEF Release
  <1>3. CASE ReleaseLost  BY <1>3 DEF ReleaseLost
  <1>4. CASE SessionLost  BY <1>4 DEF SessionLost, CutOff, Running
  <1>5. CASE SessionRestored  BY <1>5 DEF SessionRestored
  <1>6. CASE ServerRelease  BY <1>6 DEF ServerRelease
  <1>7. CASE UNCHANGED statementVars  BY <1>7 DEF statementVars
  <1> QED BY <1>1, <1>2, <1>3, <1>4, <1>5, <1>6, <1>7, StepCases

\* So the ids never outnumber the runs by more than the first one.
LEMMA CountStep ==
  ASSUME Types, Types', CountInv, \A r \in Run : RunInv(r), [StatementNext]_statementVars
  PROVE  CountInv'
  <1>1. /\ IsFiniteSet(Unserved) /\ Cardinality(Unserved) \in Nat
        /\ Unserved' \subseteq Unserved /\ IsFiniteSet(Unserved')
        /\ Cardinality(Unserved') \in Nat /\ Cardinality(Unserved') <= Cardinality(Unserved)
        /\ Cardinality(Run) \in Nat
    <2>1. Unserved \subseteq Run  BY DEF Unserved
    <2> QED BY <2>1, StatementBounds, UnservedShrinks, FS_Subset, FS_CardinalityType
  <1>2. used \in Nat /\ used' \in Nat  BY DEF Types
  <1>3. CASE used' = used  BY <1>1, <1>2, <1>3 DEF CountInv, MaxId
  <1>4. CASE used' # used
    <2>1. used' = used + 1  BY <1>4, UnservedShrinks
    <2>2. PICK r \in Unserved : r \notin Unserved'  BY <1>4, UnservedShrinks
    <2>3. Unserved' \subseteq Unserved \ {r}  BY <1>1, <2>2
    <2>4. IsFiniteSet(Unserved \ {r}) /\ Cardinality(Unserved \ {r}) = Cardinality(Unserved) - 1
      BY <1>1, <2>2, FS_RemoveElement
    <2>5. Cardinality(Unserved') <= Cardinality(Unserved \ {r})
      BY <2>3, <2>4, FS_Subset
    <2> QED BY <1>1, <1>2, <2>1, <2>4, <2>5 DEF CountInv, MaxId
  <1> QED BY <1>3, <1>4

-----------------------------------------------------------------------------
(* The theorems *)

LEMMA IndInvInit == StatementInit => IndInv
  <1> SUFFICES ASSUME StatementInit PROVE IndInv
    OBVIOUS
  <1> USE StatementBounds
  <1>1. Types /\ IdsInv /\ OwnedInv /\ KnownInv
    BY DEF StatementInit, Types, IdsInv, OwnedInv, KnownInv, Yielded, Waiting
  <1>2. \A r \in Run : RunInv(r) /\ FreshInv(r)  BY DEF StatementInit, RunInv, FreshInv, Yielded
  <1>3. CountInv
    <2>1. Unserved = Run  BY DEF StatementInit, Unserved
    <2>2. Cardinality(Run) \in Nat  BY FS_CardinalityType
    <2> QED BY <2>1, <2>2 DEF StatementInit, CountInv, MaxId
  <1> QED BY <1>1, <1>2, <1>3 DEF IndInv

LEMMA IndInvStep == IndInv /\ [StatementNext]_statementVars => IndInv'
  <1> SUFFICES ASSUME IndInv, [StatementNext]_statementVars PROVE IndInv'
    OBVIOUS
  <1>1. Types' /\ IdsInv'  BY TypesStep DEF IndInv
  <1> QED BY <1>1, CountStep, RunStep, FreshStep, OwnedStep, KnownStep DEF IndInv

\* The bounds of the types follow from the counting.
LEMMA IndInvTypes == IndInv => StatementTypes
  <1> SUFFICES ASSUME IndInv PROVE StatementTypes
    OBVIOUS
  <1>1. Unserved \subseteq Run  BY DEF Unserved
  <1>2. Cardinality(Unserved) \in Nat /\ Cardinality(Run) \in Nat
    BY <1>1, StatementBounds, FS_Subset, FS_CardinalityType
  <1>3. MaxId \in Nat /\ used <= MaxId  BY <1>2 DEF IndInv, Types, CountInv, MaxId
  <1> QED BY <1>3 DEF IndInv, Types, IdsInv, StatementTypes

LEMMA Inductive == StatementSpec => []IndInv
  BY IndInvInit, IndInvStep, PTL DEF StatementSpec

\* A run executes the statement at most once, and exactly once when it returns
\* Ok, for any number of runs and links.
THEOREM RunsAtMostOnce == StatementSpec => []RunsOnce
  <1>1. IndInv => RunsOnce
    BY IndInvTypes DEF IndInv, Types, RunInv, RunsOnce
  <1> QED BY <1>1, Inductive, PTL

\* Only a run that lost a link, or met the id of a dead session, fails with an
\* unknown id.
THEOREM UndisturbedSucceed == StatementSpec => []OnlyDisturbedFail
  <1>1. IndInv => OnlyDisturbedFail
    BY DEF IndInv, FreshInv, OnlyDisturbedFail
  <1> QED BY <1>1, Inductive, PTL

\* Releasing the statement lets go of every id its runs obtained, except the
\* strays, for any number of runs and links.
THEOREM ReleaseIsComplete == StatementSpec => []ReleaseLeavesNothing
  <1>1. IndInv => ReleaseLeavesNothing
    <2> SUFFICES ASSUME IndInv, owned = "over", NEW i \in known PROVE i \in Strays
      BY DEF ReleaseLeavesNothing
    <2>1. \A r \in Run : pc[r] \in {"idle", "done"}  BY DEF IndInv, OwnedInv
    <2>2. i \in replaced \/ \E r \in Run : Holds(r, i)  BY DEF IndInv, KnownInv
    <2>3. ASSUME NEW r \in Run, Holds(r, i)
          PROVE  asked[r] = i /\ op[r] = "PREPARE" /\ result[r] = "timeout"
      BY <2>1, <2>3 DEF Holds, Yielded
    <2> QED BY <2>2, <2>3 DEF Strays
  <1> QED BY <1>1, Inductive, PTL
=============================================================================
