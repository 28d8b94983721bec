----------------------------- MODULE Statements -----------------------------
(***************************************************************************)
(* Statement (src/src/sql.rs): a prepared statement shared by concurrent   *)
(* runs, over sessions that come and go.  Statement::run sends EXECUTE     *)
(* with the id it loads; if the server does not know the id it prepares    *)
(* again, stores the new id and retries once.  The id is one atomic that   *)
(* every run loads and stores.  The server is external: a session knows    *)
(* the ids it prepared, and an id never stands for another statement.      *)
(***************************************************************************)
EXTENDS Naturals, FiniteSets

CONSTANTS
  Run,          \* the runs of the statement, one per call of run
  MaxSessions,  \* bound: links established; the last one stays up
  RunTimeout    \* a request_timeout is set

ASSUME StatementBounds == /\ IsFiniteSet(Run)
                          /\ MaxSessions \in Nat \ {0}
                          /\ RunTimeout \in BOOLEAN

VARIABLES
  pc,         \* pc[r]: where run r is
  op,         \* op[r]: the kind of the last request r made
  asked,      \* asked[r]: id in the EXECUTE of r, or that its PREPARE yielded
  at,         \* at[r]: that request is queued, sent or answered
  answer,     \* answer[r]: what the server answered
  result,     \* result[r]: what run returned
  id,         \* Statement.id
  owned,      \* the Statement exists, or its release is queued, over or lost
  session,    \* "up" or "down"
  sessions,   \* links established
  known,      \* ids prepared in this session
  used,       \* how many ids the server has handed out
  replaced,   \* history: ids of a live session that a run replaced
  execs,      \* history: execs[r] counts the executions on behalf of r
  disturbed   \* history: runs that saw a link lost, or a stale id stored

stmt == <<id, owned>>
serverVars == <<session, sessions, known, used>>
runHistory == <<replaced, execs, disturbed>>
statementVars == <<pc, op, asked, at, answer, result, id, owned, session, sessions, known, used,
                   replaced, execs, disturbed>>

Waiting == {"execute", "prepare", "retry"}
MaxId == 1 + Cardinality(Run)

\* The type of every variable.
StatementTypes ==
  /\ pc \in [Run -> Waiting \cup {"idle", "store", "resend", "done"}]
  /\ op \in [Run -> {"EXECUTE", "PREPARE"}]
  /\ asked \in [Run -> 0 .. MaxId]
  /\ at \in [Run -> {"none", "queued", "sent", "answered"}]
  /\ answer \in [Run -> {"none", "ok", "wrong", "failed"}]
  /\ result \in [Run -> {"none", "ok", "wrong", "failed", "closed", "timeout"}]
  /\ id \in 1 .. MaxId
  /\ owned \in {"yes", "queued", "over", "lost"}
  /\ session \in {"up", "down"}
  /\ sessions \in 1 .. MaxSessions
  /\ known \subseteq 1 .. MaxId
  /\ used \in 1 .. MaxId
  /\ replaced \subseteq 1 .. MaxId
  /\ execs \in [Run -> Nat]
  /\ disturbed \subseteq Run

\* Statement::prepare has returned.
StatementInit ==
  /\ pc = [r \in Run |-> "idle"]
  /\ op = [r \in Run |-> "EXECUTE"]
  /\ asked = [r \in Run |-> 0]
  /\ at = [r \in Run |-> "none"]
  /\ answer = [r \in Run |-> "none"]
  /\ result = [r \in Run |-> "none"]
  /\ id = 1
  /\ owned = "yes"
  /\ session = "up"
  /\ sessions = 1
  /\ known = {1}
  /\ used = 1
  /\ replaced = {}
  /\ execs = [r \in Run |-> 0]
  /\ disturbed = {}

-----------------------------------------------------------------------------
(* Statement::run *)

\* A request of r is handed to the connection.
Ask(r, next, what) ==
  /\ pc' = [pc EXCEPT ![r] = next]
  /\ op' = [op EXCEPT ![r] = IF next = "prepare" THEN "PREPARE" ELSE "EXECUTE"]
  /\ asked' = [asked EXCEPT ![r] = what]
  /\ at' = [at EXCEPT ![r] = "queued"]
  /\ answer' = [answer EXCEPT ![r] = "none"]

\* Statement::run calls Statement::send, which loads the id.
Start(r) ==
  /\ owned = "yes"
  /\ pc[r] = "idle"
  /\ Ask(r, "execute", id)
  /\ UNCHANGED <<result, stmt, serverVars, runHistory>>

\* Run r is over with outcome res.
Finish(r, res) ==
  /\ pc' = [pc EXCEPT ![r] = "done"]
  /\ at' = [at EXCEPT ![r] = "none"]
  /\ result' = [result EXCEPT ![r] = res]
  /\ UNCHANGED <<op, asked, answer>>

\* The first EXECUTE returned: only an unknown id leads to send_prepare.
Executed(r) ==
  /\ pc[r] = "execute"
  /\ at[r] = "answered"
  /\ IF answer[r] = "wrong"
     THEN Ask(r, "prepare", 0) /\ UNCHANGED result
     ELSE Finish(r, answer[r])
  /\ UNCHANGED <<stmt, serverVars, runHistory>>

\* send_prepare returned.  An error, or a reply without an id, is what run
\* returns.
Prepared(r) ==
  /\ pc[r] = "prepare"
  /\ at[r] = "answered"
  /\ IF answer[r] = "ok"
     THEN /\ pc' = [pc EXCEPT ![r] = "store"]
          /\ at' = [at EXCEPT ![r] = "none"]
          /\ UNCHANGED <<op, asked, answer, result>>
     ELSE Finish(r, "failed")
  /\ UNCHANGED <<stmt, serverVars, runHistory>>

\* Mutant: the fresh id is forgotten.
Store_Forgets(r) ==
  /\ pc[r] = "store"
  /\ pc' = [pc EXCEPT ![r] = "resend"]
  /\ UNCHANGED <<op, asked, at, answer, result, stmt, serverVars, runHistory>>

\* self.id.store; other runs see it from now on.
Store(r) ==
  /\ pc[r] = "store"
  /\ id' = asked[r]
  /\ pc' = [pc EXCEPT ![r] = "resend"]
  /\ disturbed' = IF asked[r] \in known
                  THEN disturbed
                  ELSE disturbed \cup {q \in Run : pc[q] \notin {"idle", "done"}}
  /\ replaced' = (replaced \cup ({id} \cap known)) \ {asked[r]}
  /\ UNCHANGED <<op, asked, at, answer, result, owned, serverVars, execs>>

\* The retry loads the id again.
Resend(r) ==
  /\ pc[r] = "resend"
  /\ Ask(r, "retry", id)
  /\ UNCHANGED <<result, stmt, serverVars, runHistory>>

\* What the retry returned is what run returns.
Retried(r) ==
  /\ pc[r] = "retry"
  /\ at[r] = "answered"
  /\ Finish(r, answer[r])
  /\ UNCHANGED <<stmt, serverVars, runHistory>>

\* request_timeout passed in one of the three requests, which goes on.
Timeout(r) ==
  /\ RunTimeout
  /\ pc[r] \in Waiting
  /\ pc' = [pc EXCEPT ![r] = "done"]
  /\ result' = [result EXCEPT ![r] = "timeout"]
  /\ UNCHANGED <<op, asked, at, answer, stmt, serverVars, runHistory>>

\* Statement::unprepare, or Drop for Statement: no run borrows it any more.
Release ==
  /\ owned = "yes"
  /\ \A r \in Run : pc[r] \in {"idle", "done"}
  /\ owned' = "queued"
  /\ UNCHANGED <<pc, op, asked, at, answer, result, id, serverVars, runHistory>>

\* Drop for Statement when the channel is full: try_send loses the release.
ReleaseLost ==
  /\ owned = "yes"
  /\ \A r \in Run : pc[r] \in {"idle", "done"}
  /\ owned' = "lost"
  /\ UNCHANGED <<pc, op, asked, at, answer, result, id, serverVars, runHistory>>

-----------------------------------------------------------------------------
(* The connection and the server *)

\* The task sends a queued request.
SendRequest(r) ==
  /\ session = "up"
  /\ at[r] = "queued"
  /\ at' = [at EXCEPT ![r] = "sent"]
  /\ UNCHANGED <<pc, op, asked, answer, result, stmt, serverVars, runHistory>>

\* Requests cut off when the link is lost: the ones sent, and the ones whose
\* answer had not come back yet.
CutOff == {S \in SUBSET {r \in Run : at[r] \in {"sent", "answered"}} :
             \A r \in Run : at[r] = "sent" => r \in S}

Running == {r \in Run : pc[r] \notin {"idle", "done"}}

\* Mutant: a run whose request was cut off tries again on the next link.
SessionLost_Resends ==
  /\ session = "up"
  /\ sessions < MaxSessions
  /\ session' = "down"
  /\ known' = {}
  /\ \E S \in CutOff :
       /\ pc' = [r \in Run |-> IF r \in S /\ pc[r] \in Waiting THEN "resend" ELSE pc[r]]
       /\ at' = [r \in Run |-> IF r \in S THEN "none" ELSE at[r]]
  /\ disturbed' = disturbed \cup Running
  /\ UNCHANGED <<op, asked, answer, result, stmt, sessions, used, replaced, execs>>

\* Mutant: the table of pending requests is not drained.
SessionLost_Forgets ==
  /\ session = "up"
  /\ sessions < MaxSessions
  /\ session' = "down"
  /\ known' = {}
  /\ \E S \in CutOff : at' = [r \in Run |-> IF r \in S THEN "none" ELSE at[r]]
  /\ disturbed' = disturbed \cup Running
  /\ UNCHANGED <<pc, op, asked, answer, result, stmt, sessions, used, replaced, execs>>

\* fail_link: what was cut off fails with Closed, and run with it.  The session
\* ends.
SessionLost ==
  /\ session = "up"
  /\ sessions < MaxSessions
  /\ session' = "down"
  /\ known' = {}
  /\ \E S \in CutOff :
       LET failed == {r \in S : pc[r] \in Waiting}
       IN /\ pc' = [r \in Run |-> IF r \in failed THEN "done" ELSE pc[r]]
          /\ at' = [r \in Run |-> IF r \in S THEN "none" ELSE at[r]]
          /\ result' = [r \in Run |-> IF r \in failed THEN "closed" ELSE result[r]]
  /\ disturbed' = disturbed \cup Running
  /\ UNCHANGED <<op, asked, answer, stmt, sessions, used, replaced, execs>>

\* Task::reconnect: a session that knows no statement.
SessionRestored ==
  /\ session = "down"
  /\ session' = "up"
  /\ sessions' = sessions + 1
  /\ UNCHANGED <<pc, op, asked, at, answer, result, stmt, known, used, runHistory>>

\* EXECUTE by id, which may fail for a reason of its own.
ServerExecute(r) ==
  /\ at[r] = "sent"
  /\ op[r] = "EXECUTE"
  /\ at' = [at EXCEPT ![r] = "answered"]
  /\ \E a \in IF asked[r] \in known THEN {"ok", "failed"} ELSE {"wrong"} :
       /\ answer' = [answer EXCEPT ![r] = a]
       /\ execs' = [execs EXCEPT ![r] = IF a = "ok" THEN @ + 1 ELSE @]
  /\ UNCHANGED <<pc, op, asked, result, stmt, serverVars, replaced, disturbed>>

\* PREPARE: an id the session already has for this text, or a fresh one.
ServerPrepare(r) ==
  /\ at[r] = "sent"
  /\ op[r] = "PREPARE"
  /\ at' = [at EXCEPT ![r] = "answered"]
  /\ answer' = [answer EXCEPT ![r] = "ok"]
  /\ \E i \in known \cup {used + 1} :
       /\ asked' = [asked EXCEPT ![r] = i]
       /\ known' = known \cup {i}
       /\ used' = IF i = used + 1 THEN i ELSE used
  /\ UNCHANGED <<pc, op, result, stmt, session, sessions, runHistory>>

\* PREPARE is refused, or answered without an id.
ServerRefuses(r) ==
  /\ at[r] = "sent"
  /\ op[r] = "PREPARE"
  /\ at' = [at EXCEPT ![r] = "answered"]
  /\ answer' = [answer EXCEPT ![r] = "failed"]
  /\ UNCHANGED <<pc, op, asked, result, stmt, serverVars, runHistory>>

\* PREPARE with an id alone releases it.
ServerRelease ==
  /\ session = "up"
  /\ owned = "queued"
  /\ owned' = "over"
  /\ known' = known \ {id}
  /\ UNCHANGED <<pc, op, asked, at, answer, result, id, session, sessions, used, runHistory>>

-----------------------------------------------------------------------------

Step(r) == \/ Start(r)
           \/ Executed(r)
           \/ Prepared(r)
           \/ Store(r)
           \/ Resend(r)
           \/ Retried(r)
           \/ Timeout(r)
           \/ SendRequest(r)
           \/ ServerExecute(r)
           \/ ServerPrepare(r)
           \/ ServerRefuses(r)

StatementNext == \/ \E r \in Run : Step(r)
                 \/ Release
                 \/ ReleaseLost
                 \/ SessionLost
                 \/ SessionRestored
                 \/ ServerRelease

StatementSpec == StatementInit /\ [][StatementNext]_statementVars

\* The caller polls its run, the task sends what is queued and reconnects, and
\* the server answers.  Timers are not needed.
StatementFairness ==
  /\ WF_statementVars(SessionRestored)
  /\ \A r \in Run :
       /\ WF_statementVars(Executed(r) \/ Prepared(r) \/ Store(r) \/ Resend(r) \/ Retried(r))
       /\ WF_statementVars(SendRequest(r))
       /\ WF_statementVars(ServerExecute(r) \/ ServerPrepare(r) \/ ServerRefuses(r))

FairStatements == StatementSpec /\ StatementFairness

-----------------------------------------------------------------------------
(* Properties *)

\* The retry never runs a statement twice: a run executes it at most once, and
\* exactly once when it returns Ok, whatever links are lost in between (and
\* every variable has its type).
RunsOnce ==
  /\ StatementTypes
  /\ \A r \in Run : /\ execs[r] <= 1
                    /\ result[r] = "ok" => execs[r] = 1

\* A run fails with an unknown id only if a link was lost while it ran, or
\* another run stored the id of a session that had ended.
OnlyDisturbedFail == \A r \in Run : result[r] = "wrong" => r \in disturbed

\* Ids the session may keep although the statement is gone: the ones that came
\* back to a run that had timed out waiting for them, and the ones a second run
\* replaced by its own while the session still knew them.
Strays == replaced \cup {asked[r] : r \in {q \in Run : op[q] = "PREPARE" /\ result[q] = "timeout"}}

\* Releasing the statement releases every id its runs obtained, however often
\* links were lost and the statement prepared again: once the release went
\* through, the session knows at most the strays.  unprepare and Drop send one
\* id, so this rests on every run storing the id it prepared.
ReleaseLeavesNothing == owned = "over" => known \subseteq Strays

\* A run returns, whatever links are lost under its three requests: the retry
\* does not go on for ever and no request of it stays unanswered.
RunsEnd == \A r \in Run : pc[r] = "execute" ~> pc[r] = "done"
=============================================================================
