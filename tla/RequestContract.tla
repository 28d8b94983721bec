-------------------------- MODULE RequestContract --------------------------
(***************************************************************************)
(* What one request through the client promises its caller, whatever the   *)
(* connection task, the link and the server do underneath.  The server     *)
(* runs it at most once; an answer means that it ran; "shutting_down"      *)
(* means that it has not run and never will; "closed", "timeout" and       *)
(* "cancelled" promise nothing: the request may have run, may still run or *)
(* may never run (src/src/options.rs:185-188, README.md:64).               *)
(***************************************************************************)
EXTENDS Naturals

CONSTANT Sync                 \* the identities of the requests

VARIABLES call,               \* call[s]: what the caller of s knows
          execs               \* execs[s]: how often the server ran s

contractVars == <<call, execs>>

Unsettled == {"idle", "open"}
Final == {"answered", "shutting_down", "closed", "timeout", "cancelled"}

Init == /\ call = [s \in Sync |-> "idle"]
        /\ execs = [s \in Sync |-> 0]

Open(s) == /\ call[s] = "idle"
           /\ call' = [call EXCEPT ![s] = "open"]
           /\ UNCHANGED execs

\* A request that was given up may still run, but never twice and never
\* after its caller was told that it was refused.
Execute(s) == /\ call[s] \in {"open", "closed", "timeout", "cancelled"}
              /\ execs[s] = 0
              /\ execs' = [execs EXCEPT ![s] = 1]
              /\ UNCHANGED call

Answer(s) == /\ call[s] = "open"
             /\ execs[s] = 1
             /\ call' = [call EXCEPT ![s] = "answered"]
             /\ UNCHANGED execs

Refuse(s) == /\ call[s] = "open"
             /\ execs[s] = 0
             /\ call' = [call EXCEPT ![s] = "shutting_down"]
             /\ UNCHANGED execs

\* Losing the link or ending the task fails any number of open requests.
Fail(S) == /\ \A s \in S : call[s] = "open"
           /\ call' = [s \in Sync |-> IF s \in S THEN "closed" ELSE call[s]]
           /\ UNCHANGED execs

Lapse(s, why) == /\ call[s] = "open"
                 /\ call' = [call EXCEPT ![s] = why]
                 /\ UNCHANGED execs

Next == \/ \E s \in Sync : \/ Open(s)
                           \/ Execute(s)
                           \/ Answer(s)
                           \/ Refuse(s)
                           \/ \E why \in {"timeout", "cancelled"} : Lapse(s, why)
        \/ \E S \in SUBSET Sync : Fail(S)

Spec == Init /\ [][Next]_contractVars
=============================================================================
