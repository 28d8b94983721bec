--------------------------- MODULE WatchRegister ---------------------------
(***************************************************************************)
(* What Client::watch promises the owner of a watcher (src/src/watcher.rs, *)
(* module documentation): a key is a register, and a watcher is shown its  *)
(* versions from time to time.  Versions in between may be skipped, none   *)
(* is shown again after a later one, and as long as the watcher is open it *)
(* gets to every version or past it.  Links, commands, events and          *)
(* acknowledgements do not exist here; Watchers implements this.           *)
(***************************************************************************)
EXTENDS Naturals

CONSTANTS Watcher, Key, MaxVersion

VARIABLES
  keyOf,      \* keyOf[w]: the key w watches
  open,       \* open[w]: "no" (not yet), "yes" or "over" (closed or dropped)
  shown,      \* shown[w]: the version its owner read last, 0 before the first
  latest      \* latest[k]: the latest version of k

vars == <<keyOf, open, shown, latest>>

Init == /\ keyOf \in [Watcher -> Key]
        /\ open = [w \in Watcher |-> "no"]
        /\ shown = [w \in Watcher |-> 0]
        /\ latest = [k \in Key |-> 1]

\* Client::watch returns the watcher.  When is not promised: the second watcher
\* of a key waits for the next broadcast.
Open(w) == /\ open[w] = "no"
           /\ open' = [open EXCEPT ![w] = "yes"]
           /\ UNCHANGED <<keyOf, shown, latest>>

\* The owner reads a version: never an older one, never one that was not set.
Show(w) == /\ open[w] = "yes"
           /\ \E v \in shown[w] + 1 .. latest[keyOf[w]] : shown' = [shown EXCEPT ![w] = v]
           /\ UNCHANGED <<keyOf, open, latest>>

\* The owner drops the watcher or its call, or learns that the client is closed.
End(w) == /\ open[w] \in {"no", "yes"}
          /\ open' = [open EXCEPT ![w] = "over"]
          /\ UNCHANGED <<keyOf, shown, latest>>

\* Somebody sets the next version.
Set(k) == /\ latest[k] < MaxVersion
          /\ latest' = [latest EXCEPT ![k] = @ + 1]
          /\ UNCHANGED <<keyOf, open, shown>>

Next == \/ \E w \in Watcher : Open(w) \/ Show(w) \/ End(w)
        \/ \E k \in Key : Set(k)

\* An open watcher is shown every version that is set, or a later one.
Progress ==
  \A w \in Watcher : \A v \in 1 .. MaxVersion :
    (open[w] = "yes" /\ latest[keyOf[w]] >= v) ~> (shown[w] >= v \/ open[w] = "over")

\* What may happen, without what must.
Steps == Init /\ [][Next]_vars

Spec == Steps /\ Progress
=============================================================================
