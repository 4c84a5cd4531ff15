----------------------------- MODULE BoundedPool ------------------------------
(***************************************************************************)
(* What Process (process.go) promises whoever calls it, without what goes  *)
(* on inside: it "runs fn over every item read from in, using a bounded    *)
(* pool of workers, and streams a Result for each item", on a channel that *)
(* "is closed once in is drained and all workers finish, or once ctx is    *)
(* cancelled".  Module Process is shown to implement it, and Consume has   *)
(* such a pool for its engine.                                             *)
(***************************************************************************)
EXTENDS Integers, FiniteSets

CONSTANTS
  Items,      \* the items the source offers, each once
  Size        \* cfg.workers

VARIABLES
  cancelled,  \* ctx is done
  unsent,     \* the items the source has not handed over yet
  inClosed,   \* the source has closed its channel
  held,       \* the items in the workers' hands
  answered,   \* answered[i]: how many Results there have been for item i
  dropped,    \* the items whose Result nobody was given
  outClosed   \* the channel of Results is closed

vars == <<cancelled, unsent, inClosed, held, answered, dropped, outClosed>>

-----------------------------------------------------------------------------
Init ==
  /\ cancelled = FALSE
  /\ unsent = Items
  /\ inClosed = FALSE
  /\ held = {}
  /\ answered = [i \in Items |-> 0]
  /\ dropped = {}
  /\ outClosed = FALSE

Cancel ==
  /\ cancelled' = TRUE
  /\ UNCHANGED <<unsent, inClosed, held, answered, dropped, outClosed>>

CloseIn ==
  /\ inClosed' = TRUE
  /\ UNCHANGED <<cancelled, unsent, held, answered, dropped, outClosed>>

Take(i) ==
  /\ ~inClosed /\ ~outClosed
  /\ i \in unsent
  /\ Cardinality(held) < Size
  /\ unsent' = unsent \ {i}
  /\ held' = held \cup {i}
  /\ UNCHANGED <<cancelled, inClosed, answered, dropped, outClosed>>

\* The Result of i is received.
Answer(i) ==
  /\ ~outClosed
  /\ i \in held
  /\ held' = held \ {i}
  /\ answered' = [answered EXCEPT ![i] = @ + 1]
  /\ UNCHANGED <<cancelled, unsent, inClosed, dropped, outClosed>>

\* ctx is done, and nobody need read the Result of i.
Drop(i) ==
  /\ cancelled
  /\ i \in held
  /\ held' = held \ {i}
  /\ dropped' = dropped \cup {i}
  /\ UNCHANGED <<cancelled, unsent, inClosed, answered, outClosed>>

\* The workers are idle, and there is nothing more for them.
Close ==
  /\ cancelled \/ inClosed
  /\ held = {}
  /\ outClosed' = TRUE
  /\ UNCHANGED <<cancelled, unsent, inClosed, held, answered, dropped>>

Next ==
  \/ Cancel \/ CloseIn \/ Close
  \/ \E i \in Items : Take(i) \/ Answer(i) \/ Drop(i)

Spec == Init /\ [][Next]_vars

\* Every item is answered, unless ctx is cancelled or the source has ended
\* without it.
Answers ==
  \A i \in Items :
    <>(answered[i] > 0 \/ cancelled \/ (inClosed /\ i \in unsent))

\* The end of the input closes the channel of Results, and so does ctx.
Closes == (cancelled \/ inClosed) ~> outClosed
=============================================================================
