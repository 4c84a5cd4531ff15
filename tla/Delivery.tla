------------------------------ MODULE Delivery -------------------------------
(***************************************************************************)
(* What a queue promises (queue/queue.go), whichever backend keeps it: a   *)
(* message is published once, claimed and given back any number of times,  *)
(* and finalized once, and there is one copy of it at any time.  "Backends *)
(* handle leasing and redelivery of un-acknowledged messages": who gives a *)
(* message back - a Nack, a lease that ran out, a consumer that restarts - *)
(* is theirs.  MemQ, FileQ, RedisQ and the queue that Consume sees are     *)
(* shown to implement this module.                                         *)
(***************************************************************************)
EXTENDS Integers

CONSTANTS Messages

VARIABLES
  copies, \* copies[m][place]: how many copies of m there are at the place
  count,  \* count[m]: the deliveries of m so far, 0 when it is not in the queue
  open    \* nobody has closed the queue or cancelled a consumer's ctx

vars == <<copies, count, open>>

-----------------------------------------------------------------------------
Places == {"waiting", "held", "acked", "dead"}

Nowhere == [place \in Places |-> 0]

\* The queue may hold messages of an earlier process.
Init ==
  /\ \E old \in SUBSET Messages :
       copies = [m \in Messages |->
                   IF m \in old THEN [Nowhere EXCEPT !["waiting"] = 1]
                   ELSE Nowhere]
  /\ count = [m \in Messages |-> 0]
  /\ open = TRUE

Publish(m) ==
  /\ copies[m] = Nowhere
  /\ copies' = [copies EXCEPT ![m]["waiting"] = 1]
  /\ UNCHANGED <<count, open>>

\* Receive hands the message to a consumer, with Deliveries() one higher.
Claim(m) ==
  /\ copies[m]["waiting"] > 0
  /\ copies' = [copies EXCEPT ![m]["waiting"] = @ - 1, ![m]["held"] = @ + 1]
  /\ count' = [count EXCEPT ![m] = @ + 1]
  /\ UNCHANGED open

\* Nack, or the end of a lease; several leases may end at once.
GiveBack(S) ==
  /\ \A m \in S : copies[m]["held"] > 0
  /\ copies' = [m \in Messages |->
                  IF m \in S THEN [copies[m] EXCEPT !["waiting"] = @ + 1,
                                                    !["held"] = @ - 1]
                  ELSE copies[m]]
  /\ UNCHANGED <<count, open>>

\* Ack or DeadLetter.
Finalize(m, place) ==
  /\ place \in {"acked", "dead"}
  /\ copies[m]["held"] > 0
  /\ copies' = [copies EXCEPT ![m]["held"] = @ - 1, ![m][place] = @ + 1]
  /\ count' = [count EXCEPT ![m] = 0]
  /\ UNCHANGED open

\* The queue is closed, a ctx is cancelled, or a consumer starts anew.
Toggle ==
  /\ open' = ~open
  /\ UNCHANGED <<copies, count>>

Next ==
  \/ \E m \in Messages :
       Publish(m) \/ Claim(m) \/ Finalize(m, "acked") \/ Finalize(m, "dead")
  \/ \E S \in SUBSET Messages : GiveBack(S)
  \/ Toggle

Spec == Init /\ [][Next]_vars

Finalized(m) == copies[m]["acked"] + copies[m]["dead"] > 0

\* A message that is in the queue is delivered until it is finalized, unless
\* the queue is closed or a consumer cancelled.
Redelivered ==
  \A m \in Messages : copies[m] # Nowhere ~> Finalized(m) \/ ~open

\* A message is in one place at most: it is not lost, not delivered to two
\* consumers at a time, and finalized once.
OneCopy ==
  \A m \in Messages :
    copies[m] = Nowhere
    \/ \E place \in Places : copies[m] = [Nowhere EXCEPT ![place] = 1]

\* No step takes back what is finalized, nor does Deliveries() of a message
\* fall before it is: what WithMaxDeliveries counts on.
NothingUndone ==
  \A m \in Messages :
    /\ Finalized(m) => copies'[m] = copies[m]
    /\ count'[m] < count[m] => Finalized(m)'
=============================================================================
