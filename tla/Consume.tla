------------------------------- MODULE Consume -------------------------------
(***************************************************************************)
(* The life of a batch in a queue: queue.Fill publishes the items of a     *)
(* source, its caller seals the queue, and queue.Consume works it off: a   *)
(* pool of workers, and one goroutine that finalizes each outcome - Ack,   *)
(* DeadLetter or Nack - and then emits a Result for the messages it        *)
(* acknowledged or dead-lettered.                                          *)
(*                                                                         *)
(* The backend is what queue.Queue asks of it: a message is waiting, in    *)
(* the hands of a consumer under a lease, or finalized, and a call on a    *)
(* delivery that is not the current one any more changes nothing (what     *)
(* fileq does).  The engine is the BoundedPool that Process implements,    *)
(* with the deliveries for its items; that an outcome carries its message  *)
(* is Process' HandleKept.                                                 *)
(***************************************************************************)
EXTENDS Integers, Sequences, FiniteSets

CONSTANTS
  Messages,          \* 1..N: the items of Fill's source, in order
  Pool,              \* cfg.workers
  MaxDeliveries,     \* cfg.maxDeliveries; 0: redeliver for ever
  Cancellable,       \* the ctx of Consume and that of Fill may be cancelled
  MaxFaults,         \* a bound on crashes and on calls that fail
  MaxCount           \* MaxCount[m]: a bound on the deliveries of m

ASSUME MessageAssumption ==
  IsFiniteSet(Messages) /\ Messages = 1..Cardinality(Messages)
ASSUME PoolAssumption == Pool \in Nat \ {0} /\ MaxDeliveries \in Nat
ASSUME SwitchAssumption == Cancellable \in BOOLEAN
ASSUME BoundAssumption ==
  MaxFaults \in Nat /\ MaxCount \in [Messages -> Nat \ {0}]

VARIABLES
  taken,     \* how many items Fill has received from its source
  filled,    \* n, the count Fill returns
  fill,      \* where Fill stands; "failed": Publish's error was returned
  cancelled, \* ctx.Done() is closed
  receiving, \* the backend's Receive goroutine runs
  status,    \* status[m]: what the backend holds of m
  count,     \* count[m]: how often m was delivered
  offered,   \* the deliveries the receiver offers: one at most
  pool,      \* the deliveries in the workers' hands
  fin,       \* where the finalizing goroutine stands
  outcome,   \* the outcome it holds, as a set
  results,   \* results[m]: the Results received for m
  faults,    \* how many crashes and failed calls there have been
  lapses,    \* lapses[m]: how many leases of m have run out
  late       \* late[m]: how many of them at or beyond MaxDeliveries

filler == <<taken, filled, fill>>
backend == <<status, count>>
hands == <<offered, pool, outcome>>
history == <<faults, lapses, late>>
vars == <<filler, cancelled, receiving, backend, hands, fin, results, history>>

-----------------------------------------------------------------------------
Delivery == [msg : Messages, n : Nat \ {0}]

Outcome == [msg : Messages, n : Nat \ {0}, ok : BOOLEAN]

\* The finalizing goroutine has returned: its range has ended, or ctx has.
Exited == {"ended", "exited"}

Init ==
  /\ taken = 0 /\ filled = 0 /\ fill = "range"
  /\ cancelled = FALSE
  /\ receiving = TRUE
  /\ status = [m \in Messages |-> "absent"]
  /\ count = [m \in Messages |-> 0]
  /\ offered = {}
  /\ pool = {}
  /\ fin = "range"
  /\ outcome = {}
  /\ results = [m \in Messages |-> <<>>]
  /\ faults = 0
  /\ lapses = [m \in Messages |-> 0]
  /\ late = [m \in Messages |-> 0]

\* The deliveries of m this process has in hand.
InHand(m) ==
  {d \in offered \cup pool \cup {[msg |-> o.msg, n |-> o.n] : o \in outcome} :
     d.msg = m}

\* Mutant: a call finds the message by its count, wherever it is.
CurrentByCount(d) == count[d.msg] = d.n

Current(d) == status[d.msg] = "leased" /\ count[d.msg] = d.n

-----------------------------------------------------------------------------
(* Fill and its caller.                                                    *)

consumer ==
  <<cancelled, receiving, count, hands, fin, results, lapses, late>>

\* v, ok := <-in
FillTake ==
  /\ fill = "range"
  /\ taken < Cardinality(Messages)
  /\ taken' = taken + 1
  /\ fill' = "publish"
  /\ UNCHANGED <<filled, status, faults, consumer>>

FillPublish ==
  /\ fill = "publish"
  /\ status' = [status EXCEPT ![taken] = "waiting"]
  /\ filled' = filled + 1
  /\ fill' = "range"
  /\ UNCHANGED <<taken, faults, consumer>>

\* Mutant: Fill goes on with the next item.
Skips == "range"

Fails == "failed"

\* Publish returns an error: the message is not in the queue, or is, when only
\* the answer was lost.
FillFails ==
  /\ fill = "publish"
  /\ faults < MaxFaults
  /\ faults' = faults + 1
  /\ status' \in {status, [status EXCEPT ![taken] = "waiting"]}
  /\ fill' = Fails
  /\ UNCHANGED <<taken, filled, consumer>>

\* The source is at its end: Fill returns, and its caller seals the queue.
FillReturns ==
  /\ fill = "range"
  /\ taken = Cardinality(Messages)
  /\ fill' = "sealed"
  /\ UNCHANGED <<taken, filled, status, faults, consumer>>

\* Fill's ctx is done: it returns the error, and nobody seals the queue.
FillCancelled ==
  /\ fill = "range"
  /\ Cancellable
  /\ fill' = "cancelled"
  /\ UNCHANGED <<taken, filled, status, faults, consumer>>

-----------------------------------------------------------------------------
(* The backend.                                                            *)

\* Receive claims the next message and offers it, one at a time.
Deliver(m) ==
  /\ receiving
  /\ status[m] = "waiting"
  /\ offered = {}
  /\ count[m] < MaxCount[m]
  /\ status' = [status EXCEPT ![m] = "leased"]
  /\ count' = [count EXCEPT ![m] = @ + 1]
  /\ offered' = {[msg |-> m, n |-> count[m] + 1]}
  /\ UNCHANGED <<filler, cancelled, receiving, pool, outcome, fin, results,
                 history>>

\* The lease of m runs out and m is redelivered later.
Expire(m) ==
  /\ status[m] = "leased"
  /\ count[m] < MaxCount[m]
  /\ status' = [status EXCEPT ![m] = "waiting"]
  /\ lapses' = [lapses EXCEPT ![m] = @ + 1]
  /\ late' = IF MaxDeliveries > 0 /\ count[m] >= MaxDeliveries
             THEN [late EXCEPT ![m] = @ + 1] ELSE late
  /\ UNCHANGED <<filler, cancelled, receiving, count, hands, fin, results,
                 faults>>

Cancel ==
  /\ Cancellable
  /\ ~cancelled
  /\ cancelled' = TRUE
  /\ UNCHANGED <<filler, receiving, backend, hands, fin, results, history>>

Finalized(m) == status[m] \in {"acked", "dead"}

\* Sealed, nothing waiting and nothing outstanding.
Drained ==
  fill = "sealed" /\ \A m \in Messages : Finalized(m) \/ status[m] = "absent"

\* ctx is done: Receive returns without the message it offers.
ReceiveCancelled ==
  /\ receiving
  /\ cancelled
  /\ receiving' = FALSE
  /\ offered' = {}
  /\ UNCHANGED <<filler, cancelled, backend, pool, outcome, fin, results,
                 history>>

\* The queue is sealed and drained.
ReceiveDrained ==
  /\ receiving
  /\ offered = {}
  /\ Drained
  /\ receiving' = FALSE
  /\ UNCHANGED <<filler, cancelled, backend, hands, fin, results, history>>

-----------------------------------------------------------------------------
(* The engine: Take, Answer, Drop and Close of BoundedPool.                *)

Take ==
  /\ fin # "ended"
  /\ offered # {}
  /\ Cardinality(pool) < Pool
  /\ pool' = pool \cup offered
  /\ offered' = {}
  /\ UNCHANGED <<filler, cancelled, receiving, backend, outcome, fin, results,
                 history>>

\* How an attempt ends: fn succeeds, fails, or is given up at its deadline,
\* with the zero value.
Endings == {"ok", "failed", "deadline"}

\* The outcome carries the message, also of an attempt that was given up.
OutcomeOf(d, ending) == [msg |-> d.msg, n |-> d.n, ok |-> ending = "ok"]

\* runOne's last attempt has ended; the outcome reaches the range.
Processed(d) ==
  /\ d \in pool
  /\ fin = "range"
  /\ \E ending \in Endings :
       /\ ending # "ok" /\ (MaxDeliveries = 0 \/ d.n < MaxDeliveries)
            => d.n < MaxCount[d.msg]
       /\ outcome' = {OutcomeOf(d, ending)}
  /\ pool' = pool \ {d}
  /\ fin' = "finalize"
  /\ UNCHANGED <<filler, cancelled, receiving, backend, offered, results,
                 history>>

\* ctx is done: Process drops the outcome, and the message with it.
Drop(d) ==
  /\ d \in pool
  /\ cancelled
  /\ pool' = pool \ {d}
  /\ UNCHANGED <<filler, cancelled, receiving, backend, offered, outcome, fin,
                 results, history>>

-----------------------------------------------------------------------------
(* The finalizing goroutine.                                               *)

\* A handle's call: it reaches the current delivery, does nothing to an older
\* one, or fails.  Consume ignores which.
Call(o, s) ==
  \/ /\ Current(o)
     /\ status' = [status EXCEPT ![o.msg] = s]
     /\ UNCHANGED history
  \/ ~Current(o) /\ UNCHANGED <<status, history>>
  \/ /\ Current(o) /\ o.n < MaxCount[o.msg]
     /\ faults < MaxFaults
     /\ faults' = faults + 1
     /\ UNCHANGED <<status, lapses, late>>

\* Mutant: a message is dead-lettered one delivery late.
ExhaustedLate(o) == MaxDeliveries > 0 /\ o.n > MaxDeliveries

Exhausted(o) == MaxDeliveries > 0 /\ o.n >= MaxDeliveries

\* Mutant: a message whose attempts failed is acknowledged.
CallsAckOnly(o) == (o.ok \/ Exhausted(o)) /\ Call(o, "acked")

\* Ack or DeadLetter; the Result is emitted next.
Finalizes(o) ==
  \/ o.ok /\ Call(o, "acked")
  \/ ~o.ok /\ Exhausted(o) /\ Call(o, "dead")

FinalizeMessage ==
  /\ fin = "finalize"
  /\ \E o \in outcome : Finalizes(o)
  /\ fin' = "emit"
  /\ UNCHANGED <<filler, cancelled, receiving, count, hands, results>>

\* Mutant: a failed message is left to its lease.
Forget(o) == UNCHANGED <<status, history>>

Requeued(o) == Call(o, "waiting")

\* Nack; redelivered later, no Result.
Requeue ==
  /\ fin = "finalize"
  /\ \E o \in outcome : ~o.ok /\ ~Exhausted(o) /\ Requeued(o)
  /\ outcome' = {}
  /\ fin' = "range"
  /\ UNCHANGED <<filler, cancelled, receiving, count, offered, pool, results>>

\* Mutant: the outcome is left in hand.
HoldOn == UNCHANGED outcome

LetGo == outcome' = {}

Emit ==
  /\ fin = "emit"
  /\ \E o \in outcome : results' = [results EXCEPT ![o.msg] = Append(@, o.ok)]
  /\ LetGo
  /\ fin' = "range"
  /\ UNCHANGED <<filler, cancelled, receiving, backend, offered, pool,
                 history>>

\* Mutant: the select has no case for ctx.Done().
NoDoneCase == FALSE

DoneCase == fin = "emit" /\ cancelled

\* ctx is done: the message is finalized and its Result is not emitted.
ReturnOnCancel ==
  /\ DoneCase
  /\ LetGo
  /\ fin' = "exited"
  /\ UNCHANGED <<filler, cancelled, receiving, backend, offered, pool,
                 results, history>>

\* Process has closed its channel: the source has, or ctx is done, and the
\* workers are idle.
EndOfRange ==
  /\ fin = "range"
  /\ pool = {}
  /\ cancelled \/ (~receiving /\ offered = {})
  /\ fin' = "ended"
  /\ UNCHANGED <<filler, cancelled, receiving, backend, hands, results,
                 history>>

\* The process dies and a new one calls Consume on the same queue.  The
\* Results received so far are kept.
CrashAndRestart ==
  /\ faults < MaxFaults
  /\ fin \notin Exited
  /\ \A m \in Messages :
       (\E d \in InHand(m) : Current(d)) => count[m] < MaxCount[m]
  /\ faults' = faults + 1
  /\ receiving' = TRUE
  /\ offered' = {} /\ pool' = {} /\ outcome' = {}
  /\ fin' = "range"
  /\ UNCHANGED <<filler, cancelled, backend, results, lapses, late>>

ProcessStep == Take \/ FinalizeMessage \/ Requeue \/ EndOfRange

Next ==
  \/ FillTake \/ FillPublish \/ FillFails \/ FillReturns \/ FillCancelled
  \/ \E m \in Messages : Deliver(m) \/ Expire(m)
  \/ Cancel \/ ReceiveCancelled \/ ReceiveDrained
  \/ ProcessStep
  \/ \E d \in pool : Processed(d) \/ Drop(d)
  \/ Emit \/ ReturnOnCancel
  \/ CrashAndRestart

Spec == Init /\ [][Next]_vars

(***************************************************************************)
(* Fairness.  The receiver, the workers and the finalizing goroutine go    *)
(* on, fn returns, leases run out, and the Results are read while ctx is   *)
(* not cancelled.                                                          *)
(***************************************************************************)
Fairness ==
  /\ WF_vars(\E m \in Messages : Deliver(m))
  /\ \A m \in Messages : WF_vars(Expire(m))
  /\ WF_vars(ReceiveCancelled \/ ReceiveDrained)
  /\ WF_vars(\E d \in pool : Processed(d) \/ Drop(d))
  /\ WF_vars(ProcessStep \/ ReturnOnCancel \/ (~cancelled /\ Emit))

FairSpec == Spec /\ Fairness

-----------------------------------------------------------------------------
TypeOK ==
  /\ filled \in 0..taken /\ taken \in 0..Cardinality(Messages)
  /\ fill \in {"range", "publish", "sealed", "failed", "cancelled"}
  /\ cancelled \in BOOLEAN /\ receiving \in BOOLEAN
  /\ status \in [Messages -> {"absent", "waiting", "leased", "acked", "dead"}]
  /\ count \in [Messages -> Nat] /\ \A m \in Messages : count[m] <= MaxCount[m]
  /\ offered \subseteq Delivery /\ Cardinality(offered) <= 1
  /\ pool \subseteq Delivery
  /\ fin \in {"range", "finalize", "emit"} \cup Exited
  /\ outcome \subseteq Outcome
  /\ (fin \in {"finalize", "emit"}) <=> Cardinality(outcome) = 1
  /\ results \in [Messages -> Seq(BOOLEAN)]
  /\ faults \in 0..MaxFaults
  /\ lapses \in [Messages -> Nat] /\ late \in [Messages -> Nat]

\* Without a fault or a cancellation every lease is somebody's: a message this
\* consumer claimed and has let go is finalized or waiting again.
LeasesAreHeld ==
  faults = 0 /\ ~cancelled =>
    \A m \in Messages :
      status[m] = "leased" => \E d \in InHand(m) : Current(d)

\* Only leases that ran out repeat anything: what goes beyond WithMaxDeliveries
\* are deliveries that follow one, at the limit or beyond it, whose lease ran
\* out - Consume itself gives none of them back - and no message has a second
\* Result without a lease of it that ran out.
LapsesExplainRepeats ==
  \A m \in Messages :
    /\ MaxDeliveries > 0 => count[m] <= MaxDeliveries + late[m]
    /\ Len(results[m]) <= 1 + lapses[m]

\* "After `WithMaxDeliveries` deliveries a message is diverted to a dead-letter
\* store instead of looping forever (poison-message defense; a delivery whose
\* consumer crashed counts, on purpose)".  (docs/design/queue.md)  Consume looks
\* at the limit only after fn has returned.
DivertedInTime ==
  \A m \in Messages : MaxDeliveries > 0 => count[m] <= MaxDeliveries

\* What Fill reports is what became of its source: the queue has had the first
\* n items, and of the others it has taken one at most, the one whose Publish
\* is under way or failed.
FillAccountsForAll ==
  LET published == {m \in Messages : status[m] # "absent"} IN
  /\ 1..filled \subseteq published
  /\ published \subseteq IF fill = "failed" THEN 1..taken ELSE 1..filled
  /\ taken = filled + IF fill \in {"publish", "failed"} THEN 1 ELSE 0

\* It "emits one gojob.Result per finalized message (acknowledged or
\* dead-lettered)".  (consume.go)
OneResultPerMessage ==
  \A m \in Messages : Len(results[m]) <= 1

\* As long as no lease of the message ran out, its Result tells what became of
\* it - success that it was acknowledged, failure that it was dead-lettered -
\* or the call failed and the message is still leased.  And what is finalized
\* has a Result, or is about to, without a fault or a cancellation.
ResultMatchesBackend ==
  /\ \A m \in Messages : \A k \in DOMAIN results[m] :
       lapses[m] = 0 =>
         \/ status[m] = IF results[m][k] THEN "acked" ELSE "dead"
         \/ status[m] = "leased" /\ faults > 0
  /\ faults = 0 /\ ~cancelled =>
       \A m \in Messages :
         Finalized(m) /\ results[m] = <<>> =>
           fin = "emit" /\ \E o \in outcome : o.msg = m

Abstract == INSTANCE Delivery WITH
  copies <- [m \in Messages |->
               [waiting |-> IF status[m] = "waiting" THEN 1 ELSE 0,
                held |-> IF status[m] = "leased" THEN 1 ELSE 0,
                acked |-> IF status[m] = "acked" THEN 1 ELSE 0,
                dead |-> IF status[m] = "dead" THEN 1 ELSE 0]],
  count <- [m \in Messages |-> IF Finalized(m) THEN 0 ELSE count[m]],
  open <- ~cancelled

\* The queue that Consume works on is the Delivery the backends implement:
\* nothing that Fill, Consume, a lease, a failing call or a crash does to it
\* duplicates, loses or revives a message.
ImplementsDelivery == Abstract!Spec

\* Consume works a queue off: every message is finalized although leases run
\* out, calls fail and the process crashes and restarts, unless ctx is
\* cancelled.  And it ends, once the queue is sealed and with ctx, whether the
\* Results are read or not.
WorksOff ==
  /\ Abstract!Redelivered
  /\ (fill = "sealed" \/ cancelled) ~> fin \in Exited
=============================================================================
