------------------------------- MODULE Process -------------------------------
(***************************************************************************)
(* The engine of gojob (process.go): a bounded pool of workers that reads  *)
(* items from an input channel, runs fn on each with retries, backoff and  *)
(* a per-attempt timeout, and sends one Result per item on an unbuffered   *)
(* output channel that a closer goroutine closes after the last worker.    *)
(*                                                                         *)
(* A call of fn is an actor of its own: with a timeout, runWithTimeout     *)
(* runs it in a goroutine, and a worker that gives an attempt up leaves    *)
(* that goroutine running.  Values are identified with the call that       *)
(* produced them; time is abstracted: a deadline or a backoff timer may    *)
(* fire at any moment.                                                     *)
(***************************************************************************)
EXTENDS Integers, Sequences, FiniteSets

CONSTANTS
  Workers,      \* the goroutines of the pool (cfg.workers of them)
  Items,        \* the items the source offers, each once
  NoItem,       \* the item of a worker that holds none
  Retries,      \* cfg.retries: the maximum number of attempts per item
  BackoffAfter, \* the attempts after which cfg.backoff returns a delay > 0
  HasTimeout    \* cfg.timeout > 0

ASSUME PoolAssumption == IsFiniteSet(Workers) /\ Workers # {}
ASSUME ItemAssumption == NoItem \notin Items
ASSUME RetryAssumption ==
  Retries \in Nat \ {0} /\ BackoffAfter \subseteq 1..Retries
ASSUME TimeoutAssumption == HasTimeout \in BOOLEAN

VARIABLES
  cancelled,  \* ctx.Done() is closed
  unsent,     \* the items the source has not handed over yet
  inClosed,   \* the input channel is closed
  pc,         \* pc[w]: where worker w stands
  job,        \* job[w]: the Result worker w is building
  calls,      \* calls[c]: the state of the call of fn for attempt c
  abandoned,  \* the attempts their worker stopped waiting for
  wg,         \* the counter of the WaitGroup
  outClosed,  \* the output channel is closed
  results,    \* results[i]: the Results received from out for item i
  dropped     \* the items whose Result a worker discarded on ctx.Done()

source == <<unsent, inClosed>>
pool == <<pc, job>>
attempts == <<calls, abandoned>>
closer == <<wg, outClosed>>
answers == <<results, dropped>>
vars == <<cancelled, source, pool, attempts, closer, answers>>

-----------------------------------------------------------------------------
Calls == [item : Items, attempt : 1..Retries]

\* The zero value of Out: no call produced it.
Zero == [item |-> NoItem, attempt |-> 0]

Errors == {"nil", "fn", "deadline", "canceled"}

Result == [item : Items, val : Calls \cup {Zero}, err : Errors,
           attempts : 0..Retries]

NewJob(i) == [item |-> i, val |-> Zero, err |-> "nil", attempts |-> 0]

\* The attempt worker w is making, or made last.
Attempt(w) == [item |-> job[w].item, attempt |-> job[w].attempts]

Init ==
  /\ cancelled = FALSE
  /\ unsent = Items
  /\ inClosed = FALSE
  /\ pc = [w \in Workers |-> "select"]
  /\ job = [w \in Workers |-> NewJob(NoItem)]
  /\ calls = [c \in Calls |-> "none"]
  /\ abandoned = {}
  /\ wg = Cardinality(Workers)
  /\ outClosed = FALSE
  /\ results = [i \in Items |-> <<>>]
  /\ dropped = {}

-----------------------------------------------------------------------------
(* The environment: the caller's context and the source.                   *)

Cancel ==
  /\ ~cancelled
  /\ cancelled' = TRUE
  /\ UNCHANGED <<source, pool, attempts, closer, answers>>

\* The source closes its channel: after its last item, when ctx is cancelled,
\* or early, as Lines does when it cannot read on.
CloseIn ==
  /\ ~inClosed
  /\ inClosed' = TRUE
  /\ UNCHANGED <<cancelled, unsent, pool, attempts, closer, answers>>

-----------------------------------------------------------------------------
(* A worker's loop.                                                        *)

\* The outer select receives an item; runOne begins.
Take(w) ==
  /\ pc[w] = "select"
  /\ ~inClosed
  /\ \E i \in unsent :
       /\ unsent' = unsent \ {i}
       /\ job' = [job EXCEPT ![w] = NewJob(i)]
  /\ pc' = [pc EXCEPT ![w] = "start"]
  /\ UNCHANGED <<cancelled, inClosed, attempts, closer, answers>>

\* ctx is done or the channel closed.
NoMoreInput == cancelled \/ inClosed

\* The outer select; defer wg.Done().
Exit(w) ==
  /\ pc[w] = "select"
  /\ NoMoreInput
  /\ pc' = [pc EXCEPT ![w] = "exited"]
  /\ wg' = wg - 1
  /\ UNCHANGED <<cancelled, source, job, attempts, outClosed, answers>>

\* One more iteration of the retry loop reaches runWithTimeout and calls fn.
StartAttempt(w) ==
  /\ pc[w] = "start"
  /\ job' = [job EXCEPT ![w].attempts = @ + 1]
  /\ calls' = [calls EXCEPT ![Attempt(w)'] = "running"]
  /\ pc' = [pc EXCEPT ![w] = "await"]
  /\ UNCHANGED <<cancelled, source, abandoned, closer, answers>>

\* Mutant: the loop runs once too often.
AfterAttemptOnceMore(w, e) ==
  IF e = "nil" \/ job[w].attempts > Retries THEN "send"
  ELSE IF job[w].attempts \in BackoffAfter THEN "backoff" ELSE "start"

\* Mutant: the loop does not stop at a success.
AfterAttemptAlways(w, e) ==
  IF job[w].attempts = Retries THEN "send"
  ELSE IF job[w].attempts \in BackoffAfter THEN "backoff" ELSE "start"

\* Where the retry loop goes after the current attempt of w ended with err e.
AfterAttempt(w, e) ==
  IF e = "nil" \/ job[w].attempts = Retries THEN "send"
  ELSE IF job[w].attempts \in BackoffAfter THEN "backoff" ELSE "start"

\* The call returned: directly, or through the attempt's own done channel.
Observe(w) ==
  /\ pc[w] = "await"
  /\ calls[Attempt(w)] \in {"ok", "failed"}
  /\ LET e == IF calls[Attempt(w)] = "ok" THEN "nil" ELSE "fn" IN
       /\ job' = [job EXCEPT ![w].val = Attempt(w), ![w].err = e]
       /\ pc' = [pc EXCEPT ![w] = AfterAttempt(w, e)]
  /\ UNCHANGED <<cancelled, source, attempts, closer, answers>>

\* Mutant: a timeout of zero is a deadline that has passed.
AlwaysTimed == TRUE

\* timeout <= 0: fn is called directly.
Timed == HasTimeout

\* Mutant: only the caller's ctx ends an attempt, not its deadline.
Cancellation == IF cancelled THEN {"canceled"} ELSE {}

\* cctx.Err(): its deadline passed, or ctx was cancelled.
Reasons == {"deadline"} \cup (IF cancelled THEN {"canceled"} ELSE {})

\* Mutant: the value of the attempt before is not reset.
WithOldValue(r, e) == [r EXCEPT !.err = e]

WithZero(r, e) == [r EXCEPT !.val = Zero, !.err = e]

\* The attempt's context is done first.  The call goes on without the worker,
\* which gets a zero value.
GiveUp(w) ==
  /\ pc[w] = "await"
  /\ Timed
  /\ \E e \in Reasons :
       /\ job' = [job EXCEPT ![w] = WithZero(job[w], e)]
       /\ pc' = [pc EXCEPT ![w] = AfterAttempt(w, e)]
  /\ abandoned' = abandoned \cup {Attempt(w)}
  /\ UNCHANGED <<cancelled, source, calls, closer, answers>>

\* The backoff timer fires.
BackoffElapsed(w) ==
  /\ pc[w] = "backoff"
  /\ pc' = [pc EXCEPT ![w] = "start"]
  /\ UNCHANGED <<cancelled, source, job, attempts, closer, answers>>

\* Mutant: the cancelled backoff returns the zero value.
CutShortToZero(r) == [r EXCEPT !.val = Zero, !.err = "canceled"]

\* The value of the last attempt, with ctx.Err().
CutShort(r) == [r EXCEPT !.err = "canceled"]

\* ctx is cancelled during the backoff.
BackoffCancelled(w) ==
  /\ pc[w] = "backoff"
  /\ cancelled
  /\ job' = [job EXCEPT ![w] = CutShort(job[w])]
  /\ pc' = [pc EXCEPT ![w] = "send"]
  /\ UNCHANGED <<cancelled, source, attempts, closer, answers>>

\* The inner select hands the Result to the receiver of out.
Send(w) ==
  /\ pc[w] = "send"
  /\ results' = [results EXCEPT ![job[w].item] = Append(@, job[w])]
  /\ job' = [job EXCEPT ![w] = NewJob(NoItem)]
  /\ pc' = [pc EXCEPT ![w] = "select"]
  /\ UNCHANGED <<cancelled, source, attempts, closer, dropped>>

\* Mutant: a default case, not ctx, ends the inner select.
DropUnread(w) ==
  /\ pc[w] = "send"
  /\ dropped' = dropped \cup {job[w].item}
  /\ job' = [job EXCEPT ![w] = NewJob(NoItem)]
  /\ pc' = [pc EXCEPT ![w] = "exited"]
  /\ wg' = wg - 1
  /\ UNCHANGED <<cancelled, source, attempts, outClosed, results>>

\* The inner select finds ctx done: the Result is dropped; defer wg.Done().
Drop(w) ==
  /\ pc[w] = "send"
  /\ cancelled
  /\ dropped' = dropped \cup {job[w].item}
  /\ job' = [job EXCEPT ![w] = NewJob(NoItem)]
  /\ pc' = [pc EXCEPT ![w] = "exited"]
  /\ wg' = wg - 1
  /\ UNCHANGED <<cancelled, source, attempts, outClosed, results>>

-----------------------------------------------------------------------------
\* fn returns, with an error or without, to a worker that may have left.
Return(c) ==
  /\ calls[c] = "running"
  /\ \E s \in {"ok", "failed"} : calls' = [calls EXCEPT ![c] = s]
  /\ UNCHANGED <<cancelled, source, pool, abandoned, closer, answers>>

\* Mutant: the closer does not wait for the workers, but for the input.
InputDone == inClosed

WaitDone == wg = 0

\* The closer goroutine: wg.Wait() returns, close(out).
CloseOut ==
  /\ WaitDone
  /\ ~outClosed
  /\ outClosed' = TRUE
  /\ UNCHANGED <<cancelled, source, pool, attempts, wg, answers>>

\* What worker w does by itself: every step but the rendezvous on out.
WorkerStep(w) ==
  \/ Take(w) \/ Exit(w)
  \/ StartAttempt(w) \/ Observe(w) \/ GiveUp(w)
  \/ BackoffElapsed(w) \/ BackoffCancelled(w)
  \/ Drop(w)

Next ==
  \/ Cancel \/ CloseIn \/ CloseOut
  \/ \E w \in Workers : WorkerStep(w) \/ Send(w)
  \/ \E c \in Calls : Return(c)

Spec == Init /\ [][Next]_vars

(***************************************************************************)
(* Fairness.  Goroutines that can run do run.  The receiver of out is only *)
(* assumed to read while ctx is not cancelled, the source only to close    *)
(* after its last item, and fn to return only when no timeout bounds it.   *)
(***************************************************************************)
Fairness ==
  /\ \A w \in Workers : WF_vars(WorkerStep(w))
  /\ \A w \in Workers : WF_vars(~cancelled /\ Send(w))
  /\ WF_vars(unsent = {} /\ CloseIn)
  /\ WF_vars(CloseOut)
  /\ \A c \in Calls : WF_vars(~HasTimeout /\ Return(c))

FairSpec == Spec /\ Fairness

-----------------------------------------------------------------------------
TypeOK ==
  /\ cancelled \in BOOLEAN /\ inClosed \in BOOLEAN /\ outClosed \in BOOLEAN
  /\ unsent \subseteq Items /\ dropped \subseteq Items
  /\ pc \in [Workers -> {"select", "start", "await", "backoff", "send",
                         "exited"}]
  /\ job \in [Workers -> Result \cup {NewJob(NoItem)}]
  /\ calls \in [Calls -> {"none", "running", "ok", "failed"}]
  /\ abandoned \subseteq Calls
  /\ wg \in 0..Cardinality(Workers)
  /\ results \in [Items -> Seq(Result)]

Holds(w, i) == job[w].item = i

Held == {i \in Items : \E w \in Workers : Holds(w, i)}

Answered == {i \in Items : results[i] # <<>>}

\* Every item is in exactly one place - still offered, held by one worker,
\* answered by one Result, or dropped - and nothing is dropped unless ctx was
\* cancelled.  (Process: one Result for each item, never two, never lost.)
EachItemOnce ==
  /\ unsent \cup Held \cup Answered \cup dropped = Items
  /\ unsent \cap (Held \cup Answered \cup dropped) = {}
  /\ Held \cap (Answered \cup dropped) = {}
  /\ Answered \cap dropped = {}
  /\ \A i \in Held : \A v, w \in Workers : Holds(v, i) /\ Holds(w, i) => v = w
  /\ \A i \in Items : Len(results[i]) <= 1
  /\ dropped # {} => cancelled

\* No worker can send on, and no closer close again, a closed out channel:
\* out is closed only when every worker has left its loop.  A violation is a
\* Go panic.
NoSendOnClosed ==
  outClosed => \A w \in Workers : pc[w] = "exited"

\* A Result tells the truth about the attempts made: success means that the
\* last attempt, and no attempt the worker had given up, returned without
\* error; an error means that the attempts were exhausted, unless ctx was
\* cancelled; the value is the last attempt's or zero, never that of an
\* earlier or a late call.
Honest(r) ==
  LET last == [item |-> r.item, attempt |-> r.attempts] IN
  /\ r.attempts >= 1
  /\ r.val \in {last, Zero}
  /\ r.err = "nil" => /\ r.val = last
                      /\ calls[last] = "ok"
                      /\ last \notin abandoned
  /\ r.err # "nil" => r.attempts = Retries \/ cancelled

ResultsHonest ==
  \A i \in Items : \A k \in DOMAIN results[i] :
    results[i][k].item = i /\ Honest(results[i][k])

\* fn is called again for an item only after the previous attempt failed or
\* was given up: an observed success is never repeated.
RetryOnlyAfterFailure ==
  \A c \in Calls :
    c.attempt > 1 /\ calls[c] # "none" =>
      LET previous == [c EXCEPT !.attempt = @ - 1] IN
      calls[previous] = "failed" \/ previous \in abandoned

\* Without a timeout the pool bounds the work: never more calls of fn in
\* progress than there are workers, and never two for the same item.
BoundedConcurrency ==
  LET running == {c \in Calls : calls[c] = "running"} IN
  ~HasTimeout =>
    /\ Cardinality(running) <= Cardinality(Workers)
    /\ \A c, d \in running : c.item = d.item => c = d

\* Without a timeout every Result carries the value of its own last attempt,
\* also when it ends in an error or is cut short by ctx.  queue.Consume
\* depends on it: the value holds the message to acknowledge.
HandleKept ==
  ~HasTimeout =>
    \A i \in Items : \A k \in DOMAIN results[i] :
      LET r == results[i][k] IN
      r.val = [item |-> i, attempt |-> r.attempts]

Abstract == INSTANCE BoundedPool WITH
  Size <- Cardinality(Workers),
  held <- Held,
  answered <- [i \in Items |-> Len(results[i])]

\* The retries, backoffs, timeouts and calls left behind, seen from outside,
\* are a bounded pool: an item is taken once while a worker is free, leaves it
\* once, by its one Result or, after a cancellation, without, and out closes
\* when the workers are idle for good.
ImplementsPool == Abstract!Spec

\* Every item is answered, unless ctx is cancelled or the source has ended
\* without it: with a timeout, even if fn never returns.  And the end of the
\* input closes out, as does ctx, whether or not anybody still reads it and
\* whether or not the source closes its channel.
Finishes == Abstract!Answers /\ Abstract!Closes
=============================================================================
