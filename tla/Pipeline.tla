------------------------------- MODULE Pipeline -------------------------------
(***************************************************************************)
(* A run of gojob, from the source to the sinks: a source goroutine (From, *)
(* Lines), Shard, the engine (module Process, with the options of module   *)
(* Options), Tee, and the sinks, each of them WriteJSONL or Drain.  All    *)
(* channels are unbuffered: a send and its receive are one action, and a   *)
(* step of both goroutines.  The engine's actions are those of Process;    *)
(* its environment there - who offers items, closes the input and reads    *)
(* the output - are goroutines here.                                       *)
(*                                                                         *)
(* An item is its position in the source.  With less than two shards Shard *)
(* returns its input; that is the special case of a shard that keeps all.  *)
(***************************************************************************)
EXTENDS Options, Sequences, FiniteSets, SequencesExt

CONSTANTS
  NumItems,    \* what the source has
  NumShards,   \* numShards
  Index,       \* shard
  NumWorkers,  \* WithWorkers
  MaxAttempts, \* WithRetry
  Base,        \* ExpBackoff's base
  MaxDelay,    \* ExpBackoff's max
  NumOuts,     \* Tee's n; one sink reads each output
  Writers      \* the outputs read by WriteJSONL, the others by Drain

ASSUME ShardAssumption ==
  NumItems \in Nat /\ NumShards \in Nat \ {0} /\ Index \in 0..NumShards - 1
ASSUME TeeAssumption == NumOuts \in Nat \ {0} /\ Writers \subseteq 1..NumOuts
ASSUME OptionAssumption == {NumWorkers, MaxAttempts} \subseteq Int
ASSUME DelayAssumption == {Base, MaxDelay} \subseteq 0..MaxDuration

VARIABLES
  \* The engine: the variables of Process.
  cancelled, unsent, inClosed, pc, job, calls, abandoned, wg, outClosed,
  results, dropped,
  sent,        \* how many items the source has handed over
  src,         \* where the source stands: "read", "offer" or "closed"
  i,           \* Shard's counter
  held,        \* the item Shard offers the engine, 0: none
  tee,         \* the output Tee sends on, 0: it waits for its input
  copy,        \* the item whose Result Tee has in hand
  teeClosed,   \* Tee has closed its outputs
  sink,        \* sink[k]: where the sink of output k stands
  got          \* got[k]: the items whose Result sink k has received

\* The items of this shard, by the doc: "the i-th item goes to shard
\* i%numShards", counted from 0.
Mine == {k \in 1..NumItems : (k - 1) % NumShards = Index}

\* runOne asks for a delay after the attempts before the last.
Delayed ==
  {a \in 1..WithRetry(MaxAttempts) : ExpBackoff(Base, MaxDelay, a) > 0}

Workers == 1..WithWorkers(NumWorkers)

Engine == INSTANCE Process WITH
  Items <- Mine, NoItem <- 0, Retries <- WithRetry(MaxAttempts),
  BackoffAfter <- Delayed, HasTimeout <- FALSE

engine == <<cancelled, unsent, inClosed, pc, job, calls, abandoned, wg,
            outClosed, results, dropped>>
upstream == <<sent, src, i, held>>
teeVars == <<tee, copy, teeClosed>>
sinks == <<sink, got>>
vars == <<engine, upstream, teeVars, sinks>>

Sinks == 1..NumOuts

Init ==
  /\ Engine!Init
  /\ sent = 0 /\ src = "read"
  /\ i = 0 /\ held = 0
  /\ tee = 0 /\ copy = 0 /\ teeClosed = FALSE
  /\ sink = [k \in Sinks |-> "reading"]
  /\ got = [k \in Sinks |-> <<>>]

Cancel ==
  /\ Engine!Cancel
  /\ UNCHANGED <<upstream, teeVars, sinks>>

-----------------------------------------------------------------------------
(* The source and Shard.                                                   *)

\* Mutant: only the items of this shard are counted.
AfterSkip == i

AfterItem == i + 1

\* scanner.Scan has read the next item.  From has it at hand.
SourceRead ==
  /\ src = "read" /\ sent < NumItems
  /\ src' = "offer"
  /\ UNCHANGED <<engine, sent, i, held, teeVars, sinks>>

\* out <- item, received by Shard, which keeps it or goes on to the next.
SourceSend ==
  /\ src = "offer"
  /\ ~inClosed /\ held = 0
  /\ src' = "read"
  /\ sent' = sent + 1
  /\ IF i % NumShards = Index
     THEN held' = sent + 1 /\ UNCHANGED i
     ELSE i' = AfterItem /\ UNCHANGED held
  /\ UNCHANGED <<engine, teeVars, sinks>>

\* ctx is done while the source offers an item: only there does it look.
SourceCancelled ==
  /\ src = "offer" /\ cancelled
  /\ src' = "closed"
  /\ UNCHANGED <<engine, sent, i, held, teeVars, sinks>>

\* No next item: the source is at its end, or Lines cannot open it, or its
\* scanner fails.
SourceEnds ==
  /\ src = "read"
  /\ src' = "closed"
  /\ UNCHANGED <<engine, sent, i, held, teeVars, sinks>>

\* A worker receives the item Shard offers.
HandOver(w) ==
  /\ held # 0
  /\ Engine!Take(w)
  /\ job'[w].item = held
  /\ held' = 0
  /\ i' = i + 1
  /\ UNCHANGED <<sent, src, teeVars, sinks>>

\* Shard closes its output at the end of its input, or when ctx is done while
\* it offers an item, which is then nobody's.
ShardReturns ==
  /\ IF held = 0 THEN src = "closed" ELSE cancelled
  /\ Engine!CloseIn
  /\ held' = 0
  /\ UNCHANGED <<sent, src, i, teeVars, sinks>>

-----------------------------------------------------------------------------
(* The engine.                                                             *)

\* What a worker does by itself.
Work(w) ==
  /\ \/ Engine!Exit(w) \/ Engine!StartAttempt(w) \/ Engine!Observe(w)
     \/ Engine!GiveUp(w) \/ Engine!BackoffElapsed(w)
     \/ Engine!BackoffCancelled(w) \/ Engine!Drop(w)
  /\ UNCHANGED <<upstream, teeVars, sinks>>

Return(c) ==
  /\ Engine!Return(c)
  /\ UNCHANGED <<upstream, teeVars, sinks>>

CloseOut ==
  /\ Engine!CloseOut
  /\ UNCHANGED <<upstream, teeVars, sinks>>

\* out <- r, received by Tee.
ResultOut(w) ==
  /\ tee = 0 /\ ~teeClosed
  /\ Engine!Send(w)
  /\ tee' = 1
  /\ copy' = job[w].item
  /\ UNCHANGED <<upstream, teeClosed, sinks>>

-----------------------------------------------------------------------------
(* Tee and the sinks.                                                      *)

\* o <- r, received by the sink of output tee.  Drain is done with it,
\* WriteJSONL has it to write, while Tee goes on.
TeeSend ==
  /\ tee # 0
  /\ sink[tee] = "reading"
  /\ got' = [got EXCEPT ![tee] = Append(@, copy)]
  /\ sink' = IF tee \in Writers THEN [sink EXCEPT ![tee] = "writing"] ELSE sink
  /\ tee' = (tee + 1) % (NumOuts + 1)
  /\ UNCHANGED <<engine, upstream, copy, teeClosed>>

\* WriteJSONL has encoded the Result, or returns the error.
Write(k) ==
  /\ sink[k] = "writing"
  /\ \E s \in {"reading", "failed"} : sink' = [sink EXCEPT ![k] = s]
  /\ UNCHANGED <<engine, upstream, teeVars, got>>

\* What sink k is done with: a WriteJSONL that writes has not written the last
\* Result it received, nor has one that failed.
WorkedOff(k) ==
  IF sink[k] \in {"writing", "failed"} THEN Front(got[k]) ELSE got[k]

\* Mutant: a send to an output does not look at ctx.
Unreleased == FALSE

\* ctx is done while Tee sends.
Released == tee # 0 /\ cancelled

\* Tee returns, and closes its outputs, at the end of its input or with ctx.
TeeReturns ==
  /\ ~teeClosed
  /\ (tee = 0 /\ outClosed) \/ Released
  /\ teeClosed' = TRUE
  /\ tee' = 0
  /\ UNCHANGED <<engine, upstream, copy, sinks>>

\* WriteJSONL finds ctx done.
SinkCancelled(k) ==
  /\ k \in Writers
  /\ sink[k] = "reading"
  /\ cancelled
  /\ sink' = [sink EXCEPT ![k] = "cancelled"]
  /\ UNCHANGED <<engine, upstream, teeVars, got>>

SinkEnds(k) ==
  /\ sink[k] = "reading"
  /\ teeClosed
  /\ sink' = [sink EXCEPT ![k] = "ended"]
  /\ UNCHANGED <<engine, upstream, teeVars, got>>

-----------------------------------------------------------------------------
WorkerStep(w) == HandOver(w) \/ Work(w) \/ ResultOut(w)

Next ==
  \/ Cancel
  \/ SourceRead \/ SourceSend \/ SourceCancelled \/ SourceEnds
  \/ ShardReturns
  \/ \E w \in Workers : WorkerStep(w)
  \/ \E c \in Engine!Calls : Return(c)
  \/ CloseOut
  \/ TeeSend \/ TeeReturns
  \/ \E k \in Sinks : Write(k) \/ SinkCancelled(k) \/ SinkEnds(k)

Spec == Init /\ [][Next]_vars

(***************************************************************************)
(* Fairness.  Goroutines that can run do run, fn returns, and so does a    *)
(* write of WriteJSONL.  A read of the source may block for ever, and      *)
(* nothing makes it end or ctx be cancelled.                               *)
(***************************************************************************)
Fairness ==
  /\ WF_vars(SourceSend \/ SourceCancelled) /\ WF_vars(ShardReturns)
  /\ \A w \in Workers : WF_vars(WorkerStep(w))
  /\ \A c \in Engine!Calls : WF_vars(Return(c))
  /\ WF_vars(CloseOut)
  /\ WF_vars(TeeSend \/ TeeReturns)
  /\ \A k \in Sinks : WF_vars(Write(k) \/ SinkCancelled(k) \/ SinkEnds(k))

FairSpec == Spec /\ Fairness

-----------------------------------------------------------------------------
TypeOK ==
  /\ Engine!TypeOK
  /\ sent \in 0..NumItems /\ src \in {"read", "offer", "closed"}
  /\ i \in 0..sent /\ held \in Mine \cup {0}
  /\ tee \in 0..NumOuts /\ copy \in Mine \cup {0} /\ teeClosed \in BOOLEAN
  /\ sink \in
       [Sinks -> {"reading", "writing", "ended", "cancelled", "failed"}]
  /\ got \in [Sinks -> Seq(Mine)]

\* Without a timeout the pool bounds the work of the whole run.
BoundedConcurrency == Engine!BoundedConcurrency

\* Every Result carries the value of its own last attempt, also after a
\* backoff that ctx cut short.
HandleKept == Engine!HandleKept

\* The delay a worker waits for, and any later one, is exact as long as base *
\* max fits a Duration: a shift that overflows then leaves a multiple of
\* 2^(attempt-1), which is zero, negative or above max.  (ExpBackoff "grows the
\* delay exponentially from base, capped at max"; with a larger max the wrapped
\* value may be a small delay again.)
BackoffIsExact ==
  \A w \in Workers :
    pc[w] = "backoff" => \A a \in job[w].attempts..Width + 3 : DelayIsExact(a)

\* The sinks agree, whichever of them is slow, fails or is cancelled: what one
\* has received, or worked off, begins what another has that is further.  They
\* are one Result apart in what they received, and in what they worked off,
\* but two when the one behind is a WriteJSONL at a Result it has not written,
\* or could not write.  And a sink that saw the end of its stream, without a
\* cancellation, has had one Result for every item of this shard that the
\* source gave, and no other.
SinksAgree ==
  /\ \A k, l \in Sinks :
       /\ Len(got[k]) <= Len(got[l]) =>
            IsPrefix(got[k], got[l]) /\ Len(got[l]) <= Len(got[k]) + 1
       /\ Len(WorkedOff(k)) <= Len(WorkedOff(l)) =>
            /\ IsPrefix(WorkedOff(k), WorkedOff(l))
            /\ Len(WorkedOff(l)) <= Len(WorkedOff(k))
                 + IF sink[k] \in {"writing", "failed"} THEN 2 ELSE 1
  /\ \A k \in Sinks :
       sink[k] = "ended" /\ ~cancelled =>
         /\ {got[k][n] : n \in DOMAIN got[k]} = {m \in Mine : m <= sent}
         /\ Len(got[k]) = Cardinality({m \in Mine : m <= sent})

\* What does not wait for the source has ended.
DownstreamEnded ==
  /\ outClosed /\ teeClosed
  /\ \A k \in Sinks : sink[k] \notin {"reading", "writing"}

Ended == src = "closed" /\ inClosed /\ DownstreamEnded

\* Once ctx is cancelled the engine, Tee and the sinks end, also when the
\* source is blocked in a read, where it does not see ctx.  If reads return,
\* as From's do, the source and Shard end too, wherever they wait; and without
\* a cancellation everything ends with the source, unless WriteJSONL has failed,
\* which leaves what is upstream of it blocked.
PipelineEnds ==
  /\ cancelled ~> DownstreamEnded
  /\ []<>(src # "read") =>
       /\ cancelled ~> Ended
       /\ <>(Ended \/ cancelled \/ \E k \in Writers : sink[k] = "failed")
=============================================================================
