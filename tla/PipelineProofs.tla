---------------------------- MODULE PipelineProofs ----------------------------
(***************************************************************************)
(* The pipeline runs the engine of Process: it implements that module's    *)
(* specification, for any source, shard, options and sinks.  What is       *)
(* proved of the engine in any environment then holds of the whole run,    *)
(* and what the sinks receive follows from it.                             *)
(***************************************************************************)
EXTENDS Pipeline, FiniteSetTheorems, FunctionTheorems, TLAPS

\* The theorems about the engine, with the constants of Engine.
Proved == INSTANCE ProcessProofs WITH
  Items <- Mine, NoItem <- 0, Retries <- WithRetry(MaxAttempts),
  BackoffAfter <- Delayed, HasTimeout <- FALSE

\* The options give the engine what it assumes: WithWorkers and WithRetry
\* replace what is not positive.
LEMMA EngineAssumptions ==
  /\ Proved!PoolAssumption
  /\ Proved!ItemAssumption
  /\ Proved!RetryAssumption
  /\ Proved!TimeoutAssumption
<1>1. Proved!PoolAssumption
  <2>1. WithWorkers(NumWorkers) \in Nat \ {0}
    BY OptionAssumption DEF WithWorkers, Positive
  <2>2. IsFiniteSet(Workers)
    BY <2>1, FS_Interval DEF Workers
  <2>3. Workers # {}
    BY <2>1 DEF Workers
  <2> QED
    BY <2>2, <2>3 DEF Proved!PoolAssumption, Proved!IsFiniteSet, IsFiniteSet
<1>2. Proved!ItemAssumption
  BY DEF Proved!ItemAssumption, Mine
<1>3. Proved!RetryAssumption
  <2>1. WithRetry(MaxAttempts) \in Nat \ {0}
    BY OptionAssumption DEF WithRetry, Positive
  <2>2. Delayed \subseteq 1..WithRetry(MaxAttempts)
    BY DEF Delayed
  <2> QED
    BY <2>1, <2>2 DEF Proved!RetryAssumption
<1>4. Proved!TimeoutAssumption
  BY DEF Proved!TimeoutAssumption
<1> QED
  BY <1>1, <1>2, <1>3, <1>4

\* A step of the pipeline is a step of the engine, or leaves it alone.
LEMMA StepOfEngine == [Next]_vars => [Engine!Next]_(Engine!vars)
<1> SUFFICES ASSUME [Next]_vars
             PROVE  Engine!Next \/ UNCHANGED Engine!vars
  OBVIOUS
<1>0. ASSUME UNCHANGED engine PROVE UNCHANGED Engine!vars
  BY <1>0 DEF engine, Engine!vars, Engine!source, Engine!pool,
     Engine!attempts, Engine!closer, Engine!answers
<1>1. CASE Cancel
  BY <1>1 DEF Cancel, Engine!Next
<1>2. CASE SourceRead \/ SourceSend \/ SourceCancelled \/ SourceEnds
  BY <1>0, <1>2 DEF SourceRead, SourceSend, SourceCancelled, SourceEnds
<1>3. CASE ShardReturns
  BY <1>3 DEF ShardReturns, Engine!Next
<1>4. ASSUME NEW w \in Workers, WorkerStep(w) PROVE Engine!Next
  BY <1>4 DEF WorkerStep, HandOver, Work, ResultOut, Engine!Next,
     Engine!WorkerStep
<1>5. ASSUME NEW c \in Engine!Calls, Return(c) PROVE Engine!Next
  BY <1>5 DEF Return, Engine!Next
<1>6. CASE CloseOut
  BY <1>6 DEF CloseOut, Engine!Next
<1>7. CASE TeeSend \/ TeeReturns
  BY <1>0, <1>7 DEF TeeSend, TeeReturns
<1>8. ASSUME NEW k \in Sinks, Write(k) \/ SinkCancelled(k) \/ SinkEnds(k)
      PROVE  UNCHANGED Engine!vars
  BY <1>0, <1>8 DEF Write, SinkCancelled, SinkEnds
<1>9. CASE UNCHANGED vars
  BY <1>0, <1>9 DEF vars
<1> QED
  BY <1>1, <1>2, <1>3, <1>4, <1>5, <1>6, <1>7, <1>8, <1>9 DEF Next

\* The pipeline implements the engine: its goroutines are an environment that
\* Process allows, and nothing they do is a step Process does not know.
THEOREM RunsEngine == Spec => Engine!Spec
<1>1. Init => Engine!Init
  BY DEF Init
<1> QED
  BY <1>1, StepOfEngine, PTL DEF Spec, Engine!Spec

-----------------------------------------------------------------------------
\* Engine and Proved instantiate Process alike.
LEMMA SameSpec ==
  /\ Engine!Init = Proved!Init
  /\ Engine!Next = Proved!Next
  /\ UNCHANGED Engine!vars <=> UNCHANGED Proved!vars
  BY DEF Engine!Init, Proved!Init, Engine!Cancel, Proved!Cancel,
         Engine!CloseIn, Proved!CloseIn, Engine!Take, Proved!Take,
         Engine!Exit, Proved!Exit, Engine!NoMoreInput, Proved!NoMoreInput,
         Engine!StartAttempt, Proved!StartAttempt, Engine!AfterAttempt,
         Proved!AfterAttempt, Engine!Observe, Proved!Observe, Engine!Timed,
         Proved!Timed, Engine!Reasons, Proved!Reasons, Engine!WithZero,
         Proved!WithZero, Engine!GiveUp, Proved!GiveUp, Engine!BackoffElapsed,
         Proved!BackoffElapsed, Engine!CutShort, Proved!CutShort,
         Engine!BackoffCancelled, Proved!BackoffCancelled, Engine!Send,
         Proved!Send, Engine!Drop, Proved!Drop, Engine!Return, Proved!Return,
         Engine!WaitDone, Proved!WaitDone, Engine!CloseOut, Proved!CloseOut,
         Engine!WorkerStep, Proved!WorkerStep, Engine!Next, Proved!Next,
         Engine!vars, Proved!vars, Engine!source, Proved!source, Engine!pool,
         Proved!pool, Engine!attempts, Proved!attempts, Engine!closer,
         Proved!closer, Engine!answers, Proved!answers, Engine!Calls,
         Proved!Calls, Engine!Zero, Proved!Zero, Engine!NewJob, Proved!NewJob,
         Engine!Attempt, Proved!Attempt, Engine!Cardinality,
         Proved!Cardinality

LEMMA SameProperties ==
  /\ Engine!BoundedConcurrency = Proved!BoundedConcurrency
  /\ Engine!HandleKept = Proved!HandleKept
  /\ Engine!EachItemOnce = Proved!EachItemOnce
  /\ Engine!NoSendOnClosed = Proved!NoSendOnClosed
  BY DEF Engine!BoundedConcurrency, Proved!BoundedConcurrency,
         Engine!HandleKept, Proved!HandleKept, Engine!EachItemOnce,
         Proved!EachItemOnce, Engine!NoSendOnClosed, Proved!NoSendOnClosed,
         Engine!Held, Proved!Held, Engine!Holds, Proved!Holds,
         Engine!Answered, Proved!Answered, Engine!Cardinality,
         Proved!Cardinality, Engine!Calls, Proved!Calls

\* Hence what ProcessProofs shows is about the engine of a pipeline.
LEMMA EngineBehaves == Spec => Proved!Spec
<1>1. Init => Proved!Init
  BY SameSpec DEF Init
<1>2. [Next]_vars => [Proved!Next]_(Proved!vars)
  BY StepOfEngine, SameSpec
<1> QED
  BY <1>1, <1>2, PTL DEF Spec, Proved!Spec

\* WithWorkers bounds the calls of fn in progress in the whole run, and never
\* two of them are for the same item.
THEOREM RunBounded == Spec => []BoundedConcurrency
<1>1. Proved!Spec => []Proved!BoundedConcurrency
  BY Proved!Bounded, EngineAssumptions
     DEF Proved!PoolAssumption, Proved!ItemAssumption, Proved!RetryAssumption,
         Proved!TimeoutAssumption
<1>2. Proved!BoundedConcurrency => BoundedConcurrency
  BY SameProperties DEF BoundedConcurrency
<1> QED
  BY <1>1, <1>2, EngineBehaves, PTL

\* The engine of the run is the bounded pool that reads each item once and
\* answers it once, and closes out when no worker has one.
THEOREM RunIsPool == Spec => Proved!ImplementsPool
<1>1. Proved!Spec => Proved!ImplementsPool
  BY Proved!PoolImplements, EngineAssumptions
     DEF Proved!PoolAssumption, Proved!ItemAssumption, Proved!RetryAssumption,
         Proved!TimeoutAssumption
<1> QED
  BY <1>1, EngineBehaves, PTL

\* Every Result of the run carries the value of its own last attempt.
THEOREM RunKeepsValues == Spec => []HandleKept
<1>1. Proved!Spec => []Proved!HandleKept
  BY Proved!ValuesKept, EngineAssumptions
     DEF Proved!PoolAssumption, Proved!ItemAssumption, Proved!RetryAssumption,
         Proved!TimeoutAssumption
<1>2. Proved!HandleKept => HandleKept
  BY SameProperties DEF HandleKept
<1> QED
  BY <1>1, <1>2, EngineBehaves, PTL

-----------------------------------------------------------------------------
(* What flows from the source to the sinks.                                *)

\* The item Shard offers is the last it received, and i is its position, or
\* that of the next one; after inClosed i is not read any more.
CountInv ==
  /\ sent \in 0..NumItems /\ src \in {"read", "offer", "closed"}
  /\ src = "offer" => sent < NumItems
  /\ i \in 0..sent
  /\ held # 0 => held \in Mine /\ held = sent /\ i = sent - 1 /\ ~inClosed
  /\ held = 0 /\ ~inClosed => i = sent

\* The engine has taken what this shard's items were given, but for the one
\* that is offered, or was when ctx was cancelled.
OfferInv ==
  /\ \A m \in Mine : m > sent => m \in unsent
  /\ ~cancelled => \A m \in unsent : m <= sent => m = held

\* A worker leaves for a reason.
ExitInv == \A w \in Workers : pc[w] = "exited" => cancelled \/ inClosed

Upstream == CountInv /\ OfferInv /\ ExitInv

\* The types of Tee and the sinks.
SinkInv ==
  /\ tee \in 0..NumOuts /\ teeClosed \in BOOLEAN
  /\ copy \in Mine \cup {0} /\ (tee # 0 => copy \in Mine)
  /\ sink \in
       [Sinks -> {"reading", "writing", "ended", "cancelled", "failed"}]
  /\ got \in [Sinks -> Seq(Mine)]
  /\ \A k \in Sinks : sink[k] \in {"writing", "failed"} => got[k] # <<>>
  /\ \A k \in Sinks : sink[k] = "ended" => teeClosed
  /\ teeClosed => tee = 0

\* What output k was given when Tee has given s to all of them, and copy to
\* those before t.
Due(s, t, k) == IF k < t THEN Append(s, copy) ELSE s

\* What Tee was given: each answered item once.
Answers(s, t) ==
  /\ \A m, n \in DOMAIN s : s[m] = s[n] => m = n
  /\ t # 0 => copy \in Mine /\ \A n \in DOMAIN s : s[n] # copy
  /\ \A m \in Mine : results[m] # <<>> <=>
                       (t # 0 /\ m = copy) \/ \E n \in DOMAIN s : s[n] = m

\* When Tee has returned t is where it stood, and the beginning unless ctx
\* was cancelled.
Stands(t) ==
  /\ ~teeClosed => t = tee
  /\ teeClosed /\ ~cancelled => t = 0 /\ outClosed

TeeInv ==
  \E s \in Seq(Mine), t \in 0..NumOuts :
    /\ Stands(t)
    /\ Answers(s, t)
    /\ \A k \in Sinks : got[k] = Due(s, t, k)

FlowInv == Upstream /\ SinkInv /\ TeeInv

\* What the engine's own invariant says of this.
EngineInv ==
  /\ unsent \subseteq Mine /\ DOMAIN pc = Workers /\ DOMAIN job = Workers
  /\ results \in [Mine -> Seq(Engine!Result)]
  /\ \A w \in Workers : pc[w] = "send" =>
       job[w].item \in Mine /\ results[job[w].item] = <<>>
  /\ \A m \in unsent : results[m] = <<>>
  /\ ~cancelled => \A m \in Mine :
       m \in unsent \/ results[m] # <<>> \/ \E w \in Workers : pc[w] # "exited"
  /\ outClosed => \A w \in Workers : pc[w] = "exited"

LEMMA EngineFacts == Proved!IInv /\ Proved!NoSendOnClosed => EngineInv
<1> SUFFICES ASSUME Proved!IInv, Proved!NoSendOnClosed PROVE EngineInv
  OBVIOUS
<1>1. /\ unsent \subseteq Mine /\ DOMAIN pc = Workers /\ DOMAIN job = Workers
      /\ results \in [Mine -> Seq(Engine!Result)]
  BY DEF Proved!IInv, Proved!TypeOK, Proved!Result, Engine!Result, Proved!Calls,
         Engine!Calls, Proved!Zero, Engine!Zero, Proved!Errors, Engine!Errors,
         Workers
<1>2. ASSUME NEW w \in Workers, pc[w] = "send"
      PROVE  job[w].item \in Mine /\ results[job[w].item] = <<>>
  BY <1>2 DEF Proved!IInv, Proved!PlaceInv, Proved!JobInv, Proved!JobOK,
              Proved!Busy, Proved!Result, Workers
<1>3. \A m \in unsent : results[m] = <<>>
  BY DEF Proved!IInv, Proved!PlaceInv
<1>4. ASSUME ~cancelled, NEW m \in Mine
      PROVE  \/ m \in unsent \/ results[m] # <<>>
             \/ \E w \in Workers : pc[w] # "exited"
  BY <1>4 DEF Proved!IInv, Proved!PlaceInv, Proved!Busy, Workers
<1>5. ASSUME outClosed PROVE \A w \in Workers : pc[w] = "exited"
  BY <1>5 DEF Proved!NoSendOnClosed, Workers
<1> QED
  BY <1>1, <1>2, <1>3, <1>4, <1>5 DEF EngineInv

\* What the steps of a worker that are its own leave alone.
LEMMA WorkKeeps ==
  ASSUME EngineInv, NEW w \in Workers, Work(w)
  PROVE  /\ UNCHANGED <<cancelled, inClosed, unsent, results, outClosed>>
         /\ UNCHANGED <<upstream, teeVars, sinks>>
         /\ \A v \in Workers : pc'[v] = "exited" =>
              pc[v] = "exited" \/ cancelled \/ inClosed
<1>1. UNCHANGED <<upstream, teeVars, sinks>>
  BY DEF Work
<1>2. ASSUME Engine!StartAttempt(w) \/ Engine!BackoffElapsed(w)
      PROVE  /\ UNCHANGED <<cancelled, inClosed, unsent, results, outClosed>>
             /\ \E p \in {"await", "start"} : pc' = [pc EXCEPT ![w] = p]
  BY <1>2 DEF Engine!StartAttempt, Engine!BackoffElapsed, Engine!source,
     Engine!closer, Engine!answers
<1>3. ASSUME Engine!Observe(w) \/ Engine!GiveUp(w) \/ Engine!BackoffCancelled(w)
      PROVE  /\ UNCHANGED <<cancelled, inClosed, unsent, results, outClosed>>
             /\ \E p \in {"send", "backoff", "start"} :
                  pc' = [pc EXCEPT ![w] = p]
  BY <1>3 DEF Engine!Observe, Engine!GiveUp, Engine!BackoffCancelled,
     Engine!AfterAttempt, Engine!source, Engine!closer, Engine!answers
<1>4. ASSUME Engine!Exit(w) \/ Engine!Drop(w)
      PROVE  /\ UNCHANGED <<cancelled, inClosed, unsent, results, outClosed>>
             /\ pc' = [pc EXCEPT ![w] = "exited"]
             /\ cancelled \/ inClosed
  BY <1>4 DEF Engine!Exit, Engine!NoMoreInput, Engine!Drop, Engine!source,
     Engine!closer, Engine!answers
<1> QED
  BY <1>1, <1>2, <1>3, <1>4 DEF Work, EngineInv

LEMMA InitFlow == Init => FlowInv
<1> SUFFICES ASSUME Init PROVE FlowInv
  OBVIOUS
<1>0. /\ sent = 0 /\ src = "read" /\ i = 0 /\ held = 0
      /\ tee = 0 /\ copy = 0 /\ teeClosed = FALSE
      /\ sink = [k \in Sinks |-> "reading"] /\ got = [k \in Sinks |-> <<>>]
  BY DEF Init
<1>1. CountInv
  <2>1. 0 \in 0..NumItems /\ 0 \in 0..0
    BY ShardAssumption
  <2> QED
    BY <1>0, <2>1 DEF CountInv
<1>2. OfferInv
  BY ShardAssumption DEF OfferInv, Mine, Init, Engine!Init
<1>3. ExitInv
  BY DEF ExitInv, Workers, Init, Engine!Init
<1>4. SinkInv
  <2>1. <<>> \in Seq(Mine)
    OBVIOUS
  <2>2. got \in [Sinks -> Seq(Mine)]
    BY <1>0, <2>1
  <2>3. 0 \in 0..NumOuts
    BY TeeAssumption
  <2> QED
    BY <1>0, <2>2, <2>3 DEF SinkInv
<1>5. TeeInv
  <2>1. Stands(0)
    BY <1>0 DEF Stands
  <2>2. Answers(<<>>, 0)
    BY DEF Answers, Init, Engine!Init
  <2>3. \A k \in Sinks : got[k] = Due(<<>>, 0, k)
    BY <1>0 DEF Due, Sinks
  <2>4. <<>> \in Seq(Mine) /\ 0 \in 0..NumOuts
    BY TeeAssumption
  <2> QED
    BY <2>1, <2>2, <2>3, <2>4 DEF TeeInv
<1> QED
  BY <1>1, <1>2, <1>3, <1>4, <1>5 DEF FlowInv, Upstream

\* The source hands an item over, or a worker takes what Shard offers.
LEMMA SourceSendKeeps ==
  ASSUME EngineInv, Upstream, SourceSend
  PROVE  Upstream'
<1> USE DEF SourceSend, Upstream, engine
<1>1. CountInv'
  <2>1. sent \in Nat /\ sent + 1 \in 0..NumItems /\ i = sent
    BY ShardAssumption DEF CountInv
  <2>2. CASE i % NumShards = Index
    <3>1. sent + 1 \in Mine
      BY <2>1, <2>2, ShardAssumption DEF Mine
    <3> QED
      BY <2>1, <2>2, <3>1, ShardAssumption DEF CountInv
  <2>3. CASE i % NumShards # Index
    BY <2>1, <2>3, ShardAssumption DEF CountInv, AfterItem
  <2> QED
    BY <2>2, <2>3
<1>2. OfferInv'
  <2>1. sent \in Nat /\ i = sent /\ held = 0 /\ Mine \subseteq Nat \ {0}
    BY ShardAssumption DEF CountInv, Mine
  <2>2. i % NumShards # Index => sent + 1 \notin Mine
    BY <2>1, ShardAssumption DEF Mine
  <2>3. unsent \subseteq Mine
    BY DEF EngineInv
  <2> QED
    BY <2>1, <2>2, <2>3 DEF OfferInv
<1>3. ExitInv'
  BY DEF ExitInv
<1> QED
  BY <1>1, <1>2, <1>3

LEMMA HandOverKeeps ==
  ASSUME EngineInv, Upstream, NEW w \in Workers, HandOver(w)
  PROVE  /\ Upstream'
         /\ UNCHANGED <<cancelled, results, outClosed, teeVars, sinks>>
<1> USE DEF HandOver, Upstream, Engine!Take, Engine!attempts, Engine!closer,
            Engine!answers
<1>1. unsent' = unsent \ {held} /\ cancelled' = cancelled
      /\ inClosed' = inClosed /\ pc' = [pc EXCEPT ![w] = "start"]
  BY DEF EngineInv, Engine!NewJob
<1>2. CountInv'
  BY <1>1, ShardAssumption DEF CountInv
<1>3. OfferInv'
  BY <1>1, ShardAssumption DEF OfferInv, CountInv, Mine, EngineInv
<1>4. ExitInv'
  BY <1>1 DEF ExitInv, EngineInv
<1> QED
  BY <1>2, <1>3, <1>4

LEMMA ShardReturnsKeeps ==
  ASSUME EngineInv, Upstream, ShardReturns
  PROVE  /\ Upstream'
         /\ UNCHANGED <<cancelled, results, outClosed, teeVars, sinks>>
<1> USE DEF ShardReturns, Upstream, Engine!CloseIn, Engine!pool,
            Engine!attempts, Engine!closer, Engine!answers
<1>1. CountInv'
  BY DEF CountInv
<1>2. OfferInv'
  BY DEF OfferInv
<1>3. ExitInv'
  BY DEF ExitInv
<1> QED
  BY <1>1, <1>2, <1>3

\* A step that leaves the source, Shard and the engine's input alone.
LEMMA UpstreamKept ==
  ASSUME Upstream, UNCHANGED <<upstream, inClosed, unsent>>,
         cancelled => cancelled',
         \A w \in Workers : pc'[w] = "exited" =>
           pc[w] = "exited" \/ cancelled \/ inClosed
  PROVE  Upstream'
<1> USE DEF Upstream, upstream
<1>1. CountInv'
  BY DEF CountInv
<1>2. OfferInv'
  BY DEF OfferInv
<1>3. ExitInv'
  BY DEF ExitInv
<1> QED
  BY <1>1, <1>2, <1>3

LEMMA NextUpstream == EngineInv /\ Upstream /\ [Next]_vars => Upstream'
<1> SUFFICES ASSUME EngineInv, Upstream, [Next]_vars PROVE Upstream'
  OBVIOUS
<1>1. CASE Cancel
  BY <1>1, UpstreamKept DEF Cancel, Engine!Cancel, Engine!source, Engine!pool,
     upstream
<1>2. CASE SourceSend
  BY <1>2, SourceSendKeeps
<1>3. CASE SourceRead \/ SourceCancelled \/ SourceEnds
  <2>1. /\ UNCHANGED <<engine, sent, i, held>>
        /\ src' = "closed" \/ (src' = "offer" /\ sent < NumItems)
    BY <1>3 DEF SourceRead, SourceCancelled, SourceEnds
  <2> QED
    BY <2>1 DEF Upstream, CountInv, OfferInv, ExitInv, engine
<1>4. CASE ShardReturns
  BY <1>4, ShardReturnsKeeps
<1>5. ASSUME NEW w \in Workers, HandOver(w) PROVE Upstream'
  BY <1>5, HandOverKeeps
<1>6. ASSUME NEW w \in Workers, Work(w) PROVE Upstream'
  BY <1>6, WorkKeeps, UpstreamKept
<1>7. ASSUME NEW w \in Workers, ResultOut(w) PROVE Upstream'
  <2>1. /\ UNCHANGED <<upstream, cancelled, inClosed, unsent>>
        /\ pc' = [pc EXCEPT ![w] = "select"]
    BY <1>7 DEF ResultOut, Engine!Send, Engine!source
  <2> QED
    BY <2>1, UpstreamKept DEF EngineInv
<1>8. ASSUME NEW c \in Engine!Calls, Return(c) PROVE Upstream'
  BY <1>8, UpstreamKept DEF Return, Engine!Return, Engine!source, Engine!pool,
     upstream
<1>9. CASE CloseOut
  BY <1>9, UpstreamKept DEF CloseOut, Engine!CloseOut, Engine!source,
     Engine!pool, upstream
<1>10. CASE \/ TeeSend \/ TeeReturns
            \/ \E k \in Sinks : Write(k) \/ SinkCancelled(k) \/ SinkEnds(k)
            \/ UNCHANGED vars
  <2>1. UNCHANGED <<engine, upstream>>
    BY <1>10 DEF TeeSend, TeeReturns, Write, SinkCancelled, SinkEnds, vars
  <2> QED
    BY <2>1, UpstreamKept DEF engine, upstream
<1> QED
  BY <1>1, <1>2, <1>3, <1>4, <1>5, <1>6, <1>7, <1>8, <1>9, <1>10
     DEF Next, WorkerStep

\* Every action but those of Tee and the sinks.
LEMMA EngineStep ==
  ASSUME EngineInv, Upstream,
         \/ Cancel
         \/ SourceRead \/ SourceSend \/ SourceCancelled \/ SourceEnds
         \/ ShardReturns
         \/ \E w \in Workers : HandOver(w) \/ Work(w)
         \/ \E c \in Engine!Calls : Return(c)
         \/ CloseOut
  PROVE  /\ UNCHANGED <<results, teeVars, sinks>>
         /\ cancelled => cancelled'
         /\ outClosed => outClosed'
<1>1. CASE Cancel
  BY <1>1 DEF Cancel, Engine!Cancel, Engine!closer, Engine!answers
<1>2. CASE SourceRead \/ SourceSend \/ SourceCancelled \/ SourceEnds
  BY <1>2 DEF SourceRead, SourceSend, SourceCancelled, SourceEnds, engine
<1>3. CASE ShardReturns
  BY <1>3, ShardReturnsKeeps
<1>4. ASSUME NEW w \in Workers, HandOver(w)
      PROVE  /\ UNCHANGED <<results, teeVars, sinks>>
             /\ cancelled => cancelled'
             /\ outClosed => outClosed'
  BY <1>4, HandOverKeeps
<1>5. ASSUME NEW w \in Workers, Work(w)
      PROVE  /\ UNCHANGED <<results, teeVars, sinks>>
             /\ cancelled => cancelled'
             /\ outClosed => outClosed'
  BY <1>5, WorkKeeps
<1>6. ASSUME NEW c \in Engine!Calls, Return(c)
      PROVE  /\ UNCHANGED <<results, teeVars, sinks>>
             /\ cancelled => cancelled'
             /\ outClosed => outClosed'
  BY <1>6 DEF Return, Engine!Return, Engine!closer, Engine!answers
<1>7. CASE CloseOut
  BY <1>7 DEF CloseOut, Engine!CloseOut, Engine!answers
<1> QED
  BY <1>1, <1>2, <1>3, <1>4, <1>5, <1>6, <1>7

LEMMA NextSink == EngineInv /\ Upstream /\ SinkInv /\ [Next]_vars => SinkInv'
<1> SUFFICES ASSUME EngineInv, Upstream, SinkInv, [Next]_vars PROVE SinkInv'
  OBVIOUS
<1> USE DEF SinkInv, teeVars, sinks
<1>1. ASSUME UNCHANGED <<teeVars, sinks>> PROVE SinkInv'
  BY <1>1
<1>2. ASSUME NEW w \in Workers, ResultOut(w) PROVE SinkInv'
  <2>1. job[w].item \in Mine /\ 1 \in 0..NumOuts
    BY <1>2, TeeAssumption DEF ResultOut, Engine!Send, EngineInv
  <2> QED
    BY <1>2, <2>1 DEF ResultOut
<1>3. CASE TeeSend
  <2>1. /\ tee \in Sinks /\ copy \in Mine
        /\ UNCHANGED <<copy, teeClosed>>
        /\ (tee + 1) % (NumOuts + 1) \in 0..NumOuts
        /\ ~teeClosed
    BY <1>3, TeeAssumption DEF TeeSend, Sinks
  <2>2. Append(got[tee], copy) \in Seq(Mine) /\ Append(got[tee], copy) # <<>>
    BY <2>1
  <2>3. got' = [got EXCEPT ![tee] = Append(got[tee], copy)]
    BY <1>3 DEF TeeSend
  <2>4. /\ got' \in [Sinks -> Seq(Mine)]
        /\ got'[tee] # <<>> /\ \A k \in Sinks : k # tee => got'[k] = got[k]
    BY <2>1, <2>2, <2>3
  <2>5. /\ sink' \in
             [Sinks -> {"reading", "writing", "ended", "cancelled", "failed"}]
        /\ \A k \in Sinks : k # tee => sink'[k] = sink[k]
        /\ sink'[tee] # "ended"
    BY <1>3, <2>1 DEF TeeSend
  <2> QED
    BY <1>3, <2>1, <2>4, <2>5 DEF TeeSend
<1>4. CASE TeeReturns
  BY <1>4, TeeAssumption DEF TeeReturns
<1>5. ASSUME NEW k \in Sinks, Write(k) \/ SinkCancelled(k) \/ SinkEnds(k)
      PROVE  SinkInv'
  <2>0. CASE Write(k)
    BY <2>0 DEF Write
  <2>1. CASE SinkCancelled(k)
    BY <2>1 DEF SinkCancelled
  <2>2. CASE SinkEnds(k)
    BY <2>2 DEF SinkEnds
  <2> QED
    BY <1>5, <2>0, <2>1, <2>2
<1>6. CASE UNCHANGED vars
  BY <1>1, <1>6 DEF vars
<1> QED
  BY <1>1, <1>2, <1>3, <1>4, <1>5, <1>6, EngineStep DEF Next, WorkerStep

-----------------------------------------------------------------------------
(* Tee and what it has given.                                              *)

LEMMA ResultOutKeeps ==
  ASSUME EngineInv, SinkInv, TeeInv, NEW w \in Workers, ResultOut(w)
  PROVE  TeeInv'
<1> DEFINE x == job[w].item
<1>1. PICK s \in Seq(Mine), t \in 0..NumOuts :
        /\ Stands(t)
        /\ Answers(s, t)
        /\ \A k \in Sinks : got[k] = Due(s, t, k)
  BY DEF TeeInv
<1>2. t = 0 /\ tee' = 1 /\ teeClosed' = teeClosed /\ ~teeClosed /\ copy' = x
  BY <1>1 DEF ResultOut, Stands
<1>3. /\ x \in Mine /\ results[x] = <<>>
      /\ results' = [results EXCEPT ![x] = Append(@, job[w])]
  BY DEF ResultOut, Engine!Send, EngineInv
<1>4. results'[x] # <<>> /\ \A m \in Mine : m # x => results'[m] = results[m]
  <2>1. Append(<<>>, job[w]) # <<>>
    OBVIOUS
  <2> QED
    BY <1>3, <2>1 DEF EngineInv
<1>5. Stands(1)'
  BY <1>2 DEF Stands
<1>6. Answers(s, 1)'
  <2>1. \A n \in DOMAIN s : s[n] # x
    BY <1>1, <1>3 DEF Answers
  <2>2. \A m \in Mine : results'[m] # <<>> <=>
                          m = x \/ \E n \in DOMAIN s : s[n] = m
    BY <1>1, <1>2, <1>3, <1>4 DEF Answers
  <2> QED
    BY <1>1, <1>2, <1>3, <2>1, <2>2 DEF Answers
<1>7. ASSUME NEW k \in Sinks PROVE (got[k] = Due(s, 1, k))'
  BY <1>1, <1>2 DEF Due, ResultOut, sinks, Sinks
<1>8. 1 \in 0..NumOuts
  BY TeeAssumption
<1> QED
  BY <1>5, <1>6, <1>7, <1>8 DEF TeeInv

LEMMA TeeSendKeeps ==
  ASSUME SinkInv, TeeInv, TeeSend
  PROVE  TeeInv'
<1>1. PICK s \in Seq(Mine), t \in 0..NumOuts :
        /\ Stands(t)
        /\ Answers(s, t)
        /\ \A k \in Sinks : got[k] = Due(s, t, k)
  BY DEF TeeInv
<1>2. /\ t = tee /\ t \in Sinks /\ t \in 1..NumOuts /\ copy \in Mine
      /\ ~teeClosed /\ ~teeClosed' /\ copy' = copy /\ results' = results
      /\ sink[t] = "reading"
      /\ tee' = (t + 1) % (NumOuts + 1)
  BY <1>1, TeeAssumption DEF TeeSend, Stands, SinkInv, Sinks, engine
<1>3. got[t] = s
  BY <1>1, <1>2 DEF Due
<1>4. got'[t] = Append(s, copy)
  BY <1>2, <1>3 DEF TeeSend, SinkInv
<1>5. \A k \in Sinks : k # t => got'[k] = got[k]
  BY <1>2 DEF TeeSend, SinkInv
<1>6. ASSUME NEW k \in Sinks
      PROVE  got'[k] = IF k < t + 1 THEN Append(s, copy) ELSE s
  <2>1. CASE k = t
    <3>1. k < t + 1
      BY <1>2, <2>1, TeeAssumption
    <3>2. got'[k] = Append(s, copy)
      BY <1>4, <2>1
    <3> QED
      BY <3>1, <3>2
  <2>2. CASE k # t
    <3>1. k < t + 1 <=> k < t
      BY <1>2, <2>2, TeeAssumption DEF Sinks
    <3> QED
      BY <1>1, <1>2, <1>5, <2>2, <3>1 DEF Due
  <2> QED
    BY <2>1, <2>2
<1>7. CASE t < NumOuts
  <2>1. tee' = t + 1 /\ t + 1 \in 0..NumOuts
    BY <1>2, <1>7, TeeAssumption
  <2>2. Stands(t + 1)'
    BY <1>2, <2>1 DEF Stands
  <2>3. Answers(s, t + 1)'
    BY <1>1, <1>2 DEF Answers
  <2>4. \A k \in Sinks : (got[k] = Due(s, t + 1, k))'
    BY <1>2, <1>6 DEF Due
  <2> QED
    BY <2>1, <2>2, <2>3, <2>4 DEF TeeInv
<1>8. CASE t = NumOuts
  <2>0. PICK a \in Seq(Mine) : a = Append(s, copy)
    <3>1. Append(s, copy) \in Seq(Mine)
      BY <1>2
    <3> QED
      BY <3>1
  <2>1. tee' = 0 /\ 0 \in 0..NumOuts
    BY <1>2, <1>8, TeeAssumption
  <2>2. Stands(0)'
    BY <1>2, <2>1 DEF Stands
  <2>3. /\ DOMAIN s = 1..Len(s)
        /\ DOMAIN a = 1..Len(s) + 1
        /\ a[Len(s) + 1] = copy /\ \A n \in 1..Len(s) : a[n] = s[n]
    BY <1>2, <2>0
  <2>4. Answers(a, 0)'
    <3>1. Len(s) \in Nat
      OBVIOUS
    <3>2. \A m, n \in DOMAIN a : a[m] = a[n] => m = n
      BY <1>1, <1>2, <2>3, <3>1 DEF Answers
    <3>3. \A m \in Mine : (\E n \in DOMAIN a : a[n] = m)
                            <=> m = copy \/ \E n \in DOMAIN s : s[n] = m
      BY <2>3, <3>1
    <3>4. \A m \in Mine : results[m] # <<>>
                            <=> m = copy \/ \E n \in DOMAIN s : s[n] = m
      BY <1>1, <1>2 DEF Answers
    <3> QED
      BY <1>2, <3>2, <3>3, <3>4 DEF Answers
  <2>5. ASSUME NEW k \in Sinks PROVE (got[k] = Due(a, 0, k))'
    <3>1. k < t + 1 /\ ~(k < 0)
      BY <1>8, TeeAssumption DEF Sinks
    <3> QED
      BY <1>2, <1>6, <2>0, <3>1 DEF Due
  <2> QED
    BY <2>1, <2>2, <2>4, <2>5 DEF TeeInv
<1> QED
  BY <1>2, <1>7, <1>8, TeeAssumption

LEMMA NextTee ==
  EngineInv /\ Upstream /\ SinkInv /\ TeeInv /\ [Next]_vars => TeeInv'
<1> SUFFICES ASSUME EngineInv, Upstream, SinkInv, TeeInv, [Next]_vars
             PROVE  TeeInv'
  OBVIOUS
<1>1. PICK s \in Seq(Mine), t \in 0..NumOuts :
        /\ Stands(t)
        /\ Answers(s, t)
        /\ \A k \in Sinks : got[k] = Due(s, t, k)
  BY DEF TeeInv
<1>2. ASSUME UNCHANGED <<results, copy, got>>, Stands(t)'
      PROVE  TeeInv'
  <2>1. Answers(s, t)'
    BY <1>1, <1>2 DEF Answers
  <2>2. \A k \in Sinks : (got[k] = Due(s, t, k))'
    BY <1>1, <1>2 DEF Due
  <2> QED
    BY <1>2, <2>1, <2>2 DEF TeeInv
<1>3. ASSUME UNCHANGED <<results, teeVars, sinks>>, cancelled => cancelled',
             outClosed => outClosed'
      PROVE  TeeInv'
  BY <1>1, <1>2, <1>3 DEF Stands, teeVars, sinks
<1>4. ASSUME NEW w \in Workers, ResultOut(w) PROVE TeeInv'
  BY <1>4, ResultOutKeeps
<1>5. CASE TeeSend
  BY <1>5, TeeSendKeeps
<1>6. CASE TeeReturns
  <2>1. Stands(t)'
    BY <1>1, <1>6 DEF TeeReturns, Released, Stands, engine
  <2> QED
    BY <1>2, <1>6, <2>1 DEF TeeReturns, engine, sinks
<1>7. ASSUME NEW k \in Sinks, Write(k) \/ SinkCancelled(k) \/ SinkEnds(k)
      PROVE  TeeInv'
  <2>1. Stands(t)' /\ UNCHANGED <<results, copy, got>>
    BY <1>1, <1>7 DEF Write, SinkCancelled, SinkEnds, Stands, engine, teeVars
  <2> QED
    BY <1>2, <2>1
<1>8. CASE UNCHANGED vars
  BY <1>3, <1>8 DEF vars, engine
<1> QED
  BY <1>3, <1>4, <1>5, <1>6, <1>7, <1>8, EngineStep DEF Next, WorkerStep

\* The flow follows from the engine's invariant and its own.
LEMMA Flows == Spec => [](EngineInv /\ FlowInv)
<1>1. Proved!Spec => []Proved!IInv
  BY Proved!Inductive, EngineAssumptions
     DEF Proved!PoolAssumption, Proved!ItemAssumption, Proved!RetryAssumption,
         Proved!TimeoutAssumption
<1>2. Proved!Spec => []Proved!NoSendOnClosed
  BY Proved!CloseIsSafe, EngineAssumptions
     DEF Proved!PoolAssumption, Proved!ItemAssumption, Proved!RetryAssumption,
         Proved!TimeoutAssumption
<1>3. EngineInv /\ FlowInv /\ [Next]_vars => FlowInv'
  BY NextUpstream, NextSink, NextTee DEF FlowInv
<1> QED
  BY <1>1, <1>2, <1>3, EngineBehaves, EngineFacts, InitFlow, PTL DEF Spec

\* Shard offers items of its own, Tee and the sinks pass on nothing else, and
\* the engine in the middle keeps its types.
THEOREM TypeCorrect == Spec => []TypeOK
<1>1. Proved!Spec => []Proved!TypeOK
  BY Proved!TypeCorrect, EngineAssumptions
     DEF Proved!PoolAssumption, Proved!ItemAssumption, Proved!RetryAssumption,
         Proved!TimeoutAssumption
<1>2. Proved!TypeOK => Engine!TypeOK
  BY DEF Proved!TypeOK, Engine!TypeOK, Proved!Result, Engine!Result,
         Proved!Calls, Engine!Calls, Proved!Zero, Engine!Zero, Proved!Errors,
         Engine!Errors, Proved!NewJob, Engine!NewJob, Proved!Cardinality,
         Engine!Cardinality
<1>3. Engine!TypeOK /\ FlowInv => TypeOK
  BY DEF TypeOK, FlowInv, Upstream, CountInv, SinkInv
<1> QED
  BY <1>1, <1>2, <1>3, Flows, EngineBehaves, PTL

\* A sequence without repetitions is as long as the set of its elements.
LEMMA LengthOfDistinct ==
  ASSUME NEW S, NEW s \in Seq(S), \A m, n \in DOMAIN s : s[m] = s[n] => m = n
  PROVE  Len(s) = Cardinality({s[n] : n \in DOMAIN s})
<1> DEFINE T == {s[n] : n \in DOMAIN s}
<1>1. IsFiniteSet(1..Len(s)) /\ Cardinality(1..Len(s)) = Len(s)
  <2>1. 1 \in Int /\ Len(s) \in Int /\ Len(s) >= 0
    OBVIOUS
  <2> QED
    BY <2>1, FS_Interval, SMTT(60)
<1>2. DOMAIN s = 1..Len(s)
  OBVIOUS
<1>3. s \in Bijection(1..Len(s), T)
  BY <1>2 DEF Bijection, Injection, Surjection, IsInjective
<1>4. ExistsBijection(1..Len(s), T)
  BY <1>3 DEF ExistsBijection
<1> QED
  BY <1>1, <1>4, FS_Bijection

\* Two beginnings of a sequence: the shorter begins the longer.
LEMMA Beginnings ==
  ASSUME NEW a, NEW x \in Seq(Mine), NEW y \in Seq(Mine), Len(x) <= Len(y),
         \A n \in 1..Len(x) : x[n] = a[n], \A n \in 1..Len(y) : y[n] = a[n]
  PROVE  IsPrefix(x, y)
<1>1. Len(x) \in Nat /\ Len(y) \in Nat
  OBVIOUS
<1>2. \A n \in 1..Len(x) : x[n] = y[n]
  BY <1>1
<1>3. SubSeq(x, 1, Len(x)) = SubSeq(y, 1, Len(x))
  BY <1>1, <1>2
<1> QED
  BY <1>3 DEF IsPrefix

\* A sink has received what Tee has given all of them, or copy as well; it is
\* done with that, but a WriteJSONL at a Result not with the last of it.
LEMMA HasReceived ==
  ASSUME SinkInv, NEW s \in Seq(Mine), NEW t \in 0..NumOuts,
         \A k \in Sinks : got[k] = Due(s, t, k), NEW k \in Sinks
  PROVE  /\ got[k] \in Seq(Mine) /\ WorkedOff(k) \in Seq(Mine)
         /\ Len(got[k]) \in {Len(s), Len(s) + 1}
         /\ Len(WorkedOff(k)) \in Nat
         /\ Len(got[k]) = Len(WorkedOff(k)) +
              IF sink[k] \in {"writing", "failed"} THEN 1 ELSE 0
         /\ \A n \in 1..Len(got[k]) : got[k][n] = Append(s, copy)[n]
         /\ \A n \in 1..Len(WorkedOff(k)) :
              WorkedOff(k)[n] = Append(s, copy)[n]
<1> DEFINE a == Append(s, copy)
<1>1. /\ Len(s) \in Nat /\ Len(a) = Len(s) + 1
      /\ \A n \in 1..Len(s) : a[n] = s[n]
  OBVIOUS
<1> HIDE DEF a
<1>2. got[k] \in Seq(Mine) /\ Len(got[k]) \in Nat
  BY DEF SinkInv
<1>3. /\ Len(got[k]) \in {Len(s), Len(s) + 1}
      /\ \A n \in 1..Len(got[k]) : got[k][n] = a[n]
  <2>1. got[k] = s \/ got[k] = a
    BY DEF Due, a
  <2> QED
    BY <1>1, <2>1
<1>4. CASE sink[k] \in {"writing", "failed"}
  <2>1. WorkedOff(k) = SubSeq(got[k], 1, Len(got[k]) - 1)
    BY <1>4 DEF WorkedOff, Front
  <2>2. Len(got[k]) > 0
    BY <1>2, <1>4 DEF SinkInv
  <2>3. /\ WorkedOff(k) \in Seq(Mine)
        /\ Len(WorkedOff(k)) = Len(got[k]) - 1
        /\ \A n \in 1..Len(got[k]) - 1 : WorkedOff(k)[n] = got[k][n]
    BY <1>2, <2>1, <2>2
  <2> QED
    BY <1>2, <1>3, <1>4, <2>2, <2>3 DEF a
<1>5. CASE sink[k] \notin {"writing", "failed"}
  <2>1. WorkedOff(k) = got[k]
    BY <1>5 DEF WorkedOff
  <2> QED
    BY <1>2, <1>3, <1>5, <2>1 DEF a
<1> QED
  BY <1>4, <1>5

\* Hence two sinks are in step.
LEMMA Agree ==
  ASSUME SinkInv, NEW s \in Seq(Mine), NEW t \in 0..NumOuts,
         \A k \in Sinks : got[k] = Due(s, t, k),
         NEW k \in Sinks, NEW l \in Sinks
  PROVE  /\ Len(got[k]) <= Len(got[l]) =>
              IsPrefix(got[k], got[l]) /\ Len(got[l]) <= Len(got[k]) + 1
         /\ Len(WorkedOff(k)) <= Len(WorkedOff(l)) =>
              /\ IsPrefix(WorkedOff(k), WorkedOff(l))
              /\ Len(WorkedOff(l)) <= Len(WorkedOff(k))
                   + IF sink[k] \in {"writing", "failed"} THEN 2 ELSE 1
<1> DEFINE behind(j) == IF sink[j] \in {"writing", "failed"} THEN 1 ELSE 0
<1>1. PICK a : a = Append(s, copy)
  OBVIOUS
<1>2. ASSUME NEW j \in Sinks
      PROVE  /\ got[j] \in Seq(Mine) /\ WorkedOff(j) \in Seq(Mine)
             /\ Len(got[j]) \in {Len(s), Len(s) + 1}
             /\ Len(WorkedOff(j)) \in Nat
             /\ Len(got[j]) = Len(WorkedOff(j)) + behind(j)
             /\ \A n \in 1..Len(got[j]) : got[j][n] = a[n]
             /\ \A n \in 1..Len(WorkedOff(j)) : WorkedOff(j)[n] = a[n]
  <2>1. /\ got[j] \in Seq(Mine) /\ WorkedOff(j) \in Seq(Mine)
        /\ Len(got[j]) \in {Len(s), Len(s) + 1}
        /\ Len(WorkedOff(j)) \in Nat
        /\ Len(got[j]) = Len(WorkedOff(j)) +
             IF sink[j] \in {"writing", "failed"} THEN 1 ELSE 0
        /\ \A n \in 1..Len(got[j]) : got[j][n] = Append(s, copy)[n]
        /\ \A n \in 1..Len(WorkedOff(j)) :
             WorkedOff(j)[n] = Append(s, copy)[n]
    BY HasReceived
  <2> QED
    BY <1>1, <2>1
<1>3. ASSUME Len(got[k]) <= Len(got[l]) PROVE IsPrefix(got[k], got[l])
  <2>1. PICK x, y \in Seq(Mine) : x = got[k] /\ y = got[l]
    BY <1>2
  <2>2. /\ Len(x) <= Len(y)
        /\ \A n \in 1..Len(x) : x[n] = a[n]
        /\ \A n \in 1..Len(y) : y[n] = a[n]
    BY <1>2, <1>3, <2>1
  <2>3. IsPrefix(x, y)
    BY <2>2, Beginnings
  <2> QED
    BY <2>1, <2>3
<1>4. ASSUME Len(WorkedOff(k)) <= Len(WorkedOff(l))
      PROVE  IsPrefix(WorkedOff(k), WorkedOff(l))
  <2>1. PICK x, y \in Seq(Mine) : x = WorkedOff(k) /\ y = WorkedOff(l)
    BY <1>2
  <2>2. /\ Len(x) <= Len(y)
        /\ \A n \in 1..Len(x) : x[n] = a[n]
        /\ \A n \in 1..Len(y) : y[n] = a[n]
    BY <1>2, <1>4, <2>1
  <2>3. IsPrefix(x, y)
    BY <2>2, Beginnings
  <2> QED
    BY <2>1, <2>3
<1>5. Len(s) \in Nat
  OBVIOUS
<1>6. Len(got[l]) <= Len(got[k]) + 1
  BY <1>2, <1>5
<1>7. Len(WorkedOff(l)) <= Len(WorkedOff(k))
        + IF sink[k] \in {"writing", "failed"} THEN 2 ELSE 1
  <2>1. Len(WorkedOff(l)) <= Len(got[l])
    <3>1. behind(l) \in {0, 1} /\ Len(WorkedOff(l)) \in Nat
      BY <1>2
    <3>2. Len(got[l]) = Len(WorkedOff(l)) + behind(l)
      BY <1>2
    <3> HIDE DEF behind
    <3> QED
      BY <3>1, <3>2
  <2>2. Len(WorkedOff(l)) <= Len(WorkedOff(k)) + behind(k) + 1
    <3>1. /\ Len(got[l]) \in Nat /\ Len(WorkedOff(l)) \in Nat
          /\ Len(WorkedOff(k)) \in Nat /\ behind(k) \in Nat
      BY <1>2, <1>5
    <3>2. Len(got[k]) = Len(WorkedOff(k)) + behind(k)
      BY <1>2
    <3> QED
      BY <1>6, <2>1, <3>1, <3>2
  <2> QED
    BY <1>2, <2>2
<1> QED
  BY <1>3, <1>4, <1>6, <1>7

\* When the stream has ended, without a cancellation, the engine has answered
\* what the source gave of this shard's items.
LEMMA AllAnswered ==
  ASSUME EngineInv, Upstream, outClosed, ~cancelled, NEW m \in Mine
  PROVE  results[m] # <<>> <=> m <= sent
<1>1. \A w \in Workers : pc[w] = "exited"
  BY DEF EngineInv
<1>2. inClosed
  <2>1. Workers # {}
    BY EngineAssumptions DEF Proved!PoolAssumption, Workers
  <2> QED
    BY <1>1, <2>1 DEF Upstream, ExitInv
<1>3. held = 0
  BY <1>2 DEF Upstream, CountInv
<1>4. m \in unsent <=> ~(m <= sent)
  BY <1>3, ShardAssumption DEF Upstream, CountInv, OfferInv, Mine
<1>5. m \in unsent <=> results[m] = <<>>
  BY <1>1 DEF EngineInv
<1> QED
  BY <1>4, <1>5

\* However slow, failing or cancelled the sinks are, what they have received,
\* and what they have worked off, are prefixes of one stream, in the step that
\* SinksAgree allows; and one that saw its end has had one Result for every item
\* of the shard that the source gave.
THEOREM SinksInStep == Spec => []SinksAgree
<1> SUFFICES EngineInv /\ FlowInv => SinksAgree
  BY Flows, PTL
<1> SUFFICES ASSUME EngineInv, FlowInv PROVE SinksAgree
  OBVIOUS
<1>1. PICK s \in Seq(Mine), t \in 0..NumOuts :
        /\ Stands(t)
        /\ Answers(s, t)
        /\ \A k \in Sinks : got[k] = Due(s, t, k)
  BY DEF FlowInv, TeeInv
<1>2. ASSUME NEW k \in Sinks, NEW l \in Sinks
      PROVE  /\ Len(got[k]) <= Len(got[l]) =>
                  IsPrefix(got[k], got[l]) /\ Len(got[l]) <= Len(got[k]) + 1
             /\ Len(WorkedOff(k)) <= Len(WorkedOff(l)) =>
                  /\ IsPrefix(WorkedOff(k), WorkedOff(l))
                  /\ Len(WorkedOff(l)) <= Len(WorkedOff(k))
                       + IF sink[k] \in {"writing", "failed"} THEN 2 ELSE 1
  BY <1>1, Agree DEF FlowInv
<1>3. ASSUME NEW k \in Sinks, sink[k] = "ended", ~cancelled
      PROVE  /\ {got[k][n] : n \in DOMAIN got[k]} = {m \in Mine : m <= sent}
             /\ Len(got[k]) = Cardinality({m \in Mine : m <= sent})
  <2>1. t = 0 /\ outClosed
    BY <1>1, <1>3 DEF FlowInv, SinkInv, Stands
  <2>2. got[k] = s
    BY <1>1, <1>3, <2>1 DEF Due, Sinks
  <2>3. \A m \in Mine : m <= sent <=> \E n \in DOMAIN s : s[n] = m
    BY <1>1, <1>3, <2>1, AllAnswered DEF FlowInv, Answers
  <2>4. {s[n] : n \in DOMAIN s} = {m \in Mine : m <= sent}
    <3>1. \A n \in DOMAIN s : s[n] \in Mine
      OBVIOUS
    <3> QED
      BY <2>3, <3>1
  <2>5. Len(s) = Cardinality({s[n] : n \in DOMAIN s})
    BY <1>1, LengthOfDistinct DEF Answers
  <2> QED
    BY <2>2, <2>4, <2>5
<1> QED
  BY <1>2, <1>3 DEF SinksAgree

-----------------------------------------------------------------------------
(* The delays of ExpBackoff, for durations of any width.  The laws of the    *)
(* powers of two that the shift needs come from counting subsets.            *)

\* 2 ^ n counts the subsets of n things, and is positive.
LEMMA PowerCounts ==
  ASSUME NEW a \in Int, NEW n \in Nat
  PROVE  /\ IsFiniteSet(SUBSET ((a + 1)..(a + n)))
         /\ Cardinality(SUBSET ((a + 1)..(a + n))) = 2 ^ n
         /\ 2 ^ n \in Nat \ {0}
<1> DEFINE S == (a + 1)..(a + n)
<1>1. IsFiniteSet(S) /\ Cardinality(S) = n
  BY FS_Interval
<1>2. IsFiniteSet(SUBSET S) /\ Cardinality(SUBSET S) = 2 ^ n
  BY <1>1, FS_SUBSET, Zenon
<1>3. SUBSET S # {}
  OBVIOUS
<1>4. Cardinality(SUBSET S) \in Nat \ {0}
  <2> HIDE DEF S
  <2> QED
    BY <1>2, <1>3, FS_CardinalityType, FS_EmptySet
<1>5. 2 ^ n \in Nat \ {0}
  BY <1>2, <1>4, Zenon
<1> QED
  BY <1>2, <1>5

\* In particular it is positive.
LEMMA PowerPositive == \A n \in Nat : 2 ^ n \in Nat \ {0}
<1> TAKE n \in Nat
<1>1. 0 \in Int
  OBVIOUS
<1> QED
  BY <1>1, PowerCounts, Zenon

\* To choose a subset of m + n things is to choose one of m and one of n.
LEMMA PowerOfSum ==
  ASSUME NEW m \in Nat, NEW n \in Nat
  PROVE  2 ^ (m + n) = 2 ^ m * 2 ^ n
<1> DEFINE A == 1..m
           B == (m + 1)..(m + n)
           S == 1..(m + n)
           f == [T \in SUBSET S |-> <<T \cap A, T \cap B>>]
<1>1. A \cup B = S /\ A \cap B = {}
  OBVIOUS
<1> HIDE DEF A, B, S
<1>2. f \in [SUBSET S -> (SUBSET A) \X (SUBSET B)]
  <2>1. \A T \in SUBSET S : T \cap A \in SUBSET A /\ T \cap B \in SUBSET B
    OBVIOUS
  <2> QED
    BY <2>1
<1>3. ASSUME NEW T \in SUBSET S, NEW U \in SUBSET S, f[T] = f[U]
      PROVE  T = U
  <2>1. T \cap A = U \cap A /\ T \cap B = U \cap B
    BY <1>3
  <2> QED
    BY <2>1, <1>1
<1>4. ASSUME NEW P \in (SUBSET A) \X (SUBSET B)
      PROVE  \E T \in SUBSET S : f[T] = P
  <2>1. PICK X \in SUBSET A, Y \in SUBSET B : P = <<X, Y>>
    OBVIOUS
  <2>2. X \cup Y \in SUBSET S
    BY <1>1
  <2>3. (X \cup Y) \cap A = X /\ (X \cup Y) \cap B = Y
    BY <1>1
  <2>4. f[X \cup Y] = P
    BY <2>1, <2>2, <2>3
  <2> QED
    BY <2>2, <2>4
<1>5. ExistsBijection(SUBSET S, (SUBSET A) \X (SUBSET B))
  <2> HIDE DEF f
  <2>1. f \in Bijection(SUBSET S, (SUBSET A) \X (SUBSET B))
    BY <1>2, <1>3, <1>4, Fun_IsBij, Zenon
  <2> QED
    BY <2>1, Zenon DEF ExistsBijection
<1>6. /\ IsFiniteSet(SUBSET A) /\ Cardinality(SUBSET A) = 2 ^ m
      /\ IsFiniteSet(SUBSET B) /\ Cardinality(SUBSET B) = 2 ^ n
      /\ IsFiniteSet(SUBSET S) /\ Cardinality(SUBSET S) = 2 ^ (m + n)
  <2>1. A = (0 + 1)..(0 + m) /\ S = (0 + 1)..(0 + (m + n))
    BY DEF A, S
  <2>2. 0 \in Int /\ m \in Int /\ m + n \in Nat
    OBVIOUS
  <2> QED
    BY <2>1, <2>2, PowerCounts, Zenon DEF B
<1>7. Cardinality((SUBSET A) \X (SUBSET B)) = Cardinality(SUBSET S)
  BY <1>5, <1>6, FS_Bijection, Zenon
<1>8. Cardinality((SUBSET A) \X (SUBSET B))
        = Cardinality(SUBSET A) * Cardinality(SUBSET B)
  BY <1>6, FS_Product, Zenon
<1>9. Cardinality(SUBSET A) * Cardinality(SUBSET B) = 2 ^ m * 2 ^ n
  BY <1>6, Zenon
<1> HIDE DEF f
<1> QED
  BY <1>6, <1>7, <1>8, <1>9, Zenon

\* Division with remainder, by a positive number.
LEMMA Remainder ==
  ASSUME NEW x \in Nat, NEW d \in Nat \ {0}
  PROVE  /\ x \div d \in Nat
         /\ x % d \in 0..(d - 1)
         /\ x = d * (x \div d) + (x % d)
<1>1. x = d * (x \div d) + (x % d)
  BY SMT
<1>2. x % d \in 0..(d - 1)
  BY SMT
<1>3. x \div d \in Int
  BY SMT
<1>4. x \div d \in Nat
  BY <1>1, <1>2, <1>3, SMT
<1> QED
  BY <1>1, <1>2, <1>4

\* A common factor may be taken out.
LEMMA Distributes ==
  \A x, y, z \in Int : x * (y - z) = x * y - x * z
  BY SMT

\* The two's complement of Width bits: the modulus is twice the sign bit.
LEMMA WidthBits ==
  /\ 2 ^ (Width - 1) \in Nat \ {0}
  /\ 2 ^ Width = 2 * 2 ^ (Width - 1)
  /\ MaxDuration \in Nat
<1>1. Width - 1 \in Nat /\ 1 \in Nat /\ Width = 1 + (Width - 1)
  BY WidthAssumption
<1>2. 2 ^ (Width - 1) \in Nat \ {0}
  BY <1>1, PowerPositive, Zenon
<1>3. 2 ^ (1 + (Width - 1)) = 2 ^ 1 * 2 ^ (Width - 1)
  BY <1>1, PowerOfSum, Zenon
<1>4. 2 ^ 1 = 2
  OBVIOUS
<1>5. 2 ^ Width = 2 * 2 ^ (Width - 1)
  BY <1>1, <1>3, <1>4, Zenon
<1> QED
  BY <1>2, <1>5 DEF MaxDuration

\* A value that fits is not changed by the shift.
LEMMA FitsUnwrapped ==
  ASSUME NEW x \in 0..MaxDuration
  PROVE  Wrapped(x) = x
<1> DEFINE H == 2 ^ (Width - 1)
           M == 2 ^ Width
<1>1. H \in Nat \ {0} /\ M = 2 * H /\ MaxDuration = H - 1
  BY WidthBits DEF MaxDuration
<1>2. Wrapped(x) = IF x % M > H - 1 THEN (x % M) - M ELSE x % M
  BY <1>1 DEF Wrapped
<1> HIDE DEF H, M
<1>3. x \in Nat /\ x < M /\ x <= H - 1
  BY <1>1
<1>4. x % M = x
  <2>1. /\ x \div M \in Nat
        /\ x % M \in 0..(M - 1)
        /\ x = M * (x \div M) + (x % M)
    <3>1. M \in Nat \ {0}
      BY <1>1
    <3> QED
      BY <3>1, <1>3, Remainder, Zenon
  <2>2. x \div M = 0
    BY <1>1, <1>3, <2>1
  <2> QED
    BY <1>1, <1>3, <2>1, <2>2
<1> QED
  BY <1>1, <1>2, <1>3, <1>4

\* What is left of a multiple of 2 ^ k, wrapped, is a multiple of it: positive
\* only when it is 2 ^ k at least.
LEMMA WrappedMultiple ==
  ASSUME NEW b \in Nat, NEW k \in Nat
  PROVE  /\ Wrapped(b * 2 ^ k) \in Int
         /\ Wrapped(b * 2 ^ k) > 0 => Wrapped(b * 2 ^ k) >= 2 ^ k
<1> DEFINE H == 2 ^ (Width - 1)
           M == 2 ^ Width
           p == 2 ^ k
           low == (b * p) % M
<1>1. H \in Nat \ {0} /\ M = 2 * H /\ p \in Nat \ {0}
  BY WidthBits, PowerPositive
<1>2. Wrapped(b * p) = IF low > H - 1 THEN low - M ELSE low
  BY DEF Wrapped, MaxDuration
<1>3. /\ (b * p) \div M \in Nat
      /\ low \in 0..(M - 1)
      /\ b * p = M * ((b * p) \div M) + low
  <2>1. b * p \in Nat /\ M \in Nat \ {0}
    BY <1>1
  <2> HIDE DEF M, p
  <2> QED
    BY <2>1, Remainder
<1>4. PICK q \in Nat : q = (b * p) \div M /\ b * p = M * q + low
  BY <1>3
<1> HIDE DEF H, M, p, low
<1>5. CASE k <= Width
  <2>1. PICK r \in Nat : M = p * r
    <3>1. Width - k \in Nat /\ Width = k + (Width - k)
      BY <1>5, WidthAssumption
    <3>2. 2 ^ (k + (Width - k)) = 2 ^ k * 2 ^ (Width - k)
      BY <3>1, PowerOfSum
    <3>3. M = p * 2 ^ (Width - k)
      BY <3>1, <3>2, Zenon DEF M, p
    <3>4. 2 ^ (Width - k) \in Nat
      BY <3>1, PowerPositive
    <3> QED
      BY <3>3, <3>4
  <2>2. low = p * (b - r * q)
    <3>1. low = p * b - p * (r * q)
      <4>1. b * p = p * b /\ M * q = p * (r * q)
        BY <1>1, <1>4, <2>1, Z3
      <4> QED
        BY <1>1, <1>3, <1>4, <2>1, <4>1
    <3>2. p \in Int /\ b \in Int /\ r * q \in Int
      BY <1>1, <1>4, <2>1
    <3> QED
      BY <3>1, <3>2, Distributes, Zenon
  <2>3. low - M = p * (b - r * q - r)
    BY <1>1, <1>3, <2>1, <2>2, Z3
  <2>4. PICK y \in Int : Wrapped(b * p) = p * y
    BY <1>2, <2>1, <2>2, <2>3
  <2>5. p * y > 0 => p * y >= p
    BY <1>1
  <2> QED
    BY <2>4, <2>5, <1>1 DEF p
<1>6. CASE k > Width
  <2>1. PICK r \in Nat : p = M * r
    <3>1. Width \in Nat /\ k - Width \in Nat /\ k = Width + (k - Width)
      BY <1>6, WidthAssumption
    <3>2. 2 ^ (Width + (k - Width)) = 2 ^ Width * 2 ^ (k - Width)
      BY <3>1, PowerOfSum
    <3>3. p = M * 2 ^ (k - Width)
      BY <3>1, <3>2, Zenon DEF M, p
    <3>4. 2 ^ (k - Width) \in Nat
      BY <3>1, PowerPositive
    <3> QED
      BY <3>3, <3>4
  <2>2. low = M * (b * r - q)
    <3>1. low = M * (b * r) - M * q
      <4>1. b * p = M * (b * r)
        BY <1>1, <2>1, Z3
      <4> QED
        BY <1>1, <1>3, <1>4, <2>1, <4>1
    <3>2. M \in Int /\ b * r \in Int /\ q \in Int
      BY <1>1, <1>4, <2>1
    <3> QED
      BY <3>1, <3>2, Distributes, Zenon
  <2>3. low = 0
    BY <1>1, <1>3, <2>2
  <2> QED
    BY <1>1, <1>2, <2>3 DEF p
<1> QED
  BY <1>5, <1>6, WidthAssumption

\* A shift that overflows leaves a multiple of 2 ^ (a - 1).  That is more than
\* max when base * max fits, since base * 2 ^ (a - 1) does not.
LEMMA ShiftIsExact ==
  ASSUME NEW a \in Nat \ {0}
  PROVE  DelayIsExact(a)
<1> SUFFICES ASSUME NEW base \in 1..MaxDuration, NEW max \in 0..MaxDuration,
                    base * max <= MaxDuration
             PROVE  ExpBackoff(base, max, a)
                      = IF base * 2 ^ (a - 1) > max THEN max
                        ELSE base * 2 ^ (a - 1)
  BY DEF DelayIsExact
<1> DEFINE p == 2 ^ (a - 1)
           d == Wrapped(base * p)
<1>1. a - 1 \in Nat /\ p \in Nat \ {0} /\ MaxDuration \in Nat
  BY PowerPositive, WidthBits
<1>2. ExpBackoff(base, max, a) = IF d <= 0 \/ d > max THEN max ELSE d
  BY DEF ExpBackoff, Shifted
<1>3. d \in Int /\ (d > 0 => d >= p)
  BY <1>1, WrappedMultiple
<1>4. base * p <= MaxDuration => d = base * p
  <2>1. base * p \in Nat
    BY <1>1
  <2> QED
    BY <2>1, <1>1, FitsUnwrapped
<1> HIDE DEF p, d
<1>5. CASE base * p <= MaxDuration
  <2>1. ExpBackoff(base, max, a) = IF base * p > max THEN max ELSE base * p
    <3>1. base * p \in Nat \ {0}
      BY <1>1
    <3> QED
      BY <3>1, <1>2, <1>4, <1>5
  <2> QED
    BY <2>1 DEF p
<1>6. CASE base * p > MaxDuration
  <2>1. base * p > base * max
    BY <1>1, <1>6
  <2>2. p > max
    BY <1>1, <2>1
  <2> QED
    BY <1>1, <1>2, <1>3, <1>6, <2>2 DEF p
<1> QED
  BY <1>1, <1>5, <1>6

\* A worker that waits before a retry waits base doubled attempt - 1 times, or
\* max, for every width of a Duration, base and max whose product fits, and
\* whatever attempt it has come to: a shift that overflows is always noticed.
THEOREM BackoffExact == Spec => []BackoffIsExact
<1>1. Proved!Spec => []Proved!IInv
  BY Proved!Inductive, EngineAssumptions
     DEF Proved!PoolAssumption, Proved!ItemAssumption, Proved!RetryAssumption,
         Proved!TimeoutAssumption
<1>2. Proved!IInv => BackoffIsExact
  <2> SUFFICES ASSUME Proved!IInv, NEW w \in Workers, pc[w] = "backoff",
                      NEW a \in job[w].attempts..Width + 3
               PROVE  DelayIsExact(a)
    BY DEF BackoffIsExact
  <2>1. job[w].attempts \in Nat \ {0}
    <3>1. Proved!JobOK(w)
      BY DEF Proved!IInv, Proved!JobInv, Workers
    <3>2. job[w].attempts \in 0..WithRetry(MaxAttempts)
      BY <3>1 DEF Proved!JobOK, Proved!Busy, Proved!Result
    <3> QED
      BY <3>1, <3>2 DEF Proved!JobOK
  <2>2. a \in Nat \ {0}
    BY <2>1
  <2> QED
    BY <2>2, ShiftIsExact
<1> QED
  BY <1>1, <1>2, EngineBehaves, PTL
===============================================================================
