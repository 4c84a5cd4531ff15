# gojob: models, model checks and proofs

gojob is a Go library that runs a function over a stream of items with a
bounded pool of workers, and, on top of it, a queue layer that makes such a job
survive a crash. This directory holds TLA+ modules of its concurrent parts,
TLC configurations that check them on small instances, and TLAPS proofs of their
safety properties and refinements for instances of any size. Module and action
names follow the source; `PROJECT.json` maps each definition to its lines.

    tlc -config MCProcess_timeout.cfg MCProcess.tla     # one run
    tlapm ProcessProofs.tla                             # one module's proofs

The proofs are in the modules named `...Proofs`, one beside each component.

## 1. Inventory

| Component | State | Operations | Interacts with |
| --- | --- | --- | --- |
| Engine, `process.go` | workers' loops, WaitGroup, the job of each worker, the calls of `fn` | `Process`, `Execute`; `runOne`, `runWithTimeout` | reads `in`, writes `out`, calls `fn` |
| Options, `options.go` | - | `WithWorkers`, `WithTimeout`, `WithRetry`, `ExpBackoff`, `NoBackoff` | configures the engine |
| Stats, `stats.go` | counters `done`, `failed`; channel `fin` | `WithStats`, `Snapshot`, `Stream`, `ReportEvery` | sits between the engine and a sink |
| Prometheus, `prom/prom.go` | gauges | `Push` | reads a `Stream` |
| Dashboard, `web/web.go` | a handler per browser | `Handler`, `Serve` | takes snapshots of `Stats` itself |
| Sources, `source.go`, `shard.go` | - | `From`, `Lines`, `Shard` | feed the engine |
| Sinks, `sink.go` | - | `WriteJSONL`, `Drain`, `Tee` | read the engine's output |
| Queue contract, `queue/queue.go` | - | `Queue`, `Message`, `Codec` | implemented by the backends |
| Consume, `queue/consume.go` | the outcome being finalized | `Consume` | a `Queue`, the engine, a Result reader |
| Fill, `queue/fill.go` | - | `Fill` | a source, a `Queue` |
| memq | slice, `outstanding`, `sealed`, `closed`, `notify` | `Publish`, `Seal`, `Close`, `Receive`, handles | in-process |
| fileq | a directory of files | `Publish`, `Seal`, `Receive`, handles | several processes, one directory |
| redisq | eight Redis keys | `Publish`, `Seal`, `Receive`, handles | several machines, one Redis |
| Examples, version, deployment | - | - | not part of the library's logic |

What is hard, and what correctness means:

- **Engine.** Cancellation races every send; a timed-out attempt goes on
  running; `out` is closed by its own goroutine. Each item must be answered
  once or dropped after a cancellation, `out` must close and nobody may send on
  it afterwards, and a Result must speak of its own item's last attempt.
- **Stats.** Two counters without a lock, observers that may leave. Snapshots
  must not invent successes, the last one must be final, streams must end.
- **memq.** Lost wakeups, receivers that are cancelled with an item in hand,
  drain detection while messages are out.
- **fileq.** Every system call interleaves with those of other processes, any
  of which may die. A message must stay one file, have one owner, be resumed
  after a crash, and a queue must not be taken for drained too early.
- **redisq.** Steps are atomic, but handles speak of an id, not of a delivery:
  what happens when they are used late.
- **Sources and sinks.** All channels are unbuffered and each stage looks at ctx
  in some of its waits only. Shards must partition the items, the outputs of
  `Tee` must agree, and every goroutine that does not wait for the outside must
  end.
- **Fill.** What it reports must be what the queue has, also when it fails.
- **Consume.** The Result stream against the queue: one Result per finalized
  message, that says what became of it; no lease without a holder; a bound on
  the deliveries of a message that keeps failing.

The hazards, each with its line and the properties that watch it, are in
`PROJECT.json`.

## 2. Modules

| Module | Models | Configurations |
| --- | --- | --- |
| `Process` | the engine; implements `BoundedPool` | `MCProcess_timeout` |
| `BoundedPool` | what `process.go` promises its callers, abstractly | (as a property) |
| `Options` | the options and the arithmetic of `ExpBackoff` | (through `Pipeline`) |
| `Pipeline` | source, `Shard`, engine, `Tee`, sinks; instantiates `Process`, extends `Options` | `MCPipeline_run` |
| `Stats` | `stats.go`, the loop of `prom.Push`, the `/events` handler of `web.go` | `MCStats_safety` |
| `Delivery` | what `queue.go` promises, abstractly | (as a property) |
| `MemQ` | `queue/memq`; implements `Delivery` | `MCMemQ_*` |
| `FileQ` | `queue/fileq`; implements `Delivery` | `MCFileQ_*` |
| `RedisQ` | `queue/redisq`; implements `Delivery` | `MCRedisQ_*` |
| `Consume` | `queue/fill.go`, `queue/consume.go`, on a queue that implements `Delivery` | `MCConsume_*` |
| `ProcessProofs`, `PipelineProofs`, `StatsProofs`, `DeliveryProofs`, `MemQProofs`, `FileQProofs`, `RedisQProofs`, `ConsumeProofs` | theorems about the module each is named for | (TLAPS) |

Each `MC` module names what its configurations instantiate. Definitions marked
`Mutant:` are wrong versions of the definition that follows them; no
specification uses them. They document which bug each property would catch, and
substituting one makes TLC find that property violated.

### Process

One action is one `select` or one step between two of them. A worker's `pc` is
`select` (the outer select, lines 34-40), `start` (about to call
`runWithTimeout`), `await` (its select, 125-131, or the direct call, 111),
`backoff` (79-84), `send` (42-46) or `exited`. `job[w]` is the Result being
built, so that `val`, `err` and `attempts` of `runOne` are its fields. A call of
`fn` is an actor: `calls[c]` goes `none`, `running`, and `ok` or `failed`, and a
worker that gives up (`GiveUp`) leaves its call running and adds it to
`abandoned`. The value a call returns is the call itself, which is what lets
`ResultsHonest` tell a late answer from the right one. Time is a choice: a
deadline or a timer may fire at any moment. `GiveUp` allows either context error
once `ctx` is cancelled, where the code returns whichever came first. The input
may be closed early, as `Lines` does when it cannot read on.

`BoundedPool` is the engine without its inside: no attempts, no calls, no closer.
`Abstract` in `Process` maps `held` to the items that some worker's `job` is about
between `Take` and `Send` or `Drop`, `answered` to the length of `results`, and
`Size` to the number of workers; every other variable is itself. Attempts,
backoffs, abandoned calls and `WaitDone` are stutters, so `ImplementsPool` says that
none of them takes, answers or forgets an item, and that `out` closes on idle
workers. `Consume` is written against this module.

### Options and Pipeline

`Options` has the two options that ignore what is not positive, and `ExpBackoff`
with Go's shift: `Width` bits, two's complement. `Pipeline` wires a run as a
program does: a source goroutine (`From`, or `Lines`), `Shard`, the engine, `Tee`, and
per output a `WriteJSONL` or a `Drain`. The source is at a read (`scanner.Scan`,
source.go:43), where it does not see ctx and may stay for ever, or offers what it
read, where it does; a read may find the end of the items or fail. A `WriteJSONL`
receives a Result and writes it in two steps (`TeeSend`, `Write`), between which `Tee`
goes on to other outputs and the next Result; the write may fail. `got` is what a
sink has received, `WorkedOff` what it is done with.
The engine is `INSTANCE Process`: its actions are conjoined with what happens at
the other end of the channel, so `Process`' environment actions (`Take` from a
willing source, `CloseIn`, `Send` to a willing reader) are here steps of `Shard` and
`Tee`. Which attempts are followed by a wait is computed from `ExpBackoff`
(`Delayed`). A send on an unbuffered channel and its receive are one action, of
both goroutines. `WithStats`, which passes Results through in the same way as
`Tee` with one output, is checked on its own in `Stats`.

### Stats

The tap goes `range`, `count`, `countFailed`, `send`; `closeFin` and `closeOut`
are its two deferred calls in their order. `Snapshot` is two actions, one per
load, in `LoadOrder`. An observer is a `Stream` goroutine with its channel of
capacity one and a reader: `ReportEvery` reads to the end, `prom.Push` may leave.
A browser has a handler instead, whose loop takes the snapshots and writes them;
it disconnects when it likes. `kind` is chosen in the initial state, so one
observer is checked in all three forms. `WithStats`' ctx and that of the observers
are one, as in the examples.

### Delivery

A message is `waiting`, `held`, `acked` or `dead`, `copies` says how often; `count` is
what `Deliveries()` would say. It may be published, claimed, given back (by a
`Nack`, or by leases that ended) and finalized. `Redelivered` is its liveness: a
message in the queue is finalized in the end unless the queue is closed or a
consumer is cancelled. The refinement mappings, `Abstract` in each module:

| | waiting | held | count |
| --- | --- | --- | --- |
| `MemQ` | items in `pending` | with a receiver, with a handle, or lost with a cancelled receiver | the item's |
| `FileQ` | files in pending/ | files in processing/ | the one in the name |
| `RedisQ`, not `Hasty` | ids in pending | ids in processing | the hash `deliveries` |
| `Consume` | status `waiting` | status `leased` | `count` |

`copies` counts, so a bug that duplicates or loses a message leaves `Delivery`. A
lease that ends changes nothing here until somebody reclaims the message.
`Consume` assumes of its backend no more than `Delivery` allows, with fileq's answer
to a late call.

### MemQ, FileQ, RedisQ

- `MemQ`: an action is one critical section, or one select; `signal()`, called
  after the unlock, is its own action, so that a receiver may run in between.
  `open` is the set of handles whose `once` is not spent, `lost` the items that a
  cancelled receiver had popped.
- `FileQ`: an action is one system call. An entry is the pair of its sequence
  number and its delivery count; its lease is in `expired` or not. A
  directory listing is taken to be a snapshot, which `ReadDir` does not quite
  guarantee. Renaming or removing a file that has gone is an error the code
  ignores (`Gone`). `claim`'s walk over its listing is in `listed`. Producers seal
  after their last `Publish`, as the comment of `Seal` asks.
- `RedisQ`: an action is one script or one `MULTI` transaction, which Redis runs
  alone. `ClaimReplyLost` and `FinalizeFails` are calls that ran, or did not,
  without their caller being told.

A lease that passes is an action of the clock. In `FileQ` and `Consume` it may
happen at any moment. In `RedisQ` it may for the messages in `Hasty`; for the
others only once no live consumer holds them, which is what an operator who
picks a lease longer than the work arranges. `Hasty` messages and others share
one queue, so that the properties of the others also say that a late call on a
`Hasty` one does them no harm.

### Consume and Fill

`Fill` takes an item and publishes it in two steps; a `Publish` that fails may have
published (an answer that was lost). When it returns without an error its
caller seals the queue, in the same step; after an error, that of a cancelled
ctx included (`FillCancelled`), nobody does. Meanwhile
`Consume` works. The backend is what `queue.go` asks for: `status` and `count` per message, with
calls on an outdated delivery doing nothing, as in fileq. The engine is a
`BoundedPool` whose items are deliveries: `pool` is `held`, and `Take`, `Processed`,
`Drop` and `EndOfRange` are its `Take`, `Answer`, `Drop` and `Close`, by comparison
rather than by a refinement since `Consume` keeps no record of the deliveries
answered. As in `BoundedPool`, after a cancellation the engine may close its
output while the queue's receiver still has a message on offer. A finalizing
call may fail, and `Consume` does not notice.
`lapses[m]` counts the leases of `m` that ran out, `late[m]` those that ran out of a
delivery at or beyond `WithMaxDeliveries`: the properties are stated relative to
them, so that they say what each lapse can cost and no more. A crash leaves its
leases to run out, so they count crashes too. `Consume` compares `Deliveries()` with
the limit only after `fn` has returned (consume.go:106). `LapsesExplainRepeats` is
therefore not the promise of docs/design/queue.md:91-93 that a message is diverted
after so many deliveries: that is `DivertedInTime`, which `consume_poison` refutes.

## 3. Runs

Runs that pass:

| Run | Instance | Shows |
| --- | --- | --- |
| `process_timeout` | 2 workers, 2 items, 2 attempts, backoff, timeout, `fn` may hang | `EachItemOnce`, `NoSendOnClosed`, `ResultsHonest`, `RetryOnlyAfterFailure`; `ImplementsPool`, `Finishes` |
| `pipeline_run` | 4 items, shard 0 of 2, a source that may block, 2 workers, 2 attempts, backoff 1..7 of 4 bits, 2 outputs: a `Drain`, then a `WriteJSONL` | `BoundedConcurrency`, `HandleKept`, `SinksAgree`, `BackoffIsExact`; `PipelineEnds` |
| `stats_safety` | 2 Results, one observer of each kind | `CountsMatchStream`, `SuccessNotInflated`, `FinalCountsSeen`; `StreamCloses` |
| `memq_safety` | 2 payloads, 2 receivers, one cancellable, 2 deliveries | `OutstandingIsExact`, `NoLostWakeup`; `ImplementsDelivery` |
| `fileq_safety` | 2 messages, one undecodable, 2 processes, one cancellable, 1 crash, 2 deliveries | `OneOwner`, `LastOneDrains`; `WorkedOff`, `ImplementsDelivery` |
| `redisq_safety` | 3 messages (one `Hasty`, one undecodable, one neither), 2 consumers, 1 fault, 2 claims | `NeverLost`, `Reclaimable`, `DrainIsSound`; `ResumesAfterCrash`, `ImplementsDelivery` |
| `consume_safety` | `Fill` of 2 items, 1 worker, limit of 2 deliveries (one message can have a third, the other cannot), 1 fault, a cancellation | `LeasesAreHeld`, `LapsesExplainRepeats`, `ResultMatchesBackend`, `FillAccountsForAll`; `ImplementsDelivery`, `WorksOff` |

Those after a semicolon are temporal. `ImplementsDelivery` is the refinement of
`Delivery`'s specification, `ImplementsPool` that of `BoundedPool`; `Finishes` is the
pool's liveness: every item is answered, and `out` closes. That the queue keeps delivering (`Delivery`'s
`Redelivered`) is part of `ImplementsDelivery` in `MemQ`, of `WorkedOff` in `FileQ` and of
`WorksOff` in `Consume`, each of which also says that receivers end; in `RedisQ`
`ResumesAfterCrash` says it, also of the `Hasty` messages. Every passing run is
under `FairSpec`, checks its module's `TypeOK`, and uses no symmetry.

`BackoffIsExact` is evaluated when a worker waits, for the delay it waits for, for
any later one up to shifts beyond the width, and for every base and max whose
product fits. For a larger max it would be false: with 4 bits, base 3, max 7
and the third attempt, 3 << 2 wraps to -4, which is caught, but 5 << 2 is 4. At the
64 bits of a `Duration` such a max is beyond 9 seconds for a base of one second
in nanoseconds, and the wrap needs some thirty attempts.

Runs in which TLC finds what a comment or a document says to be false:

| Run | What happens |
| --- | --- |
| `memq_second` | two receivers wait, the last ack leaves one token: the second never ends |
| `fileq_falsedrain` | between the two counts of `drained()` another process claims the last entry; the first leaves, and if the other crashes nobody resumes |
| `redisq_count` | a late `Ack` deletes the payload of an id that is pending again: the next claim dead-letters a message that was acknowledged |
| `consume_twice` | a late `Ack` fails silently and the Result goes out; the redelivery sends another |
| `consume_poison` | a message with a limit of two deliveries has its lease run out twice, its consumer having crashed or `fn` not having returned: it is delivered a third time, and nothing stops the cycle |

Other behaviours a caller may not expect are in the models, and the properties
except them by name:

- A snapshot may be torn: one failed Result counted between the load of `done` and
  that of `failed` (stats.go:69-70) makes `Succeeded` one less than it was, and -1
  if it was none. `SuccessNotInflated` says that it is never too high.
- `Lines` blocked in a read does not see ctx, nor does `Shard` behind it
  (shard.go:17): the two stay after a cancellation until the read returns, which
  for "-" may be never. `PipelineEnds` says that everything else ends.
- `prom.Push` leaves on its ctx (prom.go:70) and nobody reads its channel any
  more: the `Stream` goroutine (stats.go:94) blocks for ever. `StreamCloses`
  excepts a reader that has left.
- A memq receiver that is cancelled drops the item it has popped (memq.go:111);
  the item stays outstanding and the queue never drains. `OutstandingIsExact` and
  the refinement count it in `lost`; `NoLostWakeup` and `Redelivered` except a
  cancellation.
- After `Close` memq still delivers what is pending (memq.go:91), although it
  "stops delivery" (memq.go:64).
- fileq accepts a `Publish` after `Seal` (fileq.go:94); the contract has
  `ErrClosed` (queue.go:16).
- A late redisq `Nack` (redisq.go:266) queues an id that another consumer has
  claimed: the id is twice in the queue. `ImplementsDelivery` and `Reclaimable` speak of
  the messages that are not `Hasty`; `NeverLost`, `DrainIsSound` of all. An id that
  a late call leaves in processing without a lease takes three claims of a
  `Hasty` message, beyond the bound of the run.
- `WriteJSONL` that cannot encode a Result returns (sink.go:21) and nobody reads
  its output any more: everything upstream blocks until ctx is cancelled, which
  `PipelineEnds` excepts.
- `Fill`'s count leaves out an item whose `Publish` failed after it took effect.

**Bounds.** Two of everything that races is enough for each race above: two
workers, receivers or processes; an item more than workers where a property
compares calls with waiting work; four items make two for this shard and two for
the other. `Retries`, deliveries and claims are bounded
by constants; at the bound a model lets no lease pass and no consumer nack
(`MaxDeliveries`, `MaxClaims`, `MaxCount`), which leaves out only longer
repetitions of the same cycle. `MaxCount` is given per message: in the run of
`Consume` one message can be delivered once more than `WithMaxDeliveries` allows,
the other up to that limit, so that both outcomes at the limit occur. `MaxCrashes` and `MaxFaults` bound faults. The
theorems below hold for every value of these bounds.

`SinksAgree` allows a sink to be one Result behind in what it received. In what is
worked off it may be two behind if it is a `WriteJSONL` with a Result in hand that it
has not written yet (between sink.go:17 and 21), or could not write (sink.go:22):
`Tee` gives the outputs before it one more before it blocks. The writer is the
second output, so that the run meets both cases.

`CHECK_DEADLOCK FALSE` is said everywhere since every one of these systems may
come to rest: drained, cancelled, or with nobody publishing.

**Fairness.** A goroutine that can run does (weak fairness per goroutine). Go's
`select` picks at random among ready cases: a case that is ready again and
again is taken, hence the strong fairness of `SeeFin` and `HandlerReturns` in
`Stats`. The reader of
a channel reads while ctx is not cancelled and owes nothing afterwards; that is
why `Finishes` says something. In `Pipeline` the readers are modelled, so there
nothing is assumed of them. `fn` returns only where no timeout is
configured. Nobody must publish, seal, cancel, crash or fail; a crashed process
is restarted, leases pass, and a handle is finalized where its process lives.
In `Stats` the observed channel closes, which is what `Finishes` of `Process`
shows. A write of `WriteJSONL` returns: one that does not would hold up `Tee` and
its own goroutine, which sees no ctx there. A read of the source need not:
`SourceRead` and `SourceEnds` have no fairness, and what `PipelineEnds` says of the
source, of `Shard` and of a run that is not cancelled it says under
`[]<>(src # "read")`, that reads return, as they do for `From` and for a file.
Nothing is assumed of `Fill`, of a source that fails, or of a browser.

## 4. Proofs

Every invariant the runs check is proved of `Spec`, which needs no fairness, for
all values of the constants, and so is each refinement.

| Module | Theorem | Property |
| --- | --- | --- |
| `ProcessProofs` | `TypeCorrect` | `TypeOK` |
| | `ExactlyOnce` | `EachItemOnce` |
| | `CloseIsSafe` | `NoSendOnClosed` |
| | `Truthful` | `ResultsHonest` |
| | `RetriesJustified` | `RetryOnlyAfterFailure` |
| | `PoolImplements` | `ImplementsPool` |
| | `Bounded` | `BoundedConcurrency` |
| | `ValuesKept` | `HandleKept` |
| `PipelineProofs` | `RunsEngine` | `Spec => Engine!Spec` |
| | `TypeCorrect` | `TypeOK` |
| | `RunIsPool` | `Proved!ImplementsPool` |
| | `RunBounded` | `BoundedConcurrency` |
| | `RunKeepsValues` | `HandleKept` |
| | `SinksInStep` | `SinksAgree` |
| | `BackoffExact` | `BackoffIsExact` |
| `StatsProofs` | `TypeCorrect` | `TypeOK` |
| | `CountsFollow` | `CountsMatchStream` |
| | `SuccessHonest` | `SuccessNotInflated` |
| | `FinalSeen` | `FinalCountsSeen` |
| `DeliveryProofs` | `OneCopyAlways` | `OneCopy` |
| | `FinalForGood` | `[][NothingUndone]_vars` |
| `MemQProofs` | `TypeCorrect` | `TypeOK` |
| | `OutstandingExact` | `OutstandingIsExact` |
| | `WakeUps` | `NoLostWakeup` |
| | `MemoryImplements` | `Spec => Abstract!Spec` |
| | `FinalForGood` | `Abstract`'s `OneCopy` and `NothingUndone` |
| `FileQProofs` | `TypeCorrect` | `TypeOK` |
| | `OwnedOnce` | `OneOwner` |
| | `LastDrains` | `LastOneDrains` |
| | `DirectoryImplements` | `ImplementsDelivery` |
| | `FinalForGood` | `Abstract`'s `OneCopy` and `NothingUndone` |
| `RedisQProofs` | `TypeCorrect` | `TypeOK` |
| | `NothingLost` | `NeverLost` |
| | `CanReclaim` | `Reclaimable` |
| | `DrainSound` | `DrainIsSound` |
| | `RedisImplements` | `ImplementsDelivery` |
| | `FinalForGood` | `Abstract`'s `OneCopy` and `NothingUndone` |
| `ConsumeProofs` | `TypeCorrect` | `TypeOK` |
| | `FillAccounts` | `FillAccountsForAll` |
| | `LeasesHeld` | `LeasesAreHeld` |
| | `RepeatsExplained` | `LapsesExplainRepeats` |
| | `ResultsMatch` | `ResultMatchesBackend` |
| | `QueueImplements` | `ImplementsDelivery` |
| | `FinalForGood` | `Abstract`'s `OneCopy` and `NothingUndone` |

Hardly any of the properties is inductive alone. Each module has an inductive
invariant `IInv` (`FlowInv` in `PipelineProofs`), which TLC has also checked on the
instance of the module's run; a lemma per action or group of actions shows that
it is kept, `NextIInv` puts them together, and the theorems are its consequences.
The assumptions are the named `ASSUME`s of each module, and no others.

**`ProcessProofs`**, for a finite non-empty pool, any items and at least one attempt.
`WaitGroupInv` (the counter is the number of live workers, and `out` is closed only
at zero) is what `NoSendOnClosed` needs. `PlaceInv` keeps an item in one place, so
that what a worker holds is neither offered, dropped nor answered: `EachItemOnce`.
`JobInv` says what a worker holds at each `pc`: the attempt it awaits was made and
not given up, what it retries has failed, what it is about to send is `Honest`.
`CallInv` says that no call exists for an attempt not yet reached, without which a
fresh attempt could find an answer already there. `UntimedInv` is about engines
without a timeout, of which `BoundedConcurrency` and `HandleKept` speak: no attempt is
given up, so that every call that runs has a worker that awaits it, and calls are
no more than workers. For `PoolImplements` the lemmas `HeldKept`, `HeldLess` and
`HeldMore` follow `Held` through each action: it grows by one item when a free
worker takes one, while there is room (`RoomForOne`), and loses one that no
other worker has when a Result is sent or dropped.

**`PipelineProofs`** first shows that every step of the pipeline is one of the engine
or leaves it alone (`StepOfEngine`, `RunsEngine`), and that the options satisfy what
the engine assumes (`EngineAssumptions`). It then takes the theorems of
`ProcessProofs` over, by instantiating it (`Proved`). For the sinks, `Upstream` ties
Shard's counter and the item it offers to what the source has sent and the engine
not yet taken; `TeeInv` says that there is one sequence, of the answered items
without repetition, such that each sink has received that sequence, or with one
more, the Result in `Tee`'s hand (`Due`); what it has worked off lacks the last if it
is writing that or failed on it (`HasReceived`), hence the bounds (`Agree`). At the
end of the stream the engine's own invariant makes the answered items those the
source has sent (`AllAnswered`). `BackoffIsExact` needs that `2 ^ (m + n)` is
`2 ^ m * 2 ^ n` and that `2 ^ n` is positive, for which the provers have no induction:
`PowerCounts` gets both from the cardinality of `SUBSET`, by a bijection between the
subsets of `1..m+n` and the pairs of subsets of `1..m` and `1..n`. A shift that fits
is then the product (`FitsUnwrapped`); one that wraps is still a multiple of
`2 ^ (attempt - 1)`, hence not positive or at least that (`WrappedMultiple`), and that
exceeds max when base * max fits and the product does not: either way
`ExpBackoff` returns max (`ShiftIsExact`).

**`StatsProofs`**, for any number of Results and observers. The argument for torn
snapshots is `Surely`, the successes there are for certain: it never falls, so a
bound on what a snapshot claims that holds between its two loads holds ever after.
`FinalInv` follows the final snapshot from `fin` through the channel to its reader.

**`DeliveryProofs`**, for any messages. `OneCopy` is inductive, with the type of `copies`
added; a step moves the one copy (`TheCopy`, `Moves`). `NothingUndone` is about steps:
what is acked or dead stays there, and a count falls only when its message is
finalized. It needs `OneCopy`, without which a second copy could be claimed or
given back after the first was finalized. Each of the four queues takes
both over (`FinalForGood`), by instantiating this module in the place of
`Delivery` (`Promise`).

**`MemQProofs`**, for finitely many payloads and any receivers. `HomeInv` and `OnceInv`
keep a payload in one of eight homes (unpublished, rejected by a sealed queue,
pending, with a receiver, with a handle, lost, acked, dead); `CountInv` says that
`outstanding` is the number of the payloads in four of them. `WakeInv` is the argument about the one
token: as long as there is something to see, somebody is awake - the token is
there, a signal is under way, or a receiver is not waiting. `NumberInv`
computes the refinement's `copies` from the home, and a step is a move from one home
to another.

**`FileQProofs`**, for at least one consumer and any number of messages and crashes.
`FileInv`: a published message is one file, in one directory. `NameInv`: no name a
consumer or a handle knows is ahead of the file's, so that the next claim makes a
fresh name, which is why a stale handle can do no harm; `OwnerInv` follows. `LeaveInv`
is about `drained()`: while a file is in processing/ some consumer is not yet at its
second count, and while one is in pending/ some consumer has not left. That is
all that survives of the order in which `drained` counts; that a single
consumer leaves only a drained queue is false (`fileq_falsedrain`).

**`RedisQProofs`**, for finitely many messages. For a message that is not `Hasty`
(`Steady`), `CopyInv` says that it is once in one list, that it has a lease
exactly while in processing, and a payload until it is finalized; `LeaseInv` that
who holds it has its lease and holds it alone, which makes a late call on it
impossible. `NeverLost` and `DrainIsSound`, of all messages, are inductive beside it.
Lemmas about `Times` count an id in a list under `LPUSH`, `RPOP` and `LREM`.

**`ConsumeProofs`**, for any messages, workers, deliveries and faults. `BudgetInv` is the
heart of `LapsesExplainRepeats`: the Results of a message, its deliveries in hand and
the one still to be claimed are together at most one, and one more for each lease
that ran out. `CountInv` is that of the deliveries: a message waits for another
only below the limit, but for leases that ran out there or beyond. `CurrentInv`
and `EmitInv` say of the outcome being finalized, and of the one about to be
emitted, that without a lapse they speak of the current delivery;
`ResultMatchesBackend` follows when it is emitted.

The refinements are shown as `Init => Abstract!Init` and
`[Next]_vars => [Abstract!Next]_(Abstract!vars)` under the invariant.

Model-checked only:

- Liveness: `Finishes`, `PipelineEnds`, `StreamCloses`, `WorkedOff`,
  `WorksOff`, `ResumesAfterCrash`, and `Redelivered` in `MemQ`'s `ImplementsDelivery`, of
  which `MemoryImplements` is the other part. Fairness and ENABLED are out of the
  prover's reach.
- That `Consume`'s `pool` behaves as a `BoundedPool`, as said above.

## 5. Not modelled

Wording, JSON, base64, HTTP, HTML, metrics and durations; `Total` and `Elapsed`; the
examples and deployment files. Of `MarshalJSON`, `Codec` and `parseName` only
whether a payload decodes. An I/O or network error of fileq and redisq that is
neither a failed call of a handle nor a lost reply appears only as what it comes
to, a delay or a crash. `web.Serve` starts and shuts down a server of net/http,
which waits up to two seconds for its handlers: that is the library's, and the
handlers are in `Stats`. Filesystem durability (the code never calls fsync) and
the loss of the Redis server are outside the models. Undefined behaviour in the
sense of a data race does not occur in the code: its shared state is behind
channels, atomics and one mutex.

## 6. Plan

Done: the models of all components, their runs, and the proofs above: every
checked invariant and every refinement. What is left:

1. A record in `Consume` of the deliveries answered and dropped since the last
   crash, with which its pool could be shown to be a `BoundedPool` of deliveries,
   a new one for each process.
2. Several consumers of one queue in `Consume`; the backends have them.
3. Proofs of the liveness properties, once a prover for ENABLED and fairness is
   at hand.
