-------------------------------- MODULE Stats --------------------------------
(***************************************************************************)
(* Observing a Result stream (stats.go): WithStats' tap, a goroutine that  *)
(* counts every Result in two atomic counters and passes it on; Snapshot,  *)
(* which loads the counters one after the other; and the observers.  A     *)
(* reporter (ReportEvery) reads the channel of capacity 1 of a Stream      *)
(* goroutine until it is closed, a pusher (prom.Push) until its ctx is     *)
(* done; a browser (web.Handler's /events) has no Stream: the handler's    *)
(* own loop takes the snapshots and writes them as events.                 *)
(*                                                                         *)
(* A Result is only its error or the absence of one.  Tickers fire at any  *)
(* moment; Total, Elapsed and what an observer prints are left out.        *)
(***************************************************************************)
EXTENDS Integers, Sequences

CONSTANTS
  Total,    \* the number of Results the upstream sends, unless cancelled
  Observers

ASSUME TotalAssumption == Total \in Nat

VARIABLES
  cancelled, \* ctx.Done() is closed, of WithStats and of the observers
  left,      \* the number of Results upstream has not sent yet
  inClosed,  \* the observed channel is closed
  tap,       \* where the tap's goroutine stands; "exited": its out is closed
  bad,       \* the Result the tap holds has an error
  done,      \* s.done
  failed,    \* s.failed
  fin,       \* s.fin is closed
  passed,    \* what the receiver of the tap's out has received
  kind,      \* kind[o]: "reporter", "pusher" or "browser"
  spc,       \* spc[o]: where o's Stream goroutine or its handler stands;
             \* "exited": its channel or its response has ended
  final,     \* final[o]: the snapshot being taken is the final one
  snap,      \* snap[o]: the snapshot being taken
  buf,       \* buf[o]: the buffer of o's channel
  rpc,       \* rpc[o]: where observer o stands
  seen       \* seen[o]: the last snapshot observer o received

upstream == <<left, inClosed>>
counters == <<done, failed, fin>>
tapVars == <<upstream, tap, bad, counters, passed>>
streamVars == <<spc, final, snap, buf>>
readerVars == <<rpc, seen>>
observers == <<kind, streamVars, readerVars>>
vars == <<cancelled, tapVars, observers>>

-----------------------------------------------------------------------------
Snapshot == [done : 0..Total, failed : 0..Total]

Empty == [done |-> 0, failed |-> 0]

\* Stream waits for its ticker first; a handler sends the state immediately.
FirstStep(k) == IF k = "browser" THEN "loadFirst" ELSE "select"

Init ==
  /\ cancelled = FALSE
  /\ left = Total
  /\ inClosed = FALSE
  /\ tap = "range"
  /\ bad = FALSE
  /\ done = 0
  /\ failed = 0
  /\ fin = FALSE
  /\ passed = Empty
  /\ kind \in [Observers -> {"reporter", "pusher", "browser"}]
  /\ spc = [o \in Observers |-> FirstStep(kind[o])]
  /\ final = [o \in Observers |-> FALSE]
  /\ snap = [o \in Observers |-> Empty]
  /\ buf = [o \in Observers |-> <<>>]
  /\ rpc = [o \in Observers |-> "read"]
  /\ seen = [o \in Observers |-> Empty]

-----------------------------------------------------------------------------
(* The environment.                                                        *)

Cancel ==
  /\ ~cancelled
  /\ cancelled' = TRUE
  /\ UNCHANGED <<tapVars, observers>>

\* Process closes the observed channel, early when ctx is cancelled.
CloseIn ==
  /\ ~inClosed
  /\ left = 0 \/ cancelled
  /\ inClosed' = TRUE
  /\ UNCHANGED <<cancelled, left, tap, bad, counters, passed, observers>>

-----------------------------------------------------------------------------
(* The tap.                                                                *)

Receive ==
  /\ tap = "range"
  /\ ~inClosed
  /\ left > 0
  /\ left' = left - 1
  /\ bad' \in BOOLEAN
  /\ tap' = "count"
  /\ UNCHANGED <<cancelled, inClosed, counters, passed, observers>>

\* s.done.Add(1)
AddDone ==
  /\ tap = "count"
  /\ done' = done + 1
  /\ tap' = IF bad THEN "countFailed" ELSE "send"
  /\ UNCHANGED <<cancelled, upstream, bad, failed, fin, passed, observers>>

\* Mutant: a failure is counted twice.
AddTwice(counter) == counter + 2

Add(counter) == counter + 1

\* s.failed.Add(1), a step of its own
AddFailed ==
  /\ tap = "countFailed"
  /\ failed' = Add(failed)
  /\ tap' = "send"
  /\ UNCHANGED <<cancelled, upstream, bad, done, fin, passed, observers>>

Pass ==
  /\ tap = "send"
  /\ passed' = [done |-> passed.done + 1,
                failed |-> passed.failed + IF bad THEN 1 ELSE 0]
  /\ tap' = "range"
  /\ UNCHANGED <<cancelled, upstream, bad, counters, observers>>

\* Mutant: the tap skips the Result and goes on.
NextResult == "range"

Returns == "closeFin"

\* The Result is counted and never passed on; the tap returns.
LeaveOnCancel ==
  /\ tap = "send"
  /\ cancelled
  /\ tap' = Returns
  /\ UNCHANGED <<cancelled, upstream, bad, counters, passed, observers>>

EndOfInput ==
  /\ tap = "range"
  /\ inClosed
  /\ tap' = "closeFin"
  /\ UNCHANGED <<cancelled, upstream, bad, counters, passed, observers>>

\* The deferred calls: close(s.fin), then close(out).
CloseFin ==
  /\ tap = "closeFin"
  /\ fin' = TRUE
  /\ tap' = "closeOut"
  /\ UNCHANGED <<cancelled, upstream, bad, done, failed, passed, observers>>

CloseOut ==
  /\ tap = "closeOut"
  /\ tap' = "exited"
  /\ UNCHANGED <<cancelled, upstream, bad, counters, passed, observers>>

TapStep ==
  Receive \/ AddDone \/ AddFailed \/ LeaveOnCancel \/ EndOfInput \/ CloseFin
  \/ CloseOut

-----------------------------------------------------------------------------
(* Stream: the goroutine of observer o.                                    *)

Tick(o) ==
  /\ spc[o] = "select"
  /\ spc' = [spc EXCEPT ![o] = "loadFirst"]
  /\ UNCHANGED <<cancelled, tapVars, kind, final, snap, buf, readerVars>>

\* Mutant: the stream ends without a final snapshot.
AtFinReturn == "exited"

AtFin == "loadFirst"

\* fin is closed: one more snapshot.
SeeFin(o) ==
  /\ spc[o] = "select"
  /\ fin
  /\ final' = [final EXCEPT ![o] = TRUE]
  /\ spc' = [spc EXCEPT ![o] = AtFin]
  /\ UNCHANGED <<cancelled, tapVars, kind, snap, buf, readerVars>>

\* Mutant: the two loads in the other order.
FailedFirst == <<"failed", "done">>

\* Snapshot loads the counters in two steps, done first.
LoadOrder == <<"done", "failed">>

Load(o, field) ==
  snap' = [snap EXCEPT ![o][field] = IF field = "done" THEN done ELSE failed]

LoadFirst(o) ==
  /\ spc[o] = "loadFirst"
  /\ Load(o, LoadOrder[1])
  /\ spc' = [spc EXCEPT ![o] = "loadSecond"]
  /\ UNCHANGED <<cancelled, tapVars, kind, final, buf, readerVars>>

LoadSecond(o) ==
  /\ spc[o] = "loadSecond"
  /\ Load(o, LoadOrder[2])
  /\ spc' = [spc EXCEPT ![o] = "put"]
  /\ UNCHANGED <<cancelled, tapVars, kind, final, buf, readerVars>>

\* Mutant: the loop goes on after the final snapshot.
GoOn(o) == "select"

\* The goroutine returns after the final snapshot.
AfterSnapshot(o) == IF final[o] THEN "exited" ELSE "select"

\* ch <- snapshot, which blocks while the buffer is full.
Put(o) ==
  /\ kind[o] # "browser"
  /\ spc[o] = "put"
  /\ buf[o] = <<>>
  /\ buf' = [buf EXCEPT ![o] = <<snap[o]>>]
  /\ snap' = [snap EXCEPT ![o] = Empty]
  /\ spc' = [spc EXCEPT ![o] = AfterSnapshot(o)]
  /\ UNCHANGED <<cancelled, tapVars, kind, final, readerVars>>

\* writeEvent; nobody sees the event of a browser that has disconnected.
WriteEvent(o) ==
  /\ kind[o] = "browser"
  /\ spc[o] = "put"
  /\ IF rpc[o] = "left" THEN UNCHANGED readerVars
     ELSE /\ seen' = [seen EXCEPT ![o] = snap[o]]
          /\ rpc' = [rpc EXCEPT ![o] = IF final[o] THEN "ended" ELSE @]
  /\ snap' = [snap EXCEPT ![o] = Empty]
  /\ spc' = [spc EXCEPT ![o] = AfterSnapshot(o)]
  /\ UNCHANGED <<cancelled, tapVars, kind, final, buf>>

\* The handler's select finds the request's or the job's ctx done.
HandlerReturns(o) ==
  /\ kind[o] = "browser"
  /\ spc[o] = "select"
  /\ cancelled \/ rpc[o] = "left"
  /\ spc' = [spc EXCEPT ![o] = "exited"]
  /\ rpc' = [rpc EXCEPT ![o] = "left"]
  /\ UNCHANGED <<cancelled, tapVars, kind, final, snap, buf, seen>>

HandlerStep(o) == WriteEvent(o) \/ HandlerReturns(o)

StreamStep(o) ==
  \/ Tick(o) \/ SeeFin(o) \/ LoadFirst(o) \/ LoadSecond(o)
  \/ Put(o) \/ HandlerStep(o)

-----------------------------------------------------------------------------
(* The observers: ReportEvery, prom.Push and a browser.                    *)

\* An observer receives a snapshot; it prints or pushes it.
Read(o) ==
  /\ rpc[o] = "read"
  /\ buf[o] # <<>>
  /\ seen' = [seen EXCEPT ![o] = Head(buf[o])]
  /\ buf' = [buf EXCEPT ![o] = <<>>]
  /\ rpc' = [rpc EXCEPT ![o] = "report"]
  /\ UNCHANGED <<cancelled, tapVars, kind, spc, final, snap>>

Reported(o) ==
  /\ rpc[o] = "report"
  /\ rpc' = [rpc EXCEPT ![o] = "read"]
  /\ UNCHANGED <<cancelled, tapVars, kind, streamVars, seen>>

\* The channel is closed and empty.
EndOfStream(o) ==
  /\ kind[o] # "browser"
  /\ rpc[o] = "read"
  /\ buf[o] = <<>> /\ spc[o] = "exited"
  /\ rpc' = [rpc EXCEPT ![o] = "ended"]
  /\ UNCHANGED <<cancelled, tapVars, kind, streamVars, seen>>

\* prom.Push finds its ctx done and stops reading; a browser disconnects when
\* it likes.
Leave(o) ==
  /\ rpc[o] = "read"
  /\ (kind[o] = "pusher" /\ cancelled) \/ kind[o] = "browser"
  /\ rpc' = [rpc EXCEPT ![o] = "left"]
  /\ UNCHANGED <<cancelled, tapVars, kind, streamVars, seen>>

ReaderStep(o) ==
  Read(o) \/ Reported(o) \/ EndOfStream(o) \/ Leave(o)

Next ==
  \/ Cancel \/ CloseIn
  \/ TapStep \/ Pass
  \/ \E o \in Observers : StreamStep(o) \/ ReaderStep(o)

Spec == Init /\ [][Next]_vars

(***************************************************************************)
(* Fairness.  Goroutines that can run do run.  A select is random among    *)
(* the ready cases, so fin and ctx cannot lose to the ticker for ever.     *)
(* The receiver of out reads while ctx is not cancelled, and the observed  *)
(* channel is closed once it is complete or ctx is cancelled, which is     *)
(* what Process promises.  Nobody has to close a browser.                  *)
(***************************************************************************)
Fairness ==
  /\ WF_vars(CloseIn)
  /\ WF_vars(TapStep)
  /\ WF_vars(~cancelled /\ Pass)
  /\ \A o \in Observers :
       /\ WF_vars(StreamStep(o))
       /\ SF_vars(SeeFin(o)) /\ SF_vars(HandlerReturns(o))
       /\ WF_vars(kind[o] # "browser" /\ ReaderStep(o))

FairSpec == Spec /\ Fairness

-----------------------------------------------------------------------------
TypeOK ==
  /\ cancelled \in BOOLEAN /\ inClosed \in BOOLEAN /\ fin \in BOOLEAN
  /\ left \in 0..Total
  /\ tap \in {"range", "count", "countFailed", "send", "closeFin",
              "closeOut", "exited"}
  /\ bad \in BOOLEAN
  /\ done \in 0..Total /\ failed \in 0..Total
  /\ passed \in Snapshot
  /\ kind \in [Observers -> {"reporter", "pusher", "browser"}]
  /\ spc \in [Observers -> {"select", "loadFirst", "loadSecond", "put",
                            "exited"}]
  /\ final \in [Observers -> BOOLEAN]
  /\ snap \in [Observers -> Snapshot]
  /\ buf \in [Observers -> {<<>>} \cup {<<s>> : s \in Snapshot}]
  /\ rpc \in [Observers -> {"read", "report", "ended", "left"}]
  /\ seen \in [Observers -> Snapshot]

\* The counters run ahead of the pass-through by the Result in hand, or by the
\* one Result the tap dropped when ctx was cancelled, and by no more: without
\* a cancellation, the end of out means that every count is exact.
CountsMatchStream ==
  /\ done - passed.done \in 0..1
  /\ failed - passed.failed \in 0..1
  /\ tap \in {"closeFin", "closeOut", "exited"} /\ ~cancelled
       => passed = [done |-> Total, failed |-> failed] /\ done = Total

\* A snapshot an observer received never claims more successes than there
\* were, but for the Result being counted at that moment: failed is loaded
\* after done, so what happens in between can only lower Succeeded.
SuccessNotInflated ==
  \A o \in Observers :
    seen[o].done - seen[o].failed <= (done - failed) + 1

\* An observer that reads its stream to the end has seen the final counts.
FinalCountsSeen ==
  \A o \in Observers :
    rpc[o] = "ended" => fin /\ seen[o] = [done |-> done, failed |-> failed]

\* Once the observed stream has ended, every Stream closes its channel and its
\* goroutine ends, unless it was a pusher's that has left: a slow reader, or a
\* full buffer, only delays it.  A handler also ends when its browser has gone
\* or ctx is cancelled.
StreamCloses ==
  \A o \in Observers :
    (fin \/ (kind[o] = "browser" /\ (cancelled \/ rpc[o] = "left")))
      ~> spc[o] = "exited" \/ (kind[o] = "pusher" /\ rpc[o] = "left")
=============================================================================
