------------------------------ MODULE StatsProofs -----------------------------
(***************************************************************************)
(* Machine-checked theorems about the observation of a Result stream, for  *)
(* any number of Results and of observers.                                 *)
(***************************************************************************)
EXTENDS Stats, TLAPS

Counts == [done |-> done, failed |-> failed]

\* What is counted, against what was received and passed on.
TapInv ==
  /\ done = Total - left - IF tap = "count" THEN 1 ELSE 0
  /\ passed.failed <= passed.done
  /\ tap \in {"range", "count"} => passed = Counts
  /\ tap = "countFailed" => /\ bad
                            /\ done = passed.done + 1
                            /\ failed = passed.failed
  /\ tap = "send" => /\ done = passed.done + 1
                     /\ failed = passed.failed + IF bad THEN 1 ELSE 0
  /\ tap \in {"closeFin", "closeOut", "exited"} =>
       \/ inClosed /\ passed = Counts
       \/ /\ cancelled
          /\ done = passed.done + 1
          /\ failed - passed.failed \in 0..1
  /\ inClosed => left = 0 \/ cancelled
  /\ fin <=> tap \in {"closeOut", "exited"}

\* The successes there are for certain: the Result whose failure is yet to be
\* counted is none.  This number never falls.
Surely == done - failed - IF tap = "countFailed" THEN 1 ELSE 0

\* The bound on what a snapshot may claim.
Honest(d, f) == d - f <= Surely + 1

\* A snapshot is honest when it is taken, and therefore wherever it is later.
HonestInv(o) ==
  /\ spc[o] = "loadSecond" => Honest(snap[o].done, failed)
  /\ spc[o] = "put" => Honest(snap[o].done, snap[o].failed)
  /\ buf[o] # <<>> => Honest(Head(buf[o]).done, Head(buf[o]).failed)
  /\ Honest(seen[o].done, seen[o].failed)

\* The final snapshot, taken when the counters are at rest, is the last one.
FinalInv(o) ==
  /\ final[o] => fin /\ spc[o] # "select"
  /\ final[o] /\ spc[o] = "loadSecond" => snap[o].done = done
  /\ final[o] /\ spc[o] = "put" => snap[o] = Counts
  /\ spc[o] = "exited" =>
       \/ rpc[o] = "left"
       \/ fin /\ buf[o] = <<>> /\ seen[o] = Counts
       \/ fin /\ buf[o] = <<Counts>> /\ rpc[o] \in {"read", "report"}
  /\ rpc[o] = "ended" => spc[o] = "exited"
  /\ kind[o] = "browser" => buf[o] = <<>>

IInv ==
  /\ TypeOK
  /\ TapInv
  /\ \A o \in Observers : HonestInv(o) /\ FinalInv(o)

-----------------------------------------------------------------------------
(* The types, in two parts.                                                *)

TapTypes ==
  /\ cancelled \in BOOLEAN /\ inClosed \in BOOLEAN /\ fin \in BOOLEAN
  /\ left \in 0..Total
  /\ tap \in {"range", "count", "countFailed", "send", "closeFin",
              "closeOut", "exited"}
  /\ bad \in BOOLEAN
  /\ done \in 0..Total /\ failed \in 0..Total
  /\ passed \in Snapshot

ObserverTypes ==
  /\ kind \in [Observers -> {"reporter", "pusher", "browser"}]
  /\ spc \in [Observers -> {"select", "loadFirst", "loadSecond", "put",
                            "exited"}]
  /\ final \in [Observers -> BOOLEAN]
  /\ snap \in [Observers -> Snapshot]
  /\ buf \in [Observers -> {<<>>} \cup {<<s>> : s \in Snapshot}]
  /\ rpc \in [Observers -> {"read", "report", "ended", "left"}]
  /\ seen \in [Observers -> Snapshot]

LEMMA TypeParts == TypeOK <=> TapTypes /\ ObserverTypes
  BY DEF TypeOK, TapTypes, ObserverTypes

LEMMA InitIInv == Init => IInv
<1> SUFFICES ASSUME Init PROVE IInv
  OBVIOUS
<1> USE TotalAssumption DEF Init
<1>0. Empty \in Snapshot /\ Empty.done = 0 /\ Empty.failed = 0
  BY DEF Empty, Snapshot
<1>1. TapTypes /\ TapInv
  <2>1. TapTypes
    <3>1. left \in 0..Total /\ done \in 0..Total /\ failed \in 0..Total
      OBVIOUS
    <3>2. passed \in Snapshot
      BY <1>0
    <3>3. /\ cancelled = FALSE /\ inClosed = FALSE /\ fin = FALSE
          /\ tap = "range" /\ bad = FALSE
      OBVIOUS
    <3> QED
      BY <3>1, <3>2, <3>3 DEF TapTypes
  <2>2. passed = Counts
    BY DEF Counts, Empty
  <2> QED
    BY <1>0, <2>1, <2>2 DEF TapInv
<1>2. ObserverTypes
  BY <1>0 DEF ObserverTypes, FirstStep
<1>3. ASSUME NEW o \in Observers
      PROVE  HonestInv(o) /\ FinalInv(o)
  BY <1>0 DEF HonestInv, FinalInv, Honest, Surely, FirstStep
<1> QED
  BY <1>1, <1>2, <1>3, TypeParts DEF IInv

-----------------------------------------------------------------------------
(* The tap.                                                                *)

TapOrEnvironment == Cancel \/ CloseIn \/ TapStep \/ Pass

\* Every step of the tap accounts for what it received, and neither takes a
\* success back nor counts after fin is closed.
LEMMA TapCounts ==
  ASSUME TapTypes, TapInv, TapOrEnvironment
  PROVE  /\ TapTypes' /\ TapInv'
         /\ UNCHANGED observers
         /\ failed <= failed' /\ Surely <= Surely'
         /\ fin => fin' /\ UNCHANGED <<done, failed>>
<1> USE TotalAssumption
        DEF TapTypes, TapInv, Surely, Counts, Snapshot, upstream, counters,
            tapVars
<1>1. CASE Cancel
  BY <1>1 DEF Cancel
<1>2. CASE CloseIn
  BY <1>2 DEF CloseIn
<1>3. CASE Receive
  BY <1>3 DEF Receive
<1>4. CASE AddDone
  BY <1>4 DEF AddDone
<1>5. CASE AddFailed
  BY <1>5 DEF AddFailed, Add
<1>6. CASE LeaveOnCancel
  <2>1. failed - passed.failed \in 0..1
    BY <1>6 DEF LeaveOnCancel
  <2>2. /\ cancelled /\ done = passed.done + 1 /\ ~fin /\ tap = "send"
        /\ tap' = "closeFin"
        /\ UNCHANGED <<cancelled, left, inClosed, bad, done, failed, fin,
                       passed, observers>>
    BY <1>6 DEF LeaveOnCancel, Returns
  <2>3. TapTypes'
    BY <2>2
  <2> QED
    <3>1. TapInv'
      BY <2>1, <2>2
    <3>2. Surely' = Surely
      BY <2>2
    <3> QED
      BY <2>2, <2>3, <3>1, <3>2
<1>7. CASE EndOfInput
  BY <1>7 DEF EndOfInput
<1>9. CASE CloseFin
  BY <1>9 DEF CloseFin
<1>10. CASE CloseOut
  BY <1>10 DEF CloseOut
<1>8. CASE Pass
  BY <1>8 DEF Pass
<1> QED
  BY <1>1, <1>2, <1>3, <1>4, <1>5, <1>6, <1>7, <1>8, <1>9, <1>10
     DEF TapOrEnvironment, TapStep

\* The numbers that are compared.
LEMMA Numbers ==
  ASSUME TypeOK, NEW o \in Observers
  PROVE  /\ done \in Int /\ failed \in Int /\ Surely \in Int
         /\ snap[o].done \in Int /\ snap[o].failed \in Int
         /\ seen[o].done \in Int /\ seen[o].failed \in Int
         /\ buf[o] # <<>> => /\ buf[o] = <<Head(buf[o])>>
                             /\ Head(buf[o]) \in Snapshot
                             /\ Head(buf[o]).done \in Int
                             /\ Head(buf[o]).failed \in Int
<1> USE TotalAssumption
<1>1. done \in Int /\ failed \in Int
  BY DEF TypeOK
<1>2. Surely \in Int
  BY <1>1 DEF Surely
<1>3. \A s \in Snapshot : s.done \in Int /\ s.failed \in Int
  BY DEF Snapshot
<1>4. snap[o] \in Snapshot /\ seen[o] \in Snapshot
  BY DEF TypeOK
<1>5. buf[o] # <<>> => /\ buf[o] = <<Head(buf[o])>>
                       /\ Head(buf[o]) \in Snapshot
  BY DEF TypeOK
<1> QED
  BY <1>1, <1>2, <1>3, <1>4, <1>5

LEMMA Grows ==
  \A d, f, g, s, t \in Int :
    f <= g /\ s <= t /\ d - f <= s + 1 => d - g <= t + 1
  OBVIOUS

LEMMA TapKeeps ==
  ASSUME IInv, TapOrEnvironment
  PROVE  IInv'
<1>1. /\ TapTypes' /\ TapInv'
      /\ UNCHANGED observers
      /\ failed <= failed' /\ Surely <= Surely'
      /\ fin => fin' /\ UNCHANGED <<done, failed>>
  BY TapCounts, TypeParts DEF IInv
<1>2. TypeOK'
  BY <1>1, TypeParts
     DEF IInv, TypeOK, TapTypes, observers, streamVars, readerVars
<1>3. ASSUME NEW o \in Observers
      PROVE  HonestInv(o)' /\ FinalInv(o)'
  <2>1. HonestInv(o) /\ FinalInv(o)
    BY DEF IInv
  <2>2. /\ UNCHANGED <<kind, spc, final, snap, buf, rpc, seen>>
    BY <1>1 DEF observers, streamVars, readerVars
  <2>3. failed' \in Int /\ Surely' \in Int
    BY <1>2, TotalAssumption DEF TypeOK, Surely
  <2>4. HonestInv(o)'
    <3>1. /\ failed \in Int /\ Surely \in Int
          /\ snap[o].done \in Int /\ snap[o].failed \in Int
          /\ seen[o].done \in Int /\ seen[o].failed \in Int
          /\ buf[o] # <<>> => /\ Head(buf[o]).done \in Int
                              /\ Head(buf[o]).failed \in Int
      BY Numbers DEF IInv
    <3>2. Surely <= Surely' /\ failed <= failed'
      BY <1>1
    <3>3. ASSUME NEW d \in Int, NEW f \in Int, Honest(d, f)
          PROVE  d - f <= Surely' + 1
      <4>1. d - f <= Surely + 1
        BY <3>3 DEF Honest
      <4>2. f <= f
        OBVIOUS
      <4> QED
        BY <2>3, <3>1, <3>2, <4>1, <4>2, Grows
    <3>4. ASSUME NEW d \in Int, Honest(d, failed)
          PROVE  d - failed' <= Surely' + 1
      <4>1. d - failed <= Surely + 1
        BY <3>4 DEF Honest
      <4> QED
        BY <2>3, <3>1, <3>2, <4>1, Grows
    <3>5. \A d, f \in Int : Honest(d, f) => d - f <= Surely' + 1
      BY <3>3
    <3>6. \A d \in Int : Honest(d, failed) => d - failed' <= Surely' + 1
      BY <3>4
    <3>7. /\ spc[o] = "loadSecond" => snap[o].done - failed' <= Surely' + 1
          /\ spc[o] = "put" => snap[o].done - snap[o].failed <= Surely' + 1
          /\ buf[o] # <<>> =>
               Head(buf[o]).done - Head(buf[o]).failed <= Surely' + 1
          /\ seen[o].done - seen[o].failed <= Surely' + 1
      BY <2>1, <3>1, <3>5, <3>6 DEF HonestInv
    <3> QED
      BY <2>2, <3>7 DEF HonestInv, Honest
  <2>5. FinalInv(o)'
    BY <1>1, <2>1, <2>2 DEF FinalInv, Counts
  <2> QED
    BY <2>4, <2>5
<1> QED
  BY <1>1, <1>2, <1>3 DEF IInv

-----------------------------------------------------------------------------
(* The observers.                                                          *)

ObserverStep(o) == StreamStep(o) \/ ReaderStep(o)

\* A step of an observer is typed and leaves the tap and the others alone.
LEMMA ObserverTyped ==
  ASSUME TypeOK, NEW o \in Observers, ObserverStep(o)
  PROVE  /\ TypeOK'
         /\ UNCHANGED <<cancelled, tapVars>>
         /\ \A p \in Observers \ {o} :
              /\ kind'[p] = kind[p] /\ spc'[p] = spc[p]
              /\ final'[p] = final[p] /\ snap'[p] = snap[p]
              /\ buf'[p] = buf[p] /\ rpc'[p] = rpc[p] /\ seen'[p] = seen[p]
<1> USE DEF readerVars, streamVars
<1>1. CASE Tick(o)
  BY <1>1 DEF Tick, TypeOK, tapVars, upstream, counters
<1>2. CASE SeeFin(o)
  BY <1>2 DEF SeeFin, AtFin, TypeOK, tapVars, upstream, counters
<1>3. CASE LoadFirst(o) \/ LoadSecond(o)
  <2>1. PICK field \in {"done", "failed"} : Load(o, field)
    BY <1>3 DEF LoadFirst, LoadSecond, LoadOrder
  <2>2. snap' \in [Observers -> Snapshot]
    BY <2>1 DEF Load, TypeOK, Snapshot
  <2>3. \A p \in Observers \ {o} : snap'[p] = snap[p]
    BY <2>1 DEF Load, TypeOK
  <2>4. \E label \in {"loadSecond", "put"} : spc' = [spc EXCEPT ![o] = label]
    BY <1>3 DEF LoadFirst, LoadSecond
  <2>5. UNCHANGED <<cancelled, tapVars, kind, final, buf, readerVars>>
    BY <1>3 DEF LoadFirst, LoadSecond
  <2> QED
    BY <2>2, <2>3, <2>4, <2>5 DEF TypeOK, tapVars, upstream, counters
<1>4. CASE Put(o) \/ WriteEvent(o)
  <2>1. Empty \in Snapshot /\ AfterSnapshot(o) \in {"exited", "select"}
    BY TotalAssumption DEF Empty, Snapshot, AfterSnapshot
  <2>2. CASE Put(o)
    <3>1. <<snap[o]>> \in {<<s>> : s \in Snapshot}
      BY DEF TypeOK
    <3> QED
      BY <2>1, <2>2, <3>1 DEF Put, TypeOK, tapVars, upstream, counters
  <2>3. CASE WriteEvent(o)
    BY <2>1, <2>3 DEF WriteEvent, TypeOK, tapVars, upstream, counters
  <2> QED
    BY <1>4, <2>2, <2>3
<1>5. CASE HandlerReturns(o)
  BY <1>5 DEF HandlerReturns, TypeOK, tapVars, upstream, counters
<1>6. CASE Read(o)
  <2>1. Head(buf[o]) \in Snapshot
    BY <1>6, Numbers DEF Read
  <2> QED
    BY <1>6, <2>1 DEF Read, TypeOK, tapVars, upstream, counters
<1>7. CASE Reported(o) \/ EndOfStream(o) \/ Leave(o)
  BY <1>7
     DEF Reported, EndOfStream, Leave, TypeOK, tapVars, upstream, counters
<1> QED
  BY <1>1, <1>2, <1>3, <1>4, <1>5, <1>6, <1>7
     DEF ObserverStep, StreamStep, HandlerStep, ReaderStep

\* What the observer has in its hands is as honest as it was: failed is loaded
\* after done.
LEMMA ObserverHonest ==
  ASSUME IInv, NEW o \in Observers, ObserverStep(o)
  PROVE  HonestInv(o)'
<1>1. /\ UNCHANGED <<cancelled, tapVars>> /\ Surely' = Surely
  BY ObserverTyped DEF IInv, Surely, tapVars, counters
<1>2. HonestInv(o) /\ TypeOK /\ TapInv
  BY DEF IInv
<1>3. failed' = failed
  BY <1>1 DEF tapVars, counters
<1>4. \A d, f : Honest(d, f)' <=> Honest(d, f)
  BY <1>1 DEF Honest
<1> USE DEF HonestInv, readerVars, streamVars
<1>5. CASE Tick(o) \/ SeeFin(o)
  BY <1>2, <1>3, <1>4, <1>5 DEF Tick, SeeFin, AtFin, TypeOK
<1>6. CASE LoadFirst(o)
  <2>1. snap'[o].done = done /\ spc'[o] = "loadSecond"
    BY <1>2, <1>6 DEF LoadFirst, Load, LoadOrder, TypeOK, Snapshot
  <2>2. Honest(done, failed)
    BY <1>2, Numbers DEF Honest, Surely
  <2> QED
    BY <1>2, <1>3, <1>4, <1>6, <2>1, <2>2 DEF LoadFirst
<1>7. CASE LoadSecond(o)
  <2>1. snap'[o].done = snap[o].done /\ snap'[o].failed = failed
    BY <1>2, <1>7 DEF LoadSecond, Load, LoadOrder, TypeOK, Snapshot
  <2>2. spc'[o] = "put"
    BY <1>2, <1>7 DEF LoadSecond, TypeOK
  <2> QED
    BY <1>2, <1>3, <1>4, <1>7, <2>1, <2>2 DEF LoadSecond
<1>8. CASE Put(o)
  <2>1. /\ buf'[o] = <<snap[o]>> /\ spc'[o] \in {"exited", "select"}
        /\ seen'[o] = seen[o]
    BY <1>2, <1>8 DEF Put, AfterSnapshot, TypeOK
  <2>2. Head(buf'[o]) = snap[o]
    BY <2>1
  <2> QED
    BY <1>2, <1>3, <1>4, <1>8, <2>1, <2>2 DEF Put
<1>9. CASE WriteEvent(o)
  <2>1. /\ spc'[o] \in {"exited", "select"} /\ buf' = buf
        /\ seen'[o] \in {seen[o], snap[o]}
    BY <1>2, <1>9 DEF WriteEvent, AfterSnapshot, TypeOK
  <2> QED
    BY <1>2, <1>3, <1>4, <1>9, <2>1 DEF WriteEvent
<1>10. CASE HandlerReturns(o) \/ Reported(o) \/ EndOfStream(o) \/ Leave(o)
  BY <1>2, <1>3, <1>4, <1>10
     DEF HandlerReturns, Reported, EndOfStream, Leave, TypeOK
<1>11. CASE Read(o)
  <2>1. seen'[o] = Head(buf[o]) /\ buf'[o] = <<>>
    BY <1>2, <1>11 DEF Read, TypeOK
  <2> QED
    BY <1>2, <1>3, <1>4, <1>11, <2>1 DEF Read
<1> QED
  BY <1>5, <1>6, <1>7, <1>8, <1>9, <1>10, <1>11
     DEF ObserverStep, StreamStep, HandlerStep, ReaderStep

\* The final snapshot is taken after fin was closed, and is the last.
LEMMA ObserverEnds ==
  ASSUME IInv, NEW o \in Observers, ObserverStep(o)
  PROVE  FinalInv(o)'
<1>1. UNCHANGED <<done, failed, fin>> /\ Counts' = Counts
  BY ObserverTyped DEF IInv, Counts, tapVars, counters
<1>2. FinalInv(o) /\ TypeOK
  BY DEF IInv
<1> USE DEF FinalInv, readerVars, streamVars
<1>5. CASE Tick(o) \/ SeeFin(o)
  BY <1>1, <1>2, <1>5 DEF Tick, SeeFin, AtFin, TypeOK
<1>6. CASE LoadFirst(o)
  <2>1. snap'[o].done = done /\ spc'[o] = "loadSecond"
    BY <1>2, <1>6 DEF LoadFirst, Load, LoadOrder, TypeOK, Snapshot
  <2> QED
    BY <1>1, <1>2, <1>6, <2>1 DEF LoadFirst
<1>7. CASE LoadSecond(o)
  <2>1. /\ snap'[o].done = snap[o].done /\ snap'[o].failed = failed
        /\ snap'[o] = [done |-> snap'[o].done, failed |-> snap'[o].failed]
    BY <1>2, <1>7 DEF LoadSecond, Load, LoadOrder, TypeOK, Snapshot
  <2>2. spc'[o] = "put"
    BY <1>2, <1>7 DEF LoadSecond, TypeOK
  <2> QED
    BY <1>1, <1>2, <1>7, <2>1, <2>2 DEF LoadSecond, Counts
<1>8. CASE Put(o)
  <2>1. /\ buf'[o] = <<snap[o]>> /\ UNCHANGED <<kind, final, rpc, seen>>
        /\ spc'[o] = IF final[o] THEN "exited" ELSE "select"
        /\ kind[o] # "browser" /\ spc[o] = "put"
    BY <1>2, <1>8 DEF Put, AfterSnapshot, TypeOK
  <2>2. rpc[o] \in {"read", "report", "left"}
    BY <1>2, <2>1 DEF TypeOK
  <2> QED
    BY <1>1, <1>2, <2>1, <2>2
<1>9. CASE WriteEvent(o)
  <2>0. spc'[o] = IF final[o] THEN "exited" ELSE "select"
    BY <1>2, <1>9 DEF WriteEvent, AfterSnapshot, TypeOK
  <2>1. /\ UNCHANGED <<kind, final, buf>> /\ buf[o] = <<>>
        /\ spc[o] = "put"
        /\ \/ rpc[o] = "left" /\ rpc' = rpc
           \/ /\ seen'[o] = snap[o]
              /\ rpc'[o] = IF final[o] THEN "ended" ELSE rpc[o]
    BY <1>2, <1>9 DEF WriteEvent, TypeOK
  <2>2. CASE final[o]
    BY <1>1, <1>2, <2>0, <2>1, <2>2
  <2>3. CASE ~final[o]
    BY <1>1, <1>2, <2>0, <2>1, <2>3
  <2> QED
    BY <2>2, <2>3
<1>10. CASE HandlerReturns(o)
  BY <1>1, <1>2, <1>10 DEF HandlerReturns, TypeOK
<1>12. CASE EndOfStream(o)
  BY <1>1, <1>2, <1>12 DEF EndOfStream, TypeOK
<1>13. CASE Reported(o) \/ Leave(o)
  BY <1>1, <1>2, <1>13 DEF Reported, Leave, TypeOK
<1>11. CASE Read(o)
  <2>1. /\ seen'[o] = Head(buf[o]) /\ buf'[o] = <<>> /\ rpc'[o] = "report"
        /\ UNCHANGED <<kind, spc, final, snap>>
        /\ rpc[o] = "read" /\ buf[o] # <<>>
    BY <1>2, <1>11 DEF Read, TypeOK
  <2>2. buf[o] = <<Counts>> => Head(buf[o]) = Counts
    OBVIOUS
  <2> QED
    BY <1>1, <1>2, <2>1, <2>2
<1> QED
  BY <1>5, <1>6, <1>7, <1>8, <1>9, <1>10, <1>11, <1>12, <1>13
     DEF ObserverStep, StreamStep, HandlerStep, ReaderStep

LEMMA ObserverKeeps ==
  ASSUME IInv, NEW o \in Observers, ObserverStep(o)
  PROVE  IInv'
<1>1. /\ TypeOK' /\ UNCHANGED <<cancelled, tapVars>>
      /\ \A p \in Observers \ {o} :
           /\ kind'[p] = kind[p] /\ spc'[p] = spc[p]
           /\ final'[p] = final[p] /\ snap'[p] = snap[p]
           /\ buf'[p] = buf[p] /\ rpc'[p] = rpc[p] /\ seen'[p] = seen[p]
  BY ObserverTyped DEF IInv
<1>2. UNCHANGED <<left, inClosed, tap, bad, done, failed, fin, passed,
                  cancelled>>
  BY <1>1 DEF tapVars, upstream, counters
<1>3. TapInv'
  BY <1>2 DEF IInv, TapInv, Counts
<1>4. \A d, f : Honest(d, f)' <=> Honest(d, f)
  BY <1>2 DEF Honest, Surely
<1>5. ASSUME NEW p \in Observers, p # o
      PROVE  HonestInv(p)' /\ FinalInv(p)'
  BY <1>1, <1>2, <1>4, <1>5 DEF IInv, HonestInv, FinalInv, Counts
<1> QED
  BY <1>1, <1>3, <1>5, ObserverHonest, ObserverEnds DEF IInv

-----------------------------------------------------------------------------
\* Every step keeps the invariant.
LEMMA NextIInv == IInv /\ [Next]_vars => IInv'
<1> SUFFICES ASSUME IInv, [Next]_vars PROVE IInv'
  OBVIOUS
<1>1. CASE Next
  BY <1>1, TapKeeps, ObserverKeeps DEF Next, TapOrEnvironment, ObserverStep
<1>2. CASE UNCHANGED vars
  BY <1>2 DEF vars, tapVars, upstream, counters, observers, streamVars,
              readerVars, IInv, TypeOK, TapInv, HonestInv, FinalInv, Honest,
              Surely, Counts
<1> QED
  BY <1>1, <1>2

\* The counters never exceed the Results there are, and so do all snapshots.
THEOREM TypeCorrect == Spec => []TypeOK
<1>1. IInv => TypeOK
  BY DEF IInv
<1> QED
  BY <1>1, InitIInv, NextIInv, PTL DEF Spec

\* The counters are one Result ahead of what was passed on, at most, and exact
\* at the end of a stream that was not cancelled.
THEOREM CountsFollow == Spec => []CountsMatchStream
<1>1. IInv => CountsMatchStream
  <2> SUFFICES ASSUME IInv PROVE CountsMatchStream
    OBVIOUS
  <2> USE TotalAssumption DEF IInv, TypeOK, TapInv, Counts
  <2>1. passed = [done |-> passed.done, failed |-> passed.failed]
        /\ passed.done \in Int /\ passed.failed \in Int
    BY DEF Snapshot
  <2>2. done - passed.done \in 0..1 /\ failed - passed.failed \in 0..1
    BY <2>1
  <2>3. ASSUME tap \in {"closeFin", "closeOut", "exited"}, ~cancelled
        PROVE  passed = [done |-> Total, failed |-> failed] /\ done = Total
    BY <2>1, <2>3
  <2> QED
    BY <2>2, <2>3 DEF CountsMatchStream
<1> QED
  BY <1>1, InitIInv, NextIInv, PTL DEF Spec

\* Although a snapshot loads the counters one after the other while the tap
\* counts, it claims one success too many at most, for any number of steps
\* between the loads: what happens in between can only lower Succeeded.
THEOREM SuccessHonest == Spec => []SuccessNotInflated
<1>1. IInv => SuccessNotInflated
  <2> SUFFICES ASSUME IInv, NEW o \in Observers
               PROVE  seen[o].done - seen[o].failed <= (done - failed) + 1
    BY DEF SuccessNotInflated
  <2>1. Honest(seen[o].done, seen[o].failed)
    BY DEF IInv, HonestInv
  <2> QED
    BY <2>1, Numbers DEF IInv, Honest, Surely
<1> QED
  BY <1>1, InitIInv, NextIInv, PTL DEF Spec

\* Who reads a stream to its end has seen the final counts: fin is closed after
\* the last count, and the snapshot that follows is the last.
THEOREM FinalSeen == Spec => []FinalCountsSeen
<1>1. IInv => FinalCountsSeen
  BY DEF IInv, FinalInv, FinalCountsSeen, Counts
<1> QED
  BY <1>1, InitIInv, NextIInv, PTL DEF Spec
=============================================================================
