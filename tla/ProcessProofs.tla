---------------------------- MODULE ProcessProofs ----------------------------
(***************************************************************************)
(* Machine-checked theorems about the engine of Process, for any pool, any *)
(* set of items - infinite too - and any number of attempts.               *)
(***************************************************************************)
EXTENDS Process, FiniteSetTheorems, TLAPS

Live == {w \in Workers : pc[w] # "exited"}

\* The WaitGroup counts the workers that have not left their loop, and out is
\* closed only once it reached zero.
WaitGroupInv ==
  /\ wg = Cardinality(Live)
  /\ outClosed => wg = 0

Busy == {"start", "await", "backoff", "send"}

\* The next attempt of a worker is a retry.
Retried(w) == pc[w] = "backoff" \/ (pc[w] = "start" /\ job[w].attempts > 0)

\* What worker w holds at each point of its loop.
JobOK(w) ==
  /\ pc[w] \notin Busy => job[w] = NewJob(NoItem)
  /\ pc[w] \in Busy => job[w] \in Result
  /\ pc[w] \in {"start", "backoff"} => job[w].attempts < Retries
  /\ pc[w] \in {"await", "backoff", "send"} => job[w].attempts >= 1
  /\ pc[w] = "await" => calls[Attempt(w)] # "none"
  /\ pc[w] = "await" => Attempt(w) \notin abandoned
  /\ Retried(w) => /\ calls[Attempt(w)] = "failed" \/ Attempt(w) \in abandoned
                   /\ job[w].val \in {Attempt(w), Zero}
  /\ pc[w] = "send" => Honest(job[w])

JobInv == \A w \in Workers : JobOK(w)

\* An item is in at most one place; dropped items mean that ctx is done.
PlaceInv ==
  /\ \A v, w \in Workers : pc[v] \in Busy /\ pc[w] \in Busy
                           /\ job[v].item = job[w].item => v = w
  /\ \A w \in Workers : pc[w] \in Busy =>
       /\ job[w].item \notin unsent
       /\ job[w].item \notin dropped
       /\ results[job[w].item] = <<>>
  /\ \A i \in unsent : i \notin dropped /\ results[i] = <<>>
  /\ \A i \in dropped : results[i] = <<>>
  /\ \A i \in Items : Len(results[i]) <= 1
  /\ \A i \in Items : \/ i \in unsent \cup dropped
                      \/ results[i] # <<>>
                      \/ \E w \in Workers : pc[w] \in Busy /\ job[w].item = i
  /\ dropped # {} => cancelled

\* No call has been made for an item still offered, nor for an attempt its
\* worker has not reached.
CallInv ==
  /\ \A c \in Calls : c.item \in unsent => calls[c] = "none"
  /\ \A w \in Workers, c \in Calls :
       pc[w] \in Busy /\ c.item = job[w].item /\ c.attempt > job[w].attempts
         => calls[c] = "none"
  /\ \A c \in abandoned : calls[c] # "none"

IInv ==
  /\ TypeOK
  /\ WaitGroupInv
  /\ JobInv
  /\ PlaceInv
  /\ CallInv
  /\ RetryOnlyAfterFailure
  /\ ResultsHonest

-----------------------------------------------------------------------------
\* Results are distinct from the empty job, which belongs to no item.
LEMMA JobTypes ==
  /\ NewJob(NoItem) \notin Result
  /\ \A i \in Items : NewJob(i) \in Result
  BY ItemAssumption, RetryAssumption DEF NewJob, Result, Zero, Errors

\* The job of a worker that holds an item.
LEMMA BusyJob ==
  ASSUME TypeOK, JobInv, NEW w \in Workers, pc[w] \in Busy
  PROVE  /\ job[w] \in Result
         /\ job[w].item \in Items
         /\ job[w].attempts \in 0..Retries
         /\ pc[w] \in {"await", "backoff", "send"} => Attempt(w) \in Calls
  <1>1. job[w] \in Result
    BY DEF JobInv, JobOK
  <1>2. job[w].item \in Items /\ job[w].attempts \in 0..Retries
    BY <1>1 DEF Result
  <1>3. pc[w] \in {"await", "backoff", "send"} =>
          job[w].attempts \in 1..Retries
    BY <1>2, RetryAssumption DEF JobInv, JobOK
  <1>4. QED
    BY <1>1, <1>2, <1>3 DEF Attempt, Calls

\* wg.Done() by a worker that has not left yet: the counter stays the number
\* of the workers in their loop, and out was not closed.
LEMMA LeaveCounts ==
  ASSUME TypeOK, WaitGroupInv, NEW w \in Workers, pc[w] # "exited",
         pc' = [pc EXCEPT ![w] = "exited"], wg' = wg - 1,
         outClosed' = outClosed
  PROVE  WaitGroupInv' /\ wg' \in 0..Cardinality(Workers) /\ ~outClosed
  <1>1. IsFiniteSet(Live) /\ w \in Live
    BY PoolAssumption, FS_Subset DEF Live
  <1>2. Live' = Live \ {w}
    BY DEF Live, TypeOK
  <1>3. /\ Cardinality(Live') = Cardinality(Live) - 1
        /\ Cardinality(Live) \in Nat
        /\ IsFiniteSet(Live')
    BY <1>1, <1>2, FS_RemoveElement, FS_CardinalityType
  <1>4. Cardinality(Live') \in Nat /\ Cardinality(Workers) \in Nat
    BY <1>3, PoolAssumption, FS_CardinalityType
  <1>5. wg = Cardinality(Live) /\ wg' = Cardinality(Live')
    BY <1>3 DEF WaitGroupInv
  <1>6. wg # 0 /\ wg' \in 0..Cardinality(Workers)
    BY <1>3, <1>4, <1>5 DEF TypeOK
  <1>7. QED
    BY <1>5, <1>6 DEF WaitGroupInv

\* A step that moves a worker between two points of its loop leaves the set
\* of the workers in their loop alone.
LEMMA StayCounts ==
  ASSUME TypeOK, WaitGroupInv, NEW w \in Workers, pc[w] # "exited",
         NEW p, p # "exited", pc' = [pc EXCEPT ![w] = p],
         wg' = wg, outClosed' = outClosed
  PROVE  WaitGroupInv'
  <1>1. Live' = Live
    BY DEF Live, TypeOK
  <1>2. QED
    BY <1>1 DEF WaitGroupInv

-----------------------------------------------------------------------------
(* Frame lemmas: what a step of worker w leaves as it was.                 *)

\* A step of w that touches no call but those of the item it holds does not
\* disturb what another worker v holds.
LEMMA OthersKeepJob ==
  ASSUME TypeOK, JobInv, PlaceInv,
         NEW w \in Workers, NEW v \in Workers, v # w,
         pc[w] \in Busy,
         pc'[v] = pc[v], job'[v] = job[v], cancelled' = cancelled,
         \A c \in Calls : c.item # job[w].item =>
           calls'[c] = calls[c] /\ (c \in abandoned' <=> c \in abandoned)
  PROVE  JobOK(v)'
  <1>1. Attempt(v)' = Attempt(v) /\ Retried(v)' = Retried(v)
    BY DEF Attempt, Retried
  <1>2. CASE pc[v] \notin Busy
    BY <1>1, <1>2 DEF JobInv, JobOK, Busy, Retried
  <1>3. CASE pc[v] \in Busy
    <2>1. job[v].item # job[w].item /\ job[v] \in Result
      BY <1>3, BusyJob DEF PlaceInv
    <2>2. ASSUME NEW n \in 1..Retries
          PROVE  LET c == [item |-> job[v].item, attempt |-> n]
                 IN  /\ calls'[c] = calls[c]
                     /\ c \in abandoned' <=> c \in abandoned
      BY <2>1 DEF Calls, Result
    <2>3. job[v].attempts \in 0..Retries
      BY <2>1 DEF Result
    <2>4. pc[v] \in {"await", "backoff", "send"} \/ Retried(v) =>
            /\ calls'[Attempt(v)] = calls[Attempt(v)]
            /\ Attempt(v) \in abandoned' <=> Attempt(v) \in abandoned
      BY <2>2, <2>3, <1>3, RetryAssumption DEF JobInv, JobOK, Attempt, Retried
    <2>5. pc[v] = "send" => Honest(job[v])'
      BY <2>2, <2>3, RetryAssumption DEF JobInv, JobOK, Honest
    <2>6. QED
      BY <1>1, <2>4, <2>5 DEF JobInv, JobOK, Retried
  <1>4. QED
    BY <1>2, <1>3

\* The Results already received stay honest when only calls of an item that
\* has none change.
LEMMA ResultsKept ==
  ASSUME TypeOK, ResultsHonest, NEW i \in Items, results[i] = <<>>,
         results' = results, cancelled => cancelled',
         \A c \in Calls : c.item # i =>
           calls'[c] = calls[c] /\ (c \in abandoned' <=> c \in abandoned)
  PROVE  ResultsHonest'
  <1> SUFFICES ASSUME NEW x \in Items, NEW k \in DOMAIN results[x]
               PROVE  /\ results[x][k].item = x
                      /\ Honest(results[x][k])'
    BY DEF ResultsHonest
  <1> DEFINE r == results[x][k]
             last == [item |-> r.item, attempt |-> r.attempts]
  <1>1. r \in Result /\ r.item = x /\ Honest(r)
    BY DEF TypeOK, ResultsHonest
  <1>2. x # i
    OBVIOUS
  <1>3. last \in Calls
    BY <1>1, RetryAssumption DEF Result, Calls, Honest
  <1>4. /\ calls'[last] = calls[last]
        /\ last \in abandoned' <=> last \in abandoned
    BY <1>1, <1>2, <1>3
  <1>5. QED
    BY <1>1, <1>4 DEF Honest

-----------------------------------------------------------------------------
\* The engine starts with every worker at its outer select.
LEMMA InitIInv == Init => IInv
  <1> SUFFICES ASSUME Init PROVE IInv
    OBVIOUS
  <1> USE DEF Init
  <1>1. TypeOK
    <2>1. wg \in 0..Cardinality(Workers)
      BY PoolAssumption, FS_CardinalityType
    <2>2. /\ pc \in [Workers -> {"select", "start", "await", "backoff",
                                 "send", "exited"}]
          /\ job \in [Workers -> Result \cup {NewJob(NoItem)}]
          /\ calls \in [Calls -> {"none", "running", "ok", "failed"}]
          /\ results \in [Items -> Seq(Result)]
      OBVIOUS
    <2>3. QED
      BY <2>1, <2>2 DEF TypeOK
  <1>2. WaitGroupInv
    <2>1. Live = Workers
      BY DEF Live
    <2>2. QED
      BY <2>1 DEF WaitGroupInv
  <1>3. JobInv
    BY DEF JobInv, JobOK, Busy, Retried
  <1>4. PlaceInv
    BY DEF PlaceInv, Busy
  <1>5. CallInv
    BY DEF CallInv, Busy, Calls
  <1>6. RetryOnlyAfterFailure /\ ResultsHonest
    BY DEF RetryOnlyAfterFailure, ResultsHonest
  <1>7. QED
    BY <1>1, <1>2, <1>3, <1>4, <1>5, <1>6 DEF IInv

\* Receiving an item moves it from the source to one worker.
LEMMA TakeIInv ==
  ASSUME IInv, NEW w \in Workers, Take(w)
  PROVE  IInv'
  <1> USE DEF IInv, Take, source, pool, attempts, closer, answers
  <1> PICK i \in unsent : /\ unsent' = unsent \ {i}
                          /\ job' = [job EXCEPT ![w] = NewJob(i)]
    OBVIOUS
  <1>1. TypeOK'
    BY JobTypes DEF TypeOK
  <1>2. WaitGroupInv'
    BY StayCounts
  <1>3. JobInv'
    BY JobTypes, RetryAssumption DEF JobInv, JobOK, TypeOK, Busy, Retried,
       NewJob, Attempt, Honest
  <1>4. PlaceInv'
    BY DEF PlaceInv, TypeOK, Busy, NewJob
  <1>5. CallInv'
    BY DEF CallInv, TypeOK, Busy, NewJob
  <1>6. RetryOnlyAfterFailure' /\ ResultsHonest'
    BY DEF RetryOnlyAfterFailure, ResultsHonest, Honest
  <1>7. QED
    BY <1>1, <1>2, <1>3, <1>4, <1>5, <1>6

\* A worker leaves its loop from the outer select, holding nothing.
LEMMA ExitIInv ==
  ASSUME IInv, NEW w \in Workers, Exit(w)
  PROVE  IInv'
  <1> USE DEF IInv, Exit, NoMoreInput, source, pool, attempts, closer, answers
  <1>1. WaitGroupInv' /\ wg' \in 0..Cardinality(Workers)
    BY LeaveCounts
  <1>2. TypeOK'
    BY <1>1 DEF TypeOK
  <1>3. JobInv'
    BY DEF JobInv, JobOK, TypeOK, Busy, Retried, Attempt, Honest
  <1>4. PlaceInv'
    BY DEF PlaceInv, TypeOK, Busy
  <1>5. CallInv'
    BY DEF CallInv, TypeOK, Busy
  <1>6. RetryOnlyAfterFailure' /\ ResultsHonest'
    BY DEF RetryOnlyAfterFailure, ResultsHonest, Honest
  <1>7. QED
    BY <1>1, <1>2, <1>3, <1>4, <1>5, <1>6

\* A new attempt is a call nobody made before, after one that failed.
LEMMA StartAttemptIInv ==
  ASSUME IInv, NEW w \in Workers, StartAttempt(w)
  PROVE  IInv'
  <1> USE DEF IInv, StartAttempt, source, pool, attempts, closer, answers
  <1> DEFINE a == [item |-> job[w].item, attempt |-> job[w].attempts + 1]
             j == [job[w] EXCEPT !.attempts = @ + 1]
  <1>1. /\ pc[w] \in Busy
        /\ job[w] \in Result
        /\ job[w].attempts < Retries
    BY BusyJob DEF Busy, JobInv, JobOK
  <1>2. /\ job' = [job EXCEPT ![w] = j]
        /\ j \in Result
        /\ a \in Calls
    <2>1. job[w].attempts + 1 \in 1..Retries /\ job[w].item \in Items
      BY <1>1, RetryAssumption DEF Result
    <2>2. j \in Result
      BY <1>1, <2>1 DEF Result
    <2>3. a \in Calls
      BY <2>1 DEF Calls
    <2>4. QED
      BY <2>2, <2>3 DEF TypeOK
  <1>3. /\ Attempt(w)' = a
        /\ calls' = [calls EXCEPT ![a] = "running"]
    BY <1>1, <1>2 DEF TypeOK, Attempt, Result
  <1>4. calls[a] = "none" /\ a \notin abandoned
    BY <1>1, <1>2, RetryAssumption DEF CallInv, Result
  <1> HIDE DEF a, j
  <1>5. j.item = job[w].item /\ j.val = job[w].val
        /\ j.attempts = job[w].attempts + 1
    BY <1>1 DEF j, Result
  <1>6. a.item = job[w].item /\ a.attempt = job[w].attempts + 1
    BY DEF a
  <1>7. TypeOK'
    <2>1. job' \in [Workers -> Result \cup {NewJob(NoItem)}]
      BY <1>2 DEF TypeOK
    <2>2. calls' \in [Calls -> {"none", "running", "ok", "failed"}]
      BY <1>2, <1>3 DEF TypeOK
    <2>3. QED
      BY <2>1, <2>2 DEF TypeOK
  <1>8. WaitGroupInv'
    BY StayCounts
  <1>9. \A c \in Calls : c.item # job[w].item => calls'[c] = calls[c]
    BY <1>3, <1>6 DEF TypeOK
  <1>10. JobInv'
    <2>1. JobOK(w)'
      <3>1. pc'[w] = "await" /\ job'[w] = j /\ calls'[a] = "running"
        BY <1>2, <1>3 DEF TypeOK
      <3>2. j.attempts >= 1
        BY <1>1, <1>5 DEF Result
      <3>3. QED
        BY <3>1, <3>2, <1>2, <1>3, <1>4 DEF JobOK, Busy, Retried
    <2>2. ASSUME NEW v \in Workers, v # w PROVE JobOK(v)'
      BY <2>2, <1>1, <1>2, <1>9, OthersKeepJob DEF TypeOK
    <2>3. QED
      BY <2>1, <2>2 DEF JobInv
  <1>11. PlaceInv'
    BY <1>1, <1>2, <1>5 DEF PlaceInv, TypeOK, Busy
  <1>12. CallInv'
    <2>1. \A c \in Calls : c.item \in unsent => calls'[c] = "none"
      BY <1>1, <1>9 DEF CallInv, PlaceInv
    <2>2. ASSUME NEW v \in Workers, NEW c \in Calls, pc'[v] \in Busy,
                 c.item = job'[v].item, c.attempt > job'[v].attempts
          PROVE  calls'[c] = "none"
      <3>1. CASE v = w
        <4>1. job'[w] = j
          BY <1>2 DEF TypeOK
        <4>2. /\ c.attempt \in Nat
              /\ job[w].attempts \in Nat
          BY <1>1, RetryAssumption DEF Calls, Result
        <4>3. /\ c.item = job[w].item
              /\ c.attempt > job[w].attempts + 1
          BY <3>1, <2>2, <4>1, <1>5
        <4>4. c # a /\ c.attempt > job[w].attempts
          BY <4>2, <4>3, <1>6
        <4>5. calls[c] = "none"
          BY <4>3, <4>4, <1>1 DEF CallInv
        <4>6. QED
          BY <4>4, <4>5, <1>3 DEF TypeOK
      <3>2. CASE v # w
        <4>1. pc[v] \in Busy /\ job'[v] = job[v]
          BY <3>2, <2>2, <1>2 DEF TypeOK
        <4>2. QED
          BY <4>1, <3>2, <2>2, <1>1, <1>9 DEF CallInv, PlaceInv
      <3>3. QED
        BY <3>1, <3>2
    <2>3. \A c \in abandoned : calls'[c] # "none"
      BY <1>3, <1>4 DEF CallInv, TypeOK
    <2>4. QED
      BY <2>1, <2>2, <2>3 DEF CallInv
  <1>13. RetryOnlyAfterFailure'
    <2> SUFFICES ASSUME NEW c \in Calls, c.attempt > 1, calls'[c] # "none"
                 PROVE  \/ calls'[[c EXCEPT !.attempt = @ - 1]] = "failed"
                        \/ [c EXCEPT !.attempt = @ - 1] \in abandoned
      BY DEF RetryOnlyAfterFailure
    <2> DEFINE p == [c EXCEPT !.attempt = @ - 1]
    <2>1. p \in Calls /\ p.item = c.item /\ p.attempt = c.attempt - 1
      <3>1. c.attempt - 1 \in 1..Retries
        BY RetryAssumption DEF Calls
      <3>2. QED
        BY <3>1 DEF Calls
    <2>2. CASE c = a
      <3>1. p = Attempt(w)
        BY <2>1, <2>2, <1>1, <1>6 DEF Calls, Attempt, Result
      <3>2. Retried(w)
        BY <2>2, <1>1, <1>6 DEF Retried, Result
      <3>3. calls[p] = "failed" \/ p \in abandoned
        BY <3>1, <3>2 DEF JobInv, JobOK
      <3>4. p # a
        BY <2>1, <2>2 DEF Calls
      <3>5. QED
        BY <3>3, <3>4, <2>1, <1>3 DEF TypeOK
    <2>3. CASE c # a
      <3>1. calls[p] = "failed" \/ p \in abandoned
        BY <2>3, <1>3 DEF RetryOnlyAfterFailure, TypeOK
      <3>2. calls[p] = "failed" => p # a
        BY <1>4
      <3>3. QED
        BY <3>1, <3>2, <2>1, <1>3 DEF TypeOK
    <2>4. QED
      BY <2>2, <2>3
  <1>14. ResultsHonest'
    <2>1. results[job[w].item] = <<>> /\ job[w].item \in Items
      BY <1>1, BusyJob DEF PlaceInv
    <2>2. QED
      BY <2>1, <1>9, ResultsKept
  <1>15. QED
    BY <1>7, <1>8, <1>10, <1>11, <1>12, <1>13, <1>14

\* A worker that sees its call return stores its value and its error.
LEMMA ObserveIInv ==
  ASSUME IInv, NEW w \in Workers, Observe(w)
  PROVE  IInv'
  <1> USE DEF IInv, Observe, source, pool, attempts, closer, answers
  <1> DEFINE e == IF calls[Attempt(w)] = "ok" THEN "nil" ELSE "fn"
             p == AfterAttempt(w, e)
             j == [job[w] EXCEPT !.val = Attempt(w), !.err = e]
  <1>1. /\ pc[w] \in Busy
        /\ job[w] \in Result
        /\ Attempt(w) \in Calls
        /\ job[w].attempts \in 1..Retries
    BY BusyJob, RetryAssumption DEF Busy, JobInv, JobOK
  <1>2. /\ e \in Errors /\ e \in {"nil", "fn"}
        /\ e = "nil" <=> calls[Attempt(w)] = "ok"
        /\ e = "fn" <=> calls[Attempt(w)] = "failed"
    BY DEF Errors
  <1>3. /\ job' = [job EXCEPT ![w] = j]
        /\ pc' = [pc EXCEPT ![w] = p]
    BY DEF TypeOK
  <1>4. /\ p \in {"send", "backoff", "start"}
        /\ p = "send" <=> e = "nil" \/ job[w].attempts = Retries
    BY DEF AfterAttempt
  <1>5. j \in Result
    BY <1>1, <1>2 DEF Result
  <1>6. /\ j.item = job[w].item /\ j.attempts = job[w].attempts
        /\ j.val = Attempt(w) /\ j.err = e
    BY <1>1 DEF Result
  <1> HIDE DEF e, p, j
  <1>7. TypeOK'
    <2>1. job' \in [Workers -> Result \cup {NewJob(NoItem)}]
      BY <1>3, <1>5 DEF TypeOK
    <2>2. QED
      BY <2>1, <1>3, <1>4 DEF TypeOK
  <1>8. WaitGroupInv'
    BY <1>3, <1>4, StayCounts
  <1>9. JobInv'
    <2>1. JobOK(w)'
      <3>1. pc'[w] = p /\ job'[w] = j /\ Attempt(w)' = Attempt(w)
        BY <1>3, <1>6 DEF TypeOK, Attempt
      <3>2. Attempt(w) \notin abandoned
        BY DEF JobInv, JobOK
      <3>3. p = "send" => Honest(job[w])'
        BY <3>1, <3>2, <1>1, <1>2, <1>4, <1>6 DEF Honest, Attempt
      <3>4. p # "send" => j.attempts < Retries /\ calls[Attempt(w)] = "failed"
        BY <1>1, <1>2, <1>4, <1>6, RetryAssumption
      <3>5. QED
        BY <3>1, <3>3, <3>4, <1>1, <1>4, <1>5, <1>6 DEF JobOK, Busy, Retried
    <2>2. ASSUME NEW v \in Workers, v # w PROVE JobOK(v)'
      BY <2>2, <1>1, <1>3, OthersKeepJob DEF TypeOK
    <2>3. QED
      BY <2>1, <2>2 DEF JobInv
  <1>10. PlaceInv'
    BY <1>1, <1>3, <1>4, <1>6, SMTT(60) DEF PlaceInv, TypeOK, Busy
  <1>11. CallInv'
    BY <1>1, <1>3, <1>4, <1>6 DEF CallInv, TypeOK, Busy
  <1>12. RetryOnlyAfterFailure' /\ ResultsHonest'
    BY DEF RetryOnlyAfterFailure, ResultsHonest, Honest
  <1>13. QED
    BY <1>7, <1>8, <1>9, <1>10, <1>11, <1>12

\* A worker that gives an attempt up keeps a zero value, never the call's.
LEMMA GiveUpIInv ==
  ASSUME IInv, NEW w \in Workers, GiveUp(w)
  PROVE  IInv'
  <1> USE DEF IInv, GiveUp, Timed, Reasons, WithZero,
              source, pool, attempts, closer, answers
  <1>1. PICK e \in {"deadline", "canceled"} :
         /\ job' = [job EXCEPT ![w].val = Zero, ![w].err = e]
         /\ pc' = [pc EXCEPT ![w] = AfterAttempt(w, e)]
    OBVIOUS
  <1> DEFINE p == AfterAttempt(w, e)
             j == [job[w] EXCEPT !.val = Zero, !.err = e]
  <1>2. /\ pc[w] \in Busy
        /\ job[w] \in Result
        /\ Attempt(w) \in Calls
        /\ job[w].attempts \in 1..Retries
    BY BusyJob, RetryAssumption DEF Busy, JobInv, JobOK
  <1>3. abandoned' = abandoned \cup {Attempt(w)} /\ calls' = calls
    OBVIOUS
  <1>4. /\ job' = [job EXCEPT ![w] = j]
        /\ pc' = [pc EXCEPT ![w] = p]
    BY <1>1 DEF TypeOK
  <1>5. /\ p \in {"send", "backoff", "start"}
        /\ p = "send" <=> job[w].attempts = Retries
    BY DEF AfterAttempt
  <1>6. j \in Result
    BY <1>2 DEF Result, Errors
  <1>7. /\ j.item = job[w].item /\ j.attempts = job[w].attempts
        /\ j.val = Zero /\ j.err # "nil"
    BY <1>2 DEF Result
  <1> HIDE DEF p, j
  <1>8. TypeOK'
    <2>1. job' \in [Workers -> Result \cup {NewJob(NoItem)}]
      BY <1>4, <1>6 DEF TypeOK
    <2>2. QED
      BY <2>1, <1>2, <1>3, <1>4, <1>5 DEF TypeOK
  <1>9. WaitGroupInv'
    BY <1>4, <1>5, StayCounts
  <1>10. \A c \in Calls : c.item # job[w].item =>
          (c \in abandoned' <=> c \in abandoned)
    BY <1>3 DEF Attempt
  <1>11. JobInv'
    <2>1. JobOK(w)'
      <3>1. pc'[w] = p /\ job'[w] = j /\ Attempt(w)' = Attempt(w)
        BY <1>4, <1>7 DEF TypeOK, Attempt
      <3>2. p = "send" => Honest(job[w])'
        BY <3>1, <1>2, <1>5, <1>7 DEF Honest
      <3>3. p # "send" => j.attempts < Retries /\ Attempt(w) \in abandoned'
        BY <1>2, <1>3, <1>5, <1>7, RetryAssumption
      <3>4. QED
        BY <3>1, <3>2, <3>3, <1>2, <1>5, <1>6, <1>7 DEF JobOK, Busy, Retried
    <2>2. ASSUME NEW v \in Workers, v # w PROVE JobOK(v)'
      BY <2>2, <1>2, <1>3, <1>4, <1>10, OthersKeepJob DEF TypeOK
    <2>3. QED
      BY <2>1, <2>2 DEF JobInv
  <1>12. PlaceInv'
    <2>1. \A v \in Workers : /\ pc'[v] \in Busy <=> pc[v] \in Busy
                             /\ job'[v].item = job[v].item
      BY <1>2, <1>4, <1>5, <1>7 DEF TypeOK, Busy
    <2>2. /\ unsent' = unsent /\ results' = results
          /\ dropped' = dropped /\ cancelled' = cancelled
      OBVIOUS
    <2> HIDE DEF GiveUp
    <2>3. QED
      BY <2>1, <2>2 DEF PlaceInv
  <1>13. CallInv'
    <2>1. calls[Attempt(w)] # "none"
      BY DEF JobInv, JobOK
    <2>2. QED
      BY <2>1, <1>2, <1>3, <1>4, <1>5, <1>7 DEF CallInv, TypeOK, Busy
  <1>14. RetryOnlyAfterFailure'
    BY <1>3 DEF RetryOnlyAfterFailure
  <1>15. ResultsHonest'
    <2>1. results[job[w].item] = <<>> /\ job[w].item \in Items
      BY <1>2, BusyJob DEF PlaceInv
    <2>2. QED
      BY <2>1, <1>3, <1>10, ResultsKept
  <1>16. QED
    BY <1>8, <1>9, <1>11, <1>12, <1>13, <1>14, <1>15

\* The timer ends a backoff: the next attempt is a retry.
LEMMA BackoffElapsedIInv ==
  ASSUME IInv, NEW w \in Workers, BackoffElapsed(w)
  PROVE  IInv'
  <1> USE DEF IInv, BackoffElapsed, source, pool, attempts, closer, answers
  <1>1. TypeOK'
    BY JobTypes, RetryAssumption DEF TypeOK, JobInv, JobOK, Busy
  <1>2. WaitGroupInv'
    BY StayCounts
  <1>3. JobInv'
    BY JobTypes, RetryAssumption DEF JobInv, JobOK, PlaceInv, CallInv, TypeOK,
       Busy, Retried, NewJob, Attempt, Honest
  <1>4. PlaceInv'
    BY DEF PlaceInv, JobInv, JobOK, TypeOK, Busy, NewJob
  <1>5. CallInv'
    BY DEF CallInv, JobInv, JobOK, TypeOK, Busy, NewJob
  <1>6. RetryOnlyAfterFailure'
    BY DEF RetryOnlyAfterFailure, TypeOK
  <1>7. ResultsHonest'
    BY DEF ResultsHonest, Honest
  <1>8. QED
    BY <1>1, <1>2, <1>3, <1>4, <1>5, <1>6, <1>7

\* A cancelled backoff turns the last attempt into the Result.
LEMMA BackoffCancelledIInv ==
  ASSUME IInv, NEW w \in Workers, BackoffCancelled(w)
  PROVE  IInv'
  <1> USE DEF IInv, BackoffCancelled, CutShort,
              source, pool, attempts, closer, answers
  <1> DEFINE j == [job[w] EXCEPT !.err = "canceled"]
  <1>1. /\ pc[w] \in Busy
        /\ job[w] \in Result
        /\ job[w].attempts \in 1..Retries
    BY BusyJob, RetryAssumption DEF Busy, JobInv, JobOK
  <1>2. job' = [job EXCEPT ![w] = j] /\ pc' = [pc EXCEPT ![w] = "send"]
    BY DEF TypeOK
  <1>3. j \in Result
    BY <1>1 DEF Result, Errors
  <1>4. /\ j.item = job[w].item /\ j.attempts = job[w].attempts
        /\ j.val = job[w].val /\ j.err = "canceled"
    BY <1>1 DEF Result
  <1> HIDE DEF j
  <1>5. TypeOK'
    <2>1. job' \in [Workers -> Result \cup {NewJob(NoItem)}]
      BY <1>2, <1>3 DEF TypeOK
    <2>2. QED
      BY <2>1, <1>2 DEF TypeOK
  <1>6. WaitGroupInv'
    BY StayCounts
  <1>7. JobInv'
    <2>1. JobOK(w)'
      <3>1. pc'[w] = "send" /\ job'[w] = j
        BY <1>2 DEF TypeOK
      <3>2. j.val \in {Attempt(w), Zero}
        BY <1>4 DEF JobInv, JobOK, Retried
      <3>3. Honest(job[w])'
        BY <3>1, <3>2, <1>1, <1>4 DEF Honest, Attempt
      <3>4. QED
        BY <3>1, <3>3, <1>1, <1>3, <1>4 DEF JobOK, Busy, Retried
    <2>2. ASSUME NEW v \in Workers, v # w PROVE JobOK(v)'
      BY <2>2, <1>1, <1>2, OthersKeepJob DEF TypeOK
    <2>3. QED
      BY <2>1, <2>2 DEF JobInv
  <1>8. PlaceInv'
    BY <1>1, <1>2, <1>4 DEF PlaceInv, TypeOK, Busy
  <1>9. CallInv'
    BY <1>1, <1>2, <1>4 DEF CallInv, TypeOK, Busy
  <1>10. RetryOnlyAfterFailure' /\ ResultsHonest'
    BY DEF RetryOnlyAfterFailure, ResultsHonest, Honest
  <1>11. QED
    BY <1>5, <1>6, <1>7, <1>8, <1>9, <1>10

\* Sending moves the item from its worker to the results.
LEMMA SendIInv ==
  ASSUME IInv, NEW w \in Workers, Send(w)
  PROVE  IInv'
  <1> USE DEF IInv, Send, source, pool, attempts, closer, answers
  <1> DEFINE i == job[w].item
  <1>1. /\ pc[w] \in Busy
        /\ job[w] \in Result
        /\ i \in Items
        /\ results[i] = <<>>
        /\ Honest(job[w])
    BY BusyJob DEF Busy, JobInv, JobOK, PlaceInv
  <1>2. results' = [results EXCEPT ![i] = <<job[w]>>]
    BY <1>1 DEF TypeOK
  <1>3. TypeOK'
    <2>1. results' \in [Items -> Seq(Result)]
      BY <1>1, <1>2 DEF TypeOK
    <2>2. QED
      BY <2>1 DEF TypeOK
  <1>4. WaitGroupInv'
    BY StayCounts
  <1>5. JobInv'
    BY DEF JobInv, JobOK, TypeOK, Busy, Retried, Attempt, Honest
  <1>6. PlaceInv'
    BY <1>1, <1>2 DEF PlaceInv, TypeOK, Busy, NewJob
  <1>7. CallInv'
    BY DEF CallInv, TypeOK, Busy
  <1>8. RetryOnlyAfterFailure'
    BY DEF RetryOnlyAfterFailure
  <1>9. ResultsHonest'
    <2> SUFFICES ASSUME NEW x \in Items, NEW k \in DOMAIN results'[x]
                 PROVE  /\ results'[x][k].item = x
                        /\ Honest(results[x][k])'
      BY DEF ResultsHonest
    <2>1. CASE x = i
      BY <2>1, <1>1, <1>2 DEF TypeOK, Honest
    <2>2. CASE x # i
      BY <2>2, <1>2 DEF ResultsHonest, TypeOK, Honest
    <2>3. QED
      BY <2>1, <2>2
  <1>10. QED
    BY <1>3, <1>4, <1>5, <1>6, <1>7, <1>8, <1>9

\* Dropping a Result needs a cancelled ctx, and the worker leaves.
LEMMA DropIInv ==
  ASSUME IInv, NEW w \in Workers, Drop(w)
  PROVE  IInv'
  <1> USE DEF IInv, Drop, source, pool, attempts, closer, answers
  <1>1. WaitGroupInv' /\ wg' \in 0..Cardinality(Workers)
    BY LeaveCounts
  <1>2. pc[w] \in Busy /\ job[w].item \in Items
    BY BusyJob DEF Busy
  <1>3. TypeOK'
    BY <1>1, <1>2 DEF TypeOK
  <1>4. JobInv'
    BY DEF JobInv, JobOK, TypeOK, Busy, Retried, Attempt, Honest
  <1>5. PlaceInv'
    BY <1>2 DEF PlaceInv, TypeOK, Busy
  <1>6. CallInv'
    BY DEF CallInv, TypeOK, Busy
  <1>7. RetryOnlyAfterFailure' /\ ResultsHonest'
    BY DEF RetryOnlyAfterFailure, ResultsHonest, Honest
  <1>8. QED
    BY <1>1, <1>3, <1>4, <1>5, <1>6, <1>7

\* A call returns, early or late, and disturbs no Result already made.
LEMMA ReturnIInv ==
  ASSUME IInv, NEW c \in Calls, Return(c)
  PROVE  IInv'
  <1> USE DEF IInv, Return, source, pool, attempts, closer, answers
  <1>1. /\ calls' \in [Calls -> {"none", "running", "ok", "failed"}]
        /\ calls'[c] \in {"ok", "failed"}
        /\ \A d \in Calls : d # c => calls'[d] = calls[d]
    BY DEF TypeOK
  <1>2. TypeOK'
    BY <1>1 DEF TypeOK
  <1>3. WaitGroupInv'
    BY DEF WaitGroupInv, Live
  <1>4. \A d \in Calls :
          /\ calls[d] \in {"ok", "failed"} => calls'[d] = calls[d]
          /\ calls'[d] = "none" <=> calls[d] = "none"
    BY <1>1
  <1>5. JobInv'
    <2> SUFFICES ASSUME NEW w \in Workers PROVE JobOK(w)'
      BY DEF JobInv
    <2>1. /\ JobOK(w)
          /\ Attempt(w)' = Attempt(w)
          /\ Retried(w)' = Retried(w)
      BY DEF JobInv, Attempt, Retried
    <2>2. pc[w] \in {"await", "backoff", "send"} \/ Retried(w) =>
            Attempt(w) \in Calls
      BY BusyJob, RetryAssumption DEF Busy, Retried, Attempt, Calls
    <2>3. pc[w] = "send" => Honest(job[w])'
      BY <1>4, <2>1, <2>2 DEF JobOK, Honest, Attempt
    <2>4. QED
      BY <1>4, <2>1, <2>2, <2>3 DEF JobOK
  <1>6. PlaceInv' /\ CallInv'
    BY <1>4 DEF PlaceInv, CallInv, TypeOK
  <1>7. RetryOnlyAfterFailure'
    <2> SUFFICES ASSUME NEW d \in Calls, d.attempt > 1, calls'[d] # "none"
                 PROVE  \/ calls'[[d EXCEPT !.attempt = @ - 1]] = "failed"
                        \/ [d EXCEPT !.attempt = @ - 1] \in abandoned
      BY DEF RetryOnlyAfterFailure
    <2>1. d.attempt - 1 \in 1..Retries
      BY RetryAssumption DEF Calls
    <2>2. [d EXCEPT !.attempt = @ - 1] \in Calls
      BY <2>1 DEF Calls
    <2>3. QED
      BY <1>4, <2>2 DEF RetryOnlyAfterFailure
  <1>8. ResultsHonest'
    <2> SUFFICES ASSUME NEW x \in Items, NEW k \in DOMAIN results[x]
                 PROVE  /\ results[x][k].item = x
                        /\ Honest(results[x][k])'
      BY DEF ResultsHonest
    <2> DEFINE r == results[x][k]
    <2>1. r \in Result /\ r.item = x /\ Honest(r)
      BY DEF TypeOK, ResultsHonest
    <2>2. [item |-> r.item, attempt |-> r.attempts] \in Calls
      BY <2>1, RetryAssumption DEF Result, Calls, Honest
    <2>3. QED
      BY <2>1, <2>2, <1>4 DEF Honest
  <1>9. QED
    BY <1>2, <1>3, <1>5, <1>6, <1>7, <1>8

\* Cancelling ctx only weakens what an error has to mean.
LEMMA CancelIInv ==
  ASSUME IInv, Cancel
  PROVE  IInv'
  <1> USE DEF IInv, Cancel, source, pool, attempts, closer, answers
  <1>1. TypeOK'
    BY JobTypes, RetryAssumption DEF TypeOK, JobInv, JobOK, Busy
  <1>2. WaitGroupInv'
    BY DEF WaitGroupInv, Live
  <1>3. JobInv'
    BY JobTypes, RetryAssumption DEF JobInv, JobOK, PlaceInv, CallInv, TypeOK,
       Busy, Retried, NewJob, Attempt, Honest
  <1>4. PlaceInv'
    BY DEF PlaceInv, JobInv, JobOK, TypeOK, Busy, NewJob
  <1>5. CallInv'
    BY DEF CallInv, JobInv, JobOK, TypeOK, Busy, NewJob
  <1>6. RetryOnlyAfterFailure'
    BY DEF RetryOnlyAfterFailure, TypeOK
  <1>7. ResultsHonest'
    BY DEF ResultsHonest, Honest
  <1>8. QED
    BY <1>1, <1>2, <1>3, <1>4, <1>5, <1>6, <1>7

\* Closing the input touches no worker.
LEMMA CloseInIInv ==
  ASSUME IInv, CloseIn
  PROVE  IInv'
  <1> USE DEF IInv, CloseIn, source, pool, attempts, closer, answers
  <1>1. TypeOK'
    BY JobTypes, RetryAssumption DEF TypeOK, JobInv, JobOK, Busy
  <1>2. WaitGroupInv'
    BY DEF WaitGroupInv, Live
  <1>3. JobInv'
    BY JobTypes, RetryAssumption DEF JobInv, JobOK, PlaceInv, CallInv, TypeOK,
       Busy, Retried, NewJob, Attempt, Honest
  <1>4. PlaceInv'
    BY DEF PlaceInv, JobInv, JobOK, TypeOK, Busy, NewJob
  <1>5. CallInv'
    BY DEF CallInv, JobInv, JobOK, TypeOK, Busy, NewJob
  <1>6. RetryOnlyAfterFailure'
    BY DEF RetryOnlyAfterFailure, TypeOK
  <1>7. ResultsHonest'
    BY DEF ResultsHonest, Honest
  <1>8. QED
    BY <1>1, <1>2, <1>3, <1>4, <1>5, <1>6, <1>7

\* The closer runs when the counter is zero.
LEMMA CloseOutIInv ==
  ASSUME IInv, CloseOut
  PROVE  IInv'
  <1> USE DEF IInv, CloseOut, WaitDone, source, pool, attempts, closer, answers
  <1>1. TypeOK'
    BY JobTypes, RetryAssumption DEF TypeOK, JobInv, JobOK, Busy
  <1>2. WaitGroupInv'
    BY DEF WaitGroupInv, Live
  <1>3. JobInv'
    BY JobTypes, RetryAssumption DEF JobInv, JobOK, PlaceInv, CallInv, TypeOK,
       Busy, Retried, NewJob, Attempt, Honest
  <1>4. PlaceInv'
    BY DEF PlaceInv, JobInv, JobOK, TypeOK, Busy, NewJob
  <1>5. CallInv'
    BY DEF CallInv, JobInv, JobOK, TypeOK, Busy, NewJob
  <1>6. RetryOnlyAfterFailure'
    BY DEF RetryOnlyAfterFailure, TypeOK
  <1>7. ResultsHonest'
    BY DEF ResultsHonest, Honest
  <1>8. QED
    BY <1>1, <1>2, <1>3, <1>4, <1>5, <1>6, <1>7
-----------------------------------------------------------------------------
\* IInv is inductive: every step of the engine, its callers and fn keeps it.
LEMMA NextIInv == IInv /\ [Next]_vars => IInv'
  <1> SUFFICES ASSUME IInv, [Next]_vars PROVE IInv'
    OBVIOUS
  <1>1. CASE Cancel
    BY <1>1, CancelIInv
  <1>2. CASE CloseIn
    BY <1>2, CloseInIInv
  <1>3. CASE CloseOut
    BY <1>3, CloseOutIInv
  <1>4. ASSUME NEW w \in Workers, Take(w) PROVE IInv'
    BY <1>4, TakeIInv
  <1>5. ASSUME NEW w \in Workers, Exit(w) PROVE IInv'
    BY <1>5, ExitIInv
  <1>6. ASSUME NEW w \in Workers, StartAttempt(w) PROVE IInv'
    BY <1>6, StartAttemptIInv
  <1>7. ASSUME NEW w \in Workers, Observe(w) PROVE IInv'
    BY <1>7, ObserveIInv
  <1>8. ASSUME NEW w \in Workers, GiveUp(w) PROVE IInv'
    BY <1>8, GiveUpIInv
  <1>9. ASSUME NEW w \in Workers, BackoffElapsed(w) PROVE IInv'
    BY <1>9, BackoffElapsedIInv
  <1>10. ASSUME NEW w \in Workers, BackoffCancelled(w) PROVE IInv'
    BY <1>10, BackoffCancelledIInv
  <1>11. ASSUME NEW w \in Workers, Drop(w) PROVE IInv'
    BY <1>11, DropIInv
  <1>12. ASSUME NEW w \in Workers, Send(w) PROVE IInv'
    BY <1>12, SendIInv
  <1>13. ASSUME NEW c \in Calls, Return(c) PROVE IInv'
    BY <1>13, ReturnIInv
  <1>14. CASE UNCHANGED vars
    BY <1>14 DEF vars, source, pool, attempts, closer, answers, IInv, TypeOK,
       WaitGroupInv, Live, JobInv, JobOK, Busy, Retried, Attempt, Honest,
       PlaceInv, CallInv, RetryOnlyAfterFailure, ResultsHonest
  <1>15. QED
    BY <1>1, <1>2, <1>3, <1>4, <1>5, <1>6, <1>7, <1>8, <1>9, <1>10, <1>11,
       <1>12, <1>13, <1>14
       DEF Next, WorkerStep

\* The engine, in any interleaving, keeps the inductive invariant.
THEOREM Inductive == Spec => []IInv
  <1>1. Init => IInv
    BY InitIInv
  <1>2. IInv /\ [Next]_vars => IInv'
    BY NextIInv
  <1>3. QED
    BY <1>1, <1>2, PTL DEF Spec

\* Every variable keeps its type; wg, an int that Done() decrements, never
\* goes below zero, which would panic.
THEOREM TypeCorrect == Spec => []TypeOK
  <1>1. IInv => TypeOK
    BY DEF IInv
  <1>2. QED
    BY <1>1, Inductive, PTL

\* The places of PlaceInv, seen as the four places an item can be in.
LEMMA OncePerItem ==
  ASSUME IInv
  PROVE  EachItemOnce
  <1> USE DEF IInv
  <1>1. \A w \in Workers, i \in Items :
          Holds(w, i) <=> pc[w] \in Busy /\ job[w].item = i
    BY ItemAssumption DEF Holds, JobInv, JobOK, NewJob, Result
  <1>2. /\ unsent \cup Held \cup Answered \cup dropped = Items
        /\ unsent \cap (Held \cup Answered \cup dropped) = {}
        /\ Held \cap (Answered \cup dropped) = {}
        /\ Answered \cap dropped = {}
    BY <1>1 DEF PlaceInv, TypeOK, Held, Answered
  <1>3. \A i \in Items : \A v, w \in Workers :
          Holds(v, i) /\ Holds(w, i) => v = w
    BY <1>1 DEF PlaceInv
  <1>4. (\A i \in Items : Len(results[i]) <= 1) /\ (dropped # {} => cancelled)
    BY DEF PlaceInv
  <1>5. QED
    BY <1>2, <1>3, <1>4 DEF EachItemOnce, Held

\* One Result for each item Process receives: never two, and none lost without
\* a cancellation, for any number of workers, items and attempts.
THEOREM ExactlyOnce == Spec => []EachItemOnce
  <1>1. IInv => EachItemOnce
    BY OncePerItem
  <1>2. QED
    BY <1>1, Inductive, PTL

\* The closer closes out only after every worker left its loop: no send on a
\* closed channel, whatever the order of cancellation, timeouts and returns.
THEOREM CloseIsSafe == Spec => []NoSendOnClosed
  <1>1. ASSUME IInv, outClosed, NEW w \in Workers PROVE pc[w] = "exited"
    <2>1. Cardinality(Live) = 0 /\ IsFiniteSet(Live)
      BY <1>1, PoolAssumption, FS_Subset DEF IInv, WaitGroupInv, Live
    <2>2. Live = {}
      BY <2>1, FS_EmptySet
    <2>3. QED
      BY <2>2 DEF Live
  <1>2. IInv => NoSendOnClosed
    BY <1>1 DEF NoSendOnClosed
  <1>3. QED
    BY <1>2, Inductive, PTL

\* A Result never reports a success that did not happen, the value of a call
\* that was given up, or an error before the attempts were used up.
THEOREM Truthful == Spec => []ResultsHonest
  <1>1. IInv => ResultsHonest
    BY DEF IInv
  <1>2. QED
    BY <1>1, Inductive, PTL

\* fn is never called again for an item after a success its worker saw.
THEOREM RetriesJustified == Spec => []RetryOnlyAfterFailure
  <1>1. IInv => RetryOnlyAfterFailure
    BY DEF IInv
  <1>2. QED
    BY <1>1, Inductive, PTL

-----------------------------------------------------------------------------
(* Without a timeout: no attempt is ever given up, every call in progress  *)
(* is the one a worker waits for, and a worker that has seen its attempt   *)
(* end holds the value of that attempt.                                    *)

UntimedInv ==
  ~HasTimeout =>
    /\ abandoned = {}
    /\ \A c \in Calls :
         calls[c] = "running" =>
           \E w \in Workers : pc[w] = "await" /\ Attempt(w) = c
    /\ \A w \in Workers : pc[w] \in {"backoff", "send"} =>
                            job[w].val = Attempt(w)
    /\ HandleKept

LEMMA InitUntimed == Init => UntimedInv
  BY DEF Init, UntimedInv, HandleKept, Calls

\* A step of a worker that neither starts nor awaits a call, nor answers.
LEMMA OthersUntimed ==
  ASSUME IInv, UntimedInv, ~HasTimeout, NEW w \in Workers,
         pc[w] # "await",
         \A v \in Workers : v # w => pc'[v] = pc[v] /\ job'[v] = job[v],
         pc'[w] \in {"backoff", "send"} => job'[w].val = Attempt(w)',
         calls' = calls, abandoned' = abandoned, results' = results
  PROVE  UntimedInv'
  <1>1. \A v \in Workers : v # w => Attempt(v)' = Attempt(v)
    BY DEF Attempt
  <1>2. \A c \in Calls :
          calls'[c] = "running" =>
            \E v \in Workers : pc'[v] = "await" /\ Attempt(v)' = c
    <2> SUFFICES ASSUME NEW c \in Calls, calls[c] = "running"
                 PROVE  \E v \in Workers : pc'[v] = "await" /\ Attempt(v)' = c
      OBVIOUS
    <2>1. PICK v \in Workers : pc[v] = "await" /\ Attempt(v) = c
      BY DEF UntimedInv
    <2>2. v # w
      BY <2>1
    <2>3. QED
      BY <1>1, <2>1, <2>2
  <1>3. \A v \in Workers : pc'[v] \in {"backoff", "send"} =>
                            job'[v].val = Attempt(v)'
    BY <1>1 DEF UntimedInv
  <1>4. HandleKept'
    BY DEF UntimedInv, HandleKept
  <1>5. QED
    BY <1>2, <1>3, <1>4 DEF UntimedInv

\* The attempt that starts is awaited by its worker.
LEMMA StartAttemptUntimed ==
  ASSUME IInv, UntimedInv, ~HasTimeout, NEW w \in Workers, StartAttempt(w)
  PROVE  UntimedInv'
  <1> DEFINE a == Attempt(w)'
  <1>1. /\ pc' = [pc EXCEPT ![w] = "await"]
        /\ calls' = [calls EXCEPT ![a] = "running"]
        /\ \A v \in Workers : v # w => job'[v] = job[v]
        /\ pc[w] = "start"
        /\ abandoned' = abandoned /\ results' = results
    BY DEF StartAttempt, attempts, answers, IInv, TypeOK
  <1>2. \A v \in Workers : v # w => Attempt(v)' = Attempt(v)
    BY <1>1 DEF Attempt
  <1>3. pc \in [Workers -> {"select", "start", "await", "backoff", "send",
                           "exited"}]
        /\ calls \in [Calls -> {"none", "running", "ok", "failed"}]
    BY DEF IInv, TypeOK
  <1> HIDE DEF a
  <1>4. ASSUME NEW c \in Calls, calls'[c] = "running"
        PROVE  \E v \in Workers : pc'[v] = "await" /\ Attempt(v)' = c
    <2>1. CASE c = a
      BY <2>1, <1>1, <1>3 DEF a
    <2>2. CASE c # a
      <3>1. calls[c] = "running"
        BY <2>2, <1>1, <1>3, <1>4
      <3>2. PICK v \in Workers : pc[v] = "await" /\ Attempt(v) = c
        BY <3>1 DEF UntimedInv
      <3>3. v # w
        BY <3>2, <1>1
      <3>4. QED
        BY <3>2, <3>3, <1>1, <1>2, <1>3
    <2>3. QED
      BY <2>1, <2>2
  <1>5. \A v \in Workers : pc'[v] \in {"backoff", "send"} =>
                            job'[v].val = Attempt(v)'
    BY <1>1, <1>2, <1>3 DEF UntimedInv
  <1>6. HandleKept'
    BY <1>1 DEF UntimedInv, HandleKept
  <1>7. QED
    BY <1>1, <1>4, <1>5, <1>6 DEF UntimedInv

\* A worker that observes its call stops waiting for it, takes its value, and
\* no other call was that worker's.
LEMMA ObserveUntimed ==
  ASSUME IInv, UntimedInv, ~HasTimeout, NEW w \in Workers, Observe(w)
  PROVE  UntimedInv'
  <1>1. /\ \A v \in Workers : v # w => pc'[v] = pc[v] /\ job'[v] = job[v]
        /\ calls[Attempt(w)] \in {"ok", "failed"}
        /\ calls' = calls /\ abandoned' = abandoned /\ results' = results
        /\ job'[w].val = Attempt(w)
        /\ Attempt(w)' = Attempt(w)
    <2>1. job[w] \in Result
      BY DEF Observe, IInv, JobInv, JobOK, Busy
    <2>2. QED
      BY <2>1 DEF Observe, attempts, answers, IInv, TypeOK, Attempt, Result
  <1>2. \A v \in Workers : v # w => Attempt(v)' = Attempt(v)
    BY <1>1 DEF Attempt
  <1>3. ASSUME NEW c \in Calls, calls'[c] = "running"
        PROVE  \E v \in Workers : pc'[v] = "await" /\ Attempt(v)' = c
    <2>1. PICK v \in Workers : pc[v] = "await" /\ Attempt(v) = c
      BY <1>1, <1>3 DEF UntimedInv
    <2>2. v # w
      BY <2>1, <1>1, <1>3
    <2>3. QED
      BY <2>1, <2>2, <1>1, <1>2
  <1>4. \A v \in Workers : pc'[v] \in {"backoff", "send"} =>
                            job'[v].val = Attempt(v)'
    BY <1>1, <1>2 DEF UntimedInv
  <1>5. HandleKept'
    BY <1>1 DEF UntimedInv, HandleKept
  <1>6. QED
    BY <1>1, <1>3, <1>4, <1>5 DEF UntimedInv

\* The Result handed over carries the value its worker held.
LEMMA SendUntimed ==
  ASSUME IInv, UntimedInv, ~HasTimeout, NEW w \in Workers, Send(w)
  PROVE  UntimedInv'
  <1>1. /\ \A v \in Workers : v # w => pc'[v] = pc[v] /\ job'[v] = job[v]
        /\ pc[w] = "send" /\ pc'[w] = "select"
        /\ calls' = calls /\ abandoned' = abandoned
        /\ results' = [results EXCEPT ![job[w].item] = Append(@, job[w])]
        /\ job[w].item \in Items /\ results[job[w].item] = <<>>
    <2>1. job[w].item \in Items /\ results[job[w].item] = <<>>
      BY BusyJob DEF Send, IInv, PlaceInv, Busy
    <2>2. QED
      BY <2>1 DEF Send, attempts, IInv, TypeOK
  <1>2. \A v \in Workers : v # w => Attempt(v)' = Attempt(v)
    BY <1>1 DEF Attempt
  <1>3. ASSUME NEW c \in Calls, calls'[c] = "running"
        PROVE  \E v \in Workers : pc'[v] = "await" /\ Attempt(v)' = c
    <2>1. PICK v \in Workers : pc[v] = "await" /\ Attempt(v) = c
      BY <1>1, <1>3 DEF UntimedInv
    <2>2. v # w
      BY <2>1, <1>1
    <2>3. QED
      BY <2>1, <2>2, <1>1, <1>2
  <1>4. \A v \in Workers : pc'[v] \in {"backoff", "send"} =>
                            job'[v].val = Attempt(v)'
    BY <1>1, <1>2 DEF UntimedInv
  <1>5. HandleKept'
    <2> SUFFICES ASSUME NEW i \in Items, NEW k \in DOMAIN results'[i]
                 PROVE  results'[i][k].val =
                          [item |-> i, attempt |-> results'[i][k].attempts]
      BY DEF HandleKept
    <2>1. CASE i = job[w].item
      <3>1. results'[i] = <<job[w]>>
        BY <2>1, <1>1 DEF IInv, TypeOK
      <3>2. results'[i][k] = job[w]
        BY <3>1
      <3>3. job[w].val = Attempt(w)
        BY <1>1 DEF UntimedInv
      <3>4. QED
        BY <2>1, <3>2, <3>3 DEF Attempt
    <2>2. CASE i # job[w].item
      BY <2>2, <1>1 DEF IInv, TypeOK, UntimedInv, HandleKept
    <2>3. QED
      BY <2>1, <2>2
  <1>6. QED
    BY <1>1, <1>3, <1>4, <1>5 DEF UntimedInv

\* Every step keeps UntimedInv.
LEMMA NextUntimed == IInv /\ UntimedInv /\ [Next]_vars => UntimedInv'
  <1> SUFFICES ASSUME IInv, UntimedInv, ~HasTimeout, [Next]_vars
               PROVE  UntimedInv'
    BY DEF UntimedInv
  <1> USE DEF source, pool, attempts, closer, answers
  <1>types. TypeOK
    BY DEF IInv
  <1>1. CASE UNCHANGED <<pool, attempts, results>>
    BY <1>1 DEF UntimedInv, HandleKept, Attempt
  <1>2. CASE Cancel \/ CloseIn \/ CloseOut
    BY <1>1, <1>2 DEF Cancel, CloseIn, CloseOut
  <1>3. ASSUME NEW w \in Workers, Take(w) PROVE UntimedInv'
    BY <1>3, <1>types, OthersUntimed DEF Take, TypeOK
  <1>4. ASSUME NEW w \in Workers, Exit(w) PROVE UntimedInv'
    BY <1>4, <1>types, OthersUntimed DEF Exit, TypeOK
  <1>5. ASSUME NEW w \in Workers, StartAttempt(w) PROVE UntimedInv'
    BY <1>5, StartAttemptUntimed
  <1>6. ASSUME NEW w \in Workers, Observe(w) PROVE UntimedInv'
    BY <1>6, ObserveUntimed
  <1>7. ASSUME NEW w \in Workers, GiveUp(w) PROVE UntimedInv'
    BY <1>7 DEF GiveUp, Timed
  <1>8. ASSUME NEW w \in Workers, BackoffElapsed(w) PROVE UntimedInv'
    BY <1>8, <1>types, OthersUntimed DEF BackoffElapsed, TypeOK
  <1>9. ASSUME NEW w \in Workers, BackoffCancelled(w) PROVE UntimedInv'
    <2>1. job'[w].val = job[w].val /\ Attempt(w)' = Attempt(w)
      <3>1. job[w] \in Result
        BY <1>9 DEF BackoffCancelled, IInv, JobInv, JobOK, Busy
      <3>2. QED
        BY <1>9, <1>types, <3>1
           DEF BackoffCancelled, CutShort, TypeOK, Attempt, Result
    <2>2. job[w].val = Attempt(w)
      BY <1>9 DEF BackoffCancelled, UntimedInv
    <2>3. QED
      BY <1>9, <1>types, <2>1, <2>2, OthersUntimed
         DEF BackoffCancelled, TypeOK
  <1>10. ASSUME NEW w \in Workers, Drop(w) PROVE UntimedInv'
    BY <1>10, <1>types, OthersUntimed DEF Drop, TypeOK
  <1>11. ASSUME NEW w \in Workers, Send(w) PROVE UntimedInv'
    BY <1>11, SendUntimed
  <1>12. ASSUME NEW c \in Calls, Return(c) PROVE UntimedInv'
    <2>1. \A d \in Calls : calls'[d] = "running" => calls[d] = "running"
      BY <1>12, <1>types DEF Return, TypeOK
    <2>2. QED
      BY <1>12, <2>1 DEF Return, UntimedInv, HandleKept, Attempt
  <1>13. CASE UNCHANGED vars
    BY <1>1, <1>13 DEF vars
  <1>14. QED
    BY <1>2, <1>3, <1>4, <1>5, <1>6, <1>7, <1>8, <1>9, <1>10, <1>11, <1>12,
       <1>13
       DEF Next, WorkerStep

\* Without a timeout nothing of a call is lost: see UntimedInv.
LEMMA Untimed == Spec => []UntimedInv
  <1>1. Init => UntimedInv
    BY InitUntimed
  <1>2. IInv /\ UntimedInv /\ [Next]_vars => UntimedInv'
    BY NextUntimed
  <1>3. QED
    BY <1>1, <1>2, Inductive, PTL DEF Spec

\* Without a timeout the pool bounds the calls of fn in progress, and there is
\* one at most for an item: each of them is the attempt of its own worker.
LEMMA AwaitedCalls ==
  ASSUME IInv, UntimedInv
  PROVE  BoundedConcurrency
  <1> SUFFICES ASSUME ~HasTimeout
               PROVE  LET running == {c \in Calls : calls[c] = "running"} IN
                      /\ Cardinality(running) <= Cardinality(Workers)
                      /\ \A c, d \in running : c.item = d.item => c = d
    BY DEF BoundedConcurrency
  <1> DEFINE running == {c \in Calls : calls[c] = "running"}
             current == {Attempt(w) : w \in Workers}
  <1>1. \A c \in running : \E w \in Workers : pc[w] = "await" /\ Attempt(w) = c
    BY DEF UntimedInv
  <1>2. IsFiniteSet(current) /\ Cardinality(current) <= Cardinality(Workers)
    <2> DEFINE f == [w \in Workers |-> Attempt(w)]
    <2>1. f \in Surjection(Workers, current)
      BY DEF Surjection
    <2>2. QED
      BY <2>1, PoolAssumption, FS_Surjection
  <1>3. running \subseteq current
    BY <1>1
  <1>4. /\ Cardinality(running) <= Cardinality(current)
        /\ IsFiniteSet(running)
    BY <1>2, <1>3, FS_Subset
  <1>5. /\ Cardinality(running) \in Nat
        /\ Cardinality(current) \in Nat
        /\ Cardinality(Workers) \in Nat
    BY <1>2, <1>4, PoolAssumption, FS_CardinalityType
  <1>6. Cardinality(running) <= Cardinality(Workers)
    BY <1>2, <1>4, <1>5
  <1>7. ASSUME NEW c \in running, NEW d \in running, c.item = d.item
        PROVE  c = d
    <2>1. PICK v \in Workers : pc[v] = "await" /\ Attempt(v) = c
      BY <1>1
    <2>2. PICK w \in Workers : pc[w] = "await" /\ Attempt(w) = d
      BY <1>1
    <2>3. job[v].item = job[w].item
      BY <2>1, <2>2, <1>7 DEF Attempt
    <2>4. v = w
      BY <2>1, <2>2, <2>3 DEF IInv, PlaceInv, Busy
    <2>5. QED
      BY <2>1, <2>2, <2>4
  <1>8. QED
    BY <1>6, <1>7

\* WithWorkers(n) is a bound on the calls of fn in progress.
THEOREM Bounded == Spec => []BoundedConcurrency
  <1>1. IInv /\ UntimedInv => BoundedConcurrency
    BY AwaitedCalls
  <1>2. QED
    BY <1>1, Inductive, Untimed, PTL

\* A Result carries the value of its own last attempt, in which queue.Consume
\* finds the message to acknowledge.
THEOREM ValuesKept == Spec => []HandleKept
  <1>1. UntimedInv => HandleKept
    BY DEF UntimedInv, HandleKept
  <1>2. QED
    BY <1>1, Untimed, PTL

-----------------------------------------------------------------------------
(* The engine implements BoundedPool.                                        *)

\* A worker leaves its loop only when there is nothing more for it.
LeaveInv == \A w \in Workers : pc[w] = "exited" => cancelled \/ inClosed

\* The workers that have left had a reason.
LEMMA Leaves == Spec => []LeaveInv
  <1>1. Init => LeaveInv
    BY DEF Init, LeaveInv
  <1>2. IInv /\ LeaveInv /\ [Next]_vars => LeaveInv'
    <2> SUFFICES ASSUME IInv, LeaveInv, [Next]_vars PROVE LeaveInv'
      OBVIOUS
    <2> USE DEF source, pool, attempts, closer, answers, IInv, TypeOK
    <2>1. CASE Cancel \/ CloseIn \/ CloseOut \/ \E c \in Calls : Return(c)
      BY <2>1 DEF Cancel, CloseIn, CloseOut, Return, LeaveInv
    <2>2. ASSUME NEW w \in Workers, Take(w) \/ Exit(w) PROVE LeaveInv'
      BY <2>2 DEF Take, Exit, NoMoreInput, LeaveInv
    <2>3. ASSUME NEW w \in Workers, StartAttempt(w) \/ BackoffElapsed(w)
          PROVE LeaveInv'
      BY <2>3 DEF StartAttempt, BackoffElapsed, LeaveInv
    <2>4. ASSUME NEW w \in Workers, Observe(w) PROVE LeaveInv'
      <3>1. PICK e : pc' = [pc EXCEPT ![w] = AfterAttempt(w, e)]
        BY <2>4 DEF Observe
      <3> QED
        BY <2>4, <3>1 DEF Observe, AfterAttempt, LeaveInv
    <2>5. ASSUME NEW w \in Workers, GiveUp(w) PROVE LeaveInv'
      <3>1. PICK e : pc' = [pc EXCEPT ![w] = AfterAttempt(w, e)]
        BY <2>5 DEF GiveUp
      <3> QED
        BY <2>5, <3>1 DEF GiveUp, AfterAttempt, LeaveInv
    <2>6. ASSUME NEW w \in Workers, BackoffCancelled(w) \/ Send(w) \/ Drop(w)
          PROVE LeaveInv'
      BY <2>6 DEF BackoffCancelled, Send, Drop, LeaveInv
    <2>7. CASE UNCHANGED vars
      BY <2>7 DEF vars, LeaveInv
    <2> QED
      BY <2>1, <2>2, <2>3, <2>4, <2>5, <2>6, <2>7 DEF Next, WorkerStep
  <1>3. QED
    BY <1>1, <1>2, Inductive, PTL DEF Spec

\* What a worker holds: an item when it is busy, and nothing otherwise.
LEMMA Hands ==
  ASSUME IInv, NEW w \in Workers
  PROVE  /\ pc[w] \in Busy => job[w].item \in Items
         /\ pc[w] \notin Busy => job[w].item = NoItem
  <1>1. pc[w] \in Busy => job[w].item \in Items
    BY BusyJob DEF IInv
  <1>2. pc[w] \notin Busy => job[w].item = NoItem
    BY DEF IInv, JobInv, JobOK, NewJob
  <1>3. QED
    BY <1>1, <1>2

\* While a worker is free, the pool has room for one more item.
LEMMA RoomForOne ==
  ASSUME IInv, NEW w \in Workers, pc[w] \notin Busy
  PROVE  Cardinality(Held) < Cardinality(Workers)
  <1> DEFINE others == Workers \ {w}
             items == {job[v].item : v \in others}
             f == [v \in others |-> job[v].item]
  <1>1. /\ IsFiniteSet(others)
        /\ Cardinality(others) = Cardinality(Workers) - 1
    BY PoolAssumption, FS_RemoveElement
  <1>2. IsFiniteSet(items) /\ Cardinality(items) <= Cardinality(others)
    <2>1. f \in Surjection(others, items)
      BY DEF Surjection
    <2>2. QED
      BY <2>1, <1>1, FS_Surjection
  <1>3. Held \subseteq items
    BY Hands, ItemAssumption DEF Held, Holds
  <1>4. IsFiniteSet(Held) /\ Cardinality(Held) <= Cardinality(items)
    BY <1>2, <1>3, FS_Subset
  <1>5. /\ Cardinality(Held) \in Nat /\ Cardinality(items) \in Nat
        /\ Cardinality(others) \in Nat /\ Cardinality(Workers) \in Nat
    BY <1>1, <1>2, <1>4, PoolAssumption, FS_CardinalityType
  <1>6. QED
    BY <1>1, <1>2, <1>4, <1>5

\* A worker that goes on with its item leaves Held as it is.
LEMMA HeldKept ==
  ASSUME IInv, NEW w \in Workers,
         \A v \in Workers \ {w} : job'[v] = job[v],
         job'[w].item = job[w].item
  PROVE  Held' = Held
  BY DEF Held, Holds

\* A worker that lets go of its item takes it from Held.
LEMMA HeldLess ==
  ASSUME IInv, NEW w \in Workers, pc[w] \in Busy,
         job' = [job EXCEPT ![w] = NewJob(NoItem)]
  PROVE  Held' = Held \ {job[w].item} /\ job[w].item \in Held
  <1>1. \A v \in Workers \ {w} : job'[v] = job[v]
    BY DEF IInv, TypeOK
  <1>2. job'[w].item = NoItem
    BY DEF IInv, TypeOK, NewJob
  <1>3. job[w].item \in Items
    BY Hands
  <1>4. \A v \in Workers \ {w} : job[v].item # job[w].item
    <2> TAKE v \in Workers \ {w}
    <2>1. CASE pc[v] \in Busy
      BY <2>1 DEF IInv, PlaceInv
    <2>2. CASE pc[v] \notin Busy
      BY <2>2, <1>3, Hands, ItemAssumption
    <2> QED
      BY <2>1, <2>2
  <1>5. \A i \in Items :
          (\E v \in Workers : job'[v].item = i)
            <=> i # job[w].item /\ \E v \in Workers : job[v].item = i
    BY <1>1, <1>2, <1>3, <1>4, ItemAssumption
  <1>6. QED
    BY <1>3, <1>5 DEF Held, Holds

\* A free worker that takes an item adds it to Held.
LEMMA HeldMore ==
  ASSUME IInv, NEW w \in Workers, pc[w] \notin Busy, NEW i \in Items,
         job' = [job EXCEPT ![w] = NewJob(i)]
  PROVE  Held' = Held \cup {i}
  <1>1. \A v \in Workers \ {w} : job'[v] = job[v]
    BY DEF IInv, TypeOK
  <1>2. job'[w].item = i
    BY DEF IInv, TypeOK, NewJob
  <1>3. job[w].item = NoItem
    BY Hands
  <1>4. \A k \in Items : (\E v \in Workers : job'[v].item = k)
                           <=> k = i \/ \E v \in Workers : job[v].item = k
    BY <1>1, <1>2, <1>3, ItemAssumption
  <1>5. QED
    BY <1>4 DEF Held, Holds

\* Steps in which a worker goes on with its item, or calls of fn return, are
\* not seen from outside.
LEMMA InnerSteps ==
  ASSUME IInv,
         \/ \E w \in Workers :
              \/ Exit(w) \/ StartAttempt(w) \/ Observe(w) \/ GiveUp(w)
              \/ BackoffElapsed(w) \/ BackoffCancelled(w)
         \/ \E c \in Calls : Return(c)
         \/ UNCHANGED vars
  PROVE  UNCHANGED Abstract!vars
  <1> USE DEF source, pool, attempts, closer, answers
  <1>1. Held' = Held
    <2>1. CASE UNCHANGED job
      BY <2>1 DEF Held, Holds
    <2>2. ASSUME NEW w \in Workers, StartAttempt(w) PROVE Held' = Held
      BY <2>2, HeldKept DEF StartAttempt, IInv, TypeOK
    <2>3. ASSUME NEW w \in Workers, Observe(w) PROVE Held' = Held
      BY <2>3, HeldKept DEF Observe, IInv, TypeOK
    <2>4. ASSUME NEW w \in Workers, GiveUp(w) PROVE Held' = Held
      <3>1. PICK e \in Reasons : job' = [job EXCEPT ![w] = WithZero(job[w], e)]
        BY <2>4 DEF GiveUp
      <3>2. WithZero(job[w], e).item = job[w].item
        <4>1. job[w] \in Result
          BY <2>4, BusyJob DEF GiveUp, Busy, IInv
        <4> QED
          BY <4>1 DEF WithZero, Result
      <3> QED
        BY <3>1, <3>2, HeldKept DEF IInv, TypeOK
    <2>5. ASSUME NEW w \in Workers, BackoffCancelled(w) PROVE Held' = Held
      BY <2>5, HeldKept DEF BackoffCancelled, CutShort, IInv, TypeOK
    <2> QED
      BY <2>1, <2>2, <2>3, <2>4, <2>5
         DEF Exit, BackoffElapsed, Return, vars
  <1>2. UNCHANGED <<cancelled, unsent, inClosed, results, dropped, outClosed>>
    BY DEF Exit, StartAttempt, Observe, GiveUp, BackoffElapsed,
           BackoffCancelled, Return, vars
  <1>3. QED
    BY <1>1, <1>2 DEF Abstract!vars

\* The other steps are those of the pool.
LEMMA TakeIsTake ==
  ASSUME IInv, NoSendOnClosed, NEW w \in Workers, Take(w)
  PROVE  Abstract!Next
  <1>1. PICK i \in unsent :
          unsent' = unsent \ {i} /\ job' = [job EXCEPT ![w] = NewJob(i)]
    BY DEF Take
  <1>2. i \in Items /\ pc[w] \notin Busy
    BY DEF IInv, TypeOK, Take, Busy
  <1>3. Held' = Held \cup {i}
    BY <1>1, <1>2, HeldMore
  <1>4. Cardinality(Held) < Cardinality(Workers)
    BY <1>2, RoomForOne
  <1>5. ~outClosed
    BY DEF NoSendOnClosed, Take
  <1>6. Abstract!Take(i)
    <2>1. Abstract!Cardinality(Held) = Cardinality(Held)
      BY DEF Abstract!Cardinality, Cardinality
    <2> QED
      BY <1>1, <1>3, <1>4, <1>5, <2>1
         DEF Take, Abstract!Take, attempts, closer, answers
  <1>7. QED
    BY <1>2, <1>6 DEF Abstract!Next

LEMMA SendIsAnswer ==
  ASSUME IInv, NoSendOnClosed, NEW w \in Workers, Send(w)
  PROVE  Abstract!Next
  <1>1. pc[w] \in Busy /\ ~outClosed
    BY DEF Send, Busy, NoSendOnClosed
  <1>2. PICK i \in Items : i = job[w].item /\ job[w] \in Result
    BY <1>1, BusyJob DEF IInv
  <1>3. Held' = Held \ {i} /\ i \in Held
    BY <1>1, <1>2, HeldLess DEF Send
  <1>4. [k \in Items |-> Len(results'[k])]
          = [[k \in Items |-> Len(results[k])] EXCEPT ![i] = @ + 1]
    <2>1. results \in [Items -> Seq(Result)]
      BY DEF IInv, TypeOK
    <2>2. results' = [results EXCEPT ![i] = Append(@, job[w])]
      BY <1>2 DEF Send
    <2>3. Len(results'[i]) = Len(results[i]) + 1
      BY <1>2, <2>1, <2>2
    <2>4. \A k \in Items \ {i} : results'[k] = results[k]
      BY <2>1, <2>2
    <2> QED
      BY <1>2, <2>3, <2>4
  <1>5. Abstract!Answer(i)
    BY <1>1, <1>3, <1>4 DEF Send, Abstract!Answer, source, attempts, closer
  <1>6. QED
    BY <1>2, <1>5 DEF Abstract!Next

LEMMA DropIsDrop ==
  ASSUME IInv, NEW w \in Workers, Drop(w)
  PROVE  Abstract!Next
  <1>1. pc[w] \in Busy
    BY DEF Drop, Busy
  <1>2. PICK i \in Items : i = job[w].item
    BY <1>1, Hands
  <1>3. Held' = Held \ {i} /\ i \in Held
    BY <1>1, <1>2, HeldLess DEF Drop
  <1>4. Abstract!Drop(i)
    BY <1>2, <1>3 DEF Drop, Abstract!Drop, source, attempts
  <1>5. QED
    BY <1>2, <1>4 DEF Abstract!Next

LEMMA CloseOutIsClose ==
  ASSUME IInv, LeaveInv, CloseOut
  PROVE  Abstract!Next
  <1>1. Live = {}
    <2>1. IsFiniteSet(Live) /\ Cardinality(Live) = 0
      BY PoolAssumption, FS_Subset
         DEF CloseOut, WaitDone, IInv, WaitGroupInv, Live
    <2> QED
      BY <2>1, FS_EmptySet
  <1>2. \A w \in Workers : pc[w] = "exited"
    BY <1>1 DEF Live
  <1>3. cancelled \/ inClosed
    BY <1>2, PoolAssumption DEF LeaveInv
  <1>4. Held = {}
    BY <1>2, Hands, ItemAssumption DEF Held, Holds, Busy
  <1>5. Held' = Held
    BY DEF CloseOut, pool, Held, Holds
  <1>6. Abstract!Close
    BY <1>3, <1>4, <1>5 DEF CloseOut, Abstract!Close, source, answers
  <1>7. QED
    BY <1>6 DEF Abstract!Next

LEMMA StepOfPool ==
  IInv /\ NoSendOnClosed /\ LeaveInv /\ [Next]_vars
    => [Abstract!Next]_(Abstract!vars)
  <1> SUFFICES ASSUME IInv, NoSendOnClosed, LeaveInv, [Next]_vars
               PROVE  Abstract!Next \/ UNCHANGED Abstract!vars
    OBVIOUS
  <1>1. CASE Cancel
    <2>1. Held' = Held
      BY <1>1 DEF Cancel, pool, Held, Holds
    <2> QED
      BY <1>1, <2>1
         DEF Cancel, Abstract!Next, Abstract!Cancel, source, closer, answers
  <1>2. CASE CloseIn
    <2>1. Held' = Held
      BY <1>2 DEF CloseIn, pool, Held, Holds
    <2> QED
      BY <1>2, <2>1
         DEF CloseIn, Abstract!Next, Abstract!CloseIn, closer, answers
  <1>3. QED
    BY <1>1, <1>2, InnerSteps, TakeIsTake, SendIsAnswer, DropIsDrop,
       CloseOutIsClose
       DEF Next, WorkerStep

\* With whatever retries, backoffs, timeouts and calls it leaves behind, the
\* engine is a bounded pool: an item taken by a free worker leaves the pool
\* once, by its one Result or dropped after a cancellation, and out is closed
\* when no worker holds an item or can take another.
THEOREM PoolImplements == Spec => ImplementsPool
  <1>1. Init => Abstract!Init
    <2> SUFFICES ASSUME Init PROVE Abstract!Init
      OBVIOUS
    <2>1. Held = {}
      BY ItemAssumption DEF Init, Held, Holds, NewJob
    <2>2. [i \in Items |-> Len(results[i])] = [i \in Items |-> 0]
      BY DEF Init
    <2> QED
      BY <2>1, <2>2 DEF Init, Abstract!Init
  <1>2. QED
    BY <1>1, StepOfPool, Inductive, CloseIsSafe, Leaves, PTL
       DEF Spec, ImplementsPool, Abstract!Spec
=============================================================================
