---------------------------- MODULE ConsumeProofs ----------------------------
(***************************************************************************)
(* Machine-checked theorems about Fill and Consume, for any number of      *)
(* messages, workers, deliveries, faults and lapsing leases.               *)
(***************************************************************************)
EXTENDS Consume, FiniteSetTheorems, TLAPS

N == Cardinality(Messages)

\* The delivery an outcome is of.
DeliveryOf(o) == [msg |-> o.msg, n |-> o.n]

OfOutcome == {DeliveryOf(o) : o \in outcome}

Hands == offered \cup pool \cup OfOutcome

\* TypeOK, with the cardinalities of offered and outcome spelled out.
TypeInv ==
  /\ taken \in 0..N /\ filled \in 0..taken
  /\ fill \in {"range", "publish", "sealed", "failed", "cancelled"}
  /\ cancelled \in BOOLEAN /\ receiving \in BOOLEAN
  /\ status \in [Messages -> {"absent", "waiting", "leased", "acked", "dead"}]
  /\ count \in [Messages -> Nat] /\ \A m \in Messages : count[m] <= MaxCount[m]
  /\ offered = {} \/ \E d \in Delivery : offered = {d}
  /\ pool \subseteq Delivery /\ IsFiniteSet(pool)
  /\ fin \in {"range", "finalize", "emit", "ended", "exited"}
  /\ fin \in {"range", "ended", "exited"} => outcome = {}
  /\ fin \in {"finalize", "emit"} => \E o \in Outcome : outcome = {o}
  /\ results \in [Messages -> Seq(BOOLEAN)]
  /\ faults \in 0..MaxFaults
  /\ lapses \in [Messages -> Nat] /\ late \in [Messages -> Nat]

\* A delivery is in one pair of hands, and was counted.
HandsInv ==
  /\ offered \cap pool = {}
  /\ OfOutcome \cap (offered \cup pool) = {}
  /\ \A d \in offered \cup pool \cup OfOutcome : d.n <= count[d.msg]

Unclaimed(m) == status[m] \in {"absent", "waiting"}

\* What may still become a Result of m - a delivery in hand, or the one that
\* is still to be claimed - and the Results there are: one, and one more for
\* each lease that ran out.
Budget(m) ==
  Len(results[m]) + Cardinality(InHand(m)) + (IF Unclaimed(m) THEN 1 ELSE 0)
    <= 1 + lapses[m]

BudgetInv == \A m \in Messages : Budget(m)

\* A message whose deliveries are not exhausted, or whose lease ran out when
\* they were, is the only one that waits for another delivery.
CountInv ==
  \A m \in Messages :
    /\ status[m] = "absent" => count[m] = 0
    /\ MaxDeliveries > 0 =>
         /\ count[m] <= MaxDeliveries + late[m]
         /\ status[m] = "waiting" => count[m] < MaxDeliveries + late[m]

\* Without a lapse a delivery that was not finalized is the current one.
CurrentInv ==
  \A d \in offered \cup pool \cup (IF fin = "finalize" THEN OfOutcome ELSE {}) :
    lapses[d.msg] = 0 => Current(d)

Told(m, ok) ==
  \/ status[m] = IF ok THEN "acked" ELSE "dead"
  \/ status[m] = "leased" /\ faults > 0

\* What is about to be emitted is true.
EmitInv ==
  fin = "emit" =>
    \A o \in outcome :
      /\ lapses[o.msg] = 0 => Told(o.msg, o.ok)
      /\ faults = 0 => ~Current(o)

IInv ==
  /\ TypeInv
  /\ FillAccountsForAll
  /\ HandsInv
  /\ BudgetInv
  /\ CountInv
  /\ CurrentInv
  /\ EmitInv
  /\ LeasesAreHeld
  /\ ResultMatchesBackend

-----------------------------------------------------------------------------
(* Messages, hands and their cardinalities.                                *)

LEMMA Ranges == N \in Nat /\ Messages = 1..N
  BY MessageAssumption, FS_CardinalityType DEF N

\* What is in hand is finite, and consists of deliveries.
LEMMA HandsFinite ==
  ASSUME TypeInv, NEW m
  PROVE  /\ InHand(m) = {d \in offered \cup pool \cup OfOutcome : d.msg = m}
         /\ InHand(m) \subseteq Delivery
         /\ IsFiniteSet(InHand(m))
         /\ Cardinality(InHand(m)) \in Nat
<1>1. InHand(m) = {d \in offered \cup pool \cup OfOutcome : d.msg = m}
  BY DEF InHand, OfOutcome, DeliveryOf
<1>2. OfOutcome = {} \/ \E o \in Outcome : OfOutcome = {DeliveryOf(o)}
  BY DEF TypeInv, OfOutcome
<1>3. OfOutcome \subseteq Delivery
  BY <1>2 DEF DeliveryOf, Outcome, Delivery
<1>4. IsFiniteSet(offered) /\ IsFiniteSet(OfOutcome) /\ IsFiniteSet(pool)
  <2>1. IsFiniteSet(offered)
    <3>1. offered = {} \/ \E d \in Delivery : offered = {d}
      BY DEF TypeInv
    <3> QED
      BY <3>1, FS_EmptySet, FS_Singleton
  <2>2. IsFiniteSet(OfOutcome)
    BY <1>2, FS_EmptySet, FS_Singleton, Zenon
  <2> QED
    BY <2>1, <2>2 DEF TypeInv
<1>5. IsFiniteSet(offered \cup pool \cup OfOutcome)
  BY <1>4, FS_Union
<1>6. InHand(m) \subseteq offered \cup pool \cup OfOutcome
  BY <1>1
<1>7. IsFiniteSet(InHand(m))
  BY <1>5, <1>6, FS_Subset
<1>8. Cardinality(InHand(m)) \in Nat
  BY <1>7, FS_CardinalityType
<1>9. InHand(m) \subseteq Delivery
  BY <1>3, <1>6 DEF TypeInv
<1> QED
  BY <1>1, <1>7, <1>8, <1>9

\* Without a lapse, a message that has a Result is nobody's and not queued;
\* one that is in hand has none, is in one hand, and does not wait.
LEMMA OneChance ==
  ASSUME TypeInv, BudgetInv, NEW m \in Messages, lapses[m] = 0
  PROVE  /\ results[m] # <<>> => /\ InHand(m) = {}
                                 /\ ~Unclaimed(m)
                                 /\ Len(results[m]) <= 1
         /\ \A d, e \in InHand(m) : d = e
         /\ InHand(m) # {} => ~Unclaimed(m) /\ results[m] = <<>>
<1>1. /\ Len(results[m]) \in Nat
      /\ results[m] # <<>> => Len(results[m]) >= 1
  BY DEF TypeInv
<1>2. /\ IsFiniteSet(InHand(m))
      /\ Cardinality(InHand(m)) \in Nat
      /\ InHand(m) # {} => Cardinality(InHand(m)) >= 1
  BY HandsFinite, FS_EmptySet
<1>3. Cardinality(InHand(m)) = 1 => \A d, e \in InHand(m) : d = e
  BY <1>2, FS_Singleton
<1>4. Len(results[m]) + Cardinality(InHand(m)) + (IF Unclaimed(m) THEN 1 ELSE 0)
        <= 1
  BY DEF BudgetInv, Budget
<1>5. Cardinality(InHand(m)) <= 1
  BY <1>1, <1>2, <1>4
<1>6. \A d, e \in InHand(m) : d = e
  BY <1>2, <1>3, <1>5
<1>7. /\ Unclaimed(m) => Len(results[m]) + Cardinality(InHand(m)) <= 0
      /\ Len(results[m]) + Cardinality(InHand(m)) <= 1
  <2> CASE Unclaimed(m)
    BY <1>1, <1>2, <1>4
  <2> CASE ~Unclaimed(m)
    BY <1>1, <1>2, <1>4
  <2> QED
    OBVIOUS
<1>8. ASSUME results[m] # <<>>
      PROVE  InHand(m) = {} /\ ~Unclaimed(m) /\ Len(results[m]) <= 1
  <2>1. Len(results[m]) >= 1
    BY <1>1, <1>8, Zenon
  <2>2. Cardinality(InHand(m)) < 1 /\ Len(results[m]) <= 1
    BY <1>1, <1>2, <1>7, <2>1
  <2>3. InHand(m) = {}
    BY <1>2, <2>2
  <2>4. ~Unclaimed(m)
    BY <1>1, <1>2, <1>7, <2>1
  <2> QED
    BY <2>2, <2>3, <2>4
<1>9. InHand(m) # {} => ~Unclaimed(m) /\ results[m] = <<>>
  BY <1>1, <1>2, <1>7
<1> QED
  BY <1>6, <1>8, <1>9

-----------------------------------------------------------------------------
\* The hands are empty at the beginning.
LEMMA InitIInv == Init => IInv
<1> SUFFICES ASSUME Init PROVE IInv
  OBVIOUS
<1> USE DEF Init
<1>1. TypeInv
  <2>1. taken \in 0..N /\ filled \in 0..taken
    BY Ranges
  <2>2. /\ count \in [Messages -> Nat]
        /\ \A m \in Messages : count[m] <= MaxCount[m]
        /\ faults \in 0..MaxFaults
    BY BoundAssumption
  <2>3. IsFiniteSet(pool)
    BY FS_EmptySet
  <2>4. /\ status \in [Messages -> {"absent", "waiting", "leased", "acked",
                                    "dead"}]
        /\ results \in [Messages -> Seq(BOOLEAN)]
        /\ lapses \in [Messages -> Nat] /\ late \in [Messages -> Nat]
    OBVIOUS
  <2> QED
    BY <2>1, <2>2, <2>3, <2>4 DEF TypeInv
<1>2. FillAccountsForAll
  BY DEF FillAccountsForAll
<1>3. OfOutcome = {} /\ \A m : InHand(m) = {}
  BY DEF OfOutcome, InHand
<1>4. BudgetInv
  BY <1>3, FS_EmptySet DEF BudgetInv, Budget, Unclaimed
<1>5. CountInv
  BY PoolAssumption DEF CountInv
<1>6. HandsInv /\ CurrentInv /\ EmitInv
  BY <1>3 DEF HandsInv, CurrentInv, EmitInv
<1>7. LeasesAreHeld /\ ResultMatchesBackend
  BY DEF LeasesAreHeld, ResultMatchesBackend, Finalized
<1> QED
  BY <1>1, <1>2, <1>4, <1>5, <1>6, <1>7 DEF IInv

\* What is said of the hands and of the Results does not depend on Fill, on
\* the receiver, or on ctx but for the better.
LEMMA Elsewhere ==
  ASSUME IInv, UNCHANGED <<backend, hands, fin, results, lapses, late>>,
         faults' \in {faults, faults + 1}, cancelled => cancelled'
  PROVE  /\ HandsInv' /\ BudgetInv' /\ CountInv' /\ CurrentInv' /\ EmitInv'
         /\ LeasesAreHeld' /\ ResultMatchesBackend'
<1> USE DEF backend, hands
<1>1. OfOutcome' = OfOutcome /\ \A m : InHand(m)' = InHand(m)
  BY DEF OfOutcome, InHand
<1>2. /\ \A d : Current(d)' = Current(d)
      /\ faults \in Nat
  BY DEF Current, IInv, TypeInv
<1>3. HandsInv' /\ CurrentInv' /\ EmitInv'
  BY <1>1, <1>2 DEF IInv, HandsInv, CurrentInv, EmitInv, Told
<1>4. BudgetInv' /\ CountInv'
  BY <1>1 DEF IInv, BudgetInv, Budget, Unclaimed, CountInv
<1>5. LeasesAreHeld' /\ ResultMatchesBackend'
  BY <1>1, <1>2 DEF IInv, LeasesAreHeld, ResultMatchesBackend, Finalized
<1> QED
  BY <1>3, <1>4, <1>5

-----------------------------------------------------------------------------
(* Fill.                                                                   *)

\* The item Fill has taken and not yet published is not in the queue.
LEMMA NextIsAbsent ==
  ASSUME IInv, fill = "publish"
  PROVE  taken \in Messages /\ status[taken] = "absent" /\ taken = filled + 1
<1>1. taken = filled + 1 /\ taken \in 0..N /\ filled \in Nat
  BY Ranges DEF IInv, TypeInv, FillAccountsForAll
<1>2. taken \in Messages /\ taken \notin 1..filled
  BY <1>1, Ranges
<1>3. {m \in Messages : status[m] # "absent"} \subseteq 1..filled
  BY DEF IInv, FillAccountsForAll
<1> QED
  BY <1>1, <1>2, <1>3

\* Publishing a message leaves the others, and what is in hand, alone.
LEMMA Published ==
  ASSUME IInv, NEW t \in Messages, status[t] = "absent",
         status' = [status EXCEPT ![t] = "waiting"],
         faults' \in {faults, faults + 1},
         UNCHANGED <<cancelled, receiving, count, hands, fin, results>>,
         UNCHANGED <<lapses, late>>
  PROVE  /\ HandsInv' /\ BudgetInv' /\ CountInv' /\ CurrentInv' /\ EmitInv'
         /\ LeasesAreHeld' /\ ResultMatchesBackend'
<1> USE DEF hands, IInv
<1>1. OfOutcome' = OfOutcome /\ \A m : InHand(m)' = InHand(m)
  BY DEF OfOutcome, InHand
<1>2. \A m \in Messages :
        /\ \/ status'[m] \in {"leased", "acked", "dead"}
           \/ status[m] \in {"leased", "acked", "dead"}
             => status'[m] = status[m]
        /\ Unclaimed(m)' = Unclaimed(m)
        /\ status'[m] # status[m] => m = t
  BY DEF TypeInv, Unclaimed
<1>3. faults \in Nat /\ faults' \in Nat /\ faults' >= faults
  BY BoundAssumption DEF TypeInv
<1>4. Hands \subseteq Delivery /\ outcome \subseteq Outcome
  BY SMTT(60) DEF TypeInv, Hands, OfOutcome, DeliveryOf, Delivery, Outcome
<1>5. \A d : d.msg \in Messages => Current(d)' = Current(d)
  BY <1>2 DEF Current
<1>6. HandsInv'
  BY <1>1 DEF HandsInv
<1>7. CurrentInv'
  <2>1. \A d \in Hands : Current(d)' = Current(d)
    BY <1>4, <1>5 DEF Delivery
  <2> QED
    BY <1>1, <2>1 DEF CurrentInv, Hands
<1>8. EmitInv'
  <2> SUFFICES ASSUME fin = "emit", NEW o \in outcome
               PROVE  /\ lapses[o.msg] = 0 => Told(o.msg, o.ok)'
                      /\ faults' = 0 => ~Current(o)'
    BY DEF EmitInv
  <2>1. o.msg \in Messages
    BY <1>4 DEF Outcome
  <2>2. Told(o.msg, o.ok) => Told(o.msg, o.ok)'
    BY <1>2, <1>3, <2>1 DEF Told
  <2>3. Current(o)' = Current(o)
    BY <1>5, <2>1
  <2> QED
    BY <1>3, <2>2, <2>3 DEF EmitInv
<1>9. BudgetInv'
  BY <1>1, <1>2 DEF BudgetInv, Budget
<1>10. CountInv'
  <2>1. /\ count[t] = 0
        /\ MaxDeliveries \in Nat
        /\ late[t] \in Nat
    BY PoolAssumption DEF CountInv, TypeInv
  <2>2. MaxDeliveries > 0 => count[t] < MaxDeliveries + late[t]
    BY <2>1
  <2> QED
    BY <1>2, <2>1, <2>2 DEF CountInv, TypeInv
<1>11. LeasesAreHeld'
  <2> SUFFICES ASSUME faults' = 0, ~cancelled, NEW m \in Messages,
                      status'[m] = "leased"
               PROVE  \E d \in InHand(m) : Current(d)'
    BY <1>1 DEF LeasesAreHeld
  <2>1. PICK d \in InHand(m) : Current(d)
    BY <1>2, <1>3 DEF LeasesAreHeld
  <2> QED
    BY <1>5, <2>1 DEF InHand
<1>12. ResultMatchesBackend'
  BY <1>2, <1>3 DEF ResultMatchesBackend, Finalized
<1> QED
  BY <1>6, <1>7, <1>8, <1>9, <1>10, <1>11, <1>12

\* A step of Fill.
LEMMA FillIInv ==
  ASSUME IInv, \/ FillTake \/ FillPublish \/ FillFails
               \/ FillReturns \/ FillCancelled
  PROVE  IInv'
<1> USE DEF IInv, consumer
<1>1. N \in Nat /\ Messages = 1..N /\ N = Cardinality(Messages)
  BY Ranges DEF N
<1>2. CASE FillTake
  <2>1. TypeInv' /\ FillAccountsForAll'
    BY <1>1, <1>2 DEF FillTake, TypeInv, FillAccountsForAll, hands
  <2> QED
    BY <1>2, <2>1, Elsewhere DEF FillTake, backend
<1>3. CASE FillReturns \/ FillCancelled
  <2>1. TypeInv' /\ FillAccountsForAll'
    BY <1>1, <1>3 DEF FillReturns, FillCancelled, TypeInv, FillAccountsForAll,
                      hands
  <2> QED
    BY <1>3, <2>1, Elsewhere DEF FillReturns, FillCancelled, backend
<1>4. CASE FillPublish
  <2>1. taken \in Messages /\ status[taken] = "absent" /\ taken = filled + 1
    BY <1>4, NextIsAbsent DEF FillPublish
  <2>2. TypeInv'
    BY <1>1, <1>4, <2>1 DEF FillPublish, TypeInv, hands
  <2>3. FillAccountsForAll'
    BY <1>1, <1>4, <2>1, <2>2 DEF FillPublish, TypeInv, FillAccountsForAll
  <2> QED
    BY <1>4, <2>1, <2>2, <2>3, Published DEF FillPublish
<1>5. CASE FillFails
  <2>1. taken \in Messages /\ status[taken] = "absent" /\ taken = filled + 1
    BY <1>5, NextIsAbsent DEF FillFails
  <2>2. TypeInv'
    <3>1. faults' \in 0..MaxFaults
      BY <1>5, BoundAssumption DEF FillFails, TypeInv
    <3>2. status' \in [Messages -> {"absent", "waiting", "leased", "acked",
                                    "dead"}]
      BY <1>5, <2>1 DEF FillFails, TypeInv
    <3>3. /\ UNCHANGED <<taken, filled, cancelled, receiving, count, offered>>
          /\ UNCHANGED <<pool, outcome, fin, results, lapses, late>>
          /\ fill' = "failed"
      BY <1>5 DEF FillFails, Fails, hands
    <3>4. /\ taken' \in 0..N /\ filled' \in 0..taken'
          /\ fill' \in {"range", "publish", "sealed", "failed", "cancelled"}
      BY <3>3 DEF TypeInv
    <3>5. /\ count' \in [Messages -> Nat]
          /\ \A m \in Messages : count'[m] <= MaxCount[m]
      BY <3>3 DEF TypeInv
    <3> QED
      BY <3>1, <3>2, <3>3, <3>4, <3>5, SMTT(60) DEF TypeInv
  <2>3. FillAccountsForAll'
    BY <1>1, <1>5, <2>1, <2>2
       DEF FillFails, Fails, TypeInv, FillAccountsForAll
  <2>4. CASE status' = status
    BY <1>5, <2>2, <2>3, <2>4, Elsewhere DEF FillFails, backend
  <2>5. CASE status' = [status EXCEPT ![taken] = "waiting"]
    BY <1>5, <2>1, <2>2, <2>3, <2>5, Published DEF FillFails
  <2> QED
    BY <1>5, <2>4, <2>5 DEF FillFails
<1> QED
  BY <1>2, <1>3, <1>4, <1>5

-----------------------------------------------------------------------------
(* The receiver.                                                           *)

\* What is in hand of m is a part of what is in hand.
LEMMA InHandOf ==
  /\ \A m : InHand(m) = {d \in Hands : d.msg = m}
  /\ \A m : InHand(m)' = {d \in Hands' : d.msg = m}
  BY DEF InHand, Hands, OfOutcome, DeliveryOf

\* Only Fill makes a difference between a message the queue has had and one
\* it has not.
LEMMA AccountsKept ==
  ASSUME FillAccountsForAll, UNCHANGED filler,
         \A m \in Messages : status'[m] = "absent" <=> status[m] = "absent"
  PROVE  FillAccountsForAll'
  BY DEF FillAccountsForAll, filler

\* A claim: the message was nobody's, so that without a lapse it is in hand
\* once.
LEMMA DeliverIInv ==
  ASSUME IInv, NEW c \in Messages, Deliver(c)
  PROVE  IInv'
<1> USE DEF IInv, Deliver
<1>0. PICK new : new = [msg |-> c, n |-> count[c] + 1]
  OBVIOUS
<1>1. /\ new \in Delivery /\ new.msg = c /\ new.n = count[c] + 1
      /\ DeliveryOf(new) = new
      /\ count[c] \in Nat /\ count[c] + 1 \in Nat /\ count[c] + 1 <= MaxCount[c]
  <2>1. count[c] \in Nat /\ MaxCount[c] \in Nat /\ count[c] < MaxCount[c]
    BY BoundAssumption DEF TypeInv
  <2>2. count[c] + 1 \in Nat \ {0} /\ count[c] + 1 <= MaxCount[c]
    BY <2>1
  <2> QED
    BY <1>0, <2>1, <2>2 DEF Delivery, DeliveryOf
<1>2. /\ OfOutcome' = OfOutcome
      /\ Hands = pool \cup OfOutcome
      /\ Hands' = Hands \cup {new}
  BY <1>0 DEF OfOutcome, Hands
<1>3. /\ \A m \in Messages \ {c} :
           status'[m] = status[m] /\ count'[m] = count[m]
      /\ status'[c] = "leased" /\ count'[c] = count[c] + 1
      /\ lapses[c] \in Nat /\ late[c] \in Nat
      /\ lapses' = lapses /\ late' = late /\ faults' = faults
  BY DEF TypeInv, history
<1>4. TypeInv'
  BY <1>0, <1>1 DEF TypeInv, filler, history
<1>5. FillAccountsForAll'
  BY <1>3, AccountsKept
<1>6. /\ Hands \subseteq Delivery
      /\ \A d \in Hands : d.n <= count[d.msg] /\ d.msg \in Messages
      /\ outcome \subseteq Outcome
  <2>1. Hands \subseteq Delivery /\ outcome \subseteq Outcome
    BY DEF TypeInv, Hands, OfOutcome, DeliveryOf, Delivery, Outcome
  <2>2. \A d \in Hands : d.n <= count[d.msg]
    BY DEF HandsInv, Hands
  <2> QED
    BY <2>1, <2>2 DEF Delivery
<1>7. new \notin Hands
  <2> SUFFICES ASSUME new \in Hands PROVE FALSE
    OBVIOUS
  <2>1. count[c] + 1 <= count[c]
    BY <1>1, <1>6
  <2> QED
    BY <1>1, <2>1
<1>8. HandsInv'
  <2>1. \A d \in Hands' : d.n <= count'[d.msg]
    <3>1. \A d \in Hands : d.n <= count[d.msg] /\ d.n \in Nat
      BY <1>6, BoundAssumption DEF Delivery
    <3> QED
      BY <1>1, <1>2, <1>3, <1>6, <3>1
  <2> QED
    BY <1>2, <1>7, <2>1 DEF HandsInv, Hands
<1>9. BudgetInv'
  <2> SUFFICES ASSUME NEW m \in Messages PROVE Budget(m)'
    BY DEF BudgetInv
  <2>1. CASE m # c
    <3>1. InHand(m)' = InHand(m)
      BY <1>1, <1>2, <2>1, InHandOf
    <3> QED
      BY <1>3, <2>1, <3>1 DEF BudgetInv, Budget, Unclaimed
  <2>2. CASE m = c
    <3>1. InHand(m)' = InHand(m) \cup {new} /\ new \notin InHand(m)
      BY <1>1, <1>2, <1>7, <2>2, InHandOf
    <3>2. /\ Cardinality(InHand(m)') = Cardinality(InHand(m)) + 1
          /\ Cardinality(InHand(m)) \in Nat
      BY <3>1, HandsFinite, FS_AddElement
    <3>3. Len(results[m]) + Cardinality(InHand(m)) + 1 <= 1 + lapses[m]
      <4>1. Unclaimed(m) /\ Budget(m)
        BY <2>2 DEF BudgetInv, Unclaimed
      <4> QED
        BY <4>1 DEF Budget
    <3>4. ~Unclaimed(m)'
      BY <1>3, <2>2 DEF Unclaimed
    <3>5. Len(results[m]) \in Nat /\ lapses[m] \in Nat
      BY DEF TypeInv
    <3>6. Len(results[m]) + Cardinality(InHand(m)') + 0 <= 1 + lapses[m]
      BY <3>2, <3>3, <3>5
    <3> QED
      BY <1>3, <3>4, <3>6 DEF Budget
  <2> QED
    BY <2>1, <2>2
<1>10. CountInv'
  <2>1. MaxDeliveries > 0 => count[c] + 1 <= MaxDeliveries + late[c]
    BY <1>1, <1>3, PoolAssumption DEF CountInv
  <2> QED
    BY <1>3, <2>1 DEF CountInv
<1>11. \A d \in Hands : d.msg = c => lapses[c] # 0
  <2>1. Unclaimed(c)
    BY DEF Unclaimed
  <2>2. InHand(c) # {} => lapses[c] # 0
    BY <2>1, OneChance
  <2> QED
    BY <2>2, InHandOf
<1>12. CurrentInv'
  <2>1. Current(new)'
    BY <1>1, <1>3 DEF Current
  <2>2. \A d \in Hands : lapses[d.msg] = 0 => Current(d)' = Current(d)
    BY <1>3, <1>6, <1>11 DEF Current
  <2> SUFFICES ASSUME NEW d \in offered' \cup pool \cup
                              (IF fin = "finalize" THEN OfOutcome ELSE {}),
                      lapses[d.msg] = 0
               PROVE  Current(d)'
    BY <1>2, <1>3 DEF CurrentInv
  <2>3. CASE d \in offered'
    BY <1>0, <2>1, <2>3
  <2>4. CASE d \notin offered'
    BY <2>2, <2>4 DEF CurrentInv, Hands
  <2> QED
    BY <2>3, <2>4
<1>13. EmitInv'
  <2> SUFFICES ASSUME fin = "emit", NEW o \in outcome
               PROVE  /\ lapses[o.msg] = 0 => Told(o.msg, o.ok)'
                      /\ faults = 0 => ~Current(o)'
    BY DEF EmitInv, history
  <2>1. /\ o.msg \in Messages /\ o.n \in Nat
        /\ DeliveryOf(o) \in Hands
        /\ DeliveryOf(o).msg = o.msg /\ DeliveryOf(o).n = o.n
    BY <1>6, BoundAssumption DEF Outcome, DeliveryOf, Hands, OfOutcome
  <2>2. CASE o.msg = c
    <3>1. o.n <= count[c]
      BY <1>6, <2>1, <2>2
    <3> QED
      BY <1>1, <1>3, <1>11, <2>1, <2>2, <3>1 DEF Current
  <2>3. CASE o.msg # c
    BY <1>3, <2>1, <2>3 DEF EmitInv, Told, Current, history
  <2> QED
    BY <2>2, <2>3
<1>14. LeasesAreHeld'
  <2> SUFFICES ASSUME faults = 0, ~cancelled, NEW m \in Messages,
                      status'[m] = "leased"
               PROVE  \E d \in InHand(m)' : Current(d)'
    BY DEF LeasesAreHeld, history
  <2>1. CASE m = c
    <3>1. new \in InHand(m)'
      BY <1>1, <1>2, <2>1, InHandOf
    <3>2. Current(new)'
      BY <1>1, <1>3 DEF Current
    <3> QED
      BY <3>1, <3>2
  <2>2. CASE m # c
    <3>1. PICK d \in InHand(m) : Current(d)
      BY <1>3, <2>2 DEF LeasesAreHeld
    <3>2. d \in InHand(m)' /\ d.msg = m
      BY <1>2, <3>1, InHandOf
    <3>3. Current(d)'
      BY <1>3, <2>2, <3>1, <3>2 DEF Current
    <3> QED
      BY <3>2, <3>3
  <2> QED
    BY <2>1, <2>2
<1>15. ResultMatchesBackend'
  <2>1. lapses[c] = 0 => results[c] = <<>>
    BY OneChance DEF Unclaimed
  <2>2. \A m \in Messages : \A k \in DOMAIN results[m] :
          lapses[m] = 0 => m # c
    BY <2>1
  <2>3. \A m \in Messages : Finalized(m)' => m # c /\ Finalized(m)
    BY <1>3 DEF Finalized
  <2> QED
    BY <1>3, <2>2, <2>3 DEF ResultMatchesBackend, history
<1> QED
  BY <1>4, <1>5, <1>8, <1>9, <1>10, <1>12, <1>13, <1>14, <1>15

\* The end of a lease: what it lets happen again is counted by lapses.
LEMMA ExpireIInv ==
  ASSUME IInv, NEW c \in Messages, Expire(c)
  PROVE  IInv'
<1> USE DEF IInv, Expire
<1>1. /\ OfOutcome' = OfOutcome /\ Hands' = Hands
      /\ \A m : InHand(m)' = InHand(m)
  BY DEF OfOutcome, Hands, hands, InHand
<1>2. /\ \A m \in Messages \ {c} : /\ status'[m] = status[m]
                                   /\ lapses'[m] = lapses[m]
                                   /\ late'[m] = late[m]
      /\ status'[c] = "waiting" /\ lapses'[c] = lapses[c] + 1
      /\ late'[c] = IF MaxDeliveries > 0 /\ count[c] >= MaxDeliveries
                    THEN late[c] + 1 ELSE late[c]
      /\ \A m \in Messages : /\ lapses[m] \in Nat /\ count[m] \in Nat
                             /\ late[m] \in Nat /\ count'[m] = count[m]
  BY BoundAssumption, SMTT(60) DEF TypeInv
<1>3. TypeInv'
  BY SMTT(60) DEF TypeInv, filler, hands
<1>4. FillAccountsForAll'
  BY <1>2, AccountsKept
<1>5. Hands \subseteq Delivery /\ outcome \subseteq Outcome
  BY SMTT(60) DEF TypeInv, Hands, OfOutcome, DeliveryOf, Delivery, Outcome
<1>6. HandsInv'
  BY <1>1 DEF HandsInv, hands
<1>7. BudgetInv'
  <2> SUFFICES ASSUME NEW m \in Messages PROVE Budget(m)'
    BY DEF BudgetInv
  <2>1. CASE m # c
    BY <1>1, <1>2, <2>1 DEF BudgetInv, Budget, Unclaimed
  <2>2. CASE m = c
    <3>1. /\ Cardinality(InHand(m)) \in Nat
          /\ Len(results[m]) \in Nat /\ lapses[m] \in Nat
      BY HandsFinite, SMTT(60) DEF TypeInv
    <3>2. Len(results[m]) + Cardinality(InHand(m)) + 0 <= 1 + lapses[m]
      BY <2>2 DEF BudgetInv, Budget, Unclaimed
    <3>3. Len(results[m]) + Cardinality(InHand(m)) + 1 <= 1 + (lapses[m] + 1)
      BY <3>1, <3>2
    <3>4. Unclaimed(m)' /\ lapses'[m] = lapses[m] + 1
      BY <1>2, <2>2 DEF Unclaimed
    <3> QED
      BY <1>1, <3>3, <3>4 DEF Budget
  <2> QED
    BY <2>1, <2>2
<1>8. CountInv'
  <2>1. MaxDeliveries > 0 => count[c] < MaxDeliveries + late'[c]
    BY <1>2, PoolAssumption DEF CountInv
  <2> QED
    BY <1>2, <2>1, PoolAssumption DEF CountInv
<1>9. \A d : d.msg \in Messages /\ lapses'[d.msg] = 0
               => d.msg # c /\ lapses[d.msg] = 0
  BY <1>2
<1>10. CurrentInv'
  <2>1. \A d \in Hands : /\ d.msg \in Messages
                         /\ d.msg # c => Current(d)' = Current(d)
    BY <1>2, <1>5 DEF Current, Delivery
  <2> QED
    BY <1>1, <1>9, <2>1 DEF CurrentInv, Hands, hands
<1>11. EmitInv'
  <2> SUFFICES ASSUME fin = "emit", NEW o \in outcome
               PROVE  /\ lapses'[o.msg] = 0 => Told(o.msg, o.ok)'
                      /\ faults = 0 => ~Current(o)'
    BY DEF EmitInv, hands
  <2>1. o.msg \in Messages
    BY <1>5 DEF Outcome
  <2> QED
    BY <1>2, <2>1 DEF EmitInv, Told, Current
<1>12. LeasesAreHeld'
  <2> SUFFICES ASSUME faults = 0, ~cancelled, NEW m \in Messages,
                      status'[m] = "leased"
               PROVE  \E d \in InHand(m) : Current(d)'
    BY <1>1 DEF LeasesAreHeld
  <2>1. PICK d \in InHand(m) : Current(d)
    BY <1>2 DEF LeasesAreHeld
  <2> QED
    BY <1>2, <2>1, InHandOf DEF Current
<1>13. ResultMatchesBackend'
  BY <1>2 DEF ResultMatchesBackend, Finalized, hands
<1> QED
  BY <1>3, <1>4, <1>6, <1>7, <1>8, <1>10, <1>11, <1>12, <1>13

\* The deliveries that may still be finalized.
Unfinalized ==
  offered \cup pool \cup (IF fin = "finalize" THEN OfOutcome ELSE {})

\* Deliveries that go from one hand to the next, or are let go of by a crash
\* or a cancellation.
LEMMA HandedOn ==
  ASSUME IInv, UNCHANGED <<filler, backend, results, lapses, late, cancelled>>,
         faults' \in {faults, faults + 1},
         Hands' \subseteq Hands,
         Unfinalized' \subseteq Unfinalized,
         offered' \cap pool' = {},
         OfOutcome' \cap (offered' \cup pool') = {},
         fin' = "emit" => fin = "emit" /\ outcome' = outcome,
         faults' = 0 /\ ~cancelled =>
           Hands' = Hands /\ (fin = "emit" => fin' = "emit")
  PROVE  /\ FillAccountsForAll'
         /\ HandsInv' /\ BudgetInv' /\ CountInv' /\ CurrentInv' /\ EmitInv'
         /\ LeasesAreHeld' /\ ResultMatchesBackend'
<1> USE DEF IInv, backend
<1>1. /\ \A d : Current(d)' = Current(d)
      /\ \A m : Unclaimed(m)' = Unclaimed(m)
      /\ \A m, ok : Told(m, ok) => Told(m, ok)'
      /\ \A m : Finalized(m)' = Finalized(m)
      /\ faults' = 0 => faults = 0
  BY DEF Current, Unclaimed, Told, Finalized, TypeInv
<1>2. FillAccountsForAll'
  BY AccountsKept
<1>3. HandsInv'
  BY DEF HandsInv, Hands
<1>4. BudgetInv'
  <2> SUFFICES ASSUME NEW m \in Messages PROVE Budget(m)'
    BY DEF BudgetInv
  <2>1. InHand(m)' \subseteq InHand(m)
    BY InHandOf
  <2>2. /\ Cardinality(InHand(m)') <= Cardinality(InHand(m))
        /\ Cardinality(InHand(m)') \in Nat
        /\ Cardinality(InHand(m)) \in Nat
    BY <2>1, HandsFinite, FS_Subset, FS_CardinalityType
  <2>3. Len(results[m]) \in Nat /\ lapses[m] \in Nat
    BY DEF TypeInv
  <2>4. Budget(m)
    BY DEF BudgetInv
  <2>5. CASE Unclaimed(m)
    <3>1. Len(results[m]) + Cardinality(InHand(m)) + 1 <= 1 + lapses[m]
      BY <2>4, <2>5 DEF Budget
    <3>2. Len(results[m]) + Cardinality(InHand(m)') + 1 <= 1 + lapses[m]
      BY <2>2, <2>3, <3>1
    <3> QED
      BY <1>1, <2>5, <3>2 DEF Budget
  <2>6. CASE ~Unclaimed(m)
    <3>1. Len(results[m]) + Cardinality(InHand(m)) + 0 <= 1 + lapses[m]
      BY <2>4, <2>6 DEF Budget
    <3>2. Len(results[m]) + Cardinality(InHand(m)') + 0 <= 1 + lapses[m]
      BY <2>2, <2>3, <3>1
    <3> QED
      BY <1>1, <2>6, <3>2 DEF Budget
  <2> QED
    BY <2>5, <2>6
<1>5. CountInv'
  BY DEF CountInv
<1>6. CurrentInv'
  BY <1>1 DEF CurrentInv, Unfinalized
<1>7. EmitInv'
  BY <1>1 DEF EmitInv
<1>8. LeasesAreHeld'
  <2>1. Hands' = Hands => \A m : InHand(m)' = InHand(m)
    BY InHandOf
  <2> QED
    BY <1>1, <2>1 DEF LeasesAreHeld
<1>9. ResultMatchesBackend'
  BY <1>1 DEF ResultMatchesBackend, Told
<1> QED
  BY <1>2, <1>3, <1>4, <1>5, <1>6, <1>7, <1>8, <1>9

\* A step of the receiver, of a worker that takes or drops a delivery, or of
\* ctx.
LEMMA ReceiverIInv ==
  ASSUME IInv, Cancel \/ ReceiveCancelled \/ ReceiveDrained \/ Take
  PROVE  IInv'
<1> USE DEF IInv, hands
<1>1. CASE Cancel
  <2>1. TypeInv' /\ FillAccountsForAll'
    BY <1>1 DEF Cancel, TypeInv, FillAccountsForAll, filler, backend, history
  <2> QED
    BY <1>1, <2>1, Elsewhere DEF Cancel, history
<1>2. CASE ReceiveDrained
  <2>1. TypeInv' /\ FillAccountsForAll'
    BY <1>2 DEF ReceiveDrained, TypeInv, FillAccountsForAll, filler, backend,
                history
  <2> QED
    BY <1>2, <2>1, Elsewhere DEF ReceiveDrained, history
<1>3. CASE ReceiveCancelled
  <2>1. TypeInv'
    BY <1>3 DEF ReceiveCancelled, TypeInv, filler, backend, history
  <2>2. OfOutcome' = OfOutcome
    BY <1>3 DEF ReceiveCancelled, OfOutcome
  <2>3. Hands' \subseteq Hands /\ Unfinalized' \subseteq Unfinalized
    BY <1>3, <2>2 DEF ReceiveCancelled, Hands, Unfinalized
  <2>4. offered' \cap pool' = {} /\ OfOutcome' \cap (offered' \cup pool') = {}
    BY <1>3, <2>2 DEF ReceiveCancelled, HandsInv
  <2> QED
    BY <1>3, <2>1, <2>3, <2>4, HandedOn DEF ReceiveCancelled, history
<1>4. CASE Take
  <2>1. TypeInv'
    <3>1. offered \subseteq Delivery /\ IsFiniteSet(offered)
      <4>1. offered = {} \/ \E d \in Delivery : offered = {d}
        BY DEF TypeInv
      <4> QED
        BY <4>1, FS_EmptySet, FS_Singleton
    <3>2. IsFiniteSet(pool')
      BY <1>4, <3>1, FS_Union DEF Take, TypeInv
    <3> QED
      BY <1>4, <3>1, <3>2 DEF Take, TypeInv, filler, backend, history
  <2>2. OfOutcome' = OfOutcome
    BY <1>4 DEF Take, OfOutcome
  <2>3. Hands' = Hands /\ Unfinalized' = Unfinalized
    BY <1>4, <2>2 DEF Take, Hands, Unfinalized
  <2>4. offered' \cap pool' = {} /\ OfOutcome' \cap (offered' \cup pool') = {}
    BY <1>4, <2>2 DEF Take, HandsInv
  <2> QED
    BY <1>4, <2>1, <2>3, <2>4, HandedOn DEF Take, history
<1> QED
  BY <1>1, <1>2, <1>3, <1>4

-----------------------------------------------------------------------------
(* The engine.                                                             *)

\* A worker that hands over an outcome, or drops it.
LEMMA WorkerIInv ==
  ASSUME IInv, NEW d \in pool, Processed(d) \/ Drop(d)
  PROVE  IInv'
<1> USE DEF IInv
<1>1. /\ d \in Delivery /\ d = [msg |-> d.msg, n |-> d.n]
      /\ IsFiniteSet(pool \ {d})
  BY FS_Difference, FS_Subset DEF TypeInv, Delivery
<1>2. CASE Processed(d)
  <2>1. PICK ending \in Endings : outcome' = {OutcomeOf(d, ending)}
    BY <1>2 DEF Processed
  <2>2. OutcomeOf(d, ending) \in Outcome /\ DeliveryOf(OutcomeOf(d, ending)) = d
    <3>1. /\ OutcomeOf(d, ending).msg = d.msg
          /\ OutcomeOf(d, ending).n = d.n
      BY DEF OutcomeOf
    <3>2. DeliveryOf(OutcomeOf(d, ending)) = [msg |-> d.msg, n |-> d.n]
      BY <3>1 DEF DeliveryOf
    <3>3. OutcomeOf(d, ending) \in Outcome
      BY <1>1 DEF OutcomeOf, Outcome, Delivery
    <3> QED
      BY <1>1, <3>2, <3>3
  <2>3. OfOutcome = {} /\ OfOutcome' = {d}
    <3>1. outcome = {}
      BY <1>2 DEF Processed, TypeInv
    <3>2. OfOutcome' = {DeliveryOf(o) : o \in {OutcomeOf(d, ending)}}
      BY <2>1 DEF OfOutcome
    <3> QED
      BY <2>2, <3>1, <3>2 DEF OfOutcome
  <2>4. TypeInv'
    BY <1>1, <1>2, <2>1, <2>2 DEF Processed, TypeInv, filler, backend, history
  <2>5. Hands' \subseteq Hands /\ Hands \subseteq Hands'
    BY <1>2, <2>3 DEF Processed, Hands
  <2>6. Unfinalized' \subseteq Unfinalized
    BY <1>2, <2>3 DEF Processed, Unfinalized
  <2>7. offered' \cap pool' = {} /\ OfOutcome' \cap (offered' \cup pool') = {}
    BY <1>2, <2>3 DEF Processed, HandsInv
  <2> QED
    BY <1>2, <2>4, <2>5, <2>6, <2>7, HandedOn DEF Processed, history
<1>3. CASE Drop(d)
  <2>1. TypeInv'
    BY <1>1, <1>3 DEF Drop, TypeInv, filler, backend, history
  <2>2. OfOutcome' = OfOutcome
    BY <1>3 DEF Drop, OfOutcome
  <2>3. Hands' \subseteq Hands /\ Unfinalized' \subseteq Unfinalized
    BY <1>3, <2>2 DEF Drop, Hands, Unfinalized
  <2>4. offered' \cap pool' = {} /\ OfOutcome' \cap (offered' \cup pool') = {}
    BY <1>3, <2>2 DEF Drop, HandsInv
  <2> QED
    BY <1>3, <2>1, <2>3, <2>4, HandedOn DEF Drop, history
<1> QED
  BY <1>2, <1>3

\* The end of the range, of the process, or of a run that was cancelled.
LEMMA EndIInv ==
  ASSUME IInv, EndOfRange \/ ReturnOnCancel \/ CrashAndRestart
  PROVE  IInv'
<1> USE DEF IInv
<1>1. CASE EndOfRange
  <2>1. TypeInv'
    BY <1>1 DEF EndOfRange, TypeInv, filler, backend, hands, history
  <2>2. OfOutcome' = OfOutcome
    BY <1>1 DEF EndOfRange, OfOutcome, hands
  <2>3. Hands' = Hands /\ Unfinalized' \subseteq Unfinalized
    BY <1>1, <2>2 DEF EndOfRange, Hands, Unfinalized, hands
  <2>4. offered' \cap pool' = {} /\ OfOutcome' \cap (offered' \cup pool') = {}
    BY <1>1, <2>2 DEF EndOfRange, HandsInv, hands
  <2> QED
    BY <1>1, <2>1, <2>3, <2>4, HandedOn DEF EndOfRange, history
<1>2. CASE ReturnOnCancel
  <2>1. TypeInv'
    BY <1>2 DEF ReturnOnCancel, LetGo, TypeInv, filler, backend, history
  <2>2. OfOutcome' = {}
    BY <1>2 DEF ReturnOnCancel, LetGo, OfOutcome
  <2>3. Hands' \subseteq Hands /\ Unfinalized' \subseteq Unfinalized
    BY <1>2, <2>2 DEF ReturnOnCancel, Hands, Unfinalized
  <2>4. offered' \cap pool' = {} /\ OfOutcome' \cap (offered' \cup pool') = {}
    BY <1>2, <2>2 DEF ReturnOnCancel, HandsInv
  <2> QED
    BY <1>2, <2>1, <2>3, <2>4, HandedOn DEF ReturnOnCancel, DoneCase, history
<1>3. CASE CrashAndRestart
  <2>1. TypeInv'
    BY <1>3, FS_EmptySet, BoundAssumption
       DEF CrashAndRestart, TypeInv, filler, backend
  <2>2. Hands' = {} /\ OfOutcome' = {} /\ Unfinalized' = {}
    BY <1>3 DEF CrashAndRestart, OfOutcome, Hands, Unfinalized
  <2>3. offered' \cap pool' = {} /\ OfOutcome' \cap (offered' \cup pool') = {}
    BY <1>3, <2>2 DEF CrashAndRestart
  <2>4. faults' # 0
    BY <1>3 DEF CrashAndRestart, TypeInv
  <2> QED
    BY <1>3, <2>1, <2>2, <2>3, <2>4, HandedOn DEF CrashAndRestart
<1> QED
  BY <1>1, <1>2, <1>3

-----------------------------------------------------------------------------
(* The finalizing goroutine.                                               *)

\* The outcome it holds is the only one, of a delivery nobody else has, and
\* without a lapse of the only delivery of its message.
LEMMA HeldOutcome ==
  ASSUME IInv, NEW o \in outcome
  PROVE  /\ outcome = {o} /\ o \in Outcome /\ o.msg \in Messages
         /\ OfOutcome = {DeliveryOf(o)}
         /\ DeliveryOf(o) \notin offered \cup pool
         /\ InHand(o.msg) # {}
         /\ Current(DeliveryOf(o)) <=> Current(o)
         /\ lapses[o.msg] = 0 =>
              /\ results[o.msg] = <<>>
              /\ \A d \in offered \cup pool : d.msg # o.msg
<1> USE DEF IInv
<1>1. outcome = {o} /\ o \in Outcome
  BY DEF TypeInv
<1>2. o.msg \in Messages
  BY <1>1 DEF Outcome
<1>3. OfOutcome = {DeliveryOf(o)}
  BY <1>1 DEF OfOutcome
<1>4. DeliveryOf(o).msg = o.msg /\ DeliveryOf(o).n = o.n
  BY DEF DeliveryOf
<1>5. DeliveryOf(o) \notin offered \cup pool
  BY <1>3 DEF HandsInv
<1>6. DeliveryOf(o) \in InHand(o.msg)
  BY <1>3, <1>4, InHandOf DEF Hands
<1>7. Current(DeliveryOf(o)) <=> Current(o)
  BY <1>4 DEF Current
<1>8. ASSUME lapses[o.msg] = 0
      PROVE  results[o.msg] = <<>> /\ \A d \in offered \cup pool : d.msg # o.msg
  <2>1. /\ results[o.msg] = <<>>
        /\ \A d, e \in InHand(o.msg) : d = e
    BY <1>2, <1>6, <1>8, OneChance
  <2>2. \A d \in offered \cup pool : d.msg = o.msg => d \in InHand(o.msg)
    BY InHandOf DEF Hands
  <2> QED
    BY <1>5, <1>6, <2>1, <2>2
<1> QED
  BY <1>1, <1>2, <1>3, <1>5, <1>6, <1>7, <1>8

\* Ack or DeadLetter: what is about to be emitted is what became of the
\* message, unless its lease had run out or the call fails.
LEMMA FinalizeIInv ==
  ASSUME IInv, FinalizeMessage
  PROVE  IInv'
<1> USE DEF IInv
<1>1. PICK o \in outcome : Finalizes(o)
  BY DEF FinalizeMessage
<1>2. /\ outcome = {o} /\ o \in Outcome /\ o.msg \in Messages
      /\ OfOutcome = {DeliveryOf(o)}
      /\ lapses[o.msg] = 0 =>
           /\ results[o.msg] = <<>>
           /\ \A d \in offered \cup pool : d.msg # o.msg
  BY HeldOutcome
<1>3. /\ UNCHANGED <<filler, cancelled, receiving, count, offered, pool,
                     outcome, results, lapses, late>>
      /\ fin = "finalize" /\ fin' = "emit"
      /\ OfOutcome' = OfOutcome /\ Hands' = Hands
      /\ \A m : InHand(m)' = InHand(m)
      /\ faults' \in {faults, faults + 1} /\ faults' \in 0..MaxFaults
  BY <1>1, BoundAssumption
     DEF FinalizeMessage, Finalizes, Call, hands, history, OfOutcome, Hands,
         InHand, TypeInv
<1>4. /\ \A m \in Messages :
           Finalized(m) => results[m] # <<>> \/ faults > 0 \/ cancelled
      /\ faults' = 0 => faults = 0
  BY <1>3, BoundAssumption DEF ResultMatchesBackend, TypeInv
<1>5. DEFINE final == IF o.ok THEN "acked" ELSE "dead"
<1>6. \/ Current(o) /\ status' = [status EXCEPT ![o.msg] = final]
      \/ ~Current(o) /\ status' = status
      \/ Current(o) /\ status' = status /\ faults' = faults + 1
  BY <1>1 DEF Finalizes, Call
<1>7. CASE status' = status /\ (Current(o) => faults' = faults + 1)
  <2>1. TypeInv' /\ FillAccountsForAll'
    BY <1>3, <1>7, AccountsKept DEF TypeInv, filler
  <2>2. /\ \A d : Current(d)' = Current(d)
        /\ \A m : Unclaimed(m)' = Unclaimed(m) /\ Finalized(m)' = Finalized(m)
    BY <1>3, <1>7 DEF Current, Unclaimed, Finalized
  <2>3. HandsInv' /\ BudgetInv' /\ CountInv'
    BY <1>3, <1>7, <2>2 DEF HandsInv, BudgetInv, Budget, CountInv
  <2>4. CurrentInv'
    BY <1>3, <2>2 DEF CurrentInv
  <2>5. EmitInv'
    <3>1. lapses[o.msg] = 0 => Current(o)
      BY <1>2, <1>3, HeldOutcome DEF CurrentInv, DeliveryOf
    <3>2. Current(o) => status[o.msg] = "leased" /\ faults' > 0
      BY <1>7, BoundAssumption DEF Current, TypeInv
    <3> QED
      BY <1>2, <1>3, <1>7, <2>2, <3>1, <3>2 DEF EmitInv, Told
  <2>6. LeasesAreHeld' /\ ResultMatchesBackend'
    BY <1>3, <1>4, <1>7, <2>2, BoundAssumption
       DEF LeasesAreHeld, ResultMatchesBackend, TypeInv
  <2> QED
    BY <2>1, <2>3, <2>4, <2>5, <2>6
<1>8. CASE Current(o) /\ status' = [status EXCEPT ![o.msg] = final]
  <2>1. /\ final \in {"acked", "dead"}
        /\ status[o.msg] = "leased" /\ status'[o.msg] = final
        /\ \A m \in Messages \ {o.msg} : status'[m] = status[m]
    BY <1>2, <1>8 DEF Current, TypeInv
  <2>2. TypeInv'
    BY <1>3, <1>8, <2>1 DEF TypeInv, filler
  <2>3. FillAccountsForAll'
    BY <1>2, <1>3, <2>1, AccountsKept
  <2>4. /\ \A d : d.msg \in Messages \ {o.msg} => Current(d)' = Current(d)
        /\ \A m \in Messages : Unclaimed(m)' = Unclaimed(m)
        /\ \A m \in Messages \ {o.msg} : Finalized(m)' = Finalized(m)
        /\ ~Current(o)'
    BY <1>3, <2>1 DEF Current, Unclaimed, Finalized
  <2>5. HandsInv' /\ BudgetInv'
    BY <1>3, <2>4 DEF HandsInv, BudgetInv, Budget
  <2>6. CountInv'
    BY <1>2, <1>3, <2>1 DEF CountInv
  <2>7. CurrentInv'
    <3>1. offered \subseteq Delivery /\ pool \subseteq Delivery
      BY DEF TypeInv
    <3>2. \A d \in offered \cup pool :
            lapses[d.msg] = 0 => d.msg \in Messages \ {o.msg} /\ Current(d)
      BY <1>2, <3>1 DEF CurrentInv, Delivery
    <3> QED
      BY <1>3, <2>4, <3>2 DEF CurrentInv
  <2>8. EmitInv'
    BY <1>2, <1>3, <2>1, <2>4 DEF EmitInv, Told
  <2>9. LeasesAreHeld'
    <3> SUFFICES ASSUME faults' = 0, ~cancelled, NEW m \in Messages,
                        status'[m] = "leased"
                 PROVE  \E d \in InHand(m) : Current(d)'
      BY <1>3 DEF LeasesAreHeld
    <3>1. m # o.msg
      BY <2>1
    <3>2. PICK d \in InHand(m) : Current(d)
      BY <1>4, <2>1, <3>1 DEF LeasesAreHeld
    <3>3. d.msg = m
      BY InHandOf
    <3> QED
      BY <2>4, <3>1, <3>2, <3>3
  <2>10. ResultMatchesBackend'
    <3>1. \A m \in Messages : \A k \in DOMAIN results[m] :
            lapses[m] = 0 => m # o.msg
      BY <1>2
    <3>2. \A m \in Messages : Finalized(m)' /\ results[m] = <<>> /\ faults' = 0
            /\ ~cancelled => m = o.msg
      BY <1>4, <2>4
    <3> QED
      BY <1>2, <1>3, <2>1, <3>1, <3>2, BoundAssumption
         DEF ResultMatchesBackend, TypeInv
  <2> QED
    BY <2>2, <2>3, <2>5, <2>6, <2>7, <2>8, <2>9, <2>10
<1> QED
  BY <1>6, <1>7, <1>8

\* An outcome that leaves the goroutine's hand takes one of its message away.
LEMMA LetsGo ==
  ASSUME IInv, NEW o \in outcome, outcome' = {}, UNCHANGED <<offered, pool>>
  PROVE  /\ OfOutcome' = {} /\ Hands' = offered \cup pool
         /\ \A m : InHand(m)' = InHand(m) \ {DeliveryOf(o)}
         /\ \A m : m # o.msg => InHand(m)' = InHand(m)
         /\ Cardinality(InHand(o.msg)') = Cardinality(InHand(o.msg)) - 1
         /\ \A m : /\ Cardinality(InHand(m)) \in Nat
                   /\ Cardinality(InHand(m)') \in Nat
                   /\ Cardinality(InHand(m)') <= Cardinality(InHand(m))
<1>1. /\ OfOutcome = {DeliveryOf(o)} /\ DeliveryOf(o) \notin offered \cup pool
      /\ DeliveryOf(o).msg = o.msg
  BY HeldOutcome DEF DeliveryOf
<1>2. OfOutcome' = {} /\ Hands' = offered \cup pool
  BY DEF OfOutcome, Hands
<1>3. Hands' = Hands \ {DeliveryOf(o)} /\ DeliveryOf(o) \in Hands
  BY <1>1, <1>2 DEF Hands
<1>4. \A m : InHand(m)' = InHand(m) \ {DeliveryOf(o)}
  BY <1>3, InHandOf
<1>5. \A m : m # o.msg => InHand(m)' = InHand(m)
  BY <1>1, <1>4, InHandOf
<1>6. DeliveryOf(o) \in InHand(o.msg)
  BY <1>1, <1>3, InHandOf
<1>7. \A m : IsFiniteSet(InHand(m)) /\ Cardinality(InHand(m)) \in Nat
  BY HandsFinite DEF IInv
<1>8. Cardinality(InHand(o.msg)') = Cardinality(InHand(o.msg)) - 1
  BY <1>4, <1>6, <1>7, FS_RemoveElement
<1>9. \A m : InHand(m)' \subseteq InHand(m)
  BY <1>4
<1>10. \A m : /\ Cardinality(InHand(m)') \in Nat
              /\ Cardinality(InHand(m)') <= Cardinality(InHand(m))
  BY <1>7, <1>9, FS_Subset, FS_CardinalityType
<1> QED
  BY <1>2, <1>4, <1>5, <1>7, <1>8, <1>10

\* Nack: the message has another delivery instead of a Result.
LEMMA RequeueIInv ==
  ASSUME IInv, Requeue
  PROVE  IInv'
<1> USE DEF IInv
<1>1. PICK o \in outcome : ~o.ok /\ ~Exhausted(o) /\ Requeued(o)
  BY DEF Requeue
<1>2. /\ outcome = {o} /\ o \in Outcome /\ o.msg \in Messages /\ o.n \in Nat
      /\ lapses[o.msg] = 0 =>
           /\ results[o.msg] = <<>>
           /\ \A d \in offered \cup pool : d.msg # o.msg
  BY HeldOutcome, BoundAssumption DEF Outcome
<1>3. /\ UNCHANGED <<filler, cancelled, receiving, count, offered, pool,
                     results, lapses, late>>
      /\ fin = "finalize" /\ fin' = "range" /\ outcome' = {}
      /\ faults' \in {faults, faults + 1} /\ faults' \in 0..MaxFaults
  BY <1>1, BoundAssumption DEF Requeue, Requeued, Call, history, TypeInv
<1>4. faults' = 0 => faults = 0
  BY <1>3, BoundAssumption DEF TypeInv
<1>5. /\ \A m \in Messages :
           /\ lapses[m] \in Nat /\ late[m] \in Nat /\ Len(results[m]) \in Nat
           /\ count[m] \in Nat
           /\ Budget(m)
           /\ Cardinality(InHand(m)) \in Nat
           /\ Cardinality(InHand(m)') \in Nat
           /\ Cardinality(InHand(m)') <= Cardinality(InHand(m))
           /\ m # o.msg => InHand(m)' = InHand(m)
           /\ InHand(m)' = InHand(m) \ {DeliveryOf(o)}
      /\ Cardinality(InHand(o.msg)') = Cardinality(InHand(o.msg)) - 1
      /\ OfOutcome' = {} /\ Hands' = offered \cup pool
  BY <1>3, LetsGo, BoundAssumption, SMTT(60) DEF TypeInv, BudgetInv
<1>6. HandsInv'
  BY <1>3, <1>5 DEF HandsInv, Hands
<1>7. EmitInv'
  BY <1>3 DEF EmitInv
<1>8. \A m \in Messages :
        Finalized(m) => results[m] # <<>> \/ faults > 0 \/ cancelled
  BY <1>3, BoundAssumption DEF ResultMatchesBackend, TypeInv
<1>9. \/ Current(o) /\ status' = [status EXCEPT ![o.msg] = "waiting"]
      \/ status' = status /\ (Current(o) => faults' = faults + 1)
  BY <1>1 DEF Requeued, Call
<1>10. CASE status' = status /\ (Current(o) => faults' = faults + 1)
  <2>1. TypeInv' /\ FillAccountsForAll'
    BY <1>3, <1>10, AccountsKept DEF TypeInv, filler
  <2>2. /\ \A d : Current(d)' = Current(d)
        /\ \A m : Unclaimed(m)' = Unclaimed(m) /\ Finalized(m)' = Finalized(m)
    BY <1>3, <1>10 DEF Current, Unclaimed, Finalized
  <2>3. BudgetInv'
    <3> SUFFICES ASSUME NEW m \in Messages PROVE Budget(m)'
      BY DEF BudgetInv
    <3>1. CASE Unclaimed(m)
      BY <1>3, <1>5, <2>2, <3>1 DEF Budget
    <3>2. CASE ~Unclaimed(m)
      BY <1>3, <1>5, <2>2, <3>2 DEF Budget
    <3> QED
      BY <3>1, <3>2
  <2>4. CountInv'
    BY <1>3, <1>10 DEF CountInv
  <2>5. CurrentInv'
    BY <1>3, <1>5, <2>2 DEF CurrentInv
  <2>6. LeasesAreHeld'
    <3> SUFFICES ASSUME faults' = 0, ~cancelled, NEW m \in Messages,
                        status[m] = "leased"
                 PROVE  \E d \in InHand(m)' : Current(d)
      BY <1>3, <1>10, <2>2 DEF LeasesAreHeld
    <3>1. PICK d \in InHand(m) : Current(d)
      BY <1>4 DEF LeasesAreHeld
    <3>2. ~Current(DeliveryOf(o))
      BY <1>3, <1>4, <1>10, HeldOutcome, BoundAssumption DEF TypeInv
    <3> QED
      BY <1>5, <3>1, <3>2
  <2>7. ResultMatchesBackend'
    BY <1>3, <1>4, <1>8, <1>10, <2>2, BoundAssumption
       DEF ResultMatchesBackend, TypeInv
  <2> QED
    BY <1>6, <1>7, <2>1, <2>3, <2>4, <2>5, <2>6, <2>7
<1>11. CASE Current(o) /\ status' = [status EXCEPT ![o.msg] = "waiting"]
  <2>1. /\ status[o.msg] = "leased" /\ count[o.msg] = o.n
        /\ status'[o.msg] = "waiting"
        /\ \A m \in Messages \ {o.msg} : status'[m] = status[m]
    BY <1>2, <1>11 DEF Current, TypeInv
  <2>2. TypeInv'
    BY <1>3, <1>11, <2>1 DEF TypeInv, filler
  <2>3. FillAccountsForAll'
    BY <1>2, <1>3, <2>1, AccountsKept
  <2>4. /\ \A d : d.msg \in Messages \ {o.msg} => Current(d)' = Current(d)
        /\ \A m \in Messages \ {o.msg} : /\ Unclaimed(m)' = Unclaimed(m)
                                         /\ Finalized(m)' = Finalized(m)
        /\ ~Finalized(o.msg)' /\ Unclaimed(o.msg)' /\ ~Unclaimed(o.msg)
    BY <1>3, <2>1 DEF Current, Unclaimed, Finalized
  <2>5. BudgetInv'
    <3> SUFFICES ASSUME NEW m \in Messages PROVE Budget(m)'
      BY DEF BudgetInv
    <3>1. CASE m # o.msg
      BY <1>3, <1>5, <2>4, <3>1 DEF Budget
    <3>2. CASE m = o.msg
      <4>1. Len(results[m]) + Cardinality(InHand(m)) + 0 <= 1 + lapses[m]
        BY <1>5, <2>4, <3>2 DEF Budget
      <4>2. Len(results[m]) + Cardinality(InHand(m)') + 1 <= 1 + lapses[m]
        BY <1>5, <3>2, <4>1
      <4> QED
        BY <1>3, <2>4, <3>2, <4>2 DEF Budget
    <3> QED
      BY <3>1, <3>2
  <2>6. CountInv'
    <3>1. MaxDeliveries > 0 => count[o.msg] < MaxDeliveries + late[o.msg]
      BY <1>1, <1>2, <1>5, <2>1, PoolAssumption DEF Exhausted
    <3> QED
      BY <1>2, <1>3, <2>1, <3>1 DEF CountInv
  <2>7. CurrentInv'
    <3>1. offered \subseteq Delivery /\ pool \subseteq Delivery
      BY DEF TypeInv
    <3>2. \A d \in offered \cup pool :
            lapses[d.msg] = 0 => d.msg \in Messages \ {o.msg} /\ Current(d)
      BY <1>2, <3>1 DEF CurrentInv, Delivery
    <3> QED
      BY <1>3, <2>4, <3>2 DEF CurrentInv
  <2>8. LeasesAreHeld'
    <3> SUFFICES ASSUME faults' = 0, ~cancelled, NEW m \in Messages,
                        status'[m] = "leased"
                 PROVE  \E d \in InHand(m)' : Current(d)'
      BY <1>3 DEF LeasesAreHeld
    <3>1. m # o.msg
      BY <2>1
    <3>2. PICK d \in InHand(m) : Current(d)
      BY <1>4, <2>1, <3>1 DEF LeasesAreHeld
    <3>3. d.msg = m
      BY InHandOf
    <3> QED
      BY <1>5, <2>4, <3>1, <3>2, <3>3
  <2>9. ResultMatchesBackend'
    <3>1. \A m \in Messages : \A k \in DOMAIN results[m] :
            lapses[m] = 0 => m # o.msg
      BY <1>2
    <3>2. \A m \in Messages : Finalized(m)' => m # o.msg /\ Finalized(m)
      BY <2>4
    <3> QED
      BY <1>2, <1>3, <1>4, <1>8, <2>1, <3>1, <3>2, BoundAssumption,
         SMTT(60) DEF ResultMatchesBackend, TypeInv
  <2> QED
    BY <1>6, <1>7, <2>2, <2>3, <2>5, <2>6, <2>7, <2>8, <2>9
<1> QED
  BY <1>9, <1>10, <1>11

\* The Result takes the place of the delivery.
LEMMA EmitIInv ==
  ASSUME IInv, Emit
  PROVE  IInv'
<1> USE DEF IInv
<1>1. PICK o \in outcome :
        results' = [results EXCEPT ![o.msg] = Append(@, o.ok)]
  BY DEF Emit
<1>2. /\ outcome = {o} /\ o \in Outcome /\ o.msg \in Messages
      /\ o.ok \in BOOLEAN
      /\ lapses[o.msg] = 0 => results[o.msg] = <<>>
  BY HeldOutcome DEF Outcome
<1>3. /\ UNCHANGED <<filler, cancelled, receiving, status, count, offered,
                     pool, faults, lapses, late>>
      /\ fin = "emit" /\ fin' = "range" /\ outcome' = {}
  BY DEF Emit, LetGo, backend, history
<1>4. /\ results'[o.msg] = Append(results[o.msg], o.ok)
      /\ results[o.msg] \in Seq(BOOLEAN)
      /\ \A m \in Messages \ {o.msg} : results'[m] = results[m]
  BY <1>1, <1>2 DEF TypeInv
<1>5. /\ \A m \in Messages :
           /\ lapses[m] \in Nat /\ Len(results[m]) \in Nat
           /\ Budget(m)
           /\ Cardinality(InHand(m)) \in Nat
           /\ m # o.msg => InHand(m)' = InHand(m)
           /\ InHand(m)' = InHand(m) \ {DeliveryOf(o)}
      /\ Cardinality(InHand(o.msg)') = Cardinality(InHand(o.msg)) - 1
      /\ OfOutcome' = {} /\ Hands' = offered \cup pool
  BY <1>3, LetsGo, SMTT(60) DEF TypeInv, BudgetInv
<1>6. /\ \A d : Current(d)' = Current(d)
      /\ \A m : Unclaimed(m)' = Unclaimed(m) /\ Finalized(m)' = Finalized(m)
      /\ \A m, ok : Told(m, ok)' = Told(m, ok)
  BY <1>3 DEF Current, Unclaimed, Finalized, Told
<1>7. TypeInv' /\ FillAccountsForAll'
  <2>1. results' \in [Messages -> Seq(BOOLEAN)]
    BY <1>1, <1>2 DEF TypeInv
  <2> QED
    BY <1>3, <2>1, AccountsKept DEF TypeInv, filler
<1>8. HandsInv'
  BY <1>3, <1>5 DEF HandsInv, Hands
<1>9. BudgetInv'
  <2> SUFFICES ASSUME NEW m \in Messages PROVE Budget(m)'
    BY DEF BudgetInv
  <2>1. CASE m # o.msg
    BY <1>3, <1>4, <1>5, <1>6, <2>1 DEF Budget
  <2>2. CASE m = o.msg
    <3>1. Len(results'[m]) = Len(results[m]) + 1
      BY <1>4, <2>2
    <3>2. Len(results'[m]) + Cardinality(InHand(m)')
            = Len(results[m]) + Cardinality(InHand(m))
      BY <1>5, <2>2, <3>1
    <3> QED
      BY <1>3, <1>5, <1>6, <3>2 DEF Budget
  <2> QED
    BY <2>1, <2>2
<1>10. CountInv'
  BY <1>3 DEF CountInv
<1>11. CurrentInv'
  BY <1>3, <1>5, <1>6 DEF CurrentInv
<1>12. EmitInv'
  BY <1>3 DEF EmitInv
<1>13. LeasesAreHeld'
  <2> SUFFICES ASSUME faults = 0, ~cancelled, NEW m \in Messages,
                      status[m] = "leased"
               PROVE  \E d \in InHand(m)' : Current(d)
    BY <1>3, <1>6 DEF LeasesAreHeld
  <2>1. PICK d \in InHand(m) : Current(d)
    BY DEF LeasesAreHeld
  <2>2. ~Current(DeliveryOf(o))
    BY <1>3, HeldOutcome DEF EmitInv
  <2> QED
    BY <1>5, <2>1, <2>2
<1>14. ResultMatchesBackend'
  <2>1. ASSUME NEW m \in Messages, NEW k \in DOMAIN results'[m], lapses[m] = 0
        PROVE  Told(m, results'[m][k])
    <3>1. CASE m # o.msg
      BY <1>4, <2>1, <3>1 DEF ResultMatchesBackend, Told
    <3>2. CASE m = o.msg
      <4>1. results'[m] = <<o.ok>>
        BY <1>2, <1>4, <2>1, <3>2
      <4>2. results'[m][k] = o.ok
        BY <4>1
      <4> QED
        BY <1>3, <2>1, <3>2, <4>2 DEF EmitInv
    <3> QED
      BY <3>1, <3>2
  <2>2. ASSUME faults = 0, ~cancelled, NEW m \in Messages, Finalized(m),
               results'[m] = <<>>
        PROVE  FALSE
    <3>1. m # o.msg
      BY <1>4, <2>2
    <3>2. \E x \in outcome : x.msg = m
      BY <1>4, <2>2, <3>1 DEF ResultMatchesBackend
    <3> QED
      BY <1>2, <3>1, <3>2
  <2> QED
    BY <1>3, <1>6, <2>1, <2>2 DEF ResultMatchesBackend, Told
<1> QED
  BY <1>7, <1>8, <1>9, <1>10, <1>11, <1>12, <1>13, <1>14

-----------------------------------------------------------------------------
\* Every step keeps the invariant.
LEMMA NextIInv == IInv /\ [Next]_vars => IInv'
<1> SUFFICES ASSUME IInv, [Next]_vars PROVE IInv'
  OBVIOUS
<1>1. CASE \/ FillTake \/ FillPublish \/ FillFails
           \/ FillReturns \/ FillCancelled
  BY <1>1, FillIInv
<1>2. CASE \E m \in Messages : Deliver(m) \/ Expire(m)
  BY <1>2, DeliverIInv, ExpireIInv
<1>3. CASE Cancel \/ ReceiveCancelled \/ ReceiveDrained \/ Take
  BY <1>3, ReceiverIInv
<1>4. CASE \E d \in pool : Processed(d) \/ Drop(d)
  BY <1>4, WorkerIInv
<1>5. CASE FinalizeMessage \/ Requeue \/ Emit
  BY <1>5, FinalizeIInv, RequeueIInv, EmitIInv
<1>6. CASE EndOfRange \/ ReturnOnCancel \/ CrashAndRestart
  BY <1>6, EndIInv
<1>7. CASE UNCHANGED vars
  <2>1. TypeInv' /\ FillAccountsForAll'
    BY <1>7 DEF IInv, TypeInv, FillAccountsForAll, vars, filler, backend,
                hands, history
  <2> QED
    BY <1>7, <2>1, Elsewhere DEF IInv, vars, history
<1> QED
  BY <1>1, <1>2, <1>3, <1>4, <1>5, <1>6, <1>7 DEF Next, ProcessStep

\* The types follow: an outcome is held exactly while it is finalized and
\* emitted.
LEMMA TypesFollow == TypeInv => TypeOK
<1> SUFFICES ASSUME TypeInv PROVE TypeOK
  OBVIOUS
<1>1. offered \subseteq Delivery /\ Cardinality(offered) <= 1
  <2>1. offered = {} \/ \E d \in Delivery : offered = {d}
    BY DEF TypeInv
  <2>2. CASE offered = {}
    BY <2>2, FS_EmptySet
  <2>3. CASE \E d \in Delivery : offered = {d}
    BY <2>3, FS_Singleton
  <2> QED
    BY <2>1, <2>2, <2>3
<1>2. CASE fin \in {"finalize", "emit"}
  <2>1. \E o \in Outcome : outcome = {o}
    BY <1>2 DEF TypeInv
  <2>2. outcome \subseteq Outcome /\ Cardinality(outcome) = 1
    BY <2>1, FS_Singleton
  <2> QED
    BY <1>1, <1>2, <2>2 DEF TypeInv, TypeOK, Exited, N
<1>3. CASE fin \notin {"finalize", "emit"}
  <2>1. outcome = {}
    BY <1>3 DEF TypeInv
  <2>2. Cardinality(outcome) = 0
    BY <2>1, FS_EmptySet
  <2> QED
    BY <1>1, <1>3, <2>1, <2>2 DEF TypeInv, TypeOK, Exited, N
<1> QED
  BY <1>2, <1>3

\* Consume never has a second delivery on offer, and holds an outcome exactly
\* while it is to be finalized or emitted.
THEOREM TypeCorrect == Spec => []TypeOK
<1>1. IInv => TypeOK
  BY TypesFollow DEF IInv
<1> QED
  BY <1>1, InitIInv, NextIInv, PTL DEF Spec

\* What Fill returns accounts for every message the queue has had, whatever
\* the consumer does to the queue at the same time, and whether Publish failed
\* before or after the message was stored.
THEOREM FillAccounts == Spec => []FillAccountsForAll
<1>1. IInv => FillAccountsForAll
  BY DEF IInv
<1> QED
  BY <1>1, InitIInv, NextIInv, PTL DEF Spec

\* Without a fault or a cancellation Consume never lets go of a message it has
\* claimed but by finalizing or requeueing it: through the receiver's hand, the
\* workers' and the finalizing goroutine's, and however many leases run out.
THEOREM LeasesHeld == Spec => []LeasesAreHeld
<1>1. IInv => LeasesAreHeld
  BY DEF IInv
<1> QED
  BY <1>1, InitIInv, NextIInv, PTL DEF Spec

\* A lease that ran out is the only cause of a second Result, and one that ran
\* out at the limit or beyond it the only cause of a delivery beyond
\* WithMaxDeliveries; how often that happens nothing bounds (DivertedInTime).
THEOREM RepeatsExplained == Spec => []LapsesExplainRepeats
<1>1. IInv => LapsesExplainRepeats
  <2> SUFFICES ASSUME IInv, NEW m \in Messages
               PROVE  /\ MaxDeliveries > 0 =>
                           count[m] <= MaxDeliveries + late[m]
                      /\ Len(results[m]) <= 1 + lapses[m]
    BY DEF LapsesExplainRepeats
  <2>1. /\ Len(results[m]) \in Nat /\ lapses[m] \in Nat
        /\ Cardinality(InHand(m)) \in Nat
    BY HandsFinite DEF IInv, TypeInv
  <2>2. Budget(m)
    BY DEF IInv, BudgetInv
  <2>3. Len(results[m]) <= 1 + lapses[m]
    <3>1. CASE Unclaimed(m)
      BY <2>1, <2>2, <3>1 DEF Budget
    <3>2. CASE ~Unclaimed(m)
      BY <2>1, <2>2, <3>2 DEF Budget
    <3> QED
      BY <3>1, <3>2
  <2> QED
    BY <2>3 DEF IInv, CountInv
<1> QED
  BY <1>1, InitIInv, NextIInv, PTL DEF Spec

\* A Result agrees with what the backend made of the message, unless a lease of
\* the message ran out or a call failed, and a finalized message has one.
THEOREM ResultsMatch == Spec => []ResultMatchesBackend
<1>1. IInv => ResultMatchesBackend
  BY DEF IInv
<1> QED
  BY <1>1, InitIInv, NextIInv, PTL DEF Spec

-----------------------------------------------------------------------------
(* The queue that Consume works on implements Delivery.                    *)

\* The copies of a message of the given status.
Copies(s) ==
  [waiting |-> IF s = "waiting" THEN 1 ELSE 0,
   held |-> IF s = "leased" THEN 1 ELSE 0,
   acked |-> IF s = "acked" THEN 1 ELSE 0,
   dead |-> IF s = "dead" THEN 1 ELSE 0]

\* They move as Delivery's copies do.
LEMMA CopiesMove ==
  /\ Copies("absent") = Abstract!Nowhere
  /\ Copies("waiting") = [Copies("absent") EXCEPT !["waiting"] = 1]
  /\ Copies("leased")
       = [Copies("waiting") EXCEPT !["waiting"] = @ - 1, !["held"] = @ + 1]
  /\ Copies("waiting")
       = [Copies("leased") EXCEPT !["waiting"] = @ + 1, !["held"] = @ - 1]
  /\ \A place \in {"acked", "dead"} :
       Copies(place)
         = [Copies("leased") EXCEPT !["held"] = @ - 1, ![place] = @ + 1]
  /\ Copies("waiting")["waiting"] = 1 /\ Copies("leased")["held"] = 1
<1> USE DEF Copies
<1>1. Copies("absent") = Abstract!Nowhere
  BY DEF Abstract!Nowhere, Abstract!Places
<1>2. Copies("waiting") = [Copies("absent") EXCEPT !["waiting"] = 1]
  OBVIOUS
<1>3. Copies("leased")
        = [Copies("waiting") EXCEPT !["waiting"] = @ - 1, !["held"] = @ + 1]
  OBVIOUS
<1>4. Copies("waiting")
        = [Copies("leased") EXCEPT !["waiting"] = @ + 1, !["held"] = @ - 1]
  OBVIOUS
<1>5. \A place \in {"acked", "dead"} :
        Copies(place)
          = [Copies("leased") EXCEPT !["held"] = @ - 1, ![place] = @ + 1]
  OBVIOUS
<1> QED
  BY <1>1, <1>2, <1>3, <1>4, <1>5

\* What the queue is as a Delivery.
CopiesOf == [m \in Messages |-> Copies(status[m])]

CountOf == [m \in Messages |-> IF Finalized(m) THEN 0 ELSE count[m]]

\* Init is one of Delivery's: no message is in the queue.
LEMMA InitImplements == Init => Abstract!Init
<1> SUFFICES ASSUME Init PROVE Abstract!Init
  OBVIOUS
<1>1. /\ CopiesOf = [m \in Messages |->
                       IF m \in {}
                       THEN [Abstract!Nowhere EXCEPT !["waiting"] = 1]
                       ELSE Abstract!Nowhere]
      /\ {} \in SUBSET Messages
  BY CopiesMove DEF Init, CopiesOf
<1>2. CountOf = [m \in Messages |-> 0]
  BY DEF Init, CountOf
<1>3. (~cancelled) = TRUE
  BY DEF Init
<1> QED
  BY <1>1, <1>2, <1>3 DEF Abstract!Init, CopiesOf, CountOf, Copies

\* An absent message that comes to wait is published.
LEMMA PublishImplements ==
  ASSUME TypeInv, NEW t \in Messages, status[t] = "absent",
         status' = [status EXCEPT ![t] = "waiting"],
         UNCHANGED <<count, cancelled>>
  PROVE  Abstract!Publish(t)
<1>1. CopiesOf[t] = Abstract!Nowhere
  BY CopiesMove DEF CopiesOf
<1>2. CopiesOf' = [CopiesOf EXCEPT ![t]["waiting"] = 1]
  BY CopiesMove DEF CopiesOf, TypeInv
<1>3. CountOf' = CountOf
  BY DEF CountOf, Finalized, TypeInv
<1> QED
  BY <1>1, <1>2, <1>3 DEF Abstract!Publish, CopiesOf, CountOf, Copies

\* A message that stops waiting for a lease is claimed, and counted.
LEMMA ClaimImplements ==
  ASSUME TypeInv, NEW c \in Messages, Deliver(c)
  PROVE  Abstract!Claim(c)
<1> USE DEF Deliver
<1>1. CopiesOf[c]["waiting"] > 0
  BY CopiesMove DEF CopiesOf
<1>2. CopiesOf'
        = [CopiesOf EXCEPT ![c]["waiting"] = @ - 1, ![c]["held"] = @ + 1]
  BY CopiesMove DEF CopiesOf, TypeInv
<1>3. CountOf' = [CountOf EXCEPT ![c] = @ + 1]
  BY DEF CountOf, Finalized, TypeInv
<1> QED
  BY <1>1, <1>2, <1>3 DEF Abstract!Claim, CopiesOf, CountOf, Copies

\* A leased message that comes to wait again is given back.
LEMMA GiveBackImplements ==
  ASSUME TypeInv, NEW c \in Messages, status[c] = "leased",
         status' = [status EXCEPT ![c] = "waiting"],
         UNCHANGED <<count, cancelled>>
  PROVE  Abstract!GiveBack({c})
<1>1. \A m \in {c} : CopiesOf[m]["held"] > 0
  BY CopiesMove DEF CopiesOf
<1>2. CopiesOf' = [m \in Messages |->
                     IF m \in {c} THEN [CopiesOf[m] EXCEPT !["waiting"] = @ + 1,
                                                           !["held"] = @ - 1]
                     ELSE CopiesOf[m]]
  BY CopiesMove, ZenonT(60) DEF CopiesOf, TypeInv
<1>3. CountOf' = CountOf
  BY DEF CountOf, Finalized, TypeInv
<1> QED
  BY <1>1, <1>2, <1>3 DEF Abstract!GiveBack, CopiesOf, CountOf, Copies

\* A leased message that is acknowledged or dead-lettered is finalized.
LEMMA FinalizeImplements ==
  ASSUME TypeInv, NEW c \in Messages, status[c] = "leased",
         NEW place \in {"acked", "dead"},
         status' = [status EXCEPT ![c] = place],
         UNCHANGED <<count, cancelled>>
  PROVE  Abstract!Finalize(c, place)
<1>1. CopiesOf[c]["held"] > 0
  BY CopiesMove DEF CopiesOf
<1>2. CopiesOf'
        = [CopiesOf EXCEPT ![c]["held"] = @ - 1, ![c][place] = @ + 1]
  BY CopiesMove DEF CopiesOf, TypeInv
<1>3. CountOf' = [CountOf EXCEPT ![c] = 0]
  BY DEF CountOf, Finalized, TypeInv
<1> QED
  BY <1>1, <1>2, <1>3 DEF Abstract!Finalize, CopiesOf, CountOf, Copies

\* Every step is a step of Delivery or leaves it alone.
LEMMA StepImplements ==
  IInv /\ [Next]_vars => [Abstract!Next]_(Abstract!vars)
<1> SUFFICES ASSUME IInv, [Next]_vars
             PROVE  Abstract!Next \/ UNCHANGED Abstract!vars
  OBVIOUS
<1> USE DEF IInv
<1>0. UNCHANGED <<status, count, cancelled>> => UNCHANGED Abstract!vars
  BY DEF Abstract!vars, Finalized
<1>1. CASE FillTake \/ FillReturns \/ FillCancelled
  BY <1>0, <1>1 DEF FillTake, FillReturns, FillCancelled, consumer
<1>2. CASE FillPublish \/ FillFails
  <2>1. UNCHANGED <<count, cancelled>>
    BY <1>2 DEF FillPublish, FillFails, consumer
  <2>2. \/ status' = status
        \/ status' = [status EXCEPT ![taken] = "waiting"]
    BY <1>2 DEF FillPublish, FillFails
  <2>3. taken \in Messages /\ status[taken] = "absent"
    BY <1>2, NextIsAbsent DEF FillPublish, FillFails
  <2> QED
    BY <1>0, <2>1, <2>2, <2>3, PublishImplements DEF Abstract!Next
<1>3. ASSUME NEW c \in Messages, Deliver(c)
      PROVE  Abstract!Next
  BY <1>3, ClaimImplements DEF Abstract!Next
<1>4. ASSUME NEW c \in Messages, Expire(c)
      PROVE  Abstract!Next
  <2>1. Abstract!GiveBack({c})
    BY <1>4, GiveBackImplements DEF Expire
  <2> QED
    BY <2>1 DEF Abstract!Next
<1>5. CASE Cancel
  <2>1. Abstract!Toggle
    BY <1>5 DEF Cancel, Abstract!Toggle, backend, Finalized
  <2> QED
    BY <2>1 DEF Abstract!Next
<1>6. CASE \/ ReceiveCancelled \/ ReceiveDrained \/ Take
           \/ \E d \in pool : Processed(d) \/ Drop(d)
           \/ Emit \/ ReturnOnCancel \/ EndOfRange \/ CrashAndRestart
  BY <1>0, <1>6
     DEF ReceiveCancelled, ReceiveDrained, Take, Processed, Drop, Emit,
         ReturnOnCancel, EndOfRange, CrashAndRestart, backend
<1>7. CASE FinalizeMessage
  <2>1. PICK o \in outcome : Finalizes(o)
    BY <1>7 DEF FinalizeMessage
  <2>2. o.msg \in Messages
    BY HeldOutcome
  <2>3. UNCHANGED <<count, cancelled>>
    BY <1>7 DEF FinalizeMessage
  <2>4. \/ status' = status
        \/ /\ status[o.msg] = "leased"
           /\ \E place \in {"acked", "dead"} :
                status' = [status EXCEPT ![o.msg] = place]
    BY <2>1 DEF Finalizes, Call, Current
  <2>5. ASSUME NEW place \in {"acked", "dead"}, status[o.msg] = "leased",
               status' = [status EXCEPT ![o.msg] = place]
        PROVE  Abstract!Next
    BY <2>2, <2>3, <2>5, FinalizeImplements DEF Abstract!Next
  <2> QED
    BY <1>0, <2>3, <2>4, <2>5
<1>8. CASE Requeue
  <2>1. PICK o \in outcome : Requeued(o)
    BY <1>8 DEF Requeue
  <2>2. o.msg \in Messages
    BY HeldOutcome
  <2>3. UNCHANGED <<count, cancelled>>
    BY <1>8 DEF Requeue
  <2>4. \/ status' = status
        \/ /\ status[o.msg] = "leased"
           /\ status' = [status EXCEPT ![o.msg] = "waiting"]
    BY <2>1 DEF Requeued, Call, Current
  <2>5. CASE status[o.msg] = "leased"
             /\ status' = [status EXCEPT ![o.msg] = "waiting"]
    <3>1. Abstract!GiveBack({o.msg})
      BY <2>2, <2>3, <2>5, GiveBackImplements
    <3> QED
      BY <2>2, <3>1 DEF Abstract!Next
  <2> QED
    BY <1>0, <2>3, <2>4, <2>5
<1>9. CASE UNCHANGED vars
  BY <1>0, <1>9 DEF vars, backend
<1> QED
  BY <1>1, <1>2, <1>3, <1>4, <1>5, <1>6, <1>7, <1>8, <1>9
     DEF Next, ProcessStep

\* The queue that Consume and Fill work on keeps the promise of queue.go: a
\* message is published once, claimed and given back any number of times, and
\* finalized once, although leases run out, calls fail or lose their answer,
\* and the consumer crashes.
THEOREM QueueImplements == Spec => ImplementsDelivery
  BY InitIInv, NextIInv, InitImplements, StepImplements, PTL
     DEF Spec, ImplementsDelivery, Abstract!Spec

-----------------------------------------------------------------------------
(* What a Delivery is known to do, of the queue that Consume works on.     *)

Promise == INSTANCE DeliveryProofs WITH
  copies <- [m \in Messages |->
               [waiting |-> IF status[m] = "waiting" THEN 1 ELSE 0,
                held |-> IF status[m] = "leased" THEN 1 ELSE 0,
                acked |-> IF status[m] = "acked" THEN 1 ELSE 0,
                dead |-> IF status[m] = "dead" THEN 1 ELSE 0]],
  count <- [m \in Messages |-> IF Finalized(m) THEN 0 ELSE count[m]],
  open <- ~cancelled

\* Abstract and Promise instantiate Delivery alike.
LEMMA SamePromise ==
  /\ Abstract!Init = Promise!Init
  /\ Abstract!Next = Promise!Next
  /\ UNCHANGED Abstract!vars <=> UNCHANGED Promise!vars
  /\ Abstract!NothingUndone = Promise!NothingUndone
  /\ Abstract!OneCopy = Promise!OneCopy
  BY DEF Abstract!Init, Promise!Init, Abstract!Nowhere, Promise!Nowhere,
         Abstract!Next, Promise!Next, Abstract!Publish, Promise!Publish,
         Abstract!Claim, Promise!Claim, Abstract!GiveBack, Promise!GiveBack,
         Abstract!Finalize, Promise!Finalize, Abstract!Toggle, Promise!Toggle,
         Abstract!vars, Promise!vars, Abstract!Places, Promise!Places,
         Abstract!NothingUndone, Promise!NothingUndone,
         Abstract!Finalized, Promise!Finalized,
         Abstract!OneCopy, Promise!OneCopy

\* Whatever Consume finalizes stays finalized, and what a consumer sees as
\* Deliveries() never falls while the message is in the queue, through lapsed
\* leases and crashes: WithMaxDeliveries is compared with a count that grows.
THEOREM FinalForGood ==
  Spec => []Abstract!OneCopy /\ [][Abstract!NothingUndone]_(Abstract!vars)
<1>1. Abstract!Init => Promise!Init
  BY SamePromise
<1>2. [Abstract!Next]_(Abstract!vars) => [Promise!Next]_(Promise!vars)
  BY SamePromise
<1>3. Spec => Promise!Spec
  <2>1. Spec => Abstract!Spec
    BY QueueImplements DEF ImplementsDelivery
  <2> QED
    BY <1>1, <1>2, <2>1, PTL DEF Abstract!Spec, Promise!Spec
<1>4. Promise!OneCopy => Abstract!OneCopy
  BY SamePromise
<1>5. [Promise!NothingUndone]_(Promise!vars)
        => [Abstract!NothingUndone]_(Abstract!vars)
  BY SamePromise
<1>6. Spec => []Abstract!OneCopy
  BY <1>3, <1>4, Promise!OneCopyAlways, PTL
<1>7. Spec => [][Abstract!NothingUndone]_(Abstract!vars)
  BY <1>3, <1>5, Promise!FinalForGood, PTL
<1> QED
  BY <1>6, <1>7
=============================================================================
