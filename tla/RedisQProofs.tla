----------------------------- MODULE RedisQProofs -----------------------------
(***************************************************************************)
(* Machine-checked theorems about the Redis queue, for any number of       *)
(* messages, consumers, crashes and claims, and whichever messages have    *)
(* leases that run out under the work.                                     *)
(***************************************************************************)
EXTENDS RedisQ, FiniteSetTheorems, SequenceTheorems, TLAPS

\* The messages whose leases outlive the work they cover.
Steady == Messages \ Hasty

\* Nothing is published into a sealed queue.
SealInv == sealed => unpublished = {}

\* A steady message that was published has one copy; while it is processed it
\* has a lease, and until it is finalized it has its payload.
CopyInv ==
  \A m \in Steady :
    /\ Pending(m) + processing[m] + dead[m] + Acked(m)
         = IF m \in unpublished THEN 0 ELSE 1
    /\ processing[m] > 0 <=> leases[m] # "none"
    /\ Pending(m) + processing[m] > 0 => m \in payloads
    /\ m \in unpublished => deliveries[m] = 0

\* Who holds a steady message has its lease, and holds it alone.
LeaseInv ==
  /\ \A d \in Held : d.msg \in Steady => leases[d.msg] = "held"
  /\ \A d, e \in Held : d.msg \in Steady /\ d.msg = e.msg => d = e

\* A delivery is one receiver's or one handle's.
OwnerInv ==
  /\ \A d \in Held : d.n <= claims[d.msg]
  /\ \A c \in Consumers : \A d \in current[c] : d.owner = c
  /\ \A c \in Consumers : current[c] \cap handles = {}

IInv ==
  /\ TypeOK
  /\ SealInv
  /\ CopyInv
  /\ LeaseInv
  /\ OwnerInv
  /\ NeverLost
  /\ DrainIsSound

-----------------------------------------------------------------------------
(* How often a message is in a list.                                       *)

Places(s, m) == {k \in DOMAIN s : s[k] = m}

Times(s, m) == Cardinality(Places(s, m))

LEMMA PendingTimes == \A m : Pending(m) = Times(pending, m)
  BY DEF Pending, Times, Places

LEMMA TimesFinite ==
  ASSUME NEW s \in Seq(Messages), NEW m
  PROVE  IsFiniteSet(Places(s, m)) /\ Times(s, m) \in Nat
<1>1. IsFiniteSet(1..Len(s)) /\ Places(s, m) \in SUBSET (1..Len(s))
  BY FS_Interval DEF Places
<1> QED
  BY <1>1, FS_Subset, FS_CardinalityType DEF Times

\* A list of one.
LEMMA TimesOfOne ==
  ASSUME NEW x, NEW m
  PROVE  Times(<<x>>, m) = IF x = m THEN 1 ELSE 0
<1>1. Places(<<x>>, m) = IF x = m THEN {1} ELSE {}
  BY DEF Places
<1> QED
  BY <1>1, FS_EmptySet, FS_Singleton, Zenon DEF Times

\* One list before another.
LEMMA TimesOfConcat ==
  ASSUME NEW s \in Seq(Messages), NEW t \in Seq(Messages), NEW m
  PROVE  Times(s \o t, m) = Times(s, m) + Times(t, m)
<1> DEFINE A == Places(s, m)
           B == Places(t, m)
           C == {Len(s) + k : k \in B}
           f == [k \in B |-> Len(s) + k]
<1>1. /\ s \o t \in Seq(Messages)
      /\ Len(s \o t) = Len(s) + Len(t)
      /\ \A i \in 1..Len(s) + Len(t) :
           (s \o t)[i] = IF i <= Len(s) THEN s[i] ELSE t[i - Len(s)]
  BY ConcatProperties
<1>2. Len(s) \in Nat /\ Len(t) \in Nat
  OBVIOUS
<1>3. Places(s \o t, m) = A \cup C
  <2>1. ASSUME NEW k \in Places(s \o t, m) PROVE k \in A \cup C
    <3>1. k \in 1..Len(s) + Len(t) /\ (s \o t)[k] = m
      BY <1>1 DEF Places
    <3>2. CASE k <= Len(s)
      BY <1>1, <1>2, <3>1, <3>2 DEF Places
    <3>3. CASE k > Len(s)
      <4>1. k - Len(s) \in B /\ k = Len(s) + (k - Len(s))
        BY <1>1, <1>2, <3>1, <3>3 DEF Places
      <4> QED
        BY <4>1
    <3> QED
      BY <1>2, <3>1, <3>2, <3>3
  <2>2. ASSUME NEW k \in A PROVE k \in Places(s \o t, m)
    BY <1>1, <1>2 DEF Places
  <2>3. ASSUME NEW k \in B PROVE Len(s) + k \in Places(s \o t, m)
    <3>1. /\ k \in 1..Len(t) /\ t[k] = m
          /\ Len(s) + k \in 1..Len(s) + Len(t)
          /\ ~(Len(s) + k <= Len(s)) /\ (Len(s) + k) - Len(s) = k
      BY <1>2 DEF Places
    <3>2. (s \o t)[Len(s) + k] = m
      BY <1>1, <3>1
    <3> QED
      BY <1>1, <3>1, <3>2 DEF Places
  <2> QED
    BY <2>1, <2>2, <2>3
<1>4. A \cap C = {}
  BY <1>2 DEF Places
<1>5. IsFiniteSet(A) /\ IsFiniteSet(B)
  BY TimesFinite
<1>6. f \in Bijection(B, C)
  <2>1. B \subseteq Nat
    BY DEF Places
  <2> HIDE DEF B
  <2>2. f \in [B -> C]
    OBVIOUS
  <2>3. \A x, y \in B : f[x] = f[y] => x = y
    BY <1>2, <2>1
  <2>4. \A y \in C : \E x \in B : f[x] = y
    OBVIOUS
  <2> QED
    BY <2>2, <2>3, <2>4
       DEF Bijection, Injection, Surjection, IsInjective
<1>7. IsFiniteSet(C) /\ Cardinality(C) = Cardinality(B)
  <2> HIDE DEF B, C, f
  <2>1. ExistsBijection(B, C)
    BY <1>6 DEF ExistsBijection
  <2> QED
    BY <1>5, <2>1, FS_Bijection
<1>8. Cardinality(A \cup C) = Cardinality(A) + Cardinality(C) - 0
  <2> HIDE DEF A, B, C
  <2>1. Cardinality(A \cup C)
          = Cardinality(A) + Cardinality(C) - Cardinality(A \cap C)
    BY <1>5, <1>7, FS_Union
  <2> QED
    BY <1>4, <2>1, FS_EmptySet
<1>9. Cardinality(A) \in Nat /\ Cardinality(B) \in Nat
  BY <1>5, FS_CardinalityType
<1> QED
  <2> HIDE DEF A, B, C
  <2>1. Cardinality(A \cup C) = Cardinality(A) + Cardinality(B)
    BY <1>7, <1>8, <1>9
  <2> QED
    BY <1>3, <2>1 DEF Times, A, B

\* A list without its last element.
LEMMA TimesOfFront ==
  ASSUME NEW s \in Seq(Messages), s # <<>>, NEW m
  PROVE  /\ Front(s) \in Seq(Messages) /\ Last(s) \in Messages
         /\ Times(s, m) = Times(Front(s), m) + IF m = Last(s) THEN 1 ELSE 0
<1>1. Len(s) \in Nat \ {0} /\ DOMAIN s = 1..Len(s)
  BY EmptySeq
<1>2. /\ Front(s) \in Seq(Messages) /\ Len(Front(s)) = Len(s) - 1
      /\ \A i \in 1..Len(s) - 1 : Front(s)[i] = s[i]
  BY <1>1 DEF Front
<1>3. Last(s) \in Messages
  BY <1>1 DEF Last
<1>4. Places(Front(s), m) = Places(s, m) \ {Len(s)}
  BY <1>1, <1>2 DEF Places
<1>5. Len(s) \in Places(s, m) <=> m = Last(s)
  BY <1>1 DEF Places, Last
<1>6. IsFiniteSet(Places(s, m)) /\ Times(s, m) \in Nat
  BY TimesFinite
<1>7. Times(Front(s), m)
        = IF Len(s) \in Places(s, m) THEN Times(s, m) - 1 ELSE Times(s, m)
  BY <1>4, <1>6, FS_RemoveElement DEF Times
<1> QED
  BY <1>2, <1>3, <1>5, <1>6, <1>7

\* An enumeration of a set has each of its elements once.
LEMMA TimesOfSet ==
  ASSUME NEW S \in SUBSET Messages, NEW s \in SetToSeqs(S), NEW m
  PROVE  s \in Seq(Messages) /\ Times(s, m) = IF m \in S THEN 1 ELSE 0
<1> DEFINE n == Cardinality(S)
<1>1. IsFiniteSet(S) /\ n \in Nat
  BY MessageAssumption, FS_Subset, FS_CardinalityType
<1>2. s \in [1..n -> S] /\ \A i, j \in 1..n : i # j => s[i] # s[j]
  BY DEF SetToSeqs
<1> HIDE DEF n
<1>3. s \in Seq(Messages) /\ DOMAIN s = 1..n
  BY <1>1, <1>2
<1>4. ASSUME NEW x \in S PROVE \E i \in 1..n : s[i] = x
  <2>1. s \in Injection(1..n, S)
    BY <1>2 DEF Injection, IsInjective
  <2>2. Cardinality(1..n) = n
    BY <1>1, FS_Interval
  <2>3. s \in Surjection(1..n, S)
    BY <1>1, <2>1, <2>2, FS_Injection DEF n
  <2> QED
    BY <2>3 DEF Surjection
<1>5. CASE m \in S
  <2>1. PICK i \in 1..n : s[i] = m
    BY <1>4, <1>5
  <2>2. Places(s, m) = {i}
    BY <1>2, <1>3, <2>1 DEF Places
  <2> QED
    BY <1>3, <1>5, <2>2, FS_Singleton DEF Times
<1>6. CASE m \notin S
  <2>1. Places(s, m) = {}
    BY <1>2, <1>3, <1>6 DEF Places
  <2> QED
    BY <1>3, <1>6, <2>1, FS_EmptySet DEF Times
<1> QED
  BY <1>5, <1>6

-----------------------------------------------------------------------------
(* What the steps do to pending.                                           *)

LEMMA PendingNat ==
  ASSUME TypeOK
  PROVE  \A m : Pending(m) \in Nat
  BY PendingTimes, TimesFinite DEF TypeOK

\* LPUSH of one id.
LEMMA Pushed ==
  ASSUME TypeOK, NEW x \in Messages, pending' = <<x>> \o pending
  PROVE  /\ pending' \in Seq(Messages)
         /\ \A m : Pending(m)' = Pending(m) + IF m = x THEN 1 ELSE 0
<1>1. pending \in Seq(Messages) /\ <<x>> \in Seq(Messages)
  BY DEF TypeOK
<1>2. pending' \in Seq(Messages)
  BY <1>1, ConcatProperties
<1>3. ASSUME NEW m
      PROVE  Pending(m)' = Pending(m) + IF m = x THEN 1 ELSE 0
  <2>1. Times(<<x>> \o pending, m) = Times(<<x>>, m) + Times(pending, m)
    BY <1>1, TimesOfConcat
  <2>2. /\ Times(<<x>>, m) = IF m = x THEN 1 ELSE 0
        /\ Times(pending, m) \in Nat
    BY <1>1, TimesOfOne, TimesFinite
  <2>3. Pending(m) = Times(pending, m) /\ Pending(m)' = Times(pending', m)
    BY DEF Pending, Times, Places
  <2> QED
    BY <2>1, <2>2, <2>3
<1> QED
  BY <1>2, <1>3

\* LPUSH of every id whose lease has passed.
LEMMA PushedAll ==
  ASSUME TypeOK, PushAll(Expired)
  PROVE  /\ pending' \in Seq(Messages)
         /\ \A m : Pending(m)' = Pending(m) + IF m \in Expired THEN 1 ELSE 0
<1>1. PICK s \in SetToSeqs(Expired) : pending' = s \o pending
  BY DEF PushAll
<1>2. Expired \in SUBSET Messages /\ pending \in Seq(Messages)
  BY DEF Expired, TypeOK
<1>3. s \in Seq(Messages)
  BY <1>2, TimesOfSet
<1>4. pending' \in Seq(Messages)
  BY <1>1, <1>2, <1>3, ConcatProperties
<1>5. ASSUME NEW m
      PROVE  Pending(m)' = Pending(m) + IF m \in Expired THEN 1 ELSE 0
  <2>1. Times(s \o pending, m) = Times(s, m) + Times(pending, m)
    BY <1>2, <1>3, TimesOfConcat
  <2>2. /\ Times(s, m) = IF m \in Expired THEN 1 ELSE 0
        /\ Times(pending, m) \in Nat
    BY <1>2, TimesOfSet, TimesFinite
  <2>3. Pending(m) = Times(pending, m) /\ Pending(m)' = Times(pending', m)
    BY DEF Pending, Times, Places
  <2> QED
    BY <1>1, <2>1, <2>2, <2>3
<1> QED
  BY <1>4, <1>5

\* RPOP.
LEMMA Popped ==
  ASSUME TypeOK, pending # <<>>, pending' = Front(pending)
  PROVE  /\ pending' \in Seq(Messages) /\ Last(pending) \in Messages
         /\ \A m : /\ Pending(m)' \in Nat
                   /\ Pending(m)
                        = Pending(m)' + IF m = Last(pending) THEN 1 ELSE 0
<1>1. pending \in Seq(Messages)
  BY DEF TypeOK
<1>2. pending' \in Seq(Messages) /\ Last(pending) \in Messages
  BY <1>1, TimesOfFront
<1>3. ASSUME NEW m
      PROVE  /\ Pending(m)' \in Nat
             /\ Pending(m)
                  = Pending(m)' + IF m = Last(pending) THEN 1 ELSE 0
  <2>1. Times(pending, m) = Times(Front(pending), m)
                              + IF m = Last(pending) THEN 1 ELSE 0
    BY <1>1, TimesOfFront
  <2>2. Times(pending', m) \in Nat
    BY <1>2, TimesFinite
  <2>3. Pending(m) = Times(pending, m) /\ Pending(m)' = Times(pending', m)
    BY DEF Pending, Times, Places
  <2> QED
    BY <2>1, <2>2, <2>3
<1> QED
  BY <1>2, <1>3

-----------------------------------------------------------------------------
(* Types.                                                                  *)

LEMMA InitIInv == Init => IInv
<1> SUFFICES ASSUME Init PROVE IInv
  OBVIOUS
<1> USE DEF Init
<1>1. TypeOK
  <2>1. pending \in Seq(Messages) /\ crashes \in 0..MaxCrashes
    BY BoundAssumption
  <2>2. claims \in [Messages -> 0..MaxClaims]
    BY BoundAssumption
  <2> QED
    BY <2>1, <2>2 DEF TypeOK
<1>2. Held = {} /\ \A m \in Messages : Pending(m) = 0
  <2>1. \A m \in Messages : {k \in DOMAIN pending : pending[k] = m} = {}
    OBVIOUS
  <2> QED
    BY <2>1, FS_EmptySet DEF Held, Pending
<1>3. SealInv /\ LeaseInv /\ OwnerInv /\ NeverLost /\ DrainIsSound
  BY <1>2 DEF SealInv, LeaseInv, OwnerInv, NeverLost, DrainIsSound
<1>4. CopyInv
  BY <1>2 DEF CopyInv, Steady, Acked
<1> QED
  BY <1>1, <1>3, <1>4 DEF IInv

\* LREM never goes below zero.
LEMMA Removed ==
  ASSUME TypeOK, NEW x \in Messages, processing' = Lrem(x)
  PROVE  /\ processing' \in [Messages -> Nat]
         /\ \A m \in Messages :
              processing'[m] = IF m = x /\ processing[m] > 0
                               THEN processing[m] - 1 ELSE processing[m]
<1>1. processing[x] \in Nat
  BY DEF TypeOK
<1>2. CASE processing[x] > 0
  BY <1>1, <1>2 DEF Lrem, TypeOK
<1>3. CASE ~(processing[x] > 0)
  BY <1>1, <1>3 DEF Lrem, TypeOK
<1> QED
  BY <1>2, <1>3

\* What reclaimScript does.
LEMMA Reclaimed ==
  ASSUME TypeOK, ReclaimScript
  PROVE  /\ pending' \in Seq(Messages)
         /\ processing' \in [Messages -> Nat]
         /\ leases' \in [Messages -> {"none", "held", "passed"}]
         /\ \A m \in Messages :
              IF m \in Expired
              THEN /\ Pending(m)' = Pending(m) + 1
                   /\ processing'[m] = IF processing[m] > 0
                                       THEN processing[m] - 1 ELSE 0
                   /\ leases'[m] = "none"
              ELSE /\ Pending(m)' = Pending(m)
                   /\ processing'[m] = processing[m]
                   /\ leases'[m] = leases[m]
<1>1. /\ pending' \in Seq(Messages)
      /\ \A m : Pending(m)' = Pending(m) + IF m \in Expired THEN 1 ELSE 0
  BY PushedAll DEF ReclaimScript
<1>2. \A m \in Messages :
        Lrem(m)[m] = IF processing[m] > 0 THEN processing[m] - 1 ELSE 0
  BY DEF Lrem, TypeOK
<1>3. \A m \in Messages : processing[m] \in Nat
  BY DEF TypeOK
<1>4. /\ processing' = [m \in Messages |->
                         IF m \in Expired THEN Lrem(m)[m] ELSE processing[m]]
      /\ leases' = [m \in Messages |->
                     IF m \in Expired THEN "none" ELSE leases[m]]
  BY DEF ReclaimScript
<1>5. processing' \in [Messages -> Nat]
  BY <1>2, <1>3, <1>4
<1>6. leases' \in [Messages -> {"none", "held", "passed"}]
  BY <1>4 DEF TypeOK
<1> QED
  BY <1>1, <1>2, <1>4, <1>5, <1>6, PendingNat

\* What claimScript does.
LEMMA Claimed ==
  ASSUME TypeOK, NEW c \in Consumers, ClaimScript(c)
  PROVE  \E x \in Messages :
           /\ x = Last(pending)
           /\ Pending(x) > 0 /\ claims[x] < MaxClaims
           /\ \A m \in Messages :
                /\ Pending(m)' \in Nat
                /\ Pending(m) = Pending(m)' + IF m = x THEN 1 ELSE 0
           /\ pending' \in Seq(Messages)
           /\ processing' = [processing EXCEPT ![x] = @ + 1]
           /\ deliveries' = [deliveries EXCEPT ![x] = @ + 1]
           /\ leases' = [leases EXCEPT ![x] = "held"]
           /\ claims' = [claims EXCEPT ![x] = @ + 1]
           /\ claims'[x] = claims[x] + 1 /\ claims'[x] \in 1..MaxClaims
           /\ processing' \in [Messages -> Nat]
           /\ deliveries' \in [Messages -> Nat]
           /\ leases' \in [Messages -> {"none", "held", "passed"}]
           /\ claims' \in [Messages -> 0..MaxClaims]
<1>1. PICK x : x = Last(pending)
  OBVIOUS
<1>2. /\ pending # <<>> /\ claims[x] < MaxClaims /\ pending' = Front(pending)
      /\ processing' = [processing EXCEPT ![x] = @ + 1]
      /\ deliveries' = [deliveries EXCEPT ![x] = @ + 1]
      /\ leases' = [leases EXCEPT ![x] = "held"]
      /\ claims' = [claims EXCEPT ![x] = @ + 1]
  BY <1>1 DEF ClaimScript, Lease
<1>3. /\ pending' \in Seq(Messages) /\ x \in Messages
      /\ \A m : /\ Pending(m)' \in Nat
                /\ Pending(m) = Pending(m)' + IF m = x THEN 1 ELSE 0
  BY <1>1, <1>2, Popped
<1>4. Pending(x) > 0
  BY <1>3
<1>5. claims[x] \in 0..MaxClaims
  BY <1>3 DEF TypeOK
<1>6. claims[x] + 1 \in 1..MaxClaims
  BY <1>2, <1>5, BoundAssumption
<1>7. /\ claims'[x] = claims[x] + 1
      /\ claims' \in [Messages -> 0..MaxClaims]
  BY <1>2, <1>3, <1>6, BoundAssumption, SMTT(60) DEF TypeOK
<1>8. /\ processing' \in [Messages -> Nat]
      /\ deliveries' \in [Messages -> Nat]
      /\ leases' \in [Messages -> {"none", "held", "passed"}]
  <2>1. /\ processing \in [Messages -> Nat] /\ deliveries \in [Messages -> Nat]
        /\ leases \in [Messages -> {"none", "held", "passed"}]
    BY DEF TypeOK
  <2>2. \A f \in [Messages -> Nat] :
          [f EXCEPT ![x] = @ + 1] \in [Messages -> Nat]
    BY <1>3
  <2>3. leases' \in [Messages -> {"none", "held", "passed"}]
    BY <1>2, <2>1
  <2> QED
    BY <1>2, <2>1, <2>2, <2>3
<1> QED
  BY <1>1, <1>2, <1>3, <1>4, <1>6, <1>7, <1>8

\* Every step is typed.
LEMMA NextTyped == TypeOK /\ [Next]_vars => TypeOK'
<1> SUFFICES ASSUME TypeOK, [Next]_vars PROVE TypeOK'
  OBVIOUS
<1> USE DEF producers, redis, receivers, finals, bounds, Goto
<1>0. /\ deliveries \in [Messages -> Nat] /\ dead \in [Messages -> Nat]
      /\ crashes < MaxCrashes => crashes + 1 \in 0..MaxCrashes
  BY BoundAssumption DEF TypeOK
<1>1. ASSUME NEW m \in Messages, Publish(m) PROVE TypeOK'
  BY <1>1, Pushed DEF Publish, TypeOK
<1>2. ASSUME NEW m \in Messages, Expire(m) PROVE TypeOK'
  BY <1>2 DEF Expire, TypeOK
<1>3. CASE Seal
  BY <1>3 DEF Seal, TypeOK
<1>4. ASSUME NEW c \in Consumers, Reclaim(c) PROVE TypeOK'
  BY <1>4, Reclaimed DEF Reclaim, TypeOK
<1>5. ASSUME NEW c \in Consumers, Claim(c) \/ ClaimReplyLost(c) PROVE TypeOK'
  <2>1. ClaimScript(c)
    BY <1>5 DEF Claim, ClaimReplyLost
  <2>2. PICK x \in Messages :
          /\ x = Last(pending)
          /\ pending' \in Seq(Messages)
          /\ claims'[x] \in 1..MaxClaims
          /\ processing' \in [Messages -> Nat]
          /\ deliveries' \in [Messages -> Nat]
          /\ leases' \in [Messages -> {"none", "held", "passed"}]
          /\ claims' \in [Messages -> 0..MaxClaims]
    BY <2>1, Claimed
  <2>3. CASE Claim(c)
    <3>1. [owner |-> c, msg |-> x, n |-> claims'[x]] \in Delivery
      BY <2>2 DEF Delivery
    <3>2. current' = [current EXCEPT
                        ![c] = {[owner |-> c, msg |-> x, n |-> claims'[x]]}]
      BY <2>2, <2>3 DEF Claim
    <3>3. current' \in [Consumers -> SUBSET Delivery]
      BY <3>1, <3>2 DEF TypeOK
    <3>4. \/ cpc' = [cpc EXCEPT ![c] = "offer"]
          \/ cpc' = [cpc EXCEPT ![c] = "divert"]
      BY <2>3 DEF Claim
    <3> QED
      BY <2>2, <2>3, <3>3, <3>4 DEF Claim, TypeOK
  <2>4. CASE ClaimReplyLost(c)
    BY <1>0, <2>2, <2>4 DEF ClaimReplyLost, TypeOK
  <2> QED
    BY <1>5, <2>3, <2>4
<1>6. ASSUME NEW c \in Consumers,
             FindEmpty(c) \/ Drain(c) \/ HandOver(c) \/ Restart(c)
      PROVE  TypeOK'
  BY <1>6 DEF FindEmpty, Drain, HandOver, Restart, TypeOK
<1>7. ASSUME NEW c \in Consumers, ReturnOnCancel(c) \/ Crash(c) PROVE TypeOK'
  BY <1>0, <1>7 DEF ReturnOnCancel, Crash, TypeOK
<1>8. ASSUME NEW c \in Consumers, Divert(c) PROVE TypeOK'
  <2>1. PICK d \in current[c] : DivertScript(d.msg)
    BY <1>8 DEF Divert
  <2>2. d.msg \in Messages
    BY DEF TypeOK, Delivery
  <2>3. processing' \in [Messages -> Nat]
    BY <2>1, <2>2, Removed DEF DivertScript
  <2>4. dead' \in [Messages -> Nat]
    BY <1>0, <2>1, <2>2 DEF DivertScript
  <2> QED
    BY <1>8, <2>1, <2>2, <2>3, <2>4 DEF Divert, DivertScript, TypeOK
<1>9. ASSUME NEW h \in handles, Finalize(h) PROVE TypeOK'
  <2>1. h.msg \in Messages
    BY DEF TypeOK, Delivery
  <2>2. Settle(h)
    BY <1>9 DEF Finalize, Ack, Nack, DeadLetter
  <2>3. processing' \in [Messages -> Nat]
    BY <2>1, <2>2, Removed DEF Settle
  <2>4. CASE Ack(h)
    BY <1>0, <2>1, <2>2, <2>3, <2>4 DEF Ack, Settle, TypeOK
  <2>5. CASE Nack(h)
    <3>1. pending' \in Seq(Messages)
      BY <2>1, <2>5, Pushed DEF Nack
    <3> QED
      BY <2>1, <2>2, <2>3, <2>5, <3>1 DEF Nack, Settle, TypeOK
  <2>6. CASE DeadLetter(h)
    <3>1. /\ dead' \in [Messages -> Nat] /\ deliveries' \in [Messages -> Nat]
      BY <1>0, <2>1, <2>6 DEF DeadLetter
    <3> QED
      BY <2>1, <2>2, <2>3, <2>6, <3>1 DEF DeadLetter, Settle, TypeOK
  <2> QED
    BY <1>9, <2>4, <2>5, <2>6 DEF Finalize
<1>10. ASSUME NEW h \in handles, FinalizeFails(h) PROVE TypeOK'
  BY <1>0, <1>10 DEF FinalizeFails, TypeOK
<1>11. CASE UNCHANGED vars
  BY <1>11 DEF vars, TypeOK
<1> QED
  BY <1>1, <1>2, <1>3, <1>4, <1>5, <1>6, <1>7, <1>8, <1>9, <1>10, <1>11
     DEF Next, Receiver

-----------------------------------------------------------------------------
(* Who holds what.                                                         *)

LEMMA HeldTyped ==
  ASSUME TypeOK
  PROVE  \A d \in Held : d \in Delivery /\ d.msg \in Messages /\ d.n \in Int
  BY BoundAssumption DEF Held, TypeOK, Delivery

\* Letting go of deliveries, and claims of messages nobody holds, keep the
\* owners apart.
LEMMA FewerHeld ==
  ASSUME TypeOK, TypeOK', LeaseInv, OwnerInv,
         handles' \subseteq handles,
         \A c \in Consumers : current'[c] \subseteq current[c],
         \A m \in Messages : claims[m] <= claims'[m],
         \A d \in Held' : d.msg \in Steady => leases'[d.msg] = leases[d.msg]
  PROVE  LeaseInv' /\ OwnerInv'
<1>1. Held' \subseteq Held
  BY DEF Held
<1>2. \A d \in Held : d.msg \in Messages /\ d.n \in Int
  BY HeldTyped
<1>3. \A m \in Messages : claims[m] \in Int /\ claims'[m] \in Int
  BY DEF TypeOK
<1>4. LeaseInv'
  BY <1>1 DEF LeaseInv, Steady
<1>5. ASSUME NEW d \in Held' PROVE d.n <= claims'[d.msg]
  <2>1. /\ d.n <= claims[d.msg] /\ claims[d.msg] <= claims'[d.msg]
        /\ d.n \in Int /\ claims[d.msg] \in Int /\ claims'[d.msg] \in Int
    BY <1>1, <1>2, <1>3 DEF OwnerInv
  <2> QED
    BY <2>1
<1>6. OwnerInv'
  BY <1>5 DEF OwnerInv
<1> QED
  BY <1>4, <1>6

\* A hand-over passes the deliveries on.
LEMMA HandedOver ==
  ASSUME TypeOK, LeaseInv, OwnerInv, NEW c \in Consumers, HandOver(c)
  PROVE  LeaseInv' /\ OwnerInv'
<1>1. /\ handles' = handles \cup current[c]
      /\ \A e \in Consumers : current'[e] = IF e = c THEN {} ELSE current[e]
      /\ UNCHANGED <<leases, claims>>
  BY DEF HandOver, redis, bounds, TypeOK
<1>2. Held' \subseteq Held
  BY <1>1 DEF Held
<1>3. LeaseInv'
  BY <1>1, <1>2 DEF LeaseInv
<1>4. \A e \in Consumers : current'[e] \cap handles' = {}
  BY <1>1 DEF OwnerInv
<1> QED
  BY <1>1, <1>2, <1>3, <1>4 DEF OwnerInv

\* A steady message that waits is held by nobody.
LEMMA NobodyHolds ==
  ASSUME TypeOK, CopyInv, LeaseInv, NEW m \in Steady,
         Pending(m) > 0 \/ leases[m] # "held"
  PROVE  \A d \in Held : d.msg # m
<1>1. CASE leases[m] # "held"
  BY <1>1 DEF LeaseInv
<1>2. CASE Pending(m) > 0
  <2>1. /\ Pending(m) \in Nat /\ processing[m] \in Nat /\ dead[m] \in Nat
        /\ Acked(m) \in Nat
    BY PendingNat DEF TypeOK, Steady, Acked
  <2>2. processing[m] = 0
    BY <1>2, <2>1 DEF CopyInv
  <2>3. leases[m] = "none"
    BY <2>2 DEF CopyInv
  <2> QED
    BY <2>3 DEF LeaseInv
<1> QED
  BY <1>1, <1>2

\* A claim makes a delivery of its own.
LEMMA ClaimHeld ==
  ASSUME TypeOK, TypeOK', CopyInv, LeaseInv, OwnerInv,
         NEW c \in Consumers, Claim(c)
  PROVE  LeaseInv' /\ OwnerInv'
<1>1. PICK x \in Messages :
        /\ x = Last(pending) /\ Pending(x) > 0
        /\ leases' = [leases EXCEPT ![x] = "held"]
        /\ claims' = [claims EXCEPT ![x] = @ + 1]
        /\ claims'[x] = claims[x] + 1
  BY Claimed DEF Claim
<1>2. PICK d : d = [owner |-> c, msg |-> x, n |-> claims'[x]]
  OBVIOUS
<1>3. /\ current' = [current EXCEPT ![c] = {d}]
      /\ handles' = handles
  BY <1>1, <1>2 DEF Claim, finals
<1>4. \A e \in Consumers : current'[e] = IF e = c THEN {d} ELSE current[e]
  BY <1>3 DEF TypeOK
<1>5. \A e \in Held' : e = d \/ e \in Held
  BY <1>3, <1>4 DEF Held
<1>6. \A e \in Held : e.msg \in Messages /\ e.n \in Int
  BY HeldTyped
<1>7. \A m \in Messages : claims[m] \in Int /\ claims'[m] \in Int
  BY DEF TypeOK
<1>8. \A e \in Held : e # d
  <2> SUFFICES ASSUME d \in Held PROVE FALSE
    OBVIOUS
  <2>1. d.n <= claims[x] /\ d.n = claims[x] + 1
    BY <1>1, <1>2 DEF OwnerInv
  <2> QED
    BY <1>7, <2>1
<1>9. x \in Steady => \A e \in Held : e.msg # x
  BY <1>1, NobodyHolds
<1>10. LeaseInv'
  <2>1. \A e \in Held' : e.msg \in Steady => leases'[e.msg] = "held"
    BY <1>1, <1>2, <1>5, <1>6 DEF LeaseInv, TypeOK
  <2>2. \A e, f \in Held' : e.msg \in Steady /\ e.msg = f.msg => e = f
    BY <1>2, <1>5, <1>9 DEF LeaseInv
  <2> QED
    BY <2>1, <2>2 DEF LeaseInv, Steady
<1>11. OwnerInv'
  <2>1. ASSUME NEW e \in Held' PROVE e.n <= claims'[e.msg]
    <3>1. CASE e = d
      BY <1>2, <1>7, <3>1
    <3>2. CASE e \in Held
      <4>1. e.n <= claims[e.msg] /\ claims[e.msg] <= claims'[e.msg]
        BY <1>1, <1>6, <1>7, <3>2, SMTT(60) DEF OwnerInv, TypeOK
      <4> QED
        BY <1>6, <1>7, <3>2, <4>1
    <3> QED
      BY <1>5, <3>1, <3>2
  <2>2. \A e \in Consumers : \A f \in current'[e] : f.owner = e
    BY <1>2, <1>4 DEF OwnerInv
  <2>3. d \notin handles
    BY <1>8 DEF Held
  <2>4. \A e \in Consumers : current'[e] \cap handles' = {}
    BY <1>3, <1>4, <2>3 DEF OwnerInv
  <2> QED
    BY <2>1, <2>2, <2>4 DEF OwnerInv
<1> QED
  BY <1>10, <1>11

\* Every step keeps the owners apart.
LEMMA HeldKept ==
  ASSUME TypeOK, TypeOK', CopyInv, LeaseInv, OwnerInv, [Next]_vars
  PROVE  LeaseInv' /\ OwnerInv'
<1> USE DEF producers, redis, receivers, finals, bounds
<1>0. \A m \in Messages : claims[m] \in Int /\ claims[m] <= claims[m]
  BY DEF TypeOK
<1>1. ASSUME UNCHANGED <<leases, claims>>,
             handles' \subseteq handles,
             \A c \in Consumers : current'[c] \subseteq current[c]
      PROVE  LeaseInv' /\ OwnerInv'
  BY <1>0, <1>1, FewerHeld
<1>2. ASSUME NEW m \in Messages, Expire(m) PROVE LeaseInv' /\ OwnerInv'
  <2>1. /\ UNCHANGED <<claims, handles, current>>
        /\ leases' = [leases EXCEPT ![m] = "passed"]
        /\ m \in Steady => \A d \in Held : d.msg # m
    BY <1>2 DEF Expire, Steady
  <2>2. \A d \in Held' : d.msg \in Steady => leases'[d.msg] = leases[d.msg]
    BY <2>1, HeldTyped, SMTT(60) DEF Held, TypeOK
  <2> QED
    BY <1>0, <2>1, <2>2, FewerHeld
<1>3. ASSUME NEW c \in Consumers, Reclaim(c) PROVE LeaseInv' /\ OwnerInv'
  <2>1. UNCHANGED <<claims, handles, current>> /\ ReclaimScript
    BY <1>3 DEF Reclaim
  <2>2. \A m \in Messages \ Expired : leases'[m] = leases[m]
    BY <2>1, Reclaimed
  <2>3. \A d \in Held : d.msg \in Steady => d.msg \notin Expired
    BY DEF LeaseInv, Expired
  <2>4. Held' = Held
    BY <2>1 DEF Held
  <2>5. \A d \in Held' : d.msg \in Steady => leases'[d.msg] = leases[d.msg]
    BY <2>2, <2>3, <2>4, HeldTyped
  <2> QED
    BY <1>0, <2>1, <2>5, FewerHeld
<1>4. ASSUME NEW c \in Consumers, ClaimReplyLost(c)
      PROVE  LeaseInv' /\ OwnerInv'
  <2>1. UNCHANGED <<handles, current>> /\ ClaimScript(c)
    BY <1>4 DEF ClaimReplyLost
  <2>2. PICK x \in Messages :
          /\ Pending(x) > 0
          /\ leases' = [leases EXCEPT ![x] = "held"]
          /\ claims' = [claims EXCEPT ![x] = @ + 1]
    BY <2>1, Claimed
  <2>3. Held' = Held
    BY <2>1 DEF Held
  <2>4. x \in Steady => \A d \in Held : d.msg # x
    BY <2>2, NobodyHolds
  <2>5. \A d \in Held' : d.msg \in Steady => leases'[d.msg] = leases[d.msg]
    BY <2>2, <2>3, <2>4, HeldTyped DEF TypeOK
  <2>6. \A m \in Messages : claims[m] <= claims'[m]
    BY <1>0, <2>2 DEF TypeOK
  <2> QED
    BY <2>1, <2>5, <2>6, FewerHeld
<1>5. ASSUME NEW c \in Consumers, Divert(c) PROVE LeaseInv' /\ OwnerInv'
  <2>1. PICK d \in current[c] : leases' = [leases EXCEPT ![d.msg] = "none"]
    BY <1>5 DEF Divert, DivertScript
  <2>2. /\ UNCHANGED <<claims, handles>>
        /\ current' = [current EXCEPT ![c] = {}]
    BY <1>5 DEF Divert
  <2>3. \A e \in Consumers : current'[e] = IF e = c THEN {} ELSE current[e]
    BY <2>2 DEF TypeOK
  <2>4. d \in Held /\ Held' \subseteq Held
    BY <2>2, <2>3 DEF Held
  <2>5. d \notin Held'
    BY <2>2, <2>3 DEF Held, OwnerInv
  <2>6. \A e \in Held' : e.msg \in Steady => e.msg # d.msg
    BY <2>4, <2>5 DEF LeaseInv
  <2>7. \A e \in Held' : e.msg \in Steady => leases'[e.msg] = leases[e.msg]
    BY <2>1, <2>4, <2>6, HeldTyped DEF TypeOK
  <2> QED
    BY <1>0, <2>2, <2>3, <2>7, FewerHeld
<1>6. ASSUME NEW h \in handles, Finalize(h) PROVE LeaseInv' /\ OwnerInv'
  <2>1. /\ UNCHANGED <<claims, current>>
        /\ handles' = handles \ {h}
        /\ leases' = [leases EXCEPT ![h.msg] = "none"]
    BY <1>6 DEF Finalize, Ack, Nack, DeadLetter, Settle
  <2>2. h \in Held /\ Held' \subseteq Held
    BY <2>1 DEF Held
  <2>3. h \notin Held'
    BY <2>1 DEF Held, OwnerInv
  <2>4. \A e \in Held' : e.msg \in Steady => e.msg # h.msg
    BY <2>2, <2>3 DEF LeaseInv
  <2>5. \A e \in Held' : e.msg \in Steady => leases'[e.msg] = leases[e.msg]
    BY <2>1, <2>2, <2>4, HeldTyped DEF TypeOK
  <2> QED
    BY <1>0, <2>1, <2>5, FewerHeld
<1>7. ASSUME NEW h \in handles, FinalizeFails(h) PROVE LeaseInv' /\ OwnerInv'
  BY <1>1, <1>7 DEF FinalizeFails
<1>8. ASSUME NEW c \in Consumers, ReturnOnCancel(c) \/ Crash(c)
      PROVE  LeaseInv' /\ OwnerInv'
  <2>1. /\ UNCHANGED <<leases, claims>> /\ handles' \subseteq handles
        /\ current' = [current EXCEPT ![c] = {}]
    BY <1>8 DEF ReturnOnCancel, Crash
  <2>2. \A e \in Consumers : current'[e] \subseteq current[e]
    BY <2>1 DEF TypeOK
  <2> QED
    BY <1>1, <2>1, <2>2
<1>9. ASSUME NEW c \in Consumers, FindEmpty(c) \/ Drain(c) \/ Restart(c)
      PROVE  LeaseInv' /\ OwnerInv'
  BY <1>1, <1>9 DEF FindEmpty, Drain, Restart
<1>10. CASE Seal \/ \E m \in Messages : Publish(m)
  BY <1>1, <1>10 DEF Seal, Publish
<1>11. CASE UNCHANGED vars
  BY <1>1, <1>11 DEF vars
<1> QED
  BY <1>2, <1>3, <1>4, <1>5, <1>6, <1>7, <1>8, <1>9, <1>10, <1>11,
     ClaimHeld, HandedOver
     DEF Next, Receiver

-----------------------------------------------------------------------------
(* Where the copies are.                                                   *)

\* CopyInv and NeverLost, for one message.
GoodCopy(m) ==
  /\ m \in Steady =>
       /\ Pending(m) + processing[m] + dead[m] + Acked(m)
            = IF m \in unpublished THEN 0 ELSE 1
       /\ processing[m] > 0 <=> leases[m] # "none"
       /\ Pending(m) + processing[m] > 0 => m \in payloads
       /\ m \in unpublished => deliveries[m] = 0
  /\ m \notin unpublished =>
       Pending(m) + processing[m] + dead[m] + Acked(m) >= 1

LEMMA GoodCopies ==
  CopyInv /\ NeverLost <=> \A m \in Messages : GoodCopy(m)
  BY DEF CopyInv, NeverLost, GoodCopy, Steady

LEMMA CopyNat ==
  ASSUME TypeOK, NEW m \in Messages
  PROVE  /\ Pending(m) \in Nat /\ processing[m] \in Nat /\ dead[m] \in Nat
         /\ Acked(m) \in 0..1
         /\ Acked(m) = 1 <=> m \in acked
  BY PendingNat DEF TypeOK, Acked

\* A step that leaves a message where it is.
LEMMA Untouched ==
  ASSUME NEW m \in Messages, GoodCopy(m),
         /\ Pending(m)' = Pending(m) /\ processing'[m] = processing[m]
         /\ dead'[m] = dead[m] /\ deliveries'[m] = deliveries[m]
         /\ m \in acked' <=> m \in acked
         /\ m \in unpublished' <=> m \in unpublished
         /\ m \in payloads' <=> m \in payloads,
         leases'[m] = "none" <=> leases[m] = "none"
  PROVE  GoodCopy(m)'
<1>1. Acked(m)' = Acked(m)
  BY DEF Acked
<1> QED
  BY <1>1 DEF GoodCopy

\* A finalized message that is held comes to rest.
LEMMA Settled ==
  ASSUME TypeOK, TypeOK', LeaseInv, NEW d \in Held, NEW m, m = d.msg,
         GoodCopy(m),
         /\ processing' = Lrem(m)
         /\ leases' = [leases EXCEPT ![m] = "none"]
         /\ unpublished' = unpublished
         /\ m \in unpublished => deliveries'[m] = 0 \/ deliveries' = deliveries,
         \/ /\ Pending(m)' = Pending(m) + 1 /\ dead'[m] = dead[m]
            /\ Acked(m)' = Acked(m)
            /\ payloads' = payloads
         \/ /\ Pending(m)' = Pending(m) /\ dead'[m] = dead[m] + 1
            /\ Acked(m)' = Acked(m)
            /\ payloads' = payloads
         \/ /\ Pending(m)' = Pending(m) /\ dead'[m] = dead[m]
            /\ Acked(m)' = 1
            /\ payloads' = payloads \ {m}
  PROVE  GoodCopy(m)'
<1>1. m \in Messages
  BY HeldTyped
<1>2. /\ Pending(m) \in Nat /\ processing[m] \in Nat /\ dead[m] \in Nat
      /\ Acked(m) \in 0..1
  BY <1>1, CopyNat
<1>3. /\ processing'[m] = IF processing[m] > 0 THEN processing[m] - 1 ELSE 0
      /\ leases'[m] = "none"
  <2>1. \A n \in Messages :
          processing'[n] = IF n = m /\ processing[n] > 0
                           THEN processing[n] - 1 ELSE processing[n]
    BY <1>1, Removed
  <2>2. leases'[m] = "none"
    BY <1>1 DEF TypeOK
  <2> QED
    BY <1>1, <1>2, <2>1, <2>2
<1>4. CASE m \in Steady
  <2>1. leases[m] = "held"
    BY <1>4 DEF LeaseInv
  <2>2. processing[m] > 0 /\ m \in payloads /\ m \notin unpublished
    BY <1>2, <1>4, <2>1 DEF GoodCopy
  <2>3. processing[m] = 1 /\ Pending(m) = 0 /\ dead[m] = 0 /\ Acked(m) = 0
    BY <1>2, <1>4, <2>2 DEF GoodCopy
  <2> QED
    BY <1>2, <1>3, <2>2, <2>3 DEF GoodCopy
<1>5. CASE m \notin Steady
  <2>1. /\ Pending(m)' \in Nat /\ dead'[m] \in Nat /\ Acked(m)' \in Nat
        /\ processing'[m] \in Nat
        /\ Pending(m)' + dead'[m] + Acked(m)' >= 1
    BY <1>2, <1>3
  <2> QED
    BY <1>5, <2>1 DEF GoodCopy
<1> QED
  BY <1>4, <1>5

\* The finalizations touch one message.
LEMMA FinalizedAlone ==
  ASSUME TypeOK, TypeOK', LeaseInv, NEW d \in Held,
         \A m \in Messages : GoodCopy(m),
         /\ processing' = Lrem(d.msg)
         /\ leases' = [leases EXCEPT ![d.msg] = "none"]
         /\ unpublished' = unpublished,
         \/ /\ pending' = <<d.msg>> \o pending
            /\ UNCHANGED <<dead, payloads, acked, deliveries>>
         \/ /\ dead' = [dead EXCEPT ![d.msg] = @ + 1]
            /\ \/ deliveries' = [deliveries EXCEPT ![d.msg] = 0]
               \/ UNCHANGED deliveries
            /\ UNCHANGED <<pending, payloads, acked>>
         \/ /\ payloads' = payloads \ {d.msg}
            /\ deliveries' = [deliveries EXCEPT ![d.msg] = 0]
            /\ acked' = acked \cup {d.msg}
            /\ UNCHANGED <<pending, dead>>,
         NEW m \in Messages
  PROVE  GoodCopy(m)'
<1>1. d.msg \in Messages
  BY HeldTyped
<1>2. \A n \in Messages :
        processing'[n] = IF n = d.msg /\ processing[n] > 0
                         THEN processing[n] - 1 ELSE processing[n]
  BY <1>1, Removed
<1>3. \/ /\ \A n : Pending(n)' = Pending(n) + IF n = d.msg THEN 1 ELSE 0
         /\ UNCHANGED <<dead, payloads, acked, deliveries>>
      \/ UNCHANGED pending
  BY <1>1, Pushed
<1>4. UNCHANGED pending => Pending(m)' = Pending(m)
  BY DEF Pending
<1>5. Pending(m) \in Nat
  BY PendingNat
<1>6. CASE m # d.msg
  <2>1. Pending(m)' = Pending(m)
    BY <1>3, <1>4, <1>5, <1>6
  <2>2. processing'[m] = processing[m] /\ leases'[m] = leases[m]
    BY <1>1, <1>2, <1>6 DEF TypeOK
  <2>3. dead'[m] = dead[m] /\ deliveries'[m] = deliveries[m]
    BY <1>1, <1>6, ZenonT(60) DEF TypeOK
  <2>4. (m \in acked' <=> m \in acked) /\ (m \in payloads' <=> m \in payloads)
    BY <1>6
  <2> QED
    BY <2>1, <2>2, <2>3, <2>4, Untouched
<1>7. CASE m = d.msg
  <2>1. deliveries'[m] = 0 \/ deliveries' = deliveries
    BY <1>1, <1>7, ZenonT(60) DEF TypeOK
  <2>2. CASE pending' = <<d.msg>> \o pending
             /\ UNCHANGED <<dead, payloads, acked, deliveries>>
    <3>1. Pending(m)' = Pending(m) + 1
      BY <1>1, <1>7, <2>2, Pushed
    <3>2. Acked(m)' = Acked(m)
      BY <2>2 DEF Acked
    <3> QED
      BY <1>7, <2>1, <2>2, <3>1, <3>2, Settled
  <2>3. CASE /\ dead' = [dead EXCEPT ![d.msg] = @ + 1]
             /\ UNCHANGED <<pending, payloads, acked>>
    <3>1. Pending(m)' = Pending(m) /\ Acked(m)' = Acked(m)
      BY <1>4, <2>3 DEF Acked
    <3>2. dead'[m] = dead[m] + 1
      BY <1>1, <1>7, <2>3 DEF TypeOK
    <3> QED
      BY <1>7, <2>1, <2>3, <3>1, <3>2, Settled
  <2>4. CASE /\ payloads' = payloads \ {d.msg}
             /\ acked' = acked \cup {d.msg}
             /\ UNCHANGED <<pending, dead>>
    <3>1. Pending(m)' = Pending(m) /\ Acked(m)' = 1 /\ dead'[m] = dead[m]
      BY <1>4, <1>7, <2>4 DEF Acked
    <3> QED
      BY <1>7, <2>1, <2>4, <3>1, Settled
  <2> QED
    BY <2>2, <2>3, <2>4
<1> QED
  BY <1>6, <1>7

\* Every step keeps the copies in order.
LEMMA CopiesKept ==
  ASSUME TypeOK, TypeOK', CopyInv, LeaseInv, NeverLost, [Next]_vars
  PROVE  CopyInv' /\ NeverLost'
<1> USE DEF producers, redis, receivers, finals, bounds
<1>0. \A m \in Messages : GoodCopy(m)
  BY GoodCopies
<1>1. SUFFICES ASSUME NEW m \in Messages PROVE GoodCopy(m)'
  <2>1. \A m \in Messages : GoodCopy(m)'
    BY <1>1
  <2>2. (\A m \in Messages : GoodCopy(m)) => CopyInv /\ NeverLost
    BY GoodCopies
  <2>3. (\A m \in Messages : GoodCopy(m))' => (CopyInv /\ NeverLost)'
    BY <2>2, GoodCopies, PTL
  <2> QED
    BY <2>1, <2>3
<1>2. /\ Pending(m) \in Nat /\ processing[m] \in Nat /\ dead[m] \in Nat
      /\ Acked(m) \in 0..1
  BY CopyNat
<1>3. UNCHANGED pending => Pending(m)' = Pending(m)
  BY DEF Pending
<1>4. ASSUME UNCHANGED <<redis, unpublished, acked>> PROVE GoodCopy(m)'
  BY <1>0, <1>3, <1>4, Untouched
<1>5. ASSUME NEW x \in Messages, Publish(x) PROVE GoodCopy(m)'
  <2>1. /\ Pending(m)' = Pending(m) + IF m = x THEN 1 ELSE 0
        /\ UNCHANGED <<processing, leases, deliveries, dead, acked>>
        /\ x \in unpublished /\ unpublished' = unpublished \ {x}
        /\ payloads' = payloads \cup {x}
    BY <1>5, Pushed DEF Publish
  <2>2. Acked(m)' = Acked(m)
    BY <2>1 DEF Acked
  <2>3. CASE m = x
    <3>1. /\ Pending(m)' = Pending(m) + 1
          /\ m \in payloads' /\ m \notin unpublished'
          /\ processing'[m] = processing[m] /\ dead'[m] = dead[m]
          /\ leases'[m] = leases[m]
      BY <2>1, <2>3
    <3>2. m \in Steady =>
            /\ Pending(m) + processing[m] + dead[m] + Acked(m) = 0
            /\ processing[m] > 0 <=> leases[m] # "none"
      BY <1>0, <2>1, <2>3 DEF GoodCopy
    <3>3. Pending(m)' + processing'[m] + dead'[m] + Acked(m)'
            = (Pending(m) + processing[m] + dead[m] + Acked(m)) + 1
      BY <1>2, <2>2, <3>1
    <3>4. Pending(m) + processing[m] + dead[m] + Acked(m) \in Nat
      BY <1>2
    <3>5. Pending(m)' + processing'[m] + dead'[m] + Acked(m)' >= 1
      <4> QED
        BY <3>3, <3>4
    <3>6. m \in Steady =>
            Pending(m)' + processing'[m] + dead'[m] + Acked(m)' = 1
      BY <3>2, <3>3
    <3> QED
      BY <3>1, <3>2, <3>5, <3>6 DEF GoodCopy
  <2>4. CASE m # x
    BY <1>0, <1>2, <2>1, <2>4, Untouched
  <2> QED
    BY <2>3, <2>4
<1>6. ASSUME NEW x \in Messages, Expire(x) PROVE GoodCopy(m)'
  <2>1. /\ UNCHANGED <<pending, processing, payloads, deliveries, dead>>
        /\ UNCHANGED <<acked, unpublished>>
        /\ leases[x] = "held" /\ leases' = [leases EXCEPT ![x] = "passed"]
    BY <1>6 DEF Expire
  <2>2. leases'[m] = "none" <=> leases[m] = "none"
    BY <2>1 DEF TypeOK
  <2> QED
    BY <1>0, <1>3, <2>1, <2>2, Untouched
<1>7. ASSUME NEW c \in Consumers, Reclaim(c) PROVE GoodCopy(m)'
  <2>1. UNCHANGED <<unpublished, payloads, deliveries, dead, acked>>
    BY <1>7 DEF Reclaim
  <2>2. IF m \in Expired
        THEN /\ Pending(m)' = Pending(m) + 1
             /\ processing'[m] = IF processing[m] > 0
                                 THEN processing[m] - 1 ELSE 0
             /\ leases'[m] = "none"
        ELSE /\ Pending(m)' = Pending(m)
             /\ processing'[m] = processing[m]
             /\ leases'[m] = leases[m]
    BY <1>7, Reclaimed DEF Reclaim
  <2>3. CASE m \in Expired
    <3>1. Acked(m)' = Acked(m)
      BY <2>1 DEF Acked
    <3>2. leases[m] = "passed"
      BY <2>3 DEF Expired
    <3>3. m \in Steady => /\ processing[m] = 1 /\ Pending(m) = 0
                          /\ m \in payloads /\ m \notin unpublished
      BY <1>0, <1>2, <3>2 DEF GoodCopy
    <3>4. m \in Steady => dead[m] = 0 /\ Acked(m) = 0
      BY <1>0, <1>2, <3>3 DEF GoodCopy
    <3>5. /\ Pending(m)' = Pending(m) + 1 /\ leases'[m] = "none"
          /\ processing'[m] = IF processing[m] > 0 THEN processing[m] - 1 ELSE 0
          /\ dead'[m] = dead[m]
      BY <2>1, <2>2, <2>3
    <3>6. Pending(m)' + processing'[m] + dead'[m] + Acked(m)' >= 1
      BY <1>2, <3>1, <3>5
    <3>7. ASSUME m \in Steady
          PROVE  /\ Pending(m)' + processing'[m] + dead'[m] + Acked(m)' = 1
                 /\ processing'[m] = 0
                 /\ m \in payloads' /\ m \notin unpublished'
      BY <2>1, <3>1, <3>3, <3>4, <3>5, <3>7
    <3> QED
      BY <3>5, <3>6, <3>7 DEF GoodCopy
  <2>4. CASE m \notin Expired
    BY <1>0, <2>1, <2>2, <2>4, Untouched
  <2> QED
    BY <2>3, <2>4
<1>8. ASSUME NEW c \in Consumers, Claim(c) \/ ClaimReplyLost(c)
      PROVE  GoodCopy(m)'
  <2>1. UNCHANGED <<unpublished, payloads, dead, acked>> /\ ClaimScript(c)
    BY <1>8 DEF Claim, ClaimReplyLost
  <2>2. PICK x \in Messages :
          /\ Pending(m)' \in Nat
          /\ Pending(m) = Pending(m)' + IF m = x THEN 1 ELSE 0
          /\ processing' = [processing EXCEPT ![x] = @ + 1]
          /\ deliveries' = [deliveries EXCEPT ![x] = @ + 1]
          /\ leases' = [leases EXCEPT ![x] = "held"]
    BY <2>1, Claimed
  <2>3. Acked(m)' = Acked(m)
    BY <2>1 DEF Acked
  <2>4. CASE m = x
    <3>1. processing'[m] = processing[m] + 1 /\ leases'[m] = "held"
      BY <2>2, <2>4 DEF TypeOK
    <3>2. Pending(m) = Pending(m)' + 1
      BY <2>2, <2>4
    <3>3. m \in Steady => m \notin unpublished /\ m \in payloads
      BY <1>0, <1>2, <2>2, <3>2 DEF GoodCopy
    <3> QED
      BY <1>0, <1>2, <2>1, <2>2, <2>3, <3>1, <3>2, <3>3 DEF GoodCopy
  <2>5. CASE m # x
    <3>1. /\ Pending(m)' = Pending(m) /\ processing'[m] = processing[m]
          /\ deliveries'[m] = deliveries[m] /\ leases'[m] = leases[m]
      BY <2>2, <2>5 DEF TypeOK
    <3> QED
      BY <1>0, <2>1, <3>1, Untouched
  <2> QED
    BY <2>4, <2>5
<1>9. ASSUME NEW c \in Consumers, Divert(c) PROVE GoodCopy(m)'
  <2>1. PICK d \in current[c] : DivertScript(d.msg)
    BY <1>9 DEF Divert
  <2>2. d \in Held /\ UNCHANGED <<unpublished, acked>>
    BY <1>9 DEF Held, Divert
  <2> QED
    BY <1>0, <2>1, <2>2, FinalizedAlone DEF DivertScript
<1>10. ASSUME NEW h \in handles, Finalize(h) PROVE GoodCopy(m)'
  <2>1. h \in Held
    BY DEF Held
  <2>2. /\ processing' = Lrem(h.msg)
        /\ leases' = [leases EXCEPT ![h.msg] = "none"]
        /\ unpublished' = unpublished
    BY <1>10 DEF Finalize, Ack, Nack, DeadLetter, Settle
  <2>3. \/ /\ pending' = <<h.msg>> \o pending
           /\ UNCHANGED <<dead, payloads, acked, deliveries>>
        \/ /\ dead' = [dead EXCEPT ![h.msg] = @ + 1]
           /\ deliveries' = [deliveries EXCEPT ![h.msg] = 0]
           /\ UNCHANGED <<pending, payloads, acked>>
        \/ /\ payloads' = payloads \ {h.msg}
           /\ deliveries' = [deliveries EXCEPT ![h.msg] = 0]
           /\ acked' = acked \cup {h.msg}
           /\ UNCHANGED <<pending, dead>>
    BY <1>10 DEF Finalize, Ack, Nack, DeadLetter
  <2> QED
    BY <1>0, <2>1, <2>2, <2>3, FinalizedAlone
<1>11. ASSUME NEW c \in Consumers,
              \/ FindEmpty(c) \/ Drain(c) \/ HandOver(c)
              \/ ReturnOnCancel(c) \/ Crash(c) \/ Restart(c)
       PROVE  GoodCopy(m)'
  BY <1>4, <1>11
     DEF FindEmpty, Drain, HandOver, ReturnOnCancel, Crash, Restart
<1>12. CASE Seal \/ \E h \in handles : FinalizeFails(h)
  BY <1>4, <1>12 DEF Seal, FinalizeFails
<1>13. CASE UNCHANGED vars
  BY <1>4, <1>13 DEF vars
<1> QED
  BY <1>5, <1>6, <1>7, <1>8, <1>9, <1>10, <1>11, <1>12, <1>13
     DEF Next, Receiver

-----------------------------------------------------------------------------
(* Leaving a drained queue.                                                *)

\* What is finalized stays so, and only a drained queue is left as drained.
LEMMA DrainsLate ==
  ASSUME TypeOK, [Next]_vars
  PROVE  /\ acked \subseteq acked'
         /\ \A m \in Messages : dead[m] > 0 => dead'[m] > 0
         /\ \A c \in Consumers : cpc'[c] = "drained" =>
              cpc[c] = "drained" \/ Drained
<1> USE DEF producers, redis, receivers, finals, bounds, Goto
<1>0. dead \in [Messages -> Nat]
  BY DEF TypeOK
<1>1. ASSUME NEW m \in Messages, Publish(m) \/ Expire(m)
      PROVE  UNCHANGED <<acked, dead, cpc>>
  BY <1>1 DEF Publish, Expire
<1>2. ASSUME Seal \/ \E h \in handles : FinalizeFails(h)
      PROVE  UNCHANGED <<acked, dead, cpc>>
  BY <1>2 DEF Seal, FinalizeFails
<1>3. ASSUME NEW d \in Consumers,
             \/ Reclaim(d) \/ Claim(d) \/ ClaimReplyLost(d) \/ FindEmpty(d)
             \/ HandOver(d) \/ ReturnOnCancel(d) \/ Crash(d) \/ Restart(d)
      PROVE  /\ UNCHANGED <<acked, dead>>
             /\ \E p : p # "drained" /\ cpc' = [cpc EXCEPT ![d] = p]
  <2>1. CASE Claim(d)
    BY <2>1 DEF Claim
  <2>2. CASE ~Claim(d)
    BY <1>3, <2>2 DEF Reclaim, ClaimReplyLost, FindEmpty, HandOver,
                      ReturnOnCancel, Crash, Restart
  <2> QED
    BY <2>1, <2>2
<1>4. ASSUME NEW d \in Consumers, Drain(d)
      PROVE  /\ UNCHANGED <<acked, dead>>
             /\ \E p : /\ p = "drained" => Drained
                      /\ cpc' = [cpc EXCEPT ![d] = p]
  BY <1>4 DEF Drain
<1>5. ASSUME NEW c \in Consumers, Divert(c)
      PROVE  /\ UNCHANGED acked
             /\ \A m \in Messages : dead[m] > 0 => dead'[m] > 0
             /\ cpc' = [cpc EXCEPT ![c] = "drain"]
  <2>1. PICK d \in current[c] : dead' = [dead EXCEPT ![d.msg] = @ + 1]
    BY <1>5 DEF Divert, DivertScript
  <2> QED
    BY <1>0, <1>5, <2>1 DEF Divert
<1>6. ASSUME NEW h \in handles, Finalize(h)
      PROVE  /\ acked \subseteq acked' /\ UNCHANGED cpc
             /\ \A m \in Messages : dead[m] > 0 => dead'[m] > 0
  BY <1>0, <1>6 DEF Finalize, Ack, Nack, DeadLetter
<1>7. ASSUME UNCHANGED vars PROVE UNCHANGED <<acked, dead, cpc>>
  BY <1>7 DEF vars
<1>8. ASSUME NEW d \in Consumers, NEW p, cpc' = [cpc EXCEPT ![d] = p]
      PROVE  \A c \in Consumers : cpc'[c] = IF c = d THEN p ELSE cpc[c]
  BY <1>8 DEF TypeOK
<1>9. acked \subseteq acked' /\ \A m \in Messages : dead[m] > 0 => dead'[m] > 0
  BY <1>1, <1>2, <1>3, <1>4, <1>5, <1>6, <1>7 DEF Next, Receiver
<1>10. \/ UNCHANGED cpc
       \/ \E d \in Consumers : \E p : /\ p = "drained" => Drained
                                     /\ cpc' = [cpc EXCEPT ![d] = p]
  BY <1>1, <1>2, <1>3, <1>4, <1>5, <1>6, <1>7 DEF Next, Receiver
<1> QED
  BY <1>8, <1>9, <1>10

LEMMA SealKept ==
  ASSUME SealInv, [Next]_vars
  PROVE  SealInv'
<1> USE DEF SealInv, producers
<1>1. CASE Seal \/ \E m \in Messages : Publish(m) \/ Expire(m)
  BY <1>1 DEF Seal, Publish, Expire
<1>2. ASSUME NEW c \in Consumers,
             \/ Receiver(c) \/ ClaimReplyLost(c) \/ ReturnOnCancel(c)
             \/ Crash(c) \/ Restart(c)
      PROVE  SealInv'
  BY <1>2 DEF Receiver, Reclaim, Claim, FindEmpty, Drain, HandOver, Divert,
              ClaimReplyLost, ReturnOnCancel, Crash, Restart
<1>3. ASSUME NEW h \in handles, Finalize(h) \/ FinalizeFails(h)
      PROVE  SealInv'
  BY <1>3 DEF Finalize, Ack, Nack, DeadLetter, FinalizeFails
<1>4. CASE UNCHANGED vars
  BY <1>4 DEF vars
<1> QED
  BY <1>1, <1>2, <1>3, <1>4 DEF Next

\* A drained queue has nothing but finalized messages.
LEMMA DrainKept ==
  ASSUME TypeOK, SealInv, NeverLost, DrainIsSound, [Next]_vars
  PROVE  DrainIsSound'
<1>1. ASSUME Drained
      PROVE  \A m \in Messages : m \in acked \/ dead[m] > 0
  <2> SUFFICES ASSUME NEW m \in Messages PROVE m \in acked \/ dead[m] > 0
    OBVIOUS
  <2>1. pending = <<>> /\ processing[m] = 0 /\ m \notin unpublished
    BY <1>1 DEF Drained, SealInv
  <2>2. Pending(m) = 0
    <3>1. {k \in DOMAIN pending : pending[k] = m} = {}
      BY <2>1
    <3> QED
      BY <3>1, FS_EmptySet DEF Pending
  <2>3. Pending(m) + processing[m] + dead[m] + Acked(m) >= 1
    BY <2>1 DEF NeverLost
  <2> QED
    BY <2>1, <2>2, <2>3, CopyNat
<1> QED
  BY <1>1, DrainsLate DEF DrainIsSound

\* Every step keeps the invariant.
LEMMA NextIInv == IInv /\ [Next]_vars => IInv'
<1> SUFFICES ASSUME IInv, [Next]_vars PROVE IInv'
  OBVIOUS
<1> USE DEF IInv
<1>1. TypeOK'
  BY NextTyped
<1>2. SealInv' /\ DrainIsSound'
  BY SealKept, DrainKept
<1>3. CopyInv' /\ NeverLost'
  BY <1>1, CopiesKept
<1>4. LeaseInv' /\ OwnerInv'
  BY <1>1, HeldKept
<1> QED
  BY <1>1, <1>2, <1>3, <1>4

\* Neither a list nor a counter leaves its type: no LREM of an id that is not
\* in processing takes it below zero.
THEOREM TypeCorrect == Spec => []TypeOK
<1>1. IInv => TypeOK
  BY DEF IInv
<1> QED
  BY <1>1, InitIInv, NextIInv, PTL DEF Spec

\* No message is lost, whichever leases run out under the work, whoever crashes
\* and whichever calls fail or lose their reply.
THEOREM NothingLost == Spec => []NeverLost
<1>1. IInv => NeverLost
  BY DEF IInv
<1> QED
  BY <1>1, InitIInv, NextIInv, PTL DEF Spec

\* A message whose leases outlive its work has a lease exactly while it is in
\* processing, and its payload for as long as it can be claimed: whatever
\* happens to its consumer, another can reclaim and decode it.
THEOREM CanReclaim == Spec => []Reclaimable
<1>1. IInv => Reclaimable
  BY DEF IInv, CopyInv, Reclaimable, Steady
<1> QED
  BY <1>1, InitIInv, NextIInv, PTL DEF Spec

\* The drain script lets a consumer go only when every message is finalized,
\* and this remains so.
THEOREM DrainSound == Spec => []DrainIsSound
<1>1. IInv => DrainIsSound
  BY DEF IInv
<1> QED
  BY <1>1, InitIInv, NextIInv, PTL DEF Spec

-----------------------------------------------------------------------------
(* For the steady messages Redis implements Delivery.                      *)

Copies(w, h, a, d) == [waiting |-> w, held |-> h, acked |-> a, dead |-> d]

\* What the queue is as a Delivery.
CopiesOf ==
  [m \in Steady |-> Copies(Pending(m), processing[m], Acked(m), dead[m])]

CountOf ==
  [m \in Steady |-> IF Pending(m) + processing[m] > 0 THEN deliveries[m] ELSE 0]

\* The places a copy moves between.
LEMMA CopiesMove ==
  /\ Copies(0, 0, 0, 0) = Abstract!Nowhere
  /\ Copies(1, 0, 0, 0) = [Abstract!Nowhere EXCEPT !["waiting"] = 1]
  /\ Copies(0, 1, 0, 0)
       = [Copies(1, 0, 0, 0) EXCEPT !["waiting"] = @ - 1, !["held"] = @ + 1]
  /\ Copies(1, 0, 0, 0)
       = [Copies(0, 1, 0, 0) EXCEPT !["waiting"] = @ + 1, !["held"] = @ - 1]
  /\ Copies(0, 0, 1, 0)
       = [Copies(0, 1, 0, 0) EXCEPT !["held"] = @ - 1, !["acked"] = @ + 1]
  /\ Copies(0, 0, 0, 1)
       = [Copies(0, 1, 0, 0) EXCEPT !["held"] = @ - 1, !["dead"] = @ + 1]
  /\ Copies(1, 0, 0, 0)["waiting"] = 1 /\ Copies(0, 1, 0, 0)["held"] = 1
<1> USE DEF Copies
<1>1. Copies(0, 0, 0, 0) = Abstract!Nowhere
  BY DEF Abstract!Nowhere, Abstract!Places
<1>2. Copies(1, 0, 0, 0) = [Copies(0, 0, 0, 0) EXCEPT !["waiting"] = 1]
  OBVIOUS
<1>3. Copies(0, 1, 0, 0)
        = [Copies(1, 0, 0, 0) EXCEPT !["waiting"] = @ - 1, !["held"] = @ + 1]
  OBVIOUS
<1>4. Copies(1, 0, 0, 0)
        = [Copies(0, 1, 0, 0) EXCEPT !["waiting"] = @ + 1, !["held"] = @ - 1]
  OBVIOUS
<1>5. Copies(0, 0, 1, 0)
        = [Copies(0, 1, 0, 0) EXCEPT !["held"] = @ - 1, !["acked"] = @ + 1]
  OBVIOUS
<1>6. Copies(0, 0, 0, 1)
        = [Copies(0, 1, 0, 0) EXCEPT !["held"] = @ - 1, !["dead"] = @ + 1]
  OBVIOUS
<1>7. Copies(1, 0, 0, 0)["waiting"] = 1 /\ Copies(0, 1, 0, 0)["held"] = 1
  OBVIOUS
<1> QED
  BY <1>1, <1>2, <1>3, <1>4, <1>5, <1>6, <1>7

\* Where a steady message is, there is its only copy.
PlaceInv ==
  \A m \in Steady :
    /\ m \in unpublished =>
         CopiesOf[m] = Copies(0, 0, 0, 0) /\ CountOf[m] = 0
                                          /\ deliveries[m] = 0
    /\ Pending(m) > 0 =>
         CopiesOf[m] = Copies(1, 0, 0, 0) /\ CountOf[m] = deliveries[m]
    /\ processing[m] > 0 =>
         CopiesOf[m] = Copies(0, 1, 0, 0) /\ CountOf[m] = deliveries[m]
    /\ m \in acked => CopiesOf[m] = Copies(0, 0, 1, 0) /\ CountOf[m] = 0
    /\ dead[m] > 0 => CopiesOf[m] = Copies(0, 0, 0, 1) /\ CountOf[m] = 0

\* Numbers that sum to one, or to none.
LEMMA OneOfFour ==
  ASSUME NEW w \in Nat, NEW h \in Nat, NEW a \in Nat, NEW d \in Nat,
         w + h + d + a <= 1
  PROVE  /\ w > 0 => w = 1 /\ h = 0 /\ a = 0 /\ d = 0
         /\ h > 0 => w = 0 /\ h = 1 /\ a = 0 /\ d = 0
         /\ a > 0 => w = 0 /\ h = 0 /\ a = 1 /\ d = 0
         /\ d > 0 => w = 0 /\ h = 0 /\ a = 0 /\ d = 1
         /\ w + h + d + a = 0 => w = 0 /\ h = 0 /\ a = 0 /\ d = 0
  OBVIOUS

LEMMA CopyOfMessage == IInv => PlaceInv
<1> SUFFICES ASSUME IInv, NEW m \in Steady
             PROVE  /\ m \in unpublished =>
                         /\ CopiesOf[m] = Copies(0, 0, 0, 0)
                         /\ CountOf[m] = 0 /\ deliveries[m] = 0
                    /\ Pending(m) > 0 =>
                         /\ CopiesOf[m] = Copies(1, 0, 0, 0)
                         /\ CountOf[m] = deliveries[m]
                    /\ processing[m] > 0 =>
                         /\ CopiesOf[m] = Copies(0, 1, 0, 0)
                         /\ CountOf[m] = deliveries[m]
                    /\ m \in acked =>
                         CopiesOf[m] = Copies(0, 0, 1, 0) /\ CountOf[m] = 0
                    /\ dead[m] > 0 =>
                         CopiesOf[m] = Copies(0, 0, 0, 1) /\ CountOf[m] = 0
  BY DEF PlaceInv
<1>1. /\ Pending(m) \in Nat /\ processing[m] \in Nat /\ dead[m] \in Nat
      /\ Acked(m) \in 0..1 /\ (Acked(m) = 1 <=> m \in acked)
  BY CopyNat DEF IInv, Steady
<1>2. /\ Pending(m) + processing[m] + dead[m] + Acked(m)
           = IF m \in unpublished THEN 0 ELSE 1
      /\ m \in unpublished => deliveries[m] = 0
  BY DEF IInv, CopyInv
<1>3. /\ CopiesOf[m] = Copies(Pending(m), processing[m], Acked(m), dead[m])
      /\ CountOf[m] = IF Pending(m) + processing[m] > 0 THEN deliveries[m]
                      ELSE 0
  BY DEF CopiesOf, CountOf
<1>4. /\ m \in unpublished => /\ Pending(m) = 0 /\ processing[m] = 0
                              /\ Acked(m) = 0 /\ dead[m] = 0
      /\ Pending(m) > 0 => /\ Pending(m) = 1 /\ processing[m] = 0
                           /\ Acked(m) = 0 /\ dead[m] = 0
      /\ processing[m] > 0 => /\ Pending(m) = 0 /\ processing[m] = 1
                              /\ Acked(m) = 0 /\ dead[m] = 0
      /\ m \in acked => /\ Pending(m) = 0 /\ processing[m] = 0
                        /\ Acked(m) = 1 /\ dead[m] = 0
      /\ dead[m] > 0 => /\ Pending(m) = 0 /\ processing[m] = 0
                        /\ Acked(m) = 0 /\ dead[m] = 1
  <2>1. Acked(m) \in Nat
    BY <1>1
  <2>2. Pending(m) + processing[m] + dead[m] + Acked(m) <= 1
    BY <1>2
  <2> DEFINE w == Pending(m)
             h == processing[m]
             a == Acked(m)
             d == dead[m]
  <2>3. /\ w > 0 => w = 1 /\ h = 0 /\ a = 0 /\ d = 0
        /\ h > 0 => w = 0 /\ h = 1 /\ a = 0 /\ d = 0
        /\ a > 0 => w = 0 /\ h = 0 /\ a = 1 /\ d = 0
        /\ d > 0 => w = 0 /\ h = 0 /\ a = 0 /\ d = 1
        /\ w + h + d + a = 0 => w = 0 /\ h = 0 /\ a = 0 /\ d = 0
    <3>1. /\ w \in Nat /\ h \in Nat /\ a \in Nat /\ d \in Nat
          /\ w + h + d + a <= 1
      BY <1>1, <2>1, <2>2
    <3> HIDE DEF w, h, a, d
    <3> QED
      BY <3>1, OneOfFour
  <2> QED
    BY <1>1, <1>2, <2>3
<1>5. m \in unpublished => /\ CopiesOf[m] = Copies(0, 0, 0, 0)
                           /\ CountOf[m] = 0 /\ deliveries[m] = 0
  BY <1>2, <1>3, <1>4
<1>6. Pending(m) > 0 => /\ CopiesOf[m] = Copies(1, 0, 0, 0)
                        /\ CountOf[m] = deliveries[m]
  BY <1>3, <1>4
<1>7. processing[m] > 0 => /\ CopiesOf[m] = Copies(0, 1, 0, 0)
                           /\ CountOf[m] = deliveries[m]
  BY <1>3, <1>4
<1>8. m \in acked => CopiesOf[m] = Copies(0, 0, 1, 0) /\ CountOf[m] = 0
  BY <1>3, <1>4
<1>9. dead[m] > 0 => CopiesOf[m] = Copies(0, 0, 0, 1) /\ CountOf[m] = 0
  BY <1>3, <1>4
<1> QED
  BY <1>5, <1>6, <1>7, <1>8, <1>9, Zenon

\* A message whose copy stays where it is.
LEMMA Stays ==
  ASSUME NEW n \in Steady,
         Pending(n)' = Pending(n), processing'[n] = processing[n],
         dead'[n] = dead[n], deliveries'[n] = deliveries[n],
         n \in acked' <=> n \in acked
  PROVE  CopiesOf'[n] = CopiesOf[n] /\ CountOf'[n] = CountOf[n]
<1>1. Acked(n)' = Acked(n)
  BY DEF Acked
<1> QED
  BY <1>1 DEF CopiesOf, CountOf, Steady

\* A message whose copy goes from one place to another.
LEMMA MovedFrom ==
  ASSUME NEW f, DOMAIN f = Steady, NEW g, g = [n \in Steady |-> g[n]],
         NEW m \in Steady, \A n \in Steady \ {m} : g[n] = f[n],
         NEW x, NEW y, x # y,
         g[m] = [f[m] EXCEPT ![x] = @ - 1, ![y] = @ + 1]
  PROVE  g = [f EXCEPT ![m][x] = @ - 1, ![m][y] = @ + 1]
<1> DEFINE one == [f EXCEPT ![m] = [f[m] EXCEPT ![x] = @ - 1]]
           two == [one EXCEPT ![m] = [one[m] EXCEPT ![y] = @ + 1]]
<1>1. one[m] = [f[m] EXCEPT ![x] = @ - 1] /\ DOMAIN one = Steady
  OBVIOUS
<1>2. two[m] = [one[m] EXCEPT ![y] = @ + 1] /\ DOMAIN two = Steady
  OBVIOUS
<1>3. \A n \in Steady \ {m} : one[n] = f[n] /\ two[n] = one[n]
  OBVIOUS
<1>4. two[m] = g[m]
  <2>1. one[m][y] = f[m][y]
    BY <1>1
  <2> HIDE DEF one, two
  <2> QED
    BY <1>1, <1>2, <2>1
<1>5. two = [n \in Steady |-> two[n]]
  <2> HIDE DEF one
  <2> QED
    BY <1>1
<1>6. g = two
  <2> HIDE DEF two
  <2> QED
    BY <1>3, <1>4, <1>5
<1> QED
  BY <1>6

\* The mapping, opened.
LEMMA StillImplements ==
  ASSUME \A n \in Steady :
           CopiesOf'[n] = CopiesOf[n] /\ CountOf'[n] = CountOf[n]
  PROVE  UNCHANGED Abstract!vars
<1>1. CopiesOf' = CopiesOf /\ CountOf' = CountOf
  BY DEF CopiesOf, CountOf, Steady
<1> QED
  BY <1>1 DEF Abstract!vars, CopiesOf, CountOf, Copies, Steady

\* Init is one of Delivery's: the queue is empty.
LEMMA InitImplements == Init => Abstract!Init
<1> SUFFICES ASSUME Init PROVE Abstract!Init
  OBVIOUS
<1>1. \A m \in Steady : CopiesOf[m] = Copies(0, 0, 0, 0) /\ CountOf[m] = 0
  BY InitIInv, CopyOfMessage DEF PlaceInv, Init, Steady
<1>2. /\ CopiesOf = [m \in Steady |->
                       IF m \in {}
                       THEN [Abstract!Nowhere EXCEPT !["waiting"] = 1]
                       ELSE Abstract!Nowhere]
      /\ {} \in SUBSET Steady
  BY <1>1, CopiesMove DEF CopiesOf
<1>3. CountOf = [m \in Steady |-> 0]
  BY <1>1 DEF CountOf
<1> QED
  BY <1>2, <1>3 DEF Abstract!Init, CopiesOf, CountOf, Copies, Steady

\* HSET and LPUSH publish the message.
LEMMA PublishImplements ==
  ASSUME IInv, IInv', NEW x \in Messages, Publish(x)
  PROVE  (x \in Steady /\ Abstract!Publish(x)) \/ UNCHANGED Abstract!vars
<1>1. PlaceInv /\ PlaceInv'
  BY CopyOfMessage, PTL
<1>2. /\ x \in unpublished
      /\ \A n : Pending(n)' = Pending(n) + IF n = x THEN 1 ELSE 0
      /\ UNCHANGED <<processing, deliveries, dead, acked>>
      /\ \A n : Pending(n) \in Nat
  BY Pushed, PendingNat DEF Publish, IInv, redis, finals
<1>3. \A n \in Steady \ {x} :
        CopiesOf'[n] = CopiesOf[n] /\ CountOf'[n] = CountOf[n]
  <2> TAKE n \in Steady \ {x}
  <2>1. Pending(n)' = Pending(n)
    BY <1>2
  <2> QED
    BY <1>2, <2>1, Stays
<1>4. CASE x \in Steady
  <2>1. Pending(x)' > 0
    BY <1>2
  <2>2. /\ CopiesOf[x] = Copies(0, 0, 0, 0) /\ CountOf[x] = 0
        /\ CopiesOf'[x] = Copies(1, 0, 0, 0) /\ CountOf'[x] = 0
    BY <1>1, <1>2, <1>4, <2>1 DEF PlaceInv, Steady
  <2>3. CopiesOf[x] = Abstract!Nowhere
    BY <2>2, CopiesMove
  <2>4. CopiesOf' = [CopiesOf EXCEPT ![x]["waiting"] = 1]
    <3>1. CopiesOf' = [CopiesOf EXCEPT ![x] = Copies(1, 0, 0, 0)]
      BY <1>3, <2>2 DEF CopiesOf, Steady
    <3>2. Copies(1, 0, 0, 0) = [CopiesOf[x] EXCEPT !["waiting"] = 1]
      BY <2>3, CopiesMove
    <3> QED
      BY <3>1, <3>2
  <2>5. CountOf' = CountOf
    BY <1>3, <2>2 DEF CountOf, Steady
  <2> QED
    BY <1>4, <2>3, <2>4, <2>5
       DEF Abstract!Publish, CopiesOf, CountOf, Copies, Steady
<1>5. CASE x \notin Steady
  BY <1>3, <1>5, StillImplements
<1> QED
  BY <1>4, <1>5

\* claimScript claims it and counts the delivery, whether or not the reply
\* arrives.
LEMMA ClaimImplements ==
  ASSUME IInv, IInv', NEW c \in Consumers, ClaimScript(c),
         UNCHANGED <<dead, acked>>
  PROVE  (\E x \in Steady : Abstract!Claim(x)) \/ UNCHANGED Abstract!vars
<1>1. PlaceInv /\ PlaceInv'
  BY CopyOfMessage, PTL
<1>2. PICK x \in Messages :
        /\ Pending(x) > 0
        /\ \A n \in Messages :
             /\ Pending(n)' \in Nat
             /\ Pending(n) = Pending(n)' + IF n = x THEN 1 ELSE 0
        /\ processing' = [processing EXCEPT ![x] = @ + 1]
        /\ deliveries' = [deliveries EXCEPT ![x] = @ + 1]
  BY Claimed DEF IInv
<1>3. processing \in [Messages -> Nat] /\ deliveries \in [Messages -> Nat]
  BY DEF IInv, TypeOK
<1>4. \A n \in Steady \ {x} :
        CopiesOf'[n] = CopiesOf[n] /\ CountOf'[n] = CountOf[n]
  <2> TAKE n \in Steady \ {x}
  <2>1. n \in Messages
    BY DEF Steady
  <2>2. Pending(n)' = Pending(n)
    BY <1>2, <2>1
  <2>3. processing'[n] = processing[n] /\ deliveries'[n] = deliveries[n]
    BY <1>2, <1>3, <2>1
  <2> QED
    BY <2>2, <2>3, Stays
<1>5. CASE x \in Steady
  <2>1. processing'[x] > 0 /\ deliveries'[x] = deliveries[x] + 1
    BY <1>2, <1>3
  <2>2. /\ CopiesOf[x] = Copies(1, 0, 0, 0) /\ CountOf[x] = deliveries[x]
        /\ CopiesOf'[x] = Copies(0, 1, 0, 0) /\ CountOf'[x] = deliveries'[x]
    BY <1>1, <1>2, <1>5, <2>1 DEF PlaceInv, Steady
  <2>3. CopiesOf[x]["waiting"] > 0
    BY <2>2, CopiesMove
  <2>4. CopiesOf'
          = [CopiesOf EXCEPT ![x]["waiting"] = @ - 1, ![x]["held"] = @ + 1]
    <3>1. CopiesOf'[x]
            = [CopiesOf[x] EXCEPT !["waiting"] = @ - 1, !["held"] = @ + 1]
      BY <2>2, CopiesMove
    <3>2. /\ DOMAIN CopiesOf = Steady
          /\ CopiesOf' = [n \in Steady |-> CopiesOf'[n]]
      BY DEF CopiesOf, Steady
    <3> QED
      BY <1>4, <1>5, <3>1, <3>2, MovedFrom, ZenonT(60)
  <2>5. CountOf' = [CountOf EXCEPT ![x] = @ + 1]
    BY <1>4, <2>1, <2>2 DEF CountOf, Steady
  <2> QED
    BY <1>5, <2>3, <2>4, <2>5
       DEF Abstract!Claim, CopiesOf, CountOf, Copies, Steady
<1>6. CASE x \notin Steady
  BY <1>4, <1>6, StillImplements
<1> QED
  BY <1>5, <1>6

\* A set of messages that goes back to pending.
LEMMA GiveBackImplements ==
  ASSUME IInv, IInv', NEW S \in SUBSET Steady,
         \A m \in S : /\ processing[m] > 0 /\ Pending(m)' > 0
                      /\ deliveries'[m] = deliveries[m],
         \A n \in Steady \ S :
           CopiesOf'[n] = CopiesOf[n] /\ CountOf'[n] = CountOf[n]
  PROVE  Abstract!GiveBack(S)
<1>1. PlaceInv /\ PlaceInv'
  BY CopyOfMessage, PTL
<1>2. \A m \in S :
        /\ CopiesOf[m] = Copies(0, 1, 0, 0) /\ CountOf[m] = deliveries[m]
        /\ CopiesOf'[m] = Copies(1, 0, 0, 0) /\ CountOf'[m] = deliveries[m]
  BY <1>1 DEF PlaceInv, Steady
<1>3. \A m \in S : CopiesOf[m]["held"] > 0
  BY <1>2, CopiesMove
<1>4. CopiesOf' = [n \in Steady |->
                     IF n \in S THEN [CopiesOf[n] EXCEPT !["waiting"] = @ + 1,
                                                         !["held"] = @ - 1]
                     ELSE CopiesOf[n]]
  BY <1>2, CopiesMove DEF CopiesOf, Steady
<1>5. CountOf' = CountOf
  BY <1>2 DEF CountOf, Steady
<1> QED
  BY <1>3, <1>4, <1>5 DEF Abstract!GiveBack, CopiesOf, CountOf, Copies, Steady

\* reclaimScript gives back every message whose lease has passed.
LEMMA ReclaimImplements ==
  ASSUME IInv, IInv', ReclaimScript, UNCHANGED <<deliveries, dead, acked>>
  PROVE  \E S \in SUBSET Steady : Abstract!GiveBack(S)
<1>0. PICK S : S = Expired \cap Steady
  OBVIOUS
<1>1. \A m \in Messages :
        IF m \in Expired
        THEN Pending(m)' = Pending(m) + 1
        ELSE Pending(m)' = Pending(m) /\ processing'[m] = processing[m]
  BY Reclaimed DEF IInv
<1>2. \A m \in S :
        /\ processing[m] > 0 /\ Pending(m)' > 0
        /\ deliveries'[m] = deliveries[m]
  <2> TAKE m \in S
  <2>1. processing[m] > 0
    BY <1>0 DEF IInv, CopyInv, Expired
  <2>2. Pending(m) \in Nat /\ Pending(m)' = Pending(m) + 1
    BY <1>0, <1>1, PendingNat DEF IInv, Steady
  <2> QED
    BY <2>1, <2>2
<1>3. \A n \in Steady \ S :
        CopiesOf'[n] = CopiesOf[n] /\ CountOf'[n] = CountOf[n]
  BY <1>0, <1>1, Stays DEF Steady
<1>4. S \in SUBSET Steady
  BY <1>0
<1> QED
  BY <1>2, <1>3, <1>4, GiveBackImplements

\* A delivery leaves the consumer's hand: Nack, Ack, DeadLetter or Divert.
LEMMA SettleImplements ==
  ASSUME IInv, IInv', NEW d \in Held, processing' = Lrem(d.msg),
         \/ /\ pending' = <<d.msg>> \o pending
            /\ UNCHANGED <<dead, acked, deliveries>>
         \/ /\ dead' = [dead EXCEPT ![d.msg] = @ + 1]
            /\ \/ deliveries' = [deliveries EXCEPT ![d.msg] = 0]
               \/ UNCHANGED deliveries
            /\ UNCHANGED <<pending, acked>>
         \/ /\ deliveries' = [deliveries EXCEPT ![d.msg] = 0]
            /\ acked' = acked \cup {d.msg}
            /\ UNCHANGED <<pending, dead>>
  PROVE  \/ \E m \in Steady : \/ Abstract!GiveBack({m})
                              \/ Abstract!Finalize(m, "acked")
                              \/ Abstract!Finalize(m, "dead")
         \/ UNCHANGED Abstract!vars
<1>1. PlaceInv /\ PlaceInv'
  BY CopyOfMessage, PTL
<1>2. PICK m \in Messages : m = d.msg
  BY HeldTyped DEF IInv
<1>3. /\ \A n \in Messages \ {m} : processing'[n] = processing[n]
      /\ \A n : Pending(n) \in Nat
      /\ processing \in [Messages -> Nat] /\ deliveries \in [Messages -> Nat]
      /\ dead \in [Messages -> Nat]
  BY <1>2, Removed, PendingNat DEF IInv, TypeOK
<1>4. UNCHANGED pending => \A n : Pending(n)' = Pending(n)
  BY DEF Pending
<1>5. pending' = <<m>> \o pending =>
        \A n : Pending(n)' = Pending(n) + IF n = m THEN 1 ELSE 0
  BY Pushed DEF IInv
<1>6. \A n \in Steady \ {m} :
        CopiesOf'[n] = CopiesOf[n] /\ CountOf'[n] = CountOf[n]
  <2> TAKE n \in Steady \ {m}
  <2>1. n \in Messages /\ n # m
    BY DEF Steady
  <2>2. Pending(n)' = Pending(n)
    BY <1>2, <1>3, <1>4, <1>5, <2>1
  <2>3. /\ dead'[n] = dead[n] /\ deliveries'[n] = deliveries[n]
        /\ n \in acked' <=> n \in acked
    BY <1>2, <1>3, <2>1
  <2> QED
    BY <1>3, <2>1, <2>2, <2>3, Stays
<1>7. ASSUME m \in Steady
      PROVE  /\ processing[m] > 0
             /\ CopiesOf[m] = Copies(0, 1, 0, 0)
  <2>1. leases[m] = "held"
    BY <1>2, <1>7 DEF IInv, LeaseInv
  <2>2. processing[m] > 0
    BY <1>7, <2>1 DEF IInv, CopyInv
  <2> QED
    BY <1>1, <1>7, <2>2 DEF PlaceInv
<1>8. ASSUME m \in Steady, NEW place \in {"acked", "dead"},
             IF place = "acked" THEN m \in acked' ELSE dead'[m] > 0
      PROVE  Abstract!Finalize(m, place)
  <2>1. /\ CopiesOf'[m] = IF place = "acked" THEN Copies(0, 0, 1, 0)
                          ELSE Copies(0, 0, 0, 1)
        /\ CountOf'[m] = 0
    BY <1>1, <1>8 DEF PlaceInv, Steady
  <2>2. CopiesOf[m]["held"] > 0
    BY <1>7, <1>8, CopiesMove
  <2>3. CopiesOf'
          = [CopiesOf EXCEPT ![m]["held"] = @ - 1, ![m][place] = @ + 1]
    <3>1. CopiesOf'[m]
            = [CopiesOf[m] EXCEPT !["held"] = @ - 1, ![place] = @ + 1]
      BY <1>7, <1>8, <2>1, CopiesMove
    <3>2. /\ DOMAIN CopiesOf = Steady
          /\ CopiesOf' = [n \in Steady |-> CopiesOf'[n]]
      BY DEF CopiesOf, Steady
    <3> QED
      BY <1>6, <1>8, <3>1, <3>2, MovedFrom, ZenonT(60)
  <2>4. CountOf' = [CountOf EXCEPT ![m] = 0]
    BY <1>6, <2>1 DEF CountOf, Steady
  <2> QED
    BY <1>8, <2>2, <2>3, <2>4
       DEF Abstract!Finalize, CopiesOf, CountOf, Copies, Steady
<1>9. CASE m \notin Steady
  BY <1>6, <1>9, StillImplements
<1>10. CASE m \in Steady /\ pending' = <<m>> \o pending /\ UNCHANGED deliveries
  <2>1. Pending(m)' > 0
    BY <1>3, <1>5, <1>10
  <2>2. Abstract!GiveBack({m})
    BY <1>6, <1>7, <1>10, <2>1, GiveBackImplements
  <2> QED
    BY <1>10, <2>2
<1>11. CASE m \in Steady /\ dead' = [dead EXCEPT ![m] = @ + 1]
  <2>1. dead'[m] > 0
    BY <1>3, <1>11
  <2> QED
    BY <1>8, <1>11, <2>1
<1>12. CASE m \in Steady /\ acked' = acked \cup {m}
  BY <1>8, <1>12
<1> QED
  BY <1>2, <1>9, <1>10, <1>11, <1>12

\* Every step is a step of Delivery or leaves it alone.
LEMMA StepImplements ==
  IInv /\ IInv' /\ [Next]_vars => [Abstract!Next]_(Abstract!vars)
<1> SUFFICES ASSUME IInv, IInv', [Next]_vars
             PROVE  Abstract!Next \/ UNCHANGED Abstract!vars
  OBVIOUS
<1> USE DEF producers, redis, receivers, finals, bounds
<1>1. ASSUME UNCHANGED <<pending, processing, deliveries, dead, acked>>
      PROVE  UNCHANGED Abstract!vars
  <2>1. \A n : Pending(n)' = Pending(n)
    BY <1>1 DEF Pending
  <2> QED
    BY <1>1, <2>1, Stays, StillImplements
<1>2. ASSUME NEW x \in Messages, Publish(x)
      PROVE  Abstract!Next \/ UNCHANGED Abstract!vars
  BY <1>2, PublishImplements DEF Abstract!Next, Steady
<1>3. ASSUME NEW c \in Consumers, Claim(c) \/ ClaimReplyLost(c)
      PROVE  Abstract!Next \/ UNCHANGED Abstract!vars
  <2>1. ClaimScript(c) /\ UNCHANGED <<dead, acked>>
    BY <1>3 DEF Claim, ClaimReplyLost
  <2> QED
    BY <2>1, ClaimImplements DEF Abstract!Next, Steady
<1>4. ASSUME NEW c \in Consumers, Reclaim(c)
      PROVE  Abstract!Next
  <2>1. ReclaimScript /\ UNCHANGED <<deliveries, dead, acked>>
    BY <1>4 DEF Reclaim
  <2>2. \E S \in SUBSET (Messages \ Hasty) : Abstract!GiveBack(S)
    BY <2>1, ReclaimImplements DEF Steady
  <2> QED
    BY <2>2 DEF Abstract!Next
<1>5. ASSUME \/ \E m \in Steady : \/ Abstract!GiveBack({m})
                                  \/ Abstract!Finalize(m, "acked")
                                  \/ Abstract!Finalize(m, "dead")
             \/ UNCHANGED Abstract!vars
      PROVE  Abstract!Next \/ UNCHANGED Abstract!vars
  <2>1. \A m \in Steady : {m} \in SUBSET (Messages \ Hasty)
    BY DEF Steady
  <2> QED
    BY <1>5, <2>1 DEF Abstract!Next, Steady
<1>6. ASSUME NEW c \in Consumers, Divert(c)
      PROVE  Abstract!Next \/ UNCHANGED Abstract!vars
  <2>1. PICK d \in current[c] : DivertScript(d.msg)
    BY <1>6 DEF Divert
  <2>2. d \in Held /\ UNCHANGED acked
    BY <1>6 DEF Held, Divert
  <2>3. /\ processing' = Lrem(d.msg)
        /\ dead' = [dead EXCEPT ![d.msg] = @ + 1]
        /\ UNCHANGED <<pending, deliveries>>
    BY <2>1 DEF DivertScript
  <2> QED
    BY <1>5, <2>2, <2>3, SettleImplements
<1>7. ASSUME NEW h \in handles, Finalize(h)
      PROVE  Abstract!Next \/ UNCHANGED Abstract!vars
  <2>1. h \in Held
    BY DEF Held
  <2>2. processing' = Lrem(h.msg)
    BY <1>7 DEF Finalize, Ack, Nack, DeadLetter, Settle
  <2>3. \/ /\ pending' = <<h.msg>> \o pending
           /\ UNCHANGED <<dead, acked, deliveries>>
        \/ /\ dead' = [dead EXCEPT ![h.msg] = @ + 1]
           /\ deliveries' = [deliveries EXCEPT ![h.msg] = 0]
           /\ UNCHANGED <<pending, acked>>
        \/ /\ deliveries' = [deliveries EXCEPT ![h.msg] = 0]
           /\ acked' = acked \cup {h.msg}
           /\ UNCHANGED <<pending, dead>>
    BY <1>7 DEF Finalize, Ack, Nack, DeadLetter
  <2> QED
    BY <1>5, <2>1, <2>2, <2>3, SettleImplements
<1>8. ASSUME \/ \E m \in Messages : Expire(m)
             \/ Seal
             \/ \E c \in Consumers :
                  \/ FindEmpty(c) \/ Drain(c) \/ HandOver(c)
                  \/ ReturnOnCancel(c) \/ Crash(c) \/ Restart(c)
             \/ \E h \in handles : FinalizeFails(h)
             \/ UNCHANGED vars
      PROVE  UNCHANGED Abstract!vars
  <2>1. UNCHANGED <<pending, processing, deliveries, dead, acked>>
    BY <1>8 DEF Expire, Seal, FindEmpty, Drain, HandOver, ReturnOnCancel,
                Crash, Restart, FinalizeFails, vars
  <2> QED
    BY <1>1, <2>1
<1> QED
  BY <1>2, <1>3, <1>4, <1>6, <1>7, <1>8 DEF Next, Receiver

\* Redis is a Delivery for every message whose leases outlive its work,
\* whoever crashes, whichever replies are lost and finalizations fail: one copy
\* that is finalized once, and every delivery counted.
THEOREM RedisImplements == Spec => ImplementsDelivery
  BY InitIInv, NextIInv, InitImplements, StepImplements, PTL
     DEF Spec, ImplementsDelivery, Abstract!Spec

-----------------------------------------------------------------------------
(* What a Delivery is known to do, of the steady messages in Redis.        *)

Promise == INSTANCE DeliveryProofs WITH
  Messages <- Messages \ Hasty,
  copies <- [m \in Messages \ Hasty |->
               [waiting |-> Pending(m), held |-> processing[m],
                acked |-> Acked(m), dead |-> dead[m]]],
  count <- [m \in Messages \ Hasty |->
              IF Pending(m) + processing[m] > 0 THEN deliveries[m] ELSE 0],
  open <- TRUE

\* Abstract and Promise instantiate Delivery alike.
LEMMA SamePromise ==
  /\ Abstract!Init = Promise!Init
  /\ Abstract!Next = Promise!Next
  /\ UNCHANGED Abstract!vars <=> UNCHANGED Promise!vars
  /\ Abstract!NothingUndone = Promise!NothingUndone
  /\ Abstract!OneCopy = Promise!OneCopy
  BY DEF Abstract!Init, Promise!Init, Abstract!Nowhere, Promise!Nowhere,
         Abstract!Next, Promise!Next, Abstract!Publish, Promise!Publish,
         Abstract!Claim, Promise!Claim, Abstract!GiveBack, Promise!GiveBack,
         Abstract!Finalize, Promise!Finalize, Abstract!Toggle, Promise!Toggle,
         Abstract!vars, Promise!vars, Abstract!Places, Promise!Places,
         Abstract!NothingUndone, Promise!NothingUndone,
         Abstract!Finalized, Promise!Finalized,
         Abstract!OneCopy, Promise!OneCopy

\* A steady message is in one list, and stays where it was finalized, although
\* calls are repeated after a lost reply; its counter does not fall before.
THEOREM FinalForGood ==
  Spec => []Abstract!OneCopy /\ [][Abstract!NothingUndone]_(Abstract!vars)
<1>1. Abstract!Init => Promise!Init
  BY SamePromise
<1>2. [Abstract!Next]_(Abstract!vars) => [Promise!Next]_(Promise!vars)
  BY SamePromise
<1>3. Spec => Promise!Spec
  <2>1. Spec => Abstract!Spec
    BY RedisImplements DEF ImplementsDelivery
  <2> QED
    BY <1>1, <1>2, <2>1, PTL DEF Abstract!Spec, Promise!Spec
<1>4. Promise!OneCopy => Abstract!OneCopy
  BY SamePromise
<1>5. [Promise!NothingUndone]_(Promise!vars)
        => [Abstract!NothingUndone]_(Abstract!vars)
  BY SamePromise
<1>6. Spec => []Abstract!OneCopy
  BY <1>3, <1>4, Promise!OneCopyAlways, PTL
<1>7. Spec => [][Abstract!NothingUndone]_(Abstract!vars)
  BY <1>3, <1>5, Promise!FinalForGood, PTL
<1> QED
  BY <1>6, <1>7
=============================================================================
