------------------------------ MODULE MemQProofs ------------------------------
(***************************************************************************)
(* Machine-checked theorems about the in-memory queue, for any number of   *)
(* payloads, receivers and deliveries, and whichever receivers may be      *)
(* cancelled.                                                              *)
(***************************************************************************)
EXTENDS MemQ, FiniteSetTheorems, SequenceTheorems, TLAPS

\* The types that do not follow from where the payloads are.  What is nacked
\* or new may be delivered again, and a receiver offers what it popped.
TypeInv ==
  /\ unpublished \subseteq Payloads /\ rejected \subseteq Payloads
  /\ pending \in Seq(Item)
  /\ \A k \in DOMAIN pending : pending[k].deliveries < MaxDeliveries
  /\ sealed \in BOOLEAN /\ closed \in BOOLEAN /\ notify \in BOOLEAN
  /\ dead \in Seq(Payloads)
  /\ signals \in Nat
  /\ rpc \in [Receivers -> {"lock", "wait", "offer", "exited"}]
  /\ offer \in [Receivers -> Item \cup {NoItem}]
  /\ \A r \in Receivers : rpc[r] = "offer" <=> offer[r] # NoItem
  /\ cancelled \subseteq Cancellable
  /\ open \subseteq Item
  /\ acked \subseteq Payloads /\ lost \subseteq Item

\* Where a payload can be, and the payloads that are there.
Homes ==
  {"unpublished", "rejected", "pending", "offer", "open", "lost", "acked",
   "dead"}

PendingItems == {pending[k] : k \in DOMAIN pending}
OfferItems == {offer[r] : r \in Offering}
DeadPayloads == {dead[k] : k \in DOMAIN dead}

PayloadsOf(S) == {it.payload : it \in S}

Home ==
  [unpublished |-> unpublished, rejected |-> rejected,
   pending |-> PayloadsOf(PendingItems), offer |-> PayloadsOf(OfferItems),
   open |-> PayloadsOf(open), lost |-> PayloadsOf(lost),
   acked |-> acked, dead |-> DeadPayloads]

\* A payload has one home,
HomeInv ==
  \A p \in Payloads :
    /\ \E x \in Homes : p \in Home[x]
    /\ \A x, y \in Homes : p \in Home[x] /\ p \in Home[y] => x = y

\* and is there once.
OneEach(S) == \A m, n \in S : m.payload = n.payload => m = n

PendingOnce ==
  \A k, l \in DOMAIN pending :
    pending[k].payload = pending[l].payload => k = l

OnceInv ==
  /\ PendingOnce
  /\ \A k, l \in DOMAIN dead : dead[k] = dead[l] => k = l
  /\ \A r, s \in Offering : offer[r].payload = offer[s].payload => r = s
  /\ OneEach(open)
  /\ OneEach(lost)

\* The payloads that are published and not finalized.
LiveItems == PendingItems \cup OfferItems \cup open \cup lost

Live == PayloadsOf(LiveItems)

CountInv == outstanding = Cardinality(Live)

\* Somebody will look at the queue again.
Awake ==
  \/ notify
  \/ signals > 0
  \/ \E r \in Receivers : rpc[r] \in {"lock", "offer"}

\* Somebody does, as long as no receiver was cancelled, when there is something
\* to deliver or a reason to return that nobody has seen.
WakeInv ==
  cancelled = {} =>
    /\ pending # <<>> => Awake
    /\ (closed \/ drainedLocked) /\ (\A r \in Receivers : rpc[r] # "exited")
         => Awake

IInv == TypeInv /\ HomeInv /\ OnceInv /\ CountInv /\ WakeInv

-----------------------------------------------------------------------------
(* The lists and sets the payloads are in.                                 *)

LEMMA ItemFields ==
  \A it \in Item : it.payload \in Payloads /\ it.deliveries \in 0..MaxDeliveries
  BY DEF Item

LEMMA PayloadsAdded ==
  ASSUME NEW S, NEW it
  PROVE  PayloadsOf(S \cup {it}) = PayloadsOf(S) \cup {it.payload}
  BY DEF PayloadsOf

LEMMA PayloadsRemoved ==
  ASSUME NEW S, OneEach(S), NEW it \in S
  PROVE  /\ PayloadsOf(S \ {it}) = PayloadsOf(S) \ {it.payload}
         /\ it.payload \in PayloadsOf(S)
  BY DEF PayloadsOf, OneEach

LEMMA OneMore ==
  ASSUME NEW S, OneEach(S), NEW it, it.payload \notin PayloadsOf(S)
  PROVE  OneEach(S \cup {it})
  BY DEF PayloadsOf, OneEach

\* An item is once in pending, and in one hand.
LEMMA OnceEach ==
  ASSUME OnceInv
  PROVE  OneEach(PendingItems) /\ OneEach(OfferItems)
  BY DEF OnceInv, PendingOnce, OneEach, PendingItems, OfferItems

\* An item goes to the end of pending.
LEMMA PendingAppended ==
  ASSUME TypeInv, PendingOnce, NEW it \in Item, pending' = Append(pending, it),
         it.payload \notin PayloadsOf(PendingItems)
  PROVE  /\ pending' \in Seq(Item)
         /\ PendingItems' = PendingItems \cup {it}
         /\ PendingOnce'
         /\ it.deliveries < MaxDeliveries =>
              \A k \in DOMAIN pending' : pending'[k].deliveries < MaxDeliveries
<1>1. pending \in Seq(Item)
  BY DEF TypeInv
<1>2. /\ pending' \in Seq(Item) /\ Len(pending') = Len(pending) + 1
      /\ \A k \in 1..Len(pending) : pending'[k] = pending[k]
      /\ pending'[Len(pending) + 1] = it
  BY <1>1, AppendProperties
<1>3. PICK n : n = Len(pending)
  OBVIOUS
<1>4. n \in Nat /\ DOMAIN pending = 1..n /\ DOMAIN pending' = 1..n + 1
  BY <1>1, <1>2, <1>3, LenProperties
<1>5. \A k \in 1..n + 1 : k \in 1..n \/ k = n + 1
  BY <1>4
<1>6. PendingItems' = PendingItems \cup {it}
  <2>1. ASSUME NEW e \in PendingItems' PROVE e \in PendingItems \cup {it}
    BY <1>2, <1>3, <1>4, <1>5 DEF PendingItems
  <2>2. ASSUME NEW e \in PendingItems PROVE e \in PendingItems'
    <3>1. PICK k \in 1..n : e = pending[k]
      BY <1>4 DEF PendingItems
    <3>2. k \in 1..n + 1 /\ pending'[k] = pending[k]
      BY <1>2, <1>3, <1>4
    <3> QED
      BY <1>4, <3>1, <3>2 DEF PendingItems
  <2>3. it \in PendingItems'
    <3>1. n + 1 \in 1..n + 1
      BY <1>4
    <3> QED
      BY <1>2, <1>3, <1>4, <3>1 DEF PendingItems
  <2> QED
    BY <2>1, <2>2, <2>3
<1>7. \A k \in 1..n : pending[k].payload # it.payload
  BY <1>4 DEF PendingItems, PayloadsOf
<1>8. PendingOnce'
  <2> SUFFICES ASSUME NEW k \in 1..n + 1, NEW l \in 1..n + 1,
                      pending'[k].payload = pending'[l].payload
               PROVE  k = l
    BY <1>4 DEF PendingOnce
  <2>1. CASE k \in 1..n /\ l \in 1..n
    BY <1>2, <1>3, <1>4, <2>1 DEF PendingOnce
  <2>2. CASE k = n + 1 \/ l = n + 1
    BY <1>2, <1>3, <1>5, <1>7, <2>2
  <2> QED
    BY <1>5, <2>1, <2>2
<1>9. ASSUME it.deliveries < MaxDeliveries
      PROVE  \A k \in DOMAIN pending' : pending'[k].deliveries < MaxDeliveries
  BY <1>2, <1>3, <1>4, <1>5, <1>9 DEF TypeInv
<1> QED
  BY <1>2, <1>6, <1>8, <1>9

\* The first pending item is popped.
LEMMA PendingPopped ==
  ASSUME TypeInv, PendingOnce, pending # <<>>, pending' = Tail(pending)
  PROVE  /\ Head(pending) \in Item
         /\ Head(pending).deliveries < MaxDeliveries
         /\ Head(pending) \in PendingItems
         /\ pending' \in Seq(Item)
         /\ PendingItems' = PendingItems \ {Head(pending)}
         /\ PendingOnce'
         /\ \A k \in DOMAIN pending' : pending'[k].deliveries < MaxDeliveries
<1>1. pending \in Seq(Item)
  BY DEF TypeInv
<1>2. PICK n : n = Len(pending)
  OBVIOUS
<1>3. n \in Nat \ {0} /\ DOMAIN pending = 1..n
  BY <1>1, <1>2, LenProperties, EmptySeq
<1>4. /\ Head(pending) = pending[1] /\ Head(pending) \in Item
      /\ pending' \in Seq(Item) /\ DOMAIN pending' = 1..n - 1
      /\ \A k \in 1..n - 1 : pending'[k] = pending[k + 1]
  BY <1>1, <1>2, <1>3, HeadTailProperties, LenProperties
<1>5. 1 \in 1..n /\ \A k \in 1..n - 1 : k + 1 \in 1..n /\ k + 1 # 1
  BY <1>3
<1>6. Head(pending).deliveries < MaxDeliveries
  BY <1>3, <1>4, <1>5 DEF TypeInv
<1>7. PendingItems' = PendingItems \ {Head(pending)}
  <2>1. ASSUME NEW e \in PendingItems'
        PROVE  e \in PendingItems \ {Head(pending)}
    <3>1. PICK k \in 1..n - 1 : e = pending'[k]
      BY <1>4 DEF PendingItems
    <3>2. e = pending[k + 1] /\ k + 1 \in 1..n
      BY <1>4, <1>5, <3>1
    <3>3. pending[k + 1].payload # pending[1].payload
      BY <1>3, <1>5 DEF PendingOnce
    <3> QED
      BY <1>3, <1>4, <3>2, <3>3 DEF PendingItems
  <2>2. ASSUME NEW e \in PendingItems, e # Head(pending)
        PROVE  e \in PendingItems'
    <3>1. PICK k \in 1..n : e = pending[k]
      BY <1>3 DEF PendingItems
    <3>2. k # 1
      BY <1>4, <2>2, <3>1
    <3>3. k - 1 \in 1..n - 1 /\ (k - 1) + 1 = k
      BY <1>3, <3>2
    <3> QED
      BY <1>4, <3>1, <3>3 DEF PendingItems
  <2> QED
    BY <2>1, <2>2
<1>8. PendingOnce'
  <2> SUFFICES ASSUME NEW k \in 1..n - 1, NEW l \in 1..n - 1,
                      pending'[k].payload = pending'[l].payload
               PROVE  k = l
    BY <1>4 DEF PendingOnce
  <2>1. k + 1 = l + 1
    BY <1>3, <1>4, <1>5 DEF PendingOnce
  <2> QED
    BY <1>3, <2>1
<1>9. \A k \in DOMAIN pending' : pending'[k].deliveries < MaxDeliveries
  BY <1>3, <1>4, <1>5 DEF TypeInv
<1>10. Head(pending) \in PendingItems
  BY <1>3, <1>4, <1>5 DEF PendingItems
<1> QED
  BY <1>4, <1>6, <1>7, <1>8, <1>9, <1>10

\* A payload goes to the dead letters.
LEMMA DeadAppended ==
  ASSUME TypeInv, OnceInv, NEW p \in Payloads, dead' = Append(dead, p),
         p \notin DeadPayloads
  PROVE  /\ dead' \in Seq(Payloads)
         /\ DeadPayloads' = DeadPayloads \cup {p}
         /\ \A k, l \in DOMAIN dead' : dead'[k] = dead'[l] => k = l
<1>1. dead \in Seq(Payloads)
  BY DEF TypeInv
<1>2. /\ dead' \in Seq(Payloads) /\ Len(dead') = Len(dead) + 1
      /\ \A k \in 1..Len(dead) : dead'[k] = dead[k]
      /\ dead'[Len(dead) + 1] = p
  BY <1>1, AppendProperties
<1>3. PICK n : n = Len(dead)
  OBVIOUS
<1>4. n \in Nat /\ DOMAIN dead = 1..n /\ DOMAIN dead' = 1..n + 1
  BY <1>1, <1>2, <1>3, LenProperties
<1>5. \A k \in 1..n + 1 : k \in 1..n \/ k = n + 1
  BY <1>4
<1>6. DeadPayloads' = DeadPayloads \cup {p}
  <2>1. ASSUME NEW q \in DeadPayloads' PROVE q \in DeadPayloads \cup {p}
    BY <1>2, <1>3, <1>4, <1>5 DEF DeadPayloads
  <2>2. ASSUME NEW q \in DeadPayloads PROVE q \in DeadPayloads'
    <3>1. PICK k \in 1..n : q = dead[k]
      BY <1>4 DEF DeadPayloads
    <3>2. k \in 1..n + 1 /\ dead'[k] = dead[k]
      BY <1>2, <1>3, <1>4
    <3> QED
      BY <1>4, <3>1, <3>2 DEF DeadPayloads
  <2>3. p \in DeadPayloads'
    <3>1. n + 1 \in 1..n + 1
      BY <1>4
    <3> QED
      BY <1>2, <1>3, <1>4, <3>1 DEF DeadPayloads
  <2> QED
    BY <2>1, <2>2, <2>3
<1>7. \A k \in 1..n : dead[k] # p
  BY <1>4 DEF DeadPayloads
<1>8. ASSUME NEW k \in 1..n + 1, NEW l \in 1..n + 1, dead'[k] = dead'[l]
      PROVE  k = l
  <2>1. CASE k \in 1..n /\ l \in 1..n
    BY <1>2, <1>3, <1>4, <1>8, <2>1 DEF OnceInv
  <2>2. CASE k = n + 1 \/ l = n + 1
    BY <1>2, <1>3, <1>5, <1>7, <1>8, <2>2
  <2> QED
    BY <1>5, <2>1, <2>2
<1> QED
  BY <1>2, <1>4, <1>6, <1>8

\* A receiver takes an item in hand, or lets go of it.
LEMMA OfferTaken ==
  ASSUME TypeInv, OnceInv, NEW r \in Receivers, NEW it \in Item,
         offer[r] = NoItem, offer' = [offer EXCEPT ![r] = it],
         it.payload \notin PayloadsOf(OfferItems)
  PROVE  /\ OfferItems' = OfferItems \cup {it}
         /\ Offering' = Offering \cup {r}
         /\ \A a, b \in Offering' :
              offer'[a].payload = offer'[b].payload => a = b
<1>1. \A a \in Receivers : offer'[a] = IF a = r THEN it ELSE offer[a]
  BY DEF TypeInv
<1>2. it # NoItem
  BY PayloadAssumption
<1>3. Offering' = Offering \cup {r} /\ r \notin Offering
  BY <1>1, <1>2 DEF Offering
<1>4. OfferItems' = OfferItems \cup {it}
  BY <1>1, <1>3 DEF OfferItems, Offering
<1>5. \A a \in Offering : offer[a].payload # it.payload
  BY DEF OfferItems, PayloadsOf
<1> QED
  BY <1>1, <1>3, <1>4, <1>5 DEF OnceInv, Offering

LEMMA OfferDropped ==
  ASSUME TypeInv, OnceInv, NEW r \in Offering,
         offer' = [offer EXCEPT ![r] = NoItem]
  PROVE  /\ offer[r] \in Item /\ offer[r] \in OfferItems
         /\ OfferItems' = OfferItems \ {offer[r]}
         /\ Offering' = Offering \ {r}
         /\ \A a, b \in Offering' :
              offer'[a].payload = offer'[b].payload => a = b
<1>1. /\ r \in Receivers
      /\ \A a \in Receivers : offer'[a] = IF a = r THEN NoItem ELSE offer[a]
  BY DEF TypeInv, Offering
<1>2. Offering' = Offering \ {r}
  BY <1>1 DEF Offering
<1>3. offer[r] \in Item /\ offer[r] \in OfferItems
  BY <1>1 DEF Offering, OfferItems, TypeInv
<1>4. \A a \in Offering' : offer'[a] = offer[a] /\ a \in Offering
  BY <1>1, <1>2 DEF Offering
<1>5. OfferItems' = OfferItems \ {offer[r]}
  <2>1. ASSUME NEW e \in OfferItems' PROVE e \in OfferItems \ {offer[r]}
    BY <1>2, <1>4 DEF OfferItems, OnceInv
  <2>2. ASSUME NEW e \in OfferItems, e # offer[r] PROVE e \in OfferItems'
    BY <1>2, <1>4, <2>2 DEF OfferItems
  <2> QED
    BY <2>1, <2>2
<1> QED
  BY <1>2, <1>3, <1>4, <1>5 DEF OnceInv

-----------------------------------------------------------------------------
(* Every step leaves the payloads where they are or moves one of them.     *)

LiveHomes == {"pending", "offer", "open", "lost"}

Moved(p, x, y) ==
  /\ p \in Payloads /\ x \in Homes /\ y \in Homes /\ x # y /\ p \in Home[x]
  /\ \A h \in Homes :
       Home'[h] = IF h = x THEN Home[h] \ {p}
                  ELSE IF h = y THEN Home[h] \cup {p} ELSE Home[h]
  /\ \A it : it.payload # p => (it \in LiveItems' <=> it \in LiveItems)
  /\ outstanding' = IF x \in LiveHomes
                    THEN IF y \in LiveHomes THEN outstanding
                         ELSE outstanding - 1
                    ELSE IF y \in LiveHomes THEN outstanding + 1
                         ELSE outstanding

Stayed == UNCHANGED <<Home, LiveItems, outstanding>>

LEMMA Elsewhere ==
  ASSUME HomeInv, NEW p \in Payloads, NEW x \in Homes, NEW y \in Homes,
         x # y, p \in Home[x]
  PROVE  p \notin Home[y]
  BY DEF HomeInv

\* What happens to the sets of Home.
LEMMA HomeMoves ==
  ASSUME NEW p \in Payloads, NEW y \in {"pending", "acked", "dead"},
         UNCHANGED <<unpublished, rejected>>,
         PayloadsOf(open)' = PayloadsOf(open) \ {p},
         PayloadsOf(OfferItems)' = PayloadsOf(OfferItems),
         PayloadsOf(lost)' = PayloadsOf(lost),
         PayloadsOf(PendingItems)'
           = IF y = "pending" THEN PayloadsOf(PendingItems) \cup {p}
             ELSE PayloadsOf(PendingItems),
         acked' = IF y = "acked" THEN acked \cup {p} ELSE acked,
         DeadPayloads' = IF y = "dead" THEN DeadPayloads \cup {p}
                         ELSE DeadPayloads
  PROVE  \A h \in Homes :
           Home'[h] = IF h = "open" THEN Home[h] \ {p}
                      ELSE IF h = y THEN Home[h] \cup {p} ELSE Home[h]
<1> TAKE h \in Homes
<1>1. CASE h \in {"unpublished", "rejected", "offer", "lost"}
  BY <1>1 DEF Home
<1>2. CASE h = "open"
  BY <1>2 DEF Home
<1>3. CASE h = "pending"
  BY <1>3 DEF Home
<1>4. CASE h = "acked"
  BY <1>4 DEF Home
<1>5. CASE h = "dead"
  BY <1>5 DEF Home
<1> QED
  BY <1>1, <1>2, <1>3, <1>4, <1>5 DEF Homes

LEMMA PublishMoves ==
  ASSUME TypeInv, HomeInv, OnceInv, NEW p \in Payloads, Publish(p)
  PROVE  /\ TypeInv' /\ OnceInv'
         /\ IF sealed \/ closed THEN Moved(p, "unpublished", "rejected")
            ELSE /\ Moved(p, "unpublished", "pending")
                 /\ PendingItems'
                      = PendingItems \cup {[payload |-> p, deliveries |-> 0]}
<1> USE DEF producers, flags, receivers, handles
<1>1. /\ p \in unpublished /\ unpublished' = unpublished \ {p}
      /\ UNCHANGED <<flags, dead, notify, receivers, handles>>
  BY DEF Publish
<1>2. p \in Home["unpublished"]
  BY <1>1 DEF Home
<1>3. UNCHANGED <<OfferItems, Offering, DeadPayloads>>
  BY <1>1 DEF OfferItems, Offering, DeadPayloads
<1>4. CASE sealed \/ closed
  <2>1. /\ rejected' = rejected \cup {p}
        /\ UNCHANGED <<pending, outstanding, signals>>
    BY <1>4 DEF Publish
  <2>2. UNCHANGED PendingItems
    BY <2>1 DEF PendingItems
  <2>3. TypeInv' /\ OnceInv'
    BY <1>1, <1>3, <2>1 DEF TypeInv, OnceInv, PendingOnce
  <2>4. Moved(p, "unpublished", "rejected")
    BY <1>1, <1>2, <1>3, <2>1, <2>2
       DEF Moved, Home, Homes, LiveHomes, LiveItems
  <2> QED
    BY <1>4, <2>3, <2>4
<1>5. CASE ~(sealed \/ closed)
  <2>1. PICK it : it = [payload |-> p, deliveries |-> 0]
    OBVIOUS
  <2>2. /\ it \in Item /\ it.payload = p /\ it.deliveries < MaxDeliveries
    BY <2>1, BoundAssumption DEF Item
  <2>3. /\ pending' = Append(pending, it) /\ outstanding' = outstanding + 1
        /\ signals' = signals + 1 /\ UNCHANGED rejected
    BY <1>5, <2>1 DEF Publish, Signals
  <2>4. p \notin PayloadsOf(PendingItems)
    BY <1>2, Elsewhere DEF Home, Homes
  <2>5. /\ pending' \in Seq(Item)
        /\ PendingItems' = PendingItems \cup {it}
        /\ PendingOnce'
        /\ \A k \in DOMAIN pending' : pending'[k].deliveries < MaxDeliveries
    BY <2>2, <2>3, <2>4, PendingAppended DEF OnceInv
  <2>6. PayloadsOf(PendingItems)' = PayloadsOf(PendingItems) \cup {p}
    BY <2>2, <2>5 DEF PayloadsOf
  <2>7. TypeInv'
    BY <1>1, <2>3, <2>5 DEF TypeInv
  <2>8. OnceInv'
    BY <1>1, <1>3, <2>5 DEF OnceInv
  <2>9. Moved(p, "unpublished", "pending")
    <3>1. \A e : e.payload # p => (e \in LiveItems' <=> e \in LiveItems)
      BY <1>1, <1>3, <2>2, <2>5 DEF LiveItems
    <3> QED
      BY <1>1, <1>2, <1>3, <2>3, <2>6, <3>1
         DEF Moved, Home, Homes, LiveHomes
  <2> QED
    BY <1>5, <2>1, <2>5, <2>7, <2>8, <2>9
<1> QED
  BY <1>4, <1>5

LEMMA PopMoves ==
  ASSUME TypeInv, HomeInv, OnceInv, NEW r \in Receivers, Pop(r)
  PROVE  /\ TypeInv' /\ OnceInv'
         /\ Moved(Head(pending).payload, "pending", "offer")
         /\ Head(pending) \in PendingItems
         /\ OfferItems' = OfferItems \cup {Counted(Head(pending))}
<1> USE DEF producers, flags, receivers, handles
<1>1. PICK it : it = Head(pending)
  OBVIOUS
<1>2. PICK one : one = Counted(it)
  OBVIOUS
<1>3. /\ rpc[r] = "lock" /\ pending # <<>>
      /\ offer' = [offer EXCEPT ![r] = one] /\ pending' = Tail(pending)
      /\ rpc' = [rpc EXCEPT ![r] = "offer"]
      /\ UNCHANGED <<producers, outstanding, flags, dead, notify, signals,
                     cancelled, handles>>
  BY <1>1, <1>2 DEF Pop, Goto
<1>4. /\ it \in Item /\ it.deliveries < MaxDeliveries /\ it \in PendingItems
      /\ pending' \in Seq(Item) /\ PendingItems' = PendingItems \ {it}
      /\ PendingOnce'
      /\ \A k \in DOMAIN pending' : pending'[k].deliveries < MaxDeliveries
  BY <1>1, <1>3, PendingPopped DEF OnceInv
<1>5. one \in Item /\ one.payload = it.payload
  <2>1. it.deliveries + 1 \in 0..MaxDeliveries
    BY <1>4, ItemFields, BoundAssumption
  <2> QED
    BY <1>2, <1>4, <2>1 DEF Counted, Item
<1>6. PICK p \in Payloads : p = it.payload
  BY <1>4, ItemFields
<1>7. OneEach(PendingItems) /\ OneEach(OfferItems)
  BY OnceEach
<1>8. p \in Home["pending"]
  BY <1>4, <1>6 DEF Home, PayloadsOf
<1>9. p \notin PayloadsOf(OfferItems)
  BY <1>8, Elsewhere DEF Home, Homes
<1>10. offer[r] = NoItem
  BY <1>3 DEF TypeInv
<1>11. /\ OfferItems' = OfferItems \cup {one}
       /\ \A a, b \in Offering' :
            offer'[a].payload = offer'[b].payload => a = b
  BY <1>3, <1>5, <1>6, <1>9, <1>10, OfferTaken
<1>12. /\ PayloadsOf(PendingItems)' = PayloadsOf(PendingItems) \ {p}
       /\ PayloadsOf(OfferItems)' = PayloadsOf(OfferItems) \cup {p}
  <2>1. PayloadsOf(PendingItems \ {it}) = PayloadsOf(PendingItems) \ {p}
    BY <1>4, <1>6, <1>7, PayloadsRemoved
  <2>2. PayloadsOf(OfferItems \cup {one}) = PayloadsOf(OfferItems) \cup {p}
    BY <1>5, <1>6, PayloadsAdded
  <2> QED
    BY <1>4, <1>11, <2>1, <2>2 DEF PayloadsOf
<1>13. TypeInv'
  <2>1. offer' \in [Receivers -> Item \cup {NoItem}]
    BY <1>3, <1>5 DEF TypeInv
  <2>2. rpc' \in [Receivers -> {"lock", "wait", "offer", "exited"}]
    BY <1>3 DEF TypeInv
  <2>3. \A s \in Receivers : rpc'[s] = "offer" <=> offer'[s] # NoItem
    BY <1>3, <1>5, PayloadAssumption DEF TypeInv
  <2> QED
    BY <1>3, <1>4, <2>1, <2>2, <2>3 DEF TypeInv
<1>14. OnceInv'
  BY <1>3, <1>4, <1>11 DEF OnceInv
<1>15. Moved(p, "pending", "offer")
  <2>1. \A e : e.payload # p => (e \in LiveItems' <=> e \in LiveItems)
    BY <1>3, <1>4, <1>5, <1>6, <1>11 DEF LiveItems
  <2>2. UNCHANGED DeadPayloads
    BY <1>3 DEF DeadPayloads
  <2> QED
    BY <1>3, <1>6, <1>8, <1>12, <2>1, <2>2
       DEF Moved, Home, Homes, LiveHomes
<1> QED
  BY <1>1, <1>2, <1>4, <1>6, <1>11, <1>13, <1>14, <1>15

\* The item a receiver holds goes to the consumer, or is lost with it.
LEMMA OfferMoves ==
  ASSUME TypeInv, HomeInv, OnceInv, NEW r \in Receivers,
         HandOver(r) \/ ReturnOnCancel(r), rpc[r] = "offer"
  PROVE  /\ TypeInv' /\ OnceInv'
         /\ offer[r] \in OfferItems
         /\ \/ /\ Moved(offer[r].payload, "offer", "open")
               /\ open' = open \cup {offer[r]}
            \/ /\ Moved(offer[r].payload, "offer", "lost")
               /\ lost' = lost \cup {offer[r]}
<1> USE DEF producers, flags, receivers, handles
<1>1. PICK it : it = offer[r]
  OBVIOUS
<1>2. /\ offer' = [offer EXCEPT ![r] = NoItem]
      /\ \/ rpc' = [rpc EXCEPT ![r] = "lock"]
         \/ rpc' = [rpc EXCEPT ![r] = "exited"]
      /\ UNCHANGED <<producers, pending, outstanding, flags, dead, notify,
                     signals, cancelled, acked>>
  BY DEF HandOver, ReturnOnCancel, Goto
<1>3. r \in Offering /\ it # NoItem
  BY <1>1 DEF Offering, TypeInv
<1>4. \/ open' = open \cup {it} /\ UNCHANGED lost
      \/ lost' = lost \cup {it} /\ UNCHANGED open
  BY <1>1, <1>3 DEF HandOver, ReturnOnCancel
<1>5. /\ it \in Item /\ it \in OfferItems
      /\ OfferItems' = OfferItems \ {it}
      /\ \A a, b \in Offering' :
           offer'[a].payload = offer'[b].payload => a = b
  BY <1>1, <1>2, <1>3, OfferDropped
<1>6. PICK p \in Payloads : p = it.payload
  BY <1>5, ItemFields
<1>7. p \in Home["offer"]
  BY <1>5, <1>6 DEF Home, PayloadsOf
<1>8. p \notin PayloadsOf(open) /\ p \notin PayloadsOf(lost)
  BY <1>7, Elsewhere DEF Home, Homes
<1>9. PayloadsOf(OfferItems)' = PayloadsOf(OfferItems) \ {p}
  <2>1. PayloadsOf(OfferItems \ {it}) = PayloadsOf(OfferItems) \ {p}
    BY <1>5, <1>6, OnceEach, PayloadsRemoved
  <2> QED
    BY <1>5, <2>1 DEF PayloadsOf
<1>10. UNCHANGED <<PendingItems, DeadPayloads>>
  BY <1>2 DEF PendingItems, DeadPayloads
<1>11. TypeInv'
  <2>1. offer' \in [Receivers -> Item \cup {NoItem}]
    BY <1>2 DEF TypeInv
  <2>2. /\ rpc' \in [Receivers -> {"lock", "wait", "offer", "exited"}]
        /\ \A s \in Receivers : rpc'[s] = "offer" <=> offer'[s] # NoItem
    BY <1>2 DEF TypeInv
  <2>3. open' \subseteq Item /\ lost' \subseteq Item
    BY <1>4, <1>5 DEF TypeInv
  <2> QED
    BY <1>2, <2>1, <2>2, <2>3 DEF TypeInv
<1>12. OnceInv'
  <2>1. OneEach(open) /\ OneEach(lost)
    BY DEF OnceInv
  <2>2. OneEach(open \cup {it}) /\ OneEach(lost \cup {it})
    BY <1>6, <1>8, <2>1, OneMore
  <2>3. OneEach(open') /\ OneEach(lost')
    BY <1>4, <2>1, <2>2
  <2> QED
    BY <1>2, <1>5, <2>3 DEF OnceInv, PendingOnce, OneEach
<1>13. \A e : e.payload # p => (e \in LiveItems' <=> e \in LiveItems)
  BY <1>4, <1>5, <1>6, <1>10 DEF LiveItems
<1>14. CASE open' = open \cup {it} /\ UNCHANGED lost
  <2>1. PayloadsOf(open)' = PayloadsOf(open) \cup {p}
    BY <1>6, <1>14 DEF PayloadsOf
  <2>2. PayloadsOf(lost)' = PayloadsOf(lost)
    BY <1>14 DEF PayloadsOf
  <2>3. Moved(p, "offer", "open")
    BY <1>2, <1>7, <1>9, <1>10, <1>13, <2>1, <2>2
       DEF Moved, Home, Homes, LiveHomes
  <2> QED
    BY <1>1, <1>5, <1>6, <1>11, <1>12, <1>14, <2>3
<1>15. CASE lost' = lost \cup {it} /\ UNCHANGED open
  <2>1. PayloadsOf(lost)' = PayloadsOf(lost) \cup {p}
    BY <1>6, <1>15 DEF PayloadsOf
  <2>2. PayloadsOf(open)' = PayloadsOf(open)
    BY <1>15 DEF PayloadsOf
  <2>3. Moved(p, "offer", "lost")
    BY <1>2, <1>7, <1>9, <1>10, <1>13, <2>1, <2>2
       DEF Moved, Home, Homes, LiveHomes
  <2> QED
    BY <1>1, <1>5, <1>6, <1>11, <1>12, <1>15, <2>3
<1> QED
  BY <1>4, <1>14, <1>15

\* The consumer finalizes a message.
LEMMA FinalizeMoves ==
  ASSUME TypeInv, HomeInv, OnceInv, NEW m \in open, Finalize(m)
  PROVE  /\ TypeInv' /\ OnceInv'
         /\ \/ Moved(m.payload, "open", "acked")
            \/ Moved(m.payload, "open", "dead")
            \/ /\ Moved(m.payload, "open", "pending")
               /\ PendingItems' = PendingItems \cup {m}
<1> USE DEF producers, flags, receivers, handles
<1>1. /\ open' = open \ {m} /\ signals' = signals + 1
      /\ UNCHANGED <<producers, flags, notify, receivers, lost>>
  BY DEF Finalize, Ack, Nack, DeadLetter, Once, Signals
<1>2. m \in Item
  BY DEF TypeInv
<1>3. PICK p \in Payloads : p = m.payload
  BY <1>2, ItemFields
<1>4. OneEach(open)
  BY DEF OnceInv
<1>5. /\ PayloadsOf(open)' = PayloadsOf(open) \ {p}
      /\ p \in Home["open"]
  <2>1. /\ PayloadsOf(open \ {m}) = PayloadsOf(open) \ {p}
        /\ p \in PayloadsOf(open)
    BY <1>3, <1>4, PayloadsRemoved
  <2> QED
    BY <1>1, <2>1 DEF PayloadsOf, Home
<1>6. OneEach(open') /\ open' \subseteq Item
  BY <1>1, <1>4 DEF OneEach, TypeInv
<1>7. /\ UNCHANGED <<OfferItems, Offering>>
      /\ PayloadsOf(lost)' = PayloadsOf(lost)
      /\ PayloadsOf(OfferItems)' = PayloadsOf(OfferItems)
  BY <1>1 DEF OfferItems, Offering, PayloadsOf
<1>8. CASE Ack(m)
  <2>1. /\ acked' = acked \cup {p} /\ outstanding' = outstanding - 1
        /\ UNCHANGED <<pending, dead>>
    BY <1>3, <1>8 DEF Ack
  <2>2. /\ UNCHANGED <<PendingItems, DeadPayloads>>
        /\ PayloadsOf(PendingItems)' = PayloadsOf(PendingItems)
    BY <2>1 DEF PendingItems, DeadPayloads, PayloadsOf
  <2>3. TypeInv'
    BY <1>1, <1>6, <2>1 DEF TypeInv
  <2>4. OnceInv'
    BY <1>1, <1>6, <1>7, <2>1 DEF OnceInv, PendingOnce, OneEach
  <2>5. \A e : e.payload # p => (e \in LiveItems' <=> e \in LiveItems)
    BY <1>1, <1>3, <1>7, <2>2 DEF LiveItems
  <2>6. Moved(p, "open", "acked")
    <3>1. \A h \in Homes :
            Home'[h] = IF h = "open" THEN Home[h] \ {p}
                       ELSE IF h = "acked" THEN Home[h] \cup {p} ELSE Home[h]
      BY <1>1, <1>5, <1>7, <2>1, <2>2, HomeMoves
    <3> QED
      BY <1>5, <2>1, <2>5, <3>1 DEF Moved, Homes, LiveHomes
  <2> QED
    BY <1>3, <2>3, <2>4, <2>6
<1>9. CASE DeadLetter(m)
  <2>1. /\ dead' = Append(dead, p) /\ outstanding' = outstanding - 1
        /\ UNCHANGED <<pending, acked>>
    BY <1>3, <1>9 DEF DeadLetter
  <2>2. p \notin DeadPayloads
    BY <1>5, Elsewhere DEF Home, Homes
  <2>3. /\ dead' \in Seq(Payloads)
        /\ DeadPayloads' = DeadPayloads \cup {p}
        /\ \A k, l \in DOMAIN dead' : dead'[k] = dead'[l] => k = l
    BY <2>1, <2>2, DeadAppended
  <2>4. /\ UNCHANGED PendingItems
        /\ PayloadsOf(PendingItems)' = PayloadsOf(PendingItems)
    BY <2>1 DEF PendingItems, PayloadsOf
  <2>5. TypeInv'
    BY <1>1, <1>6, <2>1, <2>3 DEF TypeInv
  <2>6. OnceInv'
    BY <1>1, <1>6, <1>7, <2>1, <2>3 DEF OnceInv, PendingOnce, OneEach
  <2>7. \A e : e.payload # p => (e \in LiveItems' <=> e \in LiveItems)
    BY <1>1, <1>3, <1>7, <2>4 DEF LiveItems
  <2>8. Moved(p, "open", "dead")
    <3>1. \A h \in Homes :
            Home'[h] = IF h = "open" THEN Home[h] \ {p}
                       ELSE IF h = "dead" THEN Home[h] \cup {p} ELSE Home[h]
      BY <1>1, <1>5, <1>7, <2>1, <2>3, <2>4, HomeMoves
    <3> QED
      BY <1>5, <2>1, <2>7, <3>1 DEF Moved, Homes, LiveHomes
  <2> QED
    BY <1>3, <2>5, <2>6, <2>8
<1>10. CASE Nack(m)
  <2>1. /\ pending' = Append(pending, m) /\ m.deliveries < MaxDeliveries
        /\ UNCHANGED <<outstanding, dead, acked>>
    BY <1>10 DEF Nack
  <2>2. p \notin PayloadsOf(PendingItems)
    BY <1>5, Elsewhere DEF Home, Homes
  <2>3. /\ pending' \in Seq(Item)
        /\ PendingItems' = PendingItems \cup {m}
        /\ PendingOnce'
        /\ \A k \in DOMAIN pending' : pending'[k].deliveries < MaxDeliveries
    BY <1>2, <1>3, <2>1, <2>2, PendingAppended DEF OnceInv
  <2>4. /\ UNCHANGED DeadPayloads
        /\ PayloadsOf(PendingItems)' = PayloadsOf(PendingItems) \cup {p}
    BY <1>3, <2>1, <2>3 DEF DeadPayloads, PayloadsOf
  <2>5. TypeInv'
    BY <1>1, <1>6, <2>1, <2>3 DEF TypeInv
  <2>6. OnceInv'
    BY <1>1, <1>6, <1>7, <2>1, <2>3 DEF OnceInv, OneEach
  <2>7. \A e : e.payload # p => (e \in LiveItems' <=> e \in LiveItems)
    BY <1>1, <1>3, <1>7, <2>3 DEF LiveItems
  <2>8. Moved(p, "open", "pending")
    <3>1. \A h \in Homes :
            Home'[h] = IF h = "open" THEN Home[h] \ {p}
                       ELSE IF h = "pending" THEN Home[h] \cup {p} ELSE Home[h]
      BY <1>1, <1>5, <1>7, <2>1, <2>4, HomeMoves
    <3> QED
      BY <1>5, <2>1, <2>7, <3>1 DEF Moved, Homes, LiveHomes
  <2> QED
    BY <1>3, <2>3, <2>5, <2>6, <2>8
<1> QED
  BY <1>8, <1>9, <1>10 DEF Finalize

\* The steps that move no payload.
LEMMA OthersStay ==
  ASSUME TypeInv, OnceInv,
         \/ Seal \/ Close \/ Signal
         \/ \E r \in Receivers :
              \/ FindEmpty(r) \/ Wake(r) \/ CancelCtx(r)
              \/ ReturnOnCancel(r) /\ rpc[r] = "wait"
         \/ UNCHANGED vars
  PROVE  TypeInv' /\ OnceInv' /\ Stayed
<1> USE DEF producers, flags, receivers, handles
<1>1. UNCHANGED <<producers, pending, outstanding, dead, open, acked>>
  BY DEF Seal, Close, Signal, FindEmpty, Wake, CancelCtx, ReturnOnCancel, vars
<1>2. /\ sealed' \in BOOLEAN /\ closed' \in BOOLEAN /\ notify' \in BOOLEAN
      /\ signals' \in Nat
  <2>1. CASE Seal \/ Close
    <3>1. /\ sealed' \in {sealed, TRUE} /\ closed' \in {closed, TRUE}
          /\ notify' = notify
      BY <2>1 DEF Seal, Close
    <3>2. signals' = signals + 1
      BY <2>1 DEF Seal, Close, Signals
    <3>3. signals' \in Nat
      BY <3>2 DEF TypeInv
    <3>4. /\ sealed' \in BOOLEAN /\ closed' \in BOOLEAN
          /\ notify' \in BOOLEAN
      BY <3>1, Zenon DEF TypeInv
    <3> QED
      BY <3>3, <3>4
  <2>2. CASE Signal
    BY <2>2 DEF Signal, TypeInv
  <2>3. CASE ~(Seal \/ Close \/ Signal)
    BY <2>3 DEF FindEmpty, Wake, CancelCtx, ReturnOnCancel, TypeInv, vars
  <2> QED
    BY <2>1, <2>2, <2>3
<1>3. offer' = offer /\ lost' = lost
  <2>1. ASSUME NEW r \in Receivers, ReturnOnCancel(r), rpc[r] = "wait"
        PROVE  offer' = offer /\ lost' = lost
    <3>1. offer[r] = NoItem
      BY <2>1 DEF TypeInv
    <3> QED
      BY <2>1, <3>1 DEF ReturnOnCancel, TypeInv
  <2> QED
    BY <2>1 DEF Seal, Close, Signal, FindEmpty, Wake, CancelCtx, vars
<1>4. cancelled' \subseteq Cancellable
  BY DEF Seal, Close, Signal, FindEmpty, Wake, CancelCtx, ReturnOnCancel,
         TypeInv, vars
<1>5. \/ rpc' = rpc
      \/ \E r \in Receivers : \E x \in {"lock", "wait", "exited"} :
           rpc[r] # "offer" /\ rpc' = [rpc EXCEPT ![r] = x]
  BY DEF Seal, Close, Signal, FindEmpty, Wake, CancelCtx, ReturnOnCancel,
         Goto, vars
<1>6. /\ rpc' \in [Receivers -> {"lock", "wait", "offer", "exited"}]
      /\ \A r \in Receivers : rpc'[r] = "offer" <=> rpc[r] = "offer"
  BY <1>5 DEF TypeInv
<1>7. TypeInv'
  BY <1>1, <1>2, <1>3, <1>4, <1>6 DEF TypeInv
<1>8. UNCHANGED <<PendingItems, OfferItems, DeadPayloads, Offering>>
  BY <1>1, <1>3 DEF PendingItems, OfferItems, DeadPayloads, Offering
<1>9. OnceInv'
  BY <1>1, <1>3, <1>8 DEF OnceInv, PendingOnce, OneEach
<1>10. Stayed
  BY <1>1, <1>3, <1>8 DEF Stayed, Home, LiveItems, PayloadsOf
<1> QED
  BY <1>7, <1>9, <1>10

-----------------------------------------------------------------------------
(* The invariant.                                                          *)

\* The moves of a step.
LEMMA NextMoves ==
  ASSUME TypeInv, HomeInv, OnceInv, [Next]_vars
  PROVE  /\ TypeInv' /\ OnceInv'
         /\ Stayed \/ \E p \in Payloads : \E x, y \in Homes : Moved(p, x, y)
<1> DEFINE Moving == \E p \in Payloads : \E x, y \in Homes : Moved(p, x, y)
<1>1. ASSUME NEW p, NEW x, NEW y, Moved(p, x, y) PROVE Moving
  BY <1>1 DEF Moved
<1> HIDE DEF Moving
<1>2. ASSUME NEW p \in Payloads, Publish(p)
      PROVE  TypeInv' /\ OnceInv' /\ Moving
  BY <1>1, <1>2, PublishMoves
<1>3. ASSUME NEW r \in Receivers, Pop(r)
      PROVE  TypeInv' /\ OnceInv' /\ Moving
  BY <1>1, <1>3, PopMoves
<1>4. ASSUME NEW r \in Receivers, HandOver(r) \/ ReturnOnCancel(r),
             rpc[r] = "offer"
      PROVE  TypeInv' /\ OnceInv' /\ Moving
  BY <1>1, <1>4, OfferMoves
<1>5. ASSUME NEW m \in open, Finalize(m)
      PROVE  TypeInv' /\ OnceInv' /\ Moving
  BY <1>1, <1>5, FinalizeMoves
<1>6. ASSUME \/ Seal \/ Close \/ Signal
             \/ \E r \in Receivers :
                  \/ FindEmpty(r) \/ Wake(r) \/ CancelCtx(r)
                  \/ ReturnOnCancel(r) /\ rpc[r] = "wait"
             \/ UNCHANGED vars
      PROVE  TypeInv' /\ OnceInv' /\ Stayed
  BY <1>6, OthersStay
<1>7. \A r \in Receivers : /\ HandOver(r) => rpc[r] = "offer"
                           /\ ReturnOnCancel(r) => rpc[r] \in {"wait", "offer"}
  BY DEF HandOver, ReturnOnCancel
<1>8. TypeInv' /\ OnceInv' /\ (Stayed \/ Moving)
  BY <1>2, <1>3, <1>4, <1>5, <1>6, <1>7 DEF Next, Receiver
<1> QED
  BY <1>8 DEF Moving

LEMMA HomesKept ==
  ASSUME HomeInv,
         Stayed \/ \E p \in Payloads : \E x, y \in Homes : Moved(p, x, y)
  PROVE  HomeInv'
<1>1. CASE Stayed
  BY <1>1 DEF Stayed, HomeInv
<1>2. ASSUME NEW p \in Payloads, NEW x \in Homes, NEW y \in Homes,
             Moved(p, x, y)
      PROVE  HomeInv'
  <2>1. /\ x # y /\ p \in Home[x]
        /\ \A h \in Homes :
             Home'[h] = IF h = x THEN Home[h] \ {p}
                        ELSE IF h = y THEN Home[h] \cup {p} ELSE Home[h]
    BY <1>2 DEF Moved
  <2>2. ASSUME NEW q \in Payloads
        PROVE  /\ \E h \in Homes : q \in Home'[h]
               /\ \A g, h \in Homes : q \in Home'[g] /\ q \in Home'[h] => g = h
    <3>1. CASE q = p
      <4>1. \A h \in Homes : h # x => p \notin Home[h]
        BY <2>1 DEF HomeInv
      <4>2. \A h \in Homes : p \in Home'[h] <=> h = y
        BY <2>1, <4>1
      <4> QED
        BY <3>1, <4>2
    <3>2. CASE q # p
      <4>1. \A h \in Homes : q \in Home'[h] <=> q \in Home[h]
        BY <2>1, <3>2
      <4> QED
        BY <4>1 DEF HomeInv
    <3> QED
      BY <3>1, <3>2
  <2> QED
    BY <2>2 DEF HomeInv
<1> QED
  BY <1>1, <1>2

LEMMA LiveFinite ==
  ASSUME TypeInv
  PROVE  /\ Live \subseteq Payloads /\ IsFiniteSet(Live)
         /\ Cardinality(Live) \in 0..Cardinality(Payloads)
         /\ Live = Home["pending"] \cup Home["offer"] \cup Home["open"]
                     \cup Home["lost"]
<1>1. PendingItems \subseteq Item /\ OfferItems \subseteq Item
      /\ open \subseteq Item /\ lost \subseteq Item
  BY DEF TypeInv, PendingItems, OfferItems, Offering
<1>2. Live \subseteq Payloads
  BY <1>1, ItemFields DEF Live, LiveItems, PayloadsOf
<1>3. /\ IsFiniteSet(Live) /\ Cardinality(Live) <= Cardinality(Payloads)
      /\ Cardinality(Live) \in Nat /\ Cardinality(Payloads) \in Nat
  BY <1>2, PayloadAssumption, FS_Subset, FS_CardinalityType
<1>4. Live = Home["pending"] \cup Home["offer"] \cup Home["open"]
               \cup Home["lost"]
  BY DEF Live, LiveItems, PayloadsOf, Home
<1> QED
  BY <1>2, <1>3, <1>4

LEMMA CountKept ==
  ASSUME TypeInv, TypeInv', HomeInv, CountInv,
         Stayed \/ \E p \in Payloads : \E x, y \in Homes : Moved(p, x, y)
  PROVE  CountInv'
<1>1. CASE Stayed
  BY <1>1 DEF Stayed, CountInv, Live, PayloadsOf
<1>2. ASSUME NEW p \in Payloads, NEW x \in Homes, NEW y \in Homes,
             Moved(p, x, y)
      PROVE  CountInv'
  <2>1. /\ x # y /\ p \in Home[x]
        /\ \A h \in Homes :
             Home'[h] = IF h = x THEN Home[h] \ {p}
                        ELSE IF h = y THEN Home[h] \cup {p} ELSE Home[h]
        /\ outstanding' = IF x \in LiveHomes
                          THEN IF y \in LiveHomes THEN outstanding
                               ELSE outstanding - 1
                          ELSE IF y \in LiveHomes THEN outstanding + 1
                               ELSE outstanding
    BY <1>2 DEF Moved
  <2>2. \A h \in Homes : h # x => p \notin Home[h]
    BY <2>1 DEF HomeInv
  <2>3. /\ LiveHomes \subseteq Homes
        /\ \A q : q \in Live <=> \E h \in LiveHomes : q \in Home[h]
        /\ \A q : q \in Live' <=> \E h \in LiveHomes : q \in Home'[h]
    <3>1. Live = Home["pending"] \cup Home["offer"] \cup Home["open"]
                   \cup Home["lost"]
      BY LiveFinite
    <3>2. Live' = Home'["pending"] \cup Home'["offer"] \cup Home'["open"]
                    \cup Home'["lost"]
      BY DEF Live, LiveItems, PayloadsOf, Home
    <3> QED
      BY <3>1, <3>2 DEF LiveHomes, Homes
  <2>4. Live' = IF y \in LiveHomes THEN Live \cup {p} ELSE Live \ {p}
    <3>1. \A q : q # p => (q \in Live' <=> q \in Live)
      <4>1. \A q : \A h \in Homes :
              q # p => (q \in Home'[h] <=> q \in Home[h])
        BY <2>1
      <4> QED
        BY <2>3, <4>1
    <3>2. \A h \in Homes : p \in Home'[h] <=> h = y
      BY <2>1, <2>2
    <3>3. p \in Live' <=> y \in LiveHomes
      BY <2>3, <3>2
    <3> QED
      BY <3>1, <3>3
  <2>5. p \in Live <=> x \in LiveHomes
    BY <2>1, <2>2, <2>3
  <2>6. IsFiniteSet(Live) /\ Cardinality(Live) \in Nat
    BY LiveFinite, FS_CardinalityType
  <2>7. /\ Cardinality(Live \cup {p})
             = IF p \in Live THEN Cardinality(Live) ELSE Cardinality(Live) + 1
        /\ Cardinality(Live \ {p})
             = IF p \in Live THEN Cardinality(Live) - 1 ELSE Cardinality(Live)
    BY <2>6, FS_AddElement, FS_RemoveElement
  <2> QED
    BY <2>1, <2>4, <2>5, <2>6, <2>7 DEF CountInv
<1> QED
  BY <1>1, <1>2

\* No wake-up is lost.
LEMMA WakeKept ==
  ASSUME TypeInv, TypeInv', WakeInv, [Next]_vars
  PROVE  WakeInv'
<1> USE DEF producers, flags, receivers, handles
<1>1. signals \in Nat /\ signals' \in Nat
  BY DEF TypeInv
<1>2. ASSUME Awake' PROVE WakeInv'
  BY <1>2 DEF WakeInv
<1>3. ASSUME NEW r \in Receivers, rpc'[r] \in {"lock", "offer"} PROVE WakeInv'
  BY <1>2, <1>3 DEF Awake
<1>4. ASSUME signals' = signals + 1 PROVE WakeInv'
  BY <1>1, <1>2, <1>4 DEF Awake
<1>5. ASSUME NEW p \in Payloads, Publish(p) PROVE WakeInv'
  <2>1. CASE sealed \/ closed
    <3>1. UNCHANGED <<pending, outstanding, flags, notify, signals, rpc,
                      cancelled>>
      BY <1>5, <2>1 DEF Publish
    <3> QED
      BY <3>1 DEF WakeInv, Awake, drainedLocked
  <2>2. CASE ~(sealed \/ closed)
    BY <1>4, <1>5, <2>2 DEF Publish, Signals
  <2> QED
    BY <2>1, <2>2
<1>6. CASE Seal \/ Close
  BY <1>4, <1>6 DEF Seal, Close, Signals
<1>7. CASE Signal
  BY <1>2, <1>7 DEF Signal, Awake
<1>8. ASSUME NEW r \in Receivers, Pop(r) \/ Wake(r) \/ HandOver(r)
      PROVE  WakeInv'
  <2>1. rpc' = [rpc EXCEPT ![r] = "offer"] \/ rpc' = [rpc EXCEPT ![r] = "lock"]
    BY <1>8 DEF Pop, Wake, HandOver, Goto
  <2>2. rpc'[r] \in {"lock", "offer"}
    BY <2>1 DEF TypeInv
  <2> QED
    BY <1>3, <2>2
<1>9. ASSUME NEW r \in Receivers, FindEmpty(r) PROVE WakeInv'
  <2>1. /\ pending' = <<>> /\ UNCHANGED <<closed, sealed, outstanding, pending>>
        /\ rpc' = [rpc EXCEPT ![r] = IF closed \/ drainedLocked THEN "exited"
                                     ELSE "wait"]
    BY <1>9 DEF FindEmpty, Goto
  <2>2. closed \/ drainedLocked => rpc'[r] = "exited"
    BY <2>1 DEF TypeInv
  <2>3. (closed \/ drainedLocked)' <=> closed \/ drainedLocked
    BY <2>1 DEF drainedLocked
  <2> QED
    BY <2>1, <2>2, <2>3 DEF WakeInv
<1>10. ASSUME NEW r \in Receivers, ReturnOnCancel(r) \/ CancelCtx(r)
       PROVE  WakeInv'
  <2>1. cancelled' # {}
    BY <1>10 DEF ReturnOnCancel, CancelCtx
  <2> QED
    BY <2>1 DEF WakeInv
<1>11. ASSUME NEW m \in open, Finalize(m) PROVE WakeInv'
  BY <1>4, <1>11 DEF Finalize, Ack, Nack, DeadLetter, Signals
<1>12. CASE UNCHANGED vars
  BY <1>12 DEF WakeInv, Awake, drainedLocked, vars
<1> QED
  BY <1>5, <1>6, <1>7, <1>8, <1>9, <1>10, <1>11, <1>12 DEF Next, Receiver

LEMMA InitIInv == Init => IInv
<1> SUFFICES ASSUME Init PROVE IInv
  OBVIOUS
<1> USE DEF Init
<1>1. TypeInv
  <2>1. pending \in Seq(Item) /\ dead \in Seq(Payloads) /\ DOMAIN pending = {}
    OBVIOUS
  <2>2. /\ offer \in [Receivers -> Item \cup {NoItem}]
        /\ rpc \in [Receivers -> {"lock", "wait", "offer", "exited"}]
        /\ \A r \in Receivers : rpc[r] = "offer" <=> offer[r] # NoItem
    OBVIOUS
  <2> QED
    BY <2>1, <2>2 DEF TypeInv
<1>2. /\ PendingItems = {} /\ OfferItems = {} /\ DeadPayloads = {}
      /\ Offering = {}
  BY DEF PendingItems, OfferItems, DeadPayloads, Offering
<1>3. \A x \in Homes : Home[x] = IF x = "unpublished" THEN Payloads ELSE {}
  <2>1. PayloadsOf({}) = {}
    BY DEF PayloadsOf
  <2>2. Home = [unpublished |-> Payloads, rejected |-> {}, pending |-> {},
                offer |-> {}, open |-> {}, lost |-> {}, acked |-> {},
                dead |-> {}]
    BY <1>2, <2>1 DEF Home
  <2>3. /\ Home["unpublished"] = Payloads
        /\ Home["rejected"] = {} /\ Home["pending"] = {}
        /\ Home["offer"] = {} /\ Home["open"] = {} /\ Home["lost"] = {}
        /\ Home["acked"] = {} /\ Home["dead"] = {}
    BY <2>2
  <2> HIDE DEF Init
  <2> QED
    BY <2>3 DEF Homes
<1>4. HomeInv
  BY <1>3 DEF HomeInv, Homes
<1>5. OnceInv
  BY <1>2 DEF OnceInv, PendingOnce, OneEach
<1>6. CountInv
  <2>1. Live = {}
    BY <1>2 DEF Live, LiveItems, PayloadsOf
  <2> QED
    BY <2>1, FS_EmptySet DEF CountInv
<1>7. WakeInv
  BY DEF WakeInv, drainedLocked
<1> QED
  BY <1>1, <1>4, <1>5, <1>6, <1>7 DEF IInv

LEMMA NextIInv == IInv /\ [Next]_vars => IInv'
<1> SUFFICES ASSUME IInv, [Next]_vars PROVE IInv'
  OBVIOUS
<1> USE DEF IInv
<1>1. /\ TypeInv' /\ OnceInv'
      /\ Stayed \/ \E p \in Payloads : \E x, y \in Homes : Moved(p, x, y)
  BY NextMoves
<1>2. HomeInv' /\ CountInv'
  BY <1>1, HomesKept, CountKept
<1>3. WakeInv'
  BY <1>1, WakeKept
<1> QED
  BY <1>1, <1>2, <1>3

-----------------------------------------------------------------------------
(* What follows from it.                                                   *)

\* An item never leaves its type: it is not delivered beyond the bound, a
\* receiver offers an item exactly when it has popped one, and outstanding
\* neither goes below zero nor beyond what was published.
THEOREM TypeCorrect == Spec => []TypeOK
<1>1. IInv => TypeOK
  <2>1. IInv => outstanding \in 0..Cardinality(Payloads)
    BY LiveFinite DEF IInv, CountInv
  <2> QED
    BY <2>1 DEF IInv, TypeInv, TypeOK
<1> QED
  BY <1>1, InitIInv, NextIInv, PTL DEF Spec

\* When no receiver was cancelled, nobody sleeps through an item that is
\* pending, nor through the end of the queue, for any number of receivers that
\* share the one token.
THEOREM WakeUps == Spec => []NoLostWakeup
<1>1. IInv => NoLostWakeup
  <2> SUFFICES ASSUME IInv, cancelled = {}, ~notify, signals = 0,
                      NEW left, left = {r \in Receivers : rpc[r] # "exited"},
                      \A r \in left : rpc[r] = "wait"
               PROVE  /\ pending = <<>>
                      /\ left = Receivers => ~closed /\ ~drainedLocked
    BY DEF NoLostWakeup
  <2>1. ~Awake
    BY DEF Awake
  <2>2. left = Receivers => \A r \in Receivers : rpc[r] # "exited"
    OBVIOUS
  <2> QED
    BY <2>1, <2>2 DEF IInv, WakeInv
<1> QED
  BY <1>1, InitIInv, NextIInv, PTL DEF Spec

\* A set is as large as its image under a one-to-one map.
LEMMA SameSize ==
  ASSUME NEW S, NEW f, DOMAIN f = S, NEW T, T \subseteq Payloads,
         \A x \in S : f[x] \in T,
         \A x, y \in S : f[x] = f[y] => x = y,
         \A t \in T : \E x \in S : f[x] = t,
         f = [x \in S |-> f[x]]
  PROVE  IsFiniteSet(S) /\ Cardinality(S) = Cardinality(T)
<1>1. IsFiniteSet(T)
  BY PayloadAssumption, FS_Subset
<1>2. f \in Injection(S, T) /\ f \in Surjection(S, T)
  BY DEF Injection, Surjection, IsInjective
<1> QED
  BY <1>1, <1>2, FS_Injection

\* As many payloads as items.
LEMMA SizeOfEach ==
  ASSUME NEW S, S \subseteq Item, OneEach(S)
  PROVE  Cardinality(S) = Cardinality(PayloadsOf(S))
<1> DEFINE f == [it \in S |-> it.payload]
<1>1. PayloadsOf(S) \subseteq Payloads
  BY ItemFields DEF PayloadsOf
<1>2. /\ DOMAIN f = S /\ f = [x \in S |-> f[x]]
      /\ \A x \in S : f[x] \in PayloadsOf(S)
      /\ \A x, y \in S : f[x] = f[y] => x = y
      /\ \A t \in PayloadsOf(S) : \E x \in S : f[x] = t
  BY DEF PayloadsOf, OneEach
<1> HIDE DEF f
<1> QED
  BY <1>1, <1>2, SameSize

LEMMA SizeOfPending ==
  ASSUME TypeInv, PendingOnce
  PROVE  Len(pending) = Cardinality(PayloadsOf(PendingItems))
<1> DEFINE f == [k \in DOMAIN pending |-> pending[k].payload]
           T == PayloadsOf(PendingItems)
<1>1. pending \in Seq(Item) /\ Len(pending) \in Nat
      /\ DOMAIN pending = 1..Len(pending)
  BY LenProperties DEF TypeInv
<1>2. T \subseteq Payloads
  BY <1>1, ItemFields DEF PayloadsOf, PendingItems
<1>3. /\ DOMAIN f = DOMAIN pending /\ f = [x \in DOMAIN pending |-> f[x]]
      /\ \A x \in DOMAIN pending : f[x] \in T
      /\ \A x, y \in DOMAIN pending : f[x] = f[y] => x = y
      /\ \A t \in T : \E x \in DOMAIN pending : f[x] = t
  BY DEF PayloadsOf, PendingItems, PendingOnce
<1> HIDE DEF f, T
<1>4. Cardinality(DOMAIN pending) = Cardinality(T)
  BY <1>2, <1>3, SameSize
<1>5. Cardinality(1..Len(pending)) = Len(pending)
  BY <1>1, FS_Interval, SMTT(60)
<1> QED
  BY <1>1, <1>4, <1>5 DEF T

LEMMA SizeOfOffering ==
  ASSUME TypeInv, OnceInv
  PROVE  Cardinality(Offering) = Cardinality(PayloadsOf(OfferItems))
<1> DEFINE f == [r \in Offering |-> offer[r].payload]
           T == PayloadsOf(OfferItems)
<1>1. T \subseteq Payloads
  BY ItemFields DEF PayloadsOf, OfferItems, Offering, TypeInv
<1>2. /\ DOMAIN f = Offering /\ f = [x \in Offering |-> f[x]]
      /\ \A x \in Offering : f[x] \in T
      /\ \A x, y \in Offering : f[x] = f[y] => x = y
      /\ \A t \in T : \E x \in Offering : f[x] = t
  BY DEF PayloadsOf, OfferItems, OnceInv
<1> HIDE DEF f, T
<1>3. Cardinality(Offering) = Cardinality(T)
  BY <1>1, <1>2, SameSize
<1> QED
  BY <1>3 DEF T

\* The size of sets that are apart.
LEMMA SizeOfTwo ==
  ASSUME NEW A, NEW B, IsFiniteSet(A), IsFiniteSet(B), A \cap B = {}
  PROVE  /\ IsFiniteSet(A \cup B)
         /\ Cardinality(A \cup B) = Cardinality(A) + Cardinality(B)
<1>1. /\ IsFiniteSet(A \cup B)
      /\ Cardinality(A \cup B)
           = Cardinality(A) + Cardinality(B) - Cardinality(A \cap B)
  BY FS_Union
<1>2. Cardinality(A \cap B) = 0
  BY FS_EmptySet, Zenon
<1>3. Cardinality(A) \in Nat /\ Cardinality(B) \in Nat
  BY FS_CardinalityType
<1> QED
  BY <1>1, <1>2, <1>3

LEMMA SizeOfFour ==
  ASSUME NEW A, NEW B, NEW C, NEW D,
         IsFiniteSet(A), IsFiniteSet(B), IsFiniteSet(C), IsFiniteSet(D),
         A \cap B = {}, (A \cup B) \cap C = {}, (A \cup B \cup C) \cap D = {}
  PROVE  Cardinality(A \cup B \cup C \cup D)
           = Cardinality(A) + Cardinality(B) + Cardinality(C) + Cardinality(D)
<1>1. /\ IsFiniteSet(A \cup B)
      /\ Cardinality(A \cup B) = Cardinality(A) + Cardinality(B)
  BY SizeOfTwo
<1>2. /\ IsFiniteSet(A \cup B \cup C)
      /\ Cardinality(A \cup B \cup C) = Cardinality(A \cup B) + Cardinality(C)
  BY <1>1, SizeOfTwo
<1>3. Cardinality(A \cup B \cup C \cup D)
        = Cardinality(A \cup B \cup C) + Cardinality(D)
  BY <1>2, SizeOfTwo
<1> QED
  BY <1>1, <1>2, <1>3

\* outstanding is what drainedLocked takes it for: the items that wait, are
\* offered, are being worked on or were lost, for any number of them.
THEOREM OutstandingExact == Spec => []OutstandingIsExact
<1>1. IInv => OutstandingIsExact
  <2> SUFFICES ASSUME IInv PROVE OutstandingIsExact
    OBVIOUS
  <2> USE DEF IInv
  <2> DEFINE A == PayloadsOf(PendingItems)
             B == PayloadsOf(OfferItems)
             C == PayloadsOf(open)
             D == PayloadsOf(lost)
  <2>1. Live = A \cup B \cup C \cup D
    BY DEF Live, LiveItems, PayloadsOf
  <2>2. /\ A = Home["pending"] /\ B = Home["offer"]
        /\ C = Home["open"] /\ D = Home["lost"]
    BY DEF Home
  <2>3. /\ IsFiniteSet(A) /\ IsFiniteSet(B) /\ IsFiniteSet(C)
        /\ IsFiniteSet(D)
        /\ A \cup B \cup C \cup D \subseteq Payloads
    BY <2>1, LiveFinite, FS_Subset
  <2>4. /\ A \cap B = {} /\ A \cap C = {} /\ A \cap D = {}
        /\ B \cap C = {} /\ B \cap D = {} /\ C \cap D = {}
    BY <2>2, <2>3 DEF HomeInv, Homes
  <2>5. /\ Len(pending) = Cardinality(A)
        /\ Cardinality(Offering) = Cardinality(B)
    BY SizeOfPending, SizeOfOffering DEF OnceInv
  <2>6. Cardinality(open) = Cardinality(C) /\ Cardinality(lost) = Cardinality(D)
    BY SizeOfEach DEF OnceInv, TypeInv
  <2> HIDE DEF A, B, C, D
  <2>7. (A \cup B) \cap C = {} /\ (A \cup B \cup C) \cap D = {}
    BY <2>4
  <2>8. Cardinality(A \cup B \cup C \cup D)
          = Cardinality(A) + Cardinality(B) + Cardinality(C) + Cardinality(D)
    BY <2>3, <2>4, <2>7, SizeOfFour
  <2> QED
    BY <2>1, <2>5, <2>6, <2>8 DEF CountInv, OutstandingIsExact
<1> QED
  BY <1>1, InitIInv, NextIInv, PTL DEF Spec

-----------------------------------------------------------------------------
(* The queue implements Delivery.                                          *)

Copies(w, h, a, d) == [waiting |-> w, held |-> h, acked |-> a, dead |-> d]

\* What the queue is as a Delivery.
CopiesOf ==
  [p \in Payloads |->
     Copies(Cardinality(Waiting(p)), Holders(p), Cardinality({p} \cap acked),
            Cardinality({k \in DOMAIN dead : dead[k] = p}))]

LiveOf(p) == {pending[k] : k \in Waiting(p)} \cup HeldItems(p)

CountOf ==
  [p \in Payloads |->
     IF LiveOf(p) = {} THEN 0 ELSE (CHOOSE it \in LiveOf(p) : TRUE).deliveries]

\* The places a copy moves between.
LEMMA CopiesMove ==
  /\ Copies(0, 0, 0, 0) = Abstract!Nowhere
  /\ Copies(1, 0, 0, 0) = [Abstract!Nowhere EXCEPT !["waiting"] = 1]
  /\ Copies(0, 1, 0, 0)
       = [Copies(1, 0, 0, 0) EXCEPT !["waiting"] = @ - 1, !["held"] = @ + 1]
  /\ Copies(1, 0, 0, 0)
       = [Copies(0, 1, 0, 0) EXCEPT !["waiting"] = @ + 1, !["held"] = @ - 1]
  /\ Copies(0, 0, 1, 0)
       = [Copies(0, 1, 0, 0) EXCEPT !["held"] = @ - 1, !["acked"] = @ + 1]
  /\ Copies(0, 0, 0, 1)
       = [Copies(0, 1, 0, 0) EXCEPT !["held"] = @ - 1, !["dead"] = @ + 1]
  /\ Copies(1, 0, 0, 0)["waiting"] = 1 /\ Copies(0, 1, 0, 0)["held"] = 1
<1> USE DEF Copies
<1>1. Copies(0, 0, 0, 0) = Abstract!Nowhere
  BY DEF Abstract!Nowhere, Abstract!Places
<1>2. Copies(1, 0, 0, 0) = [Copies(0, 0, 0, 0) EXCEPT !["waiting"] = 1]
  OBVIOUS
<1>3. Copies(0, 1, 0, 0)
        = [Copies(1, 0, 0, 0) EXCEPT !["waiting"] = @ - 1, !["held"] = @ + 1]
  OBVIOUS
<1>4. Copies(1, 0, 0, 0)
        = [Copies(0, 1, 0, 0) EXCEPT !["waiting"] = @ + 1, !["held"] = @ - 1]
  OBVIOUS
<1>5. Copies(0, 0, 1, 0)
        = [Copies(0, 1, 0, 0) EXCEPT !["held"] = @ - 1, !["acked"] = @ + 1]
  OBVIOUS
<1>6. Copies(0, 0, 0, 1)
        = [Copies(0, 1, 0, 0) EXCEPT !["held"] = @ - 1, !["dead"] = @ + 1]
  OBVIOUS
<1>7. Copies(1, 0, 0, 0)["waiting"] = 1 /\ Copies(0, 1, 0, 0)["held"] = 1
  OBVIOUS
<1> QED
  BY <1>1, <1>2, <1>3, <1>4, <1>5, <1>6, <1>7

LEMMA LiveOfPayload ==
  \A p : LiveOf(p) = {it \in LiveItems : it.payload = p}
  BY DEF LiveOf, Waiting, HeldItems, LiveItems, PendingItems, OfferItems

\* The copies of a payload, by its home.
In(p, h) == IF p \in Home[h] THEN 1 ELSE 0

NumberInv ==
  \A p \in Payloads :
    CopiesOf[p] = Copies(In(p, "pending"),
                         In(p, "offer") + In(p, "open") + In(p, "lost"),
                         In(p, "acked"), In(p, "dead"))

LEMMA OneOrNone ==
  ASSUME NEW S, \A x, y \in S : x = y
  PROVE  Cardinality(S) = IF S = {} THEN 0 ELSE 1
<1>1. CASE S = {}
  BY <1>1, FS_EmptySet
<1>2. CASE S # {}
  <2>1. PICK x \in S : TRUE
    BY <1>2
  <2>2. S = {x}
    BY <2>1
  <2> QED
    BY <1>2, <2>2, FS_Singleton
<1> QED
  BY <1>1, <1>2

LEMMA CopyNumbers == IInv => NumberInv
<1> SUFFICES ASSUME IInv, NEW p \in Payloads
             PROVE  CopiesOf[p]
                      = Copies(In(p, "pending"),
                               In(p, "offer") + In(p, "open") + In(p, "lost"),
                               In(p, "acked"), In(p, "dead"))
  BY DEF NumberInv
<1> USE DEF IInv
<1>1. Cardinality(Waiting(p)) = In(p, "pending")
  <2>1. \A k, l \in Waiting(p) : k = l
    BY DEF OnceInv, PendingOnce, Waiting
  <2>2. Waiting(p) = {} <=> p \notin Home["pending"]
    BY DEF Waiting, Home, PayloadsOf, PendingItems
  <2> QED
    BY <2>1, <2>2, OneOrNone DEF In
<1>2. Cardinality({r \in Offering : offer[r].payload = p}) = In(p, "offer")
  <2> DEFINE S == {r \in Offering : offer[r].payload = p}
  <2>1. \A k, l \in S : k = l
    BY DEF OnceInv
  <2>2. S = {} <=> p \notin Home["offer"]
    BY DEF Home, PayloadsOf, OfferItems
  <2> HIDE DEF S
  <2>3. Cardinality(S) = In(p, "offer")
    BY <2>1, <2>2, OneOrNone DEF In
  <2> QED
    BY <2>3 DEF S
<1>3. Cardinality({it \in open : it.payload = p}) = In(p, "open")
  <2> DEFINE S == {it \in open : it.payload = p}
  <2>1. \A k, l \in S : k = l
    BY DEF OnceInv, OneEach
  <2>2. S = {} <=> p \notin Home["open"]
    BY DEF Home, PayloadsOf
  <2> HIDE DEF S
  <2>3. Cardinality(S) = In(p, "open")
    BY <2>1, <2>2, OneOrNone DEF In
  <2> QED
    BY <2>3 DEF S
<1>4. Cardinality({it \in lost : it.payload = p}) = In(p, "lost")
  <2> DEFINE S == {it \in lost : it.payload = p}
  <2>1. \A k, l \in S : k = l
    BY DEF OnceInv, OneEach
  <2>2. S = {} <=> p \notin Home["lost"]
    BY DEF Home, PayloadsOf
  <2> HIDE DEF S
  <2>3. Cardinality(S) = In(p, "lost")
    BY <2>1, <2>2, OneOrNone DEF In
  <2> QED
    BY <2>3 DEF S
<1>5. Cardinality({p} \cap acked) = In(p, "acked")
  <2>1. \A k, l \in {p} \cap acked : k = l
    OBVIOUS
  <2>2. {p} \cap acked = {} <=> p \notin Home["acked"]
    BY DEF Home
  <2> QED
    BY <2>1, <2>2, OneOrNone DEF In
<1>6. Cardinality({k \in DOMAIN dead : dead[k] = p}) = In(p, "dead")
  <2> DEFINE S == {k \in DOMAIN dead : dead[k] = p}
  <2>1. \A k, l \in S : k = l
    BY DEF OnceInv
  <2>2. S = {} <=> p \notin Home["dead"]
    BY DEF Home, DeadPayloads
  <2> HIDE DEF S
  <2>3. Cardinality(S) = In(p, "dead")
    BY <2>1, <2>2, OneOrNone DEF In
  <2> QED
    BY <2>3 DEF S
<1> QED
  BY <1>1, <1>2, <1>3, <1>4, <1>5, <1>6 DEF CopiesOf, Holders

\* Where a payload is, there is its only copy.
PlaceInv ==
  /\ \A p \in unpublished \cup rejected :
       CopiesOf[p] = Copies(0, 0, 0, 0) /\ CountOf[p] = 0
  /\ \A it \in PendingItems : /\ CopiesOf[it.payload] = Copies(1, 0, 0, 0)
                             /\ CountOf[it.payload] = it.deliveries
  /\ \A it \in OfferItems \cup open \cup lost :
       /\ CopiesOf[it.payload] = Copies(0, 1, 0, 0)
       /\ CountOf[it.payload] = it.deliveries
  /\ \A p \in acked : CopiesOf[p] = Copies(0, 0, 1, 0) /\ CountOf[p] = 0
  /\ \A p \in DeadPayloads : CopiesOf[p] = Copies(0, 0, 0, 1) /\ CountOf[p] = 0

LEMMA CopyOfPayload == IInv => PlaceInv
<1> SUFFICES ASSUME IInv PROVE PlaceInv
  OBVIOUS
<1> USE DEF IInv
<1>1. NumberInv
  BY CopyNumbers
<1>2. /\ PendingItems \subseteq Item /\ OfferItems \subseteq Item
      /\ open \subseteq Item /\ lost \subseteq Item
      /\ DeadPayloads \subseteq Payloads
  BY DEF TypeInv, PendingItems, OfferItems, Offering, DeadPayloads
<1>3. ASSUME NEW p \in Payloads, NEW h \in Homes, p \in Home[h]
      PROVE  \A g \in Homes : In(p, g) = IF g = h THEN 1 ELSE 0
  BY <1>3 DEF HomeInv, In
<1>4. ASSUME NEW p \in Payloads, NEW h \in Homes, p \in Home[h],
             h \notin LiveHomes
      PROVE  CountOf[p] = 0
  <2>1. p \notin Live
    BY <1>4, LiveFinite DEF HomeInv, Homes, LiveHomes
  <2>2. LiveOf(p) = {}
    BY <2>1, LiveOfPayload DEF Live, PayloadsOf
  <2> QED
    BY <2>2 DEF CountOf
<1>5. ASSUME NEW it \in LiveItems
      PROVE  it.payload \in Payloads /\ CountOf[it.payload] = it.deliveries
  <2>1. PICK p \in Payloads : p = it.payload
    BY <1>2, ItemFields DEF LiveItems
  <2>2. OneEach(LiveItems)
    <3>1. /\ OneEach(PendingItems) /\ OneEach(OfferItems)
          /\ OneEach(open) /\ OneEach(lost)
      BY OnceEach DEF OnceInv
    <3>2. \A e \in LiveItems :
            /\ e.payload \in Payloads
            /\ e \in PendingItems => e.payload \in Home["pending"]
            /\ e \in OfferItems => e.payload \in Home["offer"]
            /\ e \in open => e.payload \in Home["open"]
            /\ e \in lost => e.payload \in Home["lost"]
      BY <1>2, ItemFields DEF LiveItems, Home, PayloadsOf
    <3>3. ASSUME NEW e \in LiveItems, NEW f \in LiveItems,
                 e.payload = f.payload
          PROVE  e = f
      <4>1. PICK q \in Payloads : q = e.payload
        BY <3>2
      <4>2. \A g, h \in Homes : q \in Home[g] /\ q \in Home[h] => g = h
        BY DEF HomeInv
      <4>3. /\ e \in PendingItems <=> f \in PendingItems
            /\ e \in OfferItems <=> f \in OfferItems
            /\ e \in open <=> f \in open
            /\ e \in lost <=> f \in lost
        <5>1. \A d \in {e, f} :
                /\ d \in PendingItems => q \in Home["pending"]
                /\ d \in OfferItems => q \in Home["offer"]
                /\ d \in open => q \in Home["open"]
                /\ d \in lost => q \in Home["lost"]
          BY <3>2, <3>3, <4>1
        <5> QED
          BY <4>2, <5>1 DEF LiveItems, Homes
      <4> QED
        BY <3>1, <3>3, <4>3 DEF OneEach, LiveItems
    <3> QED
      BY <3>3 DEF OneEach
  <2>3. LiveOf(p) = {it}
    BY <2>1, <2>2, LiveOfPayload DEF OneEach
  <2> QED
    BY <2>1, <2>3 DEF CountOf
<1>6. ASSUME NEW p \in unpublished \cup rejected
      PROVE  CopiesOf[p] = Copies(0, 0, 0, 0) /\ CountOf[p] = 0
  <2>1. p \in Payloads
    BY DEF TypeInv
  <2>2. p \in Home["unpublished"] \/ p \in Home["rejected"]
    BY DEF Home
  <2>3. /\ In(p, "pending") = 0 /\ In(p, "offer") = 0 /\ In(p, "open") = 0
        /\ In(p, "lost") = 0 /\ In(p, "acked") = 0 /\ In(p, "dead") = 0
    BY <1>3, <2>1, <2>2 DEF Homes
  <2> QED
    BY <1>1, <1>4, <2>1, <2>2, <2>3 DEF NumberInv, Homes, LiveHomes
<1>7. ASSUME NEW it \in PendingItems
      PROVE  CopiesOf[it.payload] = Copies(1, 0, 0, 0)
  <2>1. PICK p \in Payloads : p = it.payload
    BY <1>2, ItemFields
  <2>2. p \in Home["pending"]
    BY <2>1 DEF Home, PayloadsOf
  <2>3. /\ In(p, "pending") = 1 /\ In(p, "offer") = 0 /\ In(p, "open") = 0
        /\ In(p, "lost") = 0 /\ In(p, "acked") = 0 /\ In(p, "dead") = 0
    BY <1>3, <2>2 DEF Homes
  <2> QED
    BY <1>1, <2>1, <2>3 DEF NumberInv
<1>8. ASSUME NEW it \in OfferItems \cup open \cup lost
      PROVE  CopiesOf[it.payload] = Copies(0, 1, 0, 0)
  <2>1. PICK p \in Payloads : p = it.payload
    BY <1>2, ItemFields
  <2>2. p \in Home["offer"] \/ p \in Home["open"] \/ p \in Home["lost"]
    BY <2>1 DEF Home, PayloadsOf
  <2>3. /\ In(p, "pending") = 0
        /\ In(p, "offer") + In(p, "open") + In(p, "lost") = 1
        /\ In(p, "acked") = 0 /\ In(p, "dead") = 0
    BY <1>3, <2>2 DEF Homes
  <2> QED
    BY <1>1, <2>1, <2>3 DEF NumberInv
<1>9. ASSUME NEW p \in acked
      PROVE  CopiesOf[p] = Copies(0, 0, 1, 0) /\ CountOf[p] = 0
  <2>1. p \in Payloads /\ p \in Home["acked"]
    BY DEF Home, TypeInv
  <2>2. /\ In(p, "pending") = 0 /\ In(p, "offer") = 0 /\ In(p, "open") = 0
        /\ In(p, "lost") = 0 /\ In(p, "acked") = 1 /\ In(p, "dead") = 0
    BY <1>3, <2>1 DEF Homes
  <2> QED
    BY <1>1, <1>4, <2>1, <2>2 DEF NumberInv, Homes, LiveHomes
<1>10. ASSUME NEW p \in DeadPayloads
       PROVE  CopiesOf[p] = Copies(0, 0, 0, 1) /\ CountOf[p] = 0
  <2>1. p \in Payloads /\ p \in Home["dead"]
    BY <1>2 DEF Home
  <2>2. /\ In(p, "pending") = 0 /\ In(p, "offer") = 0 /\ In(p, "open") = 0
        /\ In(p, "lost") = 0 /\ In(p, "acked") = 0 /\ In(p, "dead") = 1
    BY <1>3, <2>1 DEF Homes
  <2> QED
    BY <1>1, <1>4, <2>1, <2>2 DEF NumberInv, Homes, LiveHomes
<1>11. \A it \in PendingItems \cup OfferItems \cup open \cup lost :
         CountOf[it.payload] = it.deliveries
  BY <1>5 DEF LiveItems
<1> QED
  BY <1>6, <1>7, <1>8, <1>9, <1>10, <1>11 DEF PlaceInv

\* The other payloads stay where they are.
LEMMA OthersCopied ==
  ASSUME IInv, IInv', NEW p, NEW x, NEW y, Moved(p, x, y)
  PROVE  \A n \in Payloads \ {p} :
           CopiesOf'[n] = CopiesOf[n] /\ CountOf'[n] = CountOf[n]
<1>1. NumberInv /\ NumberInv'
  BY CopyNumbers, PTL
<1> TAKE n \in Payloads \ {p}
<1>2. \A h \in Homes : n \in Home'[h] <=> n \in Home[h]
  BY DEF Moved
<1>3. \A h \in Homes : In(n, h)' = In(n, h)
  BY <1>2 DEF In
<1>4. CopiesOf'[n] = CopiesOf[n]
  BY <1>1, <1>3 DEF NumberInv, Homes
<1>5. LiveOf(n)' = LiveOf(n)
  <2>1. LiveOf(n) = {it \in LiveItems : it.payload = n}
    BY LiveOfPayload
  <2>2. LiveOf(n)' = {it \in LiveItems' : it.payload = n}
    BY DEF LiveOf, Waiting, HeldItems, LiveItems, PendingItems, OfferItems
  <2>3. \A it : it.payload = n => (it \in LiveItems' <=> it \in LiveItems)
    BY DEF Moved
  <2> QED
    BY <2>1, <2>2, <2>3
<1> QED
  BY <1>4, <1>5 DEF CountOf

LEMMA StillImplements ==
  ASSUME UNCHANGED <<closed, cancelled>>,
         \A n \in Payloads :
           CopiesOf'[n] = CopiesOf[n] /\ CountOf'[n] = CountOf[n]
  PROVE  UNCHANGED Abstract!vars
<1>1. CopiesOf' = CopiesOf /\ CountOf' = CountOf
  BY DEF CopiesOf, CountOf
<1> QED
  BY <1>1 DEF Abstract!vars, CopiesOf, CountOf, Copies, LiveOf

\* A message whose copy goes from one place to another.
LEMMA MovedFrom ==
  ASSUME NEW f, DOMAIN f = Payloads, NEW g, g = [n \in Payloads |-> g[n]],
         NEW m \in Payloads, \A n \in Payloads \ {m} : g[n] = f[n],
         NEW x, NEW y, x # y,
         g[m] = [f[m] EXCEPT ![x] = @ - 1, ![y] = @ + 1]
  PROVE  g = [f EXCEPT ![m][x] = @ - 1, ![m][y] = @ + 1]
<1> DEFINE one == [f EXCEPT ![m] = [f[m] EXCEPT ![x] = @ - 1]]
           two == [one EXCEPT ![m] = [one[m] EXCEPT ![y] = @ + 1]]
<1>1. one[m] = [f[m] EXCEPT ![x] = @ - 1] /\ DOMAIN one = Payloads
  OBVIOUS
<1>2. two[m] = [one[m] EXCEPT ![y] = @ + 1] /\ DOMAIN two = Payloads
  OBVIOUS
<1>3. \A n \in Payloads \ {m} : one[n] = f[n] /\ two[n] = one[n]
  OBVIOUS
<1>4. two[m] = g[m]
  <2>1. one[m][y] = f[m][y]
    BY <1>1
  <2> HIDE DEF one, two
  <2> QED
    BY <1>1, <1>2, <2>1
<1>5. two = [n \in Payloads |-> two[n]]
  <2> HIDE DEF one
  <2> QED
    BY <1>1
<1>6. g = two
  <2> HIDE DEF two
  <2> QED
    BY <1>3, <1>4, <1>5
<1> QED
  BY <1>6


LEMMA InitImplements == Init => Abstract!Init
<1> SUFFICES ASSUME Init PROVE Abstract!Init
  OBVIOUS
<1>1. \A p \in Payloads : CopiesOf[p] = Copies(0, 0, 0, 0) /\ CountOf[p] = 0
  BY InitIInv, CopyOfPayload DEF PlaceInv, Init
<1>2. /\ CopiesOf = [p \in Payloads |->
                       IF p \in {}
                       THEN [Abstract!Nowhere EXCEPT !["waiting"] = 1]
                       ELSE Abstract!Nowhere]
      /\ {} \in SUBSET Payloads
  BY <1>1, CopiesMove DEF CopiesOf
<1>3. CountOf = [p \in Payloads |-> 0]
  BY <1>1 DEF CountOf
<1>4. (~closed /\ cancelled = {}) = TRUE
  BY DEF Init
<1> QED
  BY <1>2, <1>3, <1>4 DEF Abstract!Init, CopiesOf, CountOf, Copies, LiveOf

\* A Publish that is not rejected publishes the message.
LEMMA PublishImplements ==
  ASSUME IInv, IInv', NEW p \in Payloads, Publish(p)
  PROVE  Abstract!Publish(p) \/ UNCHANGED Abstract!vars
<1>1. PlaceInv /\ PlaceInv'
  BY CopyOfPayload, PTL
<1>2. /\ p \in unpublished /\ UNCHANGED <<closed, cancelled>>
      /\ IF sealed \/ closed THEN Moved(p, "unpublished", "rejected")
         ELSE /\ Moved(p, "unpublished", "pending")
              /\ PendingItems'
                   = PendingItems \cup {[payload |-> p, deliveries |-> 0]}
  BY PublishMoves DEF IInv, Publish, flags, receivers
<1>3. /\ CopiesOf[p] = Copies(0, 0, 0, 0) /\ CountOf[p] = 0
      /\ \A n \in Payloads \ {p} :
           CopiesOf'[n] = CopiesOf[n] /\ CountOf'[n] = CountOf[n]
  BY <1>1, <1>2, OthersCopied DEF PlaceInv
<1>4. CASE sealed \/ closed
  <2>1. p \in rejected'
    BY <1>4 DEF Publish
  <2>2. CopiesOf'[p] = Copies(0, 0, 0, 0) /\ CountOf'[p] = 0
    BY <1>1, <2>1 DEF PlaceInv
  <2>3. \A n \in Payloads :
          CopiesOf'[n] = CopiesOf[n] /\ CountOf'[n] = CountOf[n]
    BY <1>3, <2>2
  <2> QED
    BY <1>2, <2>3, StillImplements
<1>5. CASE ~(sealed \/ closed)
  <2>1. PICK it \in PendingItems' : it.payload = p /\ it.deliveries = 0
    <3>1. PICK it : it = [payload |-> p, deliveries |-> 0]
      OBVIOUS
    <3>2. it \in PendingItems' /\ it.payload = p /\ it.deliveries = 0
      BY <1>2, <1>5, <3>1
    <3> QED
      BY <3>2
  <2>2. CopiesOf'[p] = Copies(1, 0, 0, 0) /\ CountOf'[p] = 0
    BY <1>1, <2>1 DEF PlaceInv
  <2>3. CopiesOf[p] = Abstract!Nowhere
    BY <1>3, CopiesMove
  <2>4. CopiesOf' = [CopiesOf EXCEPT ![p]["waiting"] = 1]
    <3>1. CopiesOf' = [CopiesOf EXCEPT ![p] = Copies(1, 0, 0, 0)]
      BY <1>3, <2>2 DEF CopiesOf
    <3>2. Copies(1, 0, 0, 0) = [CopiesOf[p] EXCEPT !["waiting"] = 1]
      BY <2>3, CopiesMove
    <3> QED
      BY <3>1, <3>2
  <2>5. CountOf' = CountOf
    BY <1>3, <2>2 DEF CountOf
  <2> QED
    BY <1>2, <2>3, <2>4, <2>5
       DEF Abstract!Publish, CopiesOf, CountOf, Copies, LiveOf
<1> QED
  BY <1>4, <1>5

\* The pop claims it, with one more delivery counted.
LEMMA ClaimImplements ==
  ASSUME IInv, IInv', NEW r \in Receivers, Pop(r)
  PROVE  \E p \in Payloads : Abstract!Claim(p)
<1>1. PlaceInv /\ PlaceInv'
  BY CopyOfPayload, PTL
<1>2. PICK it : it = Head(pending)
  OBVIOUS
<1>3. PICK one : one = Counted(it)
  OBVIOUS
<1>4. /\ Moved(it.payload, "pending", "offer")
      /\ it \in PendingItems /\ one \in OfferItems'
      /\ UNCHANGED <<closed, cancelled>>
  BY <1>2, <1>3, PopMoves DEF IInv, Pop, flags
<1>5. PICK p \in Payloads : p = it.payload
  BY <1>4 DEF Moved
<1>6. one.payload = p /\ one.deliveries = it.deliveries + 1
  <2>1. it \in Item
    BY <1>4 DEF IInv, TypeInv, PendingItems
  <2> QED
    BY <1>3, <1>5, <2>1 DEF Counted, Item
<1>7. /\ CopiesOf[p] = Copies(1, 0, 0, 0) /\ CountOf[p] = it.deliveries
      /\ CopiesOf'[p] = Copies(0, 1, 0, 0)
      /\ CountOf'[p] = it.deliveries + 1
  BY <1>1, <1>4, <1>5, <1>6 DEF PlaceInv
<1>8. \A n \in Payloads \ {p} :
        CopiesOf'[n] = CopiesOf[n] /\ CountOf'[n] = CountOf[n]
  BY <1>4, <1>5, OthersCopied
<1>9. CopiesOf[p]["waiting"] > 0
  BY <1>7, CopiesMove
<1>10. CopiesOf'
         = [CopiesOf EXCEPT ![p]["waiting"] = @ - 1, ![p]["held"] = @ + 1]
  <2>1. CopiesOf'[p]
          = [CopiesOf[p] EXCEPT !["waiting"] = @ - 1, !["held"] = @ + 1]
    BY <1>7, CopiesMove
  <2>2. /\ DOMAIN CopiesOf = Payloads
        /\ CopiesOf' = [n \in Payloads |-> CopiesOf'[n]]
    BY DEF CopiesOf
  <2> QED
    BY <1>8, <2>1, <2>2, MovedFrom, ZenonT(60)
<1>11. CountOf' = [CountOf EXCEPT ![p] = @ + 1]
  BY <1>7, <1>8 DEF CountOf
<1>12. Abstract!Claim(p)
  BY <1>4, <1>9, <1>10, <1>11
     DEF Abstract!Claim, CopiesOf, CountOf, Copies, LiveOf
<1> QED
  BY <1>12

\* The handing over, or the loss, leaves it held.
LEMMA OfferImplements ==
  ASSUME IInv, IInv', NEW r \in Receivers,
         HandOver(r) \/ ReturnOnCancel(r), rpc[r] = "offer"
  PROVE  UNCHANGED Abstract!vars
<1>1. PlaceInv /\ PlaceInv'
  BY CopyOfPayload, PTL
<1>2. PICK it : it = offer[r]
  OBVIOUS
<1>3. /\ it \in OfferItems /\ it \in open' \cup lost'
      /\ \/ Moved(it.payload, "offer", "open")
         \/ Moved(it.payload, "offer", "lost")
      /\ UNCHANGED <<closed, cancelled>>
  BY <1>2, OfferMoves DEF IInv, HandOver, ReturnOnCancel, flags
<1>4. /\ CopiesOf'[it.payload] = CopiesOf[it.payload]
      /\ CountOf'[it.payload] = CountOf[it.payload]
  BY <1>1, <1>3 DEF PlaceInv
<1>5. \A n \in Payloads \ {it.payload} :
        CopiesOf'[n] = CopiesOf[n] /\ CountOf'[n] = CountOf[n]
  BY <1>3, OthersCopied
<1>6. \A n \in Payloads :
        CopiesOf'[n] = CopiesOf[n] /\ CountOf'[n] = CountOf[n]
  BY <1>4, <1>5
<1> QED
  BY <1>3, <1>6, StillImplements

\* Ack and DeadLetter finalize it, a Nack gives it back.
LEMMA FinalizeImplements ==
  ASSUME IInv, IInv', NEW m \in open, Finalize(m)
  PROVE  \E p \in Payloads : \/ Abstract!Finalize(p, "acked")
                             \/ Abstract!Finalize(p, "dead")
                             \/ Abstract!GiveBack({p})
<1>1. PlaceInv /\ PlaceInv'
  BY CopyOfPayload, PTL
<1>2. PICK p : p = m.payload
  OBVIOUS
<1>3. /\ \/ Moved(p, "open", "acked")
         \/ Moved(p, "open", "dead")
         \/ Moved(p, "open", "pending") /\ m \in PendingItems'
      /\ UNCHANGED <<closed, cancelled>>
  BY <1>2, FinalizeMoves
     DEF IInv, Finalize, Ack, Nack, DeadLetter, flags, receivers
<1>4. /\ p \in Payloads
      /\ \A n \in Payloads \ {p} :
           CopiesOf'[n] = CopiesOf[n] /\ CountOf'[n] = CountOf[n]
  <2>1. PICK y : Moved(p, "open", y)
    BY <1>3
  <2>2. p \in Payloads
    BY <2>1 DEF Moved
  <2> QED
    BY <2>1, <2>2, OthersCopied
<1>5. CopiesOf[p] = Copies(0, 1, 0, 0) /\ CountOf[p] = m.deliveries
  BY <1>1, <1>2 DEF PlaceInv
<1>6. CopiesOf[p]["held"] > 0
  BY <1>5, CopiesMove
<1>7. ASSUME NEW place \in {"acked", "dead"}, Moved(p, "open", place)
      PROVE  Abstract!Finalize(p, place)
  <2>1. p \in IF place = "acked" THEN acked' ELSE DeadPayloads'
    BY <1>7 DEF Moved, Home, Homes
  <2>2. /\ CopiesOf'[p] = IF place = "acked" THEN Copies(0, 0, 1, 0)
                          ELSE Copies(0, 0, 0, 1)
        /\ CountOf'[p] = 0
    BY <1>1, <2>1 DEF PlaceInv
  <2>3. CopiesOf'
          = [CopiesOf EXCEPT ![p]["held"] = @ - 1, ![p][place] = @ + 1]
    <3>1. CopiesOf'[p]
            = [CopiesOf[p] EXCEPT !["held"] = @ - 1, ![place] = @ + 1]
      BY <1>5, <2>2, CopiesMove
    <3>2. /\ DOMAIN CopiesOf = Payloads
          /\ CopiesOf' = [n \in Payloads |-> CopiesOf'[n]]
      BY DEF CopiesOf
    <3> QED
      BY <1>4, <3>1, <3>2, MovedFrom, ZenonT(60)
  <2>4. CountOf' = [CountOf EXCEPT ![p] = 0]
    BY <1>4, <2>2 DEF CountOf
  <2> QED
    BY <1>3, <1>6, <2>3, <2>4
       DEF Abstract!Finalize, CopiesOf, CountOf, Copies, LiveOf
<1>8. ASSUME m \in PendingItems' PROVE Abstract!GiveBack({p})
  <2>1. CopiesOf'[p] = Copies(1, 0, 0, 0) /\ CountOf'[p] = m.deliveries
    BY <1>1, <1>2, <1>8 DEF PlaceInv
  <2>2. \A n \in {p} : CopiesOf[n]["held"] > 0
    BY <1>6
  <2>3. CopiesOf' = [n \in Payloads |->
                       IF n \in {p}
                       THEN [CopiesOf[n] EXCEPT !["waiting"] = @ + 1,
                                                !["held"] = @ - 1]
                       ELSE CopiesOf[n]]
    <3>1. CopiesOf'[p] = [CopiesOf[p] EXCEPT !["waiting"] = @ + 1,
                                             !["held"] = @ - 1]
      BY <1>5, <2>1, CopiesMove
    <3>2. /\ DOMAIN CopiesOf' = Payloads
          /\ CopiesOf' = [n \in Payloads |-> CopiesOf'[n]]
      BY DEF CopiesOf
    <3> QED
      BY <1>4, <3>1, <3>2
  <2>4. CountOf' = CountOf
    BY <1>4, <1>5, <2>1 DEF CountOf
  <2> QED
    BY <1>3, <2>2, <2>3, <2>4
       DEF Abstract!GiveBack, CopiesOf, CountOf, Copies, LiveOf
<1> QED
  BY <1>3, <1>4, <1>7, <1>8

\* The other steps do nothing to a message; some close the queue.
LEMMA StayImplements ==
  ASSUME IInv, IInv', Stayed
  PROVE  Abstract!Toggle \/ UNCHANGED Abstract!vars
<1>1. NumberInv /\ NumberInv'
  BY CopyNumbers, PTL
<1>2. \A n \in Payloads : CopiesOf'[n] = CopiesOf[n]
  <2>1. \A n, h : In(n, h)' = In(n, h)
    BY DEF In, Stayed
  <2> QED
    BY <1>1, <2>1 DEF NumberInv
<1>3. \A n \in Payloads : CountOf'[n] = CountOf[n]
  <2> TAKE n \in Payloads
  <2>1. LiveOf(n) = {it \in LiveItems : it.payload = n}
    BY LiveOfPayload
  <2>2. LiveOf(n)' = {it \in LiveItems' : it.payload = n}
    BY DEF LiveOf, Waiting, HeldItems, LiveItems, PendingItems, OfferItems
  <2>3. LiveOf(n)' = LiveOf(n)
    BY <2>1, <2>2 DEF Stayed
  <2> QED
    BY <2>3 DEF CountOf
<1>4. CopiesOf' = CopiesOf /\ CountOf' = CountOf
  BY <1>2, <1>3 DEF CopiesOf, CountOf
<1> DEFINE working == ~closed /\ cancelled = {}
<1>5. CASE working' = working
  BY <1>4, <1>5 DEF Abstract!vars, CopiesOf, CountOf, Copies, LiveOf
<1>6. CASE working' = ~working
  BY <1>4, <1>6 DEF Abstract!Toggle, CopiesOf, CountOf, Copies, LiveOf
<1> QED
  BY <1>5, <1>6

\* Every step is a step of Delivery or leaves it alone.
LEMMA StepImplements ==
  IInv /\ IInv' /\ [Next]_vars => [Abstract!Next]_(Abstract!vars)
<1> SUFFICES ASSUME IInv, IInv', [Next]_vars
             PROVE  Abstract!Next \/ UNCHANGED Abstract!vars
  OBVIOUS
<1>1. ASSUME NEW p \in Payloads, Publish(p)
      PROVE  Abstract!Next \/ UNCHANGED Abstract!vars
  BY <1>1, PublishImplements DEF Abstract!Next
<1>2. ASSUME NEW r \in Receivers, Pop(r)
      PROVE  Abstract!Next
  BY <1>2, ClaimImplements DEF Abstract!Next
<1>3. ASSUME NEW r \in Receivers, HandOver(r) \/ ReturnOnCancel(r),
             rpc[r] = "offer"
      PROVE  UNCHANGED Abstract!vars
  BY <1>3, OfferImplements
<1>4. ASSUME NEW m \in open, Finalize(m)
      PROVE  Abstract!Next
  <2>1. \A p \in Payloads : {p} \in SUBSET Payloads
    OBVIOUS
  <2> QED
    BY <1>4, <2>1, FinalizeImplements DEF Abstract!Next
<1>5. ASSUME \/ Seal \/ Close \/ Signal
             \/ \E r \in Receivers :
                  \/ FindEmpty(r) \/ Wake(r) \/ CancelCtx(r)
                  \/ ReturnOnCancel(r) /\ rpc[r] = "wait"
             \/ UNCHANGED vars
      PROVE  Abstract!Next \/ UNCHANGED Abstract!vars
  BY <1>5, OthersStay, StayImplements DEF Abstract!Next, IInv
<1>6. \A r \in Receivers : /\ HandOver(r) => rpc[r] = "offer"
                           /\ ReturnOnCancel(r) => rpc[r] \in {"wait", "offer"}
  BY DEF HandOver, ReturnOnCancel
<1> QED
  BY <1>1, <1>2, <1>3, <1>4, <1>5, <1>6 DEF Next, Receiver

\* The in-memory queue is a Delivery, for any number of receivers and payloads:
\* one copy of an item, counted at every delivery, through Nacks, cancellations
\* and Close.  (That it is delivered again is ImplementsDelivery's other half,
\* a liveness property.)
THEOREM MemoryImplements == Spec => Abstract!Spec
  BY InitIInv, NextIInv, InitImplements, StepImplements, PTL
     DEF Spec, Abstract!Spec

-----------------------------------------------------------------------------
(* What a Delivery is known to do, of the queue in memory.                  *)

Promise == INSTANCE DeliveryProofs WITH
  Messages <- Payloads,
  copies <- [p \in Payloads |->
               [waiting |-> Cardinality(Waiting(p)), held |-> Holders(p),
                acked |-> Cardinality({p} \cap acked),
                dead |-> Cardinality({k \in DOMAIN dead : dead[k] = p})]],
  count <- [p \in Payloads |->
              LET live == {pending[k] : k \in Waiting(p)} \cup HeldItems(p) IN
              IF live = {} THEN 0 ELSE (CHOOSE it \in live : TRUE).deliveries],
  open <- ~closed /\ cancelled = {}

\* Abstract and Promise instantiate Delivery alike.
LEMMA SamePromise ==
  /\ Abstract!Init = Promise!Init
  /\ Abstract!Next = Promise!Next
  /\ UNCHANGED Abstract!vars <=> UNCHANGED Promise!vars
  /\ Abstract!NothingUndone = Promise!NothingUndone
  /\ Abstract!OneCopy = Promise!OneCopy
  BY DEF Abstract!Init, Promise!Init, Abstract!Nowhere, Promise!Nowhere,
         Abstract!Next, Promise!Next, Abstract!Publish, Promise!Publish,
         Abstract!Claim, Promise!Claim, Abstract!GiveBack, Promise!GiveBack,
         Abstract!Finalize, Promise!Finalize, Abstract!Toggle, Promise!Toggle,
         Abstract!vars, Promise!vars, Abstract!Places, Promise!Places,
         Abstract!NothingUndone, Promise!NothingUndone,
         Abstract!Finalized, Promise!Finalized,
         Abstract!OneCopy, Promise!OneCopy

\* An item of the queue is in one place, and stays where it was finalized.
THEOREM FinalForGood ==
  Spec => []Abstract!OneCopy /\ [][Abstract!NothingUndone]_(Abstract!vars)
<1>1. Abstract!Init => Promise!Init
  BY SamePromise
<1>2. [Abstract!Next]_(Abstract!vars) => [Promise!Next]_(Promise!vars)
  BY SamePromise
<1>3. Spec => Promise!Spec
  <2>1. Spec => Abstract!Spec
    BY MemoryImplements
  <2> QED
    BY <1>1, <1>2, <2>1, PTL DEF Abstract!Spec, Promise!Spec
<1>4. Promise!OneCopy => Abstract!OneCopy
  BY SamePromise
<1>5. [Promise!NothingUndone]_(Promise!vars)
        => [Abstract!NothingUndone]_(Abstract!vars)
  BY SamePromise
<1>6. Spec => []Abstract!OneCopy
  BY <1>3, <1>4, Promise!OneCopyAlways, PTL
<1>7. Spec => [][Abstract!NothingUndone]_(Abstract!vars)
  BY <1>3, <1>5, Promise!FinalForGood, PTL
<1> QED
  BY <1>6, <1>7
=============================================================================
