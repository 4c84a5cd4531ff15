--------------------------------- MODULE MemQ ---------------------------------
(***************************************************************************)
(* The in-memory queue (queue/memq): a slice of pending items, a count of  *)
(* the outstanding ones, and a channel of capacity 1 that wakes a receiver *)
(* up.  Each Receive call is a goroutine that pops items under the mutex   *)
(* and offers them on an unbuffered channel.  An action is one critical    *)
(* section or one select; signal(), which the code calls after it unlocks, *)
(* is a step of its own.                                                   *)
(***************************************************************************)
EXTENDS Integers, Sequences, FiniteSets

CONSTANTS
  Payloads,     \* what the producers publish, each once
  NoItem,       \* what a receiver that offers nothing holds
  Receivers,    \* the calls of Receive
  Cancellable,  \* the receivers whose ctx may be cancelled
  MaxDeliveries \* a bound: an item delivered this often is not nacked again

Item == [payload : Payloads, deliveries : 0..MaxDeliveries]

ASSUME PayloadAssumption == IsFiniteSet(Payloads) /\ NoItem \notin Item
ASSUME ReceiverAssumption == Cancellable \subseteq Receivers
ASSUME BoundAssumption == MaxDeliveries \in Nat \ {0}

VARIABLES
  unpublished, \* the payloads no Publish was called for
  rejected,    \* the payloads whose Publish returned ErrClosed
  pending,     \* q.pending
  outstanding, \* q.outstanding
  sealed,      \* q.sealed
  closed,      \* q.closed
  dead,        \* q.dead
  notify,      \* q.notify holds a token
  signals,     \* how many goroutines have unlocked and not yet signalled
  rpc,         \* rpc[r]: where receiver r stands; "exited": its channel closed
  offer,       \* offer[r]: the item r has popped and not handed over
  cancelled,   \* the receivers whose ctx is done
  open,        \* the messages handed over and not finalized
  acked,       \* the payloads that were acknowledged
  lost         \* the items a receiver held when its ctx was done

producers == <<unpublished, rejected>>
flags == <<sealed, closed>>
receivers == <<rpc, offer, cancelled>>
handles == <<open, acked, lost>>
vars == <<producers, pending, outstanding, flags, dead, notify, signals,
          receivers, handles>>

-----------------------------------------------------------------------------
Init ==
  /\ unpublished = Payloads
  /\ rejected = {}
  /\ pending = <<>>
  /\ outstanding = 0
  /\ sealed = FALSE
  /\ closed = FALSE
  /\ dead = <<>>
  /\ notify = FALSE
  /\ signals = 0
  /\ rpc = [r \in Receivers |-> "lock"]
  /\ offer = [r \in Receivers |-> NoItem]
  /\ cancelled = {}
  /\ open = {}
  /\ acked = {}
  /\ lost = {}

-----------------------------------------------------------------------------
(* Producers.                                                              *)

\* The unlock is followed by signal().
Signals == signals' = signals + 1

Publish(p) ==
  /\ p \in unpublished
  /\ unpublished' = unpublished \ {p}
  /\ IF sealed \/ closed
     THEN /\ rejected' = rejected \cup {p}
          /\ UNCHANGED <<pending, outstanding, signals>>
     ELSE /\ pending' = Append(pending, [payload |-> p, deliveries |-> 0])
          /\ outstanding' = outstanding + 1
          /\ Signals
          /\ UNCHANGED rejected
  /\ UNCHANGED <<flags, dead, notify, receivers, handles>>

Seal ==
  /\ ~sealed
  /\ sealed' = TRUE
  /\ Signals
  /\ UNCHANGED <<producers, pending, outstanding, closed, dead, notify,
                 receivers, handles>>

Close ==
  /\ ~closed
  /\ closed' = TRUE
  /\ Signals
  /\ UNCHANGED <<producers, pending, outstanding, sealed, dead, notify,
                 receivers, handles>>

\* signal(): a token, unless there is one already.
Signal ==
  /\ signals > 0
  /\ signals' = signals - 1
  /\ notify' = TRUE
  /\ UNCHANGED <<producers, pending, outstanding, flags, dead, receivers,
                 handles>>

-----------------------------------------------------------------------------
(* Receive: the goroutine of receiver r.                                   *)

drainedLocked == sealed /\ outstanding = 0 /\ pending = <<>>

Goto(r, label) == rpc' = [rpc EXCEPT ![r] = label]

\* Mutant: the delivery is counted on a copy that is thrown away.
Uncounted(it) == it

\* it.deliveries++
Counted(it) == [it EXCEPT !.deliveries = @ + 1]

Pop(r) ==
  /\ rpc[r] = "lock"
  /\ pending # <<>>
  /\ offer' = [offer EXCEPT ![r] = Counted(Head(pending))]
  /\ pending' = Tail(pending)
  /\ Goto(r, "offer")
  /\ UNCHANGED <<producers, outstanding, flags, dead, notify, signals,
                 cancelled, handles>>

\* Nothing is pending: return if closed or drained, else wait.
FindEmpty(r) ==
  /\ rpc[r] = "lock"
  /\ pending = <<>>
  /\ Goto(r, IF closed \/ drainedLocked THEN "exited" ELSE "wait")
  /\ UNCHANGED <<producers, pending, outstanding, flags, dead, notify,
                 signals, offer, cancelled, handles>>

Wake(r) ==
  /\ rpc[r] = "wait"
  /\ notify
  /\ notify' = FALSE
  /\ Goto(r, "lock")
  /\ UNCHANGED <<producers, pending, outstanding, flags, dead, signals, offer,
                 cancelled, handles>>

\* The consumer receives the message.
HandOver(r) ==
  /\ rpc[r] = "offer"
  /\ open' = open \cup {offer[r]}
  /\ offer' = [offer EXCEPT ![r] = NoItem]
  /\ Goto(r, "lock")
  /\ UNCHANGED <<producers, pending, outstanding, flags, dead, notify,
                 signals, cancelled, acked, lost>>

\* ctx is done: the receiver returns, with the item it holds if it has one.
ReturnOnCancel(r) ==
  /\ rpc[r] \in {"wait", "offer"}
  /\ r \in cancelled
  /\ Goto(r, "exited")
  /\ lost' = lost \cup ({offer[r]} \ {NoItem})
  /\ offer' = [offer EXCEPT ![r] = NoItem]
  /\ UNCHANGED <<producers, pending, outstanding, flags, dead, notify,
                 signals, cancelled, open, acked>>

CancelCtx(r) ==
  /\ r \in Cancellable \ cancelled
  /\ cancelled' = cancelled \cup {r}
  /\ UNCHANGED <<producers, pending, outstanding, flags, dead, notify,
                 signals, rpc, offer, handles>>

-----------------------------------------------------------------------------
(* The handle of a message: sync.Once lets the first call through.         *)

Once(m) == m \in open /\ open' = open \ {m}

Ack(m) ==
  /\ Once(m)
  /\ outstanding' = outstanding - 1
  /\ acked' = acked \cup {m.payload}
  /\ Signals
  /\ UNCHANGED <<producers, pending, flags, dead, notify, receivers, lost>>

\* Mutant: the requeued item is counted as finalized.
NackUncounted(m) ==
  /\ Once(m)
  /\ m.deliveries < MaxDeliveries
  /\ pending' = Append(pending, m)
  /\ outstanding' = outstanding - 1
  /\ Signals
  /\ UNCHANGED <<producers, flags, dead, notify, receivers, acked, lost>>

\* Mutant: the nack does not signal.
NackSilently(m) ==
  /\ Once(m)
  /\ m.deliveries < MaxDeliveries
  /\ pending' = Append(pending, m)
  /\ UNCHANGED <<producers, outstanding, flags, dead, notify, signals,
                 receivers, acked, lost>>

Nack(m) ==
  /\ Once(m)
  /\ m.deliveries < MaxDeliveries
  /\ pending' = Append(pending, m)
  /\ Signals
  /\ UNCHANGED <<producers, outstanding, flags, dead, notify, receivers,
                 acked, lost>>

DeadLetter(m) ==
  /\ Once(m)
  /\ outstanding' = outstanding - 1
  /\ dead' = Append(dead, m.payload)
  /\ Signals
  /\ UNCHANGED <<producers, pending, flags, notify, receivers, acked, lost>>

Finalize(m) == Ack(m) \/ Nack(m) \/ DeadLetter(m)

Receiver(r) ==
  Pop(r) \/ FindEmpty(r) \/ Wake(r) \/ HandOver(r) \/ ReturnOnCancel(r)

Next ==
  \/ \E p \in Payloads : Publish(p)
  \/ Seal \/ Close \/ Signal
  \/ \E r \in Receivers : Receiver(r) \/ CancelCtx(r)
  \/ \E m \in open : Finalize(m)

Spec == Init /\ [][Next]_vars

(***************************************************************************)
(* Fairness.  A goroutine that can run does: receivers go on while the     *)
(* consumer reads, which it does, and every message is finalized in the    *)
(* end.  Nobody is obliged to publish, seal, close or cancel.              *)
(***************************************************************************)
Fairness ==
  /\ WF_vars(Signal)
  /\ \A r \in Receivers : WF_vars(Receiver(r))
  /\ \A m \in Item : WF_vars(Finalize(m))

FairSpec == Spec /\ Fairness

-----------------------------------------------------------------------------
TypeOK ==
  /\ unpublished \subseteq Payloads /\ rejected \subseteq Payloads
  /\ pending \in Seq(Item)
  /\ outstanding \in 0..Cardinality(Payloads)
  /\ sealed \in BOOLEAN /\ closed \in BOOLEAN /\ notify \in BOOLEAN
  /\ dead \in Seq(Payloads)
  /\ signals \in Nat
  /\ rpc \in [Receivers -> {"lock", "wait", "offer", "exited"}]
  /\ offer \in [Receivers -> Item \cup {NoItem}]
  /\ cancelled \subseteq Cancellable
  /\ open \subseteq Item
  /\ acked \subseteq Payloads /\ lost \subseteq Item

Offering == {r \in Receivers : offer[r] # NoItem}

\* outstanding is what drainedLocked takes it for: the published items that
\* are not finalized.  An item that was lost stays outstanding for ever.
OutstandingIsExact ==
  outstanding = Len(pending) + Cardinality(Offering) + Cardinality(open)
                + Cardinality(lost)

\* No wake-up is lost, as long as no receiver was cancelled: when those that
\* are left all wait, no token is there and no signal is on its way, there is
\* nothing to deliver, and the first of them has had no reason to return.
NoLostWakeup ==
  LET left == {r \in Receivers : rpc[r] # "exited"} IN
  /\ left # {} /\ cancelled = {}
  /\ \A r \in left : rpc[r] = "wait"
  /\ ~notify /\ signals = 0
  => /\ pending = <<>>
     /\ left = Receivers => ~closed /\ ~drainedLocked

Finalized(p) == p \in acked \/ \E k \in DOMAIN dead : dead[k] = p

Published == Payloads \ (unpublished \cup rejected)

\* Once a sealed batch is finalized, every Receive channel closes.  (memq.go:
\* "once it drains ... Receive's channel closes".)
DrainCloses ==
  \A r \in Receivers :
    (sealed /\ \A p \in Published : Finalized(p)) ~> rpc[r] = "exited"

\* The live items with payload p, wherever they are.
Waiting(p) == {k \in DOMAIN pending : pending[k].payload = p}

HeldItems(p) ==
  {it \in {offer[r] : r \in Offering} \cup open \cup lost : it.payload = p}

Holders(p) ==
  Cardinality({r \in Offering : offer[r].payload = p})
  + Cardinality({it \in open : it.payload = p})
  + Cardinality({it \in lost : it.payload = p})

Abstract == INSTANCE Delivery WITH
  Messages <- Payloads,
  copies <- [p \in Payloads |->
               [waiting |-> Cardinality(Waiting(p)), held |-> Holders(p),
                acked |-> Cardinality({p} \cap acked),
                dead |-> Cardinality({k \in DOMAIN dead : dead[k] = p})]],
  count <- [p \in Payloads |->
              LET live == {pending[k] : k \in Waiting(p)} \cup HeldItems(p) IN
              IF live = {} THEN 0 ELSE (CHOOSE it \in live : TRUE).deliveries],
  open <- ~closed /\ cancelled = {}

\* The queue is a Delivery: an item is never duplicated nor lost - but by a
\* receiver cancelled with it in hand, who holds it for ever -, Deliveries()
\* counts every delivery, a Nack's included, and the item comes back until it
\* is finalized.
ImplementsDelivery == Abstract!Spec /\ Abstract!Redelivered
=============================================================================
