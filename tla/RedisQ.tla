-------------------------------- MODULE RedisQ --------------------------------
(***************************************************************************)
(* The Redis-backed queue (queue/redisq), shared by consumers on several   *)
(* machines.  A Lua script and a MULTI/EXEC pipeline run atomically in     *)
(* Redis, so each is one action; between two of them the other consumers   *)
(* run, a consumer may crash, a call may fail, and leases run out.         *)
(*                                                                         *)
(* Messages are the ids of Publish.  A lease is abstracted to whether its  *)
(* deadline has passed, and processing, of which only LREM and LLEN are    *)
(* used, to how often each id is in it.                                    *)
(***************************************************************************)
EXTENDS Integers, Sequences, FiniteSets, SequencesExt

CONSTANTS
  Messages,
  Poison,     \* the messages whose payload does not decode
  Hasty,      \* the messages whose leases may run out under the work; another
              \* lease runs out only when no live consumer holds the message
  Consumers,  \* the processes that call Receive
  MaxCrashes, \* a bound on crashes, cancellations and failing calls
  MaxClaims   \* a bound on how often a message is claimed

ASSUME MessageAssumption ==
  /\ IsFiniteSet(Messages)
  /\ Poison \subseteq Messages /\ Hasty \subseteq Messages
ASSUME BoundAssumption == MaxCrashes \in Nat /\ MaxClaims \in Nat \ {0}

VARIABLES
  unpublished, \* the messages no Publish was called for
  pending,     \* the list pending: LPUSH at the head, RPOP at the end
  processing,  \* processing[m]: how often m is in the list processing
  leases,      \* leases[m]: "none", "held" or "passed"
  payloads,    \* the ids the hash payloads has
  deliveries,  \* deliveries[m]: the count in the hash deliveries
  dead,        \* dead[m]: how often m is in the list dead
  sealed,      \* the key sealed exists
  cpc,         \* cpc[c]: where the receiver of consumer c stands
  current,     \* current[c]: the claim whose message c holds, as a set
  handles,     \* the messages handed over and not finalized
  acked,       \* the messages a consumer acknowledged
  claims,      \* claims[m]: how often m was claimed
  crashes      \* how many crashes and failed calls there have been

redis == <<pending, processing, leases, payloads, deliveries, dead>>
producers == <<unpublished, sealed>>
receivers == <<cpc, current>>
finals == <<handles, acked>>
bounds == <<claims, crashes>>
vars == <<producers, redis, receivers, finals, bounds>>

-----------------------------------------------------------------------------
\* A delivery: the n-th claim of a message, by a consumer.
Delivery == [owner : Consumers, msg : Messages, n : 1..MaxClaims]

Init ==
  /\ unpublished = Messages
  /\ pending = <<>>
  /\ processing = [m \in Messages |-> 0]
  /\ leases = [m \in Messages |-> "none"]
  /\ payloads = {}
  /\ deliveries = [m \in Messages |-> 0]
  /\ dead = [m \in Messages |-> 0]
  /\ sealed = FALSE
  /\ cpc = [c \in Consumers |-> "reclaim"]
  /\ current = [c \in Consumers |-> {}]
  /\ handles = {}
  /\ acked = {}
  /\ claims = [m \in Messages |-> 0]
  /\ crashes = 0

-----------------------------------------------------------------------------
\* HSET payloads and LPUSH pending, in one MULTI.
Publish(m) ==
  /\ m \in unpublished
  /\ ~sealed
  /\ unpublished' = unpublished \ {m}
  /\ payloads' = payloads \cup {m}
  /\ pending' = <<m>> \o pending
  /\ UNCHANGED <<sealed, processing, leases, deliveries, dead, receivers,
                 finals, bounds>>

\* Called after the batch.
Seal ==
  /\ ~sealed
  /\ unpublished = {}
  /\ sealed' = TRUE
  /\ UNCHANGED <<unpublished, redis, receivers, finals, bounds>>

\* The deliveries consumers have in hand.
Held == handles \cup UNION {current[c] : c \in Consumers}

\* Time passes: the deadline of m's lease.
Expire(m) ==
  /\ leases[m] = "held"
  /\ m \in Hasty \/ \A d \in Held : d.msg # m
  /\ claims[m] < MaxClaims
  /\ leases' = [leases EXCEPT ![m] = "passed"]
  /\ UNCHANGED <<producers, pending, processing, payloads, deliveries, dead,
                 receivers, finals, bounds>>

-----------------------------------------------------------------------------
(* Receive: the goroutine of consumer c.                                   *)

Goto(c, label) == cpc' = [cpc EXCEPT ![c] = label]

\* Mutant: the count of an id that is not there goes below zero.
LremBlindly(m) == [processing EXCEPT ![m] = @ - 1]

\* LREM processing 1 m
Lrem(m) == IF processing[m] > 0 THEN [processing EXCEPT ![m] = @ - 1]
           ELSE processing

\* Mutant: the reclaimed ids are not pushed.
Forget(ids) == UNCHANGED pending

\* LPUSH pending, in the order of the leases.
PushAll(ids) == \E s \in SetToSeqs(ids) : pending' = s \o pending

\* Mutant: no lease is ever found to have passed.
NothingExpired == {}

\* ZRANGEBYSCORE leases -inf now
Expired == {m \in Messages : leases[m] = "passed"}

\* reclaimScript: what has expired goes back to pending.
ReclaimScript ==
  /\ PushAll(Expired)
  /\ processing' = [m \in Messages |->
                      IF m \in Expired THEN Lrem(m)[m] ELSE processing[m]]
  /\ leases' = [m \in Messages |->
                  IF m \in Expired THEN "none" ELSE leases[m]]

Reclaim(c) ==
  /\ cpc[c] = "reclaim"
  /\ ReclaimScript
  /\ Goto(c, "claim")
  /\ UNCHANGED <<producers, payloads, deliveries, dead, current, finals,
                 bounds>>

\* Mutant: the id moves and gets no deadline.
NoLease(m) == leases

\* ZADD leases
Lease(m) == [leases EXCEPT ![m] = "held"]

\* claimScript: the oldest pending id moves to processing and gets a lease.
ClaimScript(c) ==
  LET m == Last(pending) IN
  /\ pending # <<>>
  /\ claims[m] < MaxClaims
  /\ pending' = Front(pending)
  /\ processing' = [processing EXCEPT ![m] = @ + 1]
  /\ deliveries' = [deliveries EXCEPT ![m] = @ + 1]
  /\ leases' = Lease(m)
  /\ claims' = [claims EXCEPT ![m] = @ + 1]

\* The reply arrives; a payload that is gone or does not decode is diverted.
Claim(c) ==
  /\ cpc[c] = "claim"
  /\ ClaimScript(c)
  /\ LET m == Last(pending) IN
       /\ current' = [current EXCEPT
                        ![c] = {[owner |-> c, msg |-> m, n |-> claims'[m]]}]
       /\ Goto(c, IF m \in payloads \ Poison THEN "offer" ELSE "divert")
  /\ UNCHANGED <<producers, payloads, dead, finals, crashes>>

\* The reply is lost: the message is claimed and nobody knows.
ClaimReplyLost(c) ==
  /\ cpc[c] = "claim"
  /\ crashes < MaxCrashes
  /\ ClaimScript(c)
  /\ claims'[Last(pending)] < MaxClaims
  /\ crashes' = crashes + 1
  /\ Goto(c, "reclaim")
  /\ UNCHANGED <<producers, payloads, dead, current, finals>>

FindEmpty(c) ==
  /\ cpc[c] = "claim"
  /\ pending = <<>>
  /\ Goto(c, "drain")
  /\ UNCHANGED <<producers, redis, current, finals, bounds>>

\* Mutant: the drain check looks at pending only.
NothingPending == sealed /\ pending = <<>>

\* drainScript: sealed and both lists empty, in one snapshot.
Drained ==
  sealed /\ pending = <<>> /\ \A m \in Messages : processing[m] = 0

Drain(c) ==
  /\ cpc[c] = "drain"
  /\ Goto(c, IF Drained THEN "drained" ELSE "reclaim")
  /\ UNCHANGED <<producers, redis, current, finals, bounds>>

HandOver(c) ==
  /\ cpc[c] = "offer"
  /\ handles' = handles \cup current[c]
  /\ current' = [current EXCEPT ![c] = {}]
  /\ Goto(c, "reclaim")
  /\ UNCHANGED <<producers, redis, acked, bounds>>

\* ctx is done: Redis calls fail and the selects return.  The workers still
\* have their handles, whose calls use a context of their own.
ReturnOnCancel(c) ==
  /\ cpc[c] \in {"reclaim", "claim", "offer", "drain"}
  /\ crashes < MaxCrashes
  /\ \A d \in current[c] : claims[d.msg] < MaxClaims
  /\ crashes' = crashes + 1
  /\ current' = [current EXCEPT ![c] = {}]
  /\ Goto(c, "down")
  /\ UNCHANGED <<producers, redis, finals, claims>>

\* The process dies: its handles are gone, what it held stays in processing.
Crash(c) ==
  /\ crashes < MaxCrashes
  /\ \A d \in current[c] \cup {h \in handles : h.owner = c} :
       claims[d.msg] < MaxClaims
  /\ crashes' = crashes + 1
  /\ handles' = {h \in handles : h.owner # c}
  /\ current' = [current EXCEPT ![c] = {}]
  /\ Goto(c, "down")
  /\ UNCHANGED <<producers, redis, acked, claims>>

Restart(c) ==
  /\ cpc[c] = "down"
  /\ Goto(c, "reclaim")
  /\ UNCHANGED <<producers, redis, current, finals, bounds>>

-----------------------------------------------------------------------------
(* Finalization.  A handle knows the id only, not the claim it is from.    *)

DivertScript(m) ==
  /\ processing' = Lrem(m)
  /\ leases' = [leases EXCEPT ![m] = "none"]
  /\ dead' = [dead EXCEPT ![m] = @ + 1]
  /\ UNCHANGED <<pending, payloads, deliveries>>

Divert(c) ==
  /\ cpc[c] = "divert"
  /\ \E d \in current[c] : DivertScript(d.msg)
  /\ current' = [current EXCEPT ![c] = {}]
  /\ Goto(c, "drain")
  /\ UNCHANGED <<producers, finals, bounds>>

\* Mutant: the id stays in processing.
SettleWithoutLrem(h) ==
  /\ h \in handles
  /\ handles' = handles \ {h}
  /\ leases' = [leases EXCEPT ![h.msg] = "none"]
  /\ UNCHANGED processing

\* What the three pipelines begin with.
Settle(h) ==
  /\ h \in handles
  /\ handles' = handles \ {h}
  /\ processing' = Lrem(h.msg)
  /\ leases' = [leases EXCEPT ![h.msg] = "none"]

Nack(h) ==
  /\ Settle(h)
  /\ claims[h.msg] < MaxClaims
  /\ pending' = <<h.msg>> \o pending
  /\ UNCHANGED <<producers, payloads, deliveries, dead, receivers, acked,
                 bounds>>

Ack(h) ==
  /\ Settle(h)
  /\ payloads' = payloads \ {h.msg}
  /\ deliveries' = [deliveries EXCEPT ![h.msg] = 0]
  /\ acked' = acked \cup {h.msg}
  /\ UNCHANGED <<producers, pending, dead, receivers, bounds>>

DeadLetter(h) ==
  /\ Settle(h)
  /\ dead' = [dead EXCEPT ![h.msg] = @ + 1]
  /\ deliveries' = [deliveries EXCEPT ![h.msg] = 0]
  /\ UNCHANGED <<producers, pending, payloads, receivers, acked, bounds>>

\* The pipeline fails, and sync.Once lets nobody try again.
FinalizeFails(h) ==
  /\ h \in handles
  /\ crashes < MaxCrashes
  /\ claims[h.msg] < MaxClaims
  /\ crashes' = crashes + 1
  /\ handles' = handles \ {h}
  /\ UNCHANGED <<producers, redis, receivers, acked, claims>>

Finalize(h) == Ack(h) \/ Nack(h) \/ DeadLetter(h)

Receiver(c) ==
  \/ Reclaim(c) \/ Claim(c) \/ FindEmpty(c) \/ Drain(c) \/ HandOver(c)
  \/ Divert(c)

Next ==
  \/ \E m \in Messages : Publish(m) \/ Expire(m)
  \/ Seal
  \/ \E c \in Consumers :
       Receiver(c) \/ ClaimReplyLost(c) \/ ReturnOnCancel(c) \/ Crash(c)
       \/ Restart(c)
  \/ \E h \in handles : Finalize(h) \/ FinalizeFails(h)

Spec == Init /\ [][Next]_vars

(***************************************************************************)
(* Fairness.  Receivers go on, crashed consumers restart, leases run out,  *)
(* and every message a worker holds is finalized in the end.               *)
(***************************************************************************)
Fairness ==
  /\ \A c \in Consumers : WF_vars(Receiver(c)) /\ WF_vars(Restart(c))
  /\ \A m \in Messages : WF_vars(Expire(m))
  /\ \A h \in Delivery : WF_vars(Finalize(h))

FairSpec == Spec /\ Fairness

-----------------------------------------------------------------------------
TypeOK ==
  /\ unpublished \subseteq Messages
  /\ pending \in Seq(Messages)
  /\ processing \in [Messages -> Nat]
  /\ leases \in [Messages -> {"none", "held", "passed"}]
  /\ payloads \subseteq Messages
  /\ deliveries \in [Messages -> Nat]
  /\ dead \in [Messages -> Nat]
  /\ sealed \in BOOLEAN
  /\ cpc \in [Consumers -> {"reclaim", "claim", "divert", "offer", "drain",
                            "drained", "down"}]
  /\ current \in [Consumers -> SUBSET Delivery]
  /\ handles \subseteq Delivery
  /\ acked \subseteq Messages
  /\ claims \in [Messages -> 0..MaxClaims]
  /\ crashes \in 0..MaxCrashes

Pending(m) == Cardinality({k \in DOMAIN pending : pending[k] = m})

Acked(m) == IF m \in acked THEN 1 ELSE 0

\* An id in processing has a lease, or nothing would ever reclaim it, and the
\* payload a claim needs is there until the message is finalized.
Reclaimable ==
  \A m \in Messages \ Hasty :
    /\ processing[m] > 0 <=> leases[m] # "none"
    /\ Pending(m) + processing[m] > 0 => m \in payloads

\* No consumer leaves a sealed queue as drained while a message is in it that
\* is not finalized.
DrainIsSound ==
  \A c \in Consumers :
    cpc[c] = "drained" =>
      \A m \in Messages : m \in acked \/ dead[m] > 0

\* A message is never lost, even when leases are too short: it is in the
\* queue, or somebody finalized it.
NeverLost ==
  \A m \in Messages \ unpublished :
    Pending(m) + processing[m] + dead[m] + Acked(m) >= 1

\* A message is counted once: what is acknowledged is not dead-lettered too.
\* (docs/design/queue.md: "concurrent consumers never lose or double-count a
\* message".)
CountedOnce ==
  \A m \in Messages : Acked(m) + dead[m] <= 1

\* Every published message is finalized, through crashes and lost calls.  (The
\* bound on claims may stop a queue with a hasty message in it.)
ResumesAfterCrash ==
  \A m \in Messages :
    m \notin unpublished
      ~> \/ m \in acked \/ dead[m] > 0
         \/ \E k \in Hasty : claims[k] = MaxClaims

Abstract == INSTANCE Delivery WITH
  Messages <- Messages \ Hasty,
  copies <- [m \in Messages \ Hasty |->
               [waiting |-> Pending(m), held |-> processing[m],
                acked |-> Acked(m), dead |-> dead[m]]],
  count <- [m \in Messages \ Hasty |->
              IF Pending(m) + processing[m] > 0 THEN deliveries[m] ELSE 0],
  open <- TRUE

\* For the messages whose leases outlive the work they cover Redis is a
\* Delivery, through crashes, lost replies and failed calls: one copy, in
\* pending or processing until it is finalized once, and every delivery
\* counted, also one whose reply was lost.
ImplementsDelivery == Abstract!Spec
=============================================================================
