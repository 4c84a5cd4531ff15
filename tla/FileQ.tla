-------------------------------- MODULE FileQ --------------------------------
(***************************************************************************)
(* The file-backed queue (queue/fileq): one directory shared by consumer   *)
(* processes that may crash and restart.  An entry is a file whose name    *)
(* carries its sequence number, its delivery count and its lease, and it   *)
(* changes state by rename; every system call is an action of its own, so  *)
(* that the calls of several processes interleave.                         *)
(*                                                                         *)
(* Sequence numbers are the message's identity.  The lease of an entry is  *)
(* abstracted to whether it has passed: each claim raises the count, so    *)
(* sequence and count already tell the entries of processing/ apart.  A    *)
(* directory listing is taken to be a snapshot.                            *)
(***************************************************************************)
EXTENDS Integers, FiniteSets

CONSTANTS
  Messages,     \* sequence numbers, in the order of their names
  Poison,       \* the messages whose payload does not decode
  Consumers,    \* the processes that call Receive
  Cancellable,  \* the consumers whose ctx may be cancelled
  MaxCrashes,   \* a bound on the crashes of producers and consumers
  MaxDeliveries \* a bound: no lease of this delivery expires, and its consumer
                \* neither nacks it nor leaves or crashes with it

ASSUME MessageAssumption == Messages \subseteq Nat /\ Poison \subseteq Messages
ASSUME ConsumerAssumption == Consumers # {} /\ Cancellable \subseteq Consumers
ASSUME BoundAssumption == MaxDeliveries \in Nat \ {0} /\ MaxCrashes \in Nat

VARIABLES
  published,  \* published[m]: "no", "tmp" (m.tmp is written), "yes", "torn"
  pending,    \* the entries of pending/, without those that end in .tmp
  processing, \* the entries of processing/
  dead,       \* the entries of dead/
  expired,    \* the entries of processing/ whose lease has passed
  sealed,     \* the file sealed exists
  cpc,        \* cpc[c]: where the receiver of consumer c stands
  listed,     \* listed[c]: what is left of the listing c walks through
  current,    \* current[c]: the set of the entry c has claimed, if any
  cancelled,  \* the consumers whose ctx is done
  handles,    \* the messages handed over and not finalized
  acked,      \* the entries an Ack has removed
  crashes     \* how many crashes there have been

producers == <<published, sealed>>
files == <<pending, processing, dead, expired>>
receivers == <<cpc, listed, current>>
finals == <<handles, acked>>
vars == <<producers, files, receivers, cancelled, finals, crashes>>

-----------------------------------------------------------------------------
Entry == [seq : Messages, deliveries : 0..MaxDeliveries]

Handle == [owner : Consumers, entry : Entry]

Init ==
  /\ published = [m \in Messages |-> "no"]
  /\ pending = {} /\ processing = {} /\ dead = {} /\ expired = {}
  /\ sealed = FALSE
  /\ cpc = [c \in Consumers |-> "top"]
  /\ listed = [c \in Consumers |-> {}]
  /\ current = [c \in Consumers |-> {}]
  /\ cancelled = {}
  /\ handles = {}
  /\ acked = {}
  /\ crashes = 0

-----------------------------------------------------------------------------
(* The file system.                                                        *)

\* os.Rename out of processing/, which fails when the entry is gone.
LeaveProcessing(e) ==
  /\ e \in processing
  /\ processing' = processing \ {e}
  /\ expired' = expired \ {e}

\* Mutant: the name gets the count of a delivery that did not happen.
ToPendingCounted(e) ==
  /\ LeaveProcessing(e)
  /\ pending' = pending \cup {[e EXCEPT !.deliveries = @ + 1]}
  /\ UNCHANGED dead

\* Mutant: the entry is written to pending/ anew, whether it is still there.
ToPendingByWrite(e) ==
  /\ pending' = pending \cup {e}
  /\ processing' = processing \ {e}
  /\ expired' = expired \ {e}
  /\ UNCHANGED dead

ToPending(e) ==
  /\ LeaveProcessing(e)
  /\ pending' = pending \cup {e}
  /\ UNCHANGED dead

ToDead(e) ==
  /\ LeaveProcessing(e)
  /\ dead' = dead \cup {e}
  /\ UNCHANGED pending

\* A call on an entry that is gone returns an error and changes nothing.
Gone(e) == e \notin processing /\ UNCHANGED files

\* Time passes: the lease of an entry in processing/ runs out.
Expire(e) ==
  /\ e \in processing \ expired
  /\ e.deliveries < MaxDeliveries
  /\ expired' = expired \cup {e}
  /\ UNCHANGED <<producers, pending, processing, dead, receivers, cancelled,
                 finals, crashes>>

-----------------------------------------------------------------------------
(* Producers.                                                              *)

\* Publish, first half: os.WriteFile of a name no listing shows.
WriteTmp(m) ==
  /\ published[m] = "no"
  /\ published' = [published EXCEPT ![m] = "tmp"]
  /\ UNCHANGED <<sealed, files, receivers, cancelled, finals, crashes>>

\* Publish, second half: os.Rename.
RenameTmp(m) ==
  /\ published[m] = "tmp"
  /\ published' = [published EXCEPT ![m] = "yes"]
  /\ pending' = pending \cup {[seq |-> m, deliveries |-> 0]}
  /\ UNCHANGED <<sealed, processing, dead, expired, receivers, cancelled,
                 finals, crashes>>

\* The producer crashes between the two: the .tmp file stays.
TearPublish(m) ==
  /\ crashes < MaxCrashes
  /\ crashes' = crashes + 1
  /\ published[m] = "tmp"
  /\ published' = [published EXCEPT ![m] = "torn"]
  /\ UNCHANGED <<sealed, files, receivers, cancelled, finals>>

\* Seal is called after publishing the batch, as its comment asks; Publish
\* would not refuse a later message.
Seal ==
  /\ ~sealed
  /\ \A m \in Messages : published[m] \in {"yes", "torn"}
  /\ sealed' = TRUE
  /\ UNCHANGED <<published, files, receivers, cancelled, finals, crashes>>

-----------------------------------------------------------------------------
(* Receive: the goroutine of consumer c.                                   *)

Goto(c, label) == cpc' = [cpc EXCEPT ![c] = label]

\* ctx.Err() at the top, or ctx.Done() in one of the two selects: a claimed
\* message stays in processing/ until its lease passes.
ReturnOnCancel(c) ==
  /\ c \in cancelled
  /\ cpc[c] \in {"top", "offer"}
  /\ \A e \in current[c] : e.deliveries < MaxDeliveries
  /\ Goto(c, "cancelled")
  /\ current' = [current EXCEPT ![c] = {}]
  /\ UNCHANGED <<producers, files, listed, cancelled, finals, crashes>>

\* reclaimExpired lists processing/ and keeps what has expired.
ListExpired(c) ==
  /\ cpc[c] = "top"
  /\ c \notin cancelled
  /\ listed' = [listed EXCEPT ![c] = expired]
  /\ Goto(c, "reclaim")
  /\ UNCHANGED <<producers, files, current, cancelled, finals, crashes>>

Reclaim(c) ==
  /\ cpc[c] = "reclaim"
  /\ \E e \in listed[c] :
       /\ listed' = [listed EXCEPT ![c] = @ \ {e}]
       /\ ToPending(e) \/ Gone(e)
  /\ UNCHANGED <<producers, cpc, current, cancelled, finals, crashes>>

\* claim lists pending/.
ListPending(c) ==
  /\ cpc[c] = "reclaim"
  /\ listed[c] = {}
  /\ listed' = [listed EXCEPT ![c] = pending]
  /\ Goto(c, "claim")
  /\ UNCHANGED <<producers, files, current, cancelled, finals, crashes>>

\* sort.Strings: the oldest of the listed entries comes first.
Oldest(S) == CHOOSE e \in S : \A f \in S : e.seq <= f.seq

\* Mutant: a copy of the listed entry, which succeeds whatever happened to it.
PresentAsListed(e) == TRUE

\* os.Rename out of pending/ fails when another consumer has been faster.
Present(e) == e \in pending

Claim(c) ==
  /\ cpc[c] = "claim"
  /\ listed[c] # {}
  /\ LET e == Oldest(listed[c])
         f == [e EXCEPT !.deliveries = @ + 1] IN
       /\ listed' = [listed EXCEPT ![c] = @ \ {e}]
       /\ IF Present(e)
          THEN /\ pending' = pending \ {e}
               /\ processing' = processing \cup {f}
               /\ current' = [current EXCEPT ![c] = {f}]
               /\ Goto(c, "read")
          ELSE UNCHANGED <<pending, processing, current, cpc>>
  /\ UNCHANGED <<producers, dead, expired, cancelled, finals, crashes>>

\* The claimed file is read and decoded ...
ReadOK(c) ==
  /\ cpc[c] = "read"
  /\ \A e \in current[c] : e \in processing /\ e.seq \notin Poison
  /\ listed' = [listed EXCEPT ![c] = {}]
  /\ Goto(c, "offer")
  /\ UNCHANGED <<producers, files, current, cancelled, finals, crashes>>

\* ... or it is diverted, because its payload does not decode or because its
\* lease has passed already and another consumer moved it; claim goes on.
Divert(c) ==
  /\ cpc[c] = "read"
  /\ \E e \in current[c] :
       \/ e.seq \in Poison /\ ToDead(e)
       \/ Gone(e)
  /\ current' = [current EXCEPT ![c] = {}]
  /\ Goto(c, "claim")
  /\ UNCHANGED <<producers, listed, cancelled, finals, crashes>>

\* Mutant: the queue is polled again without a look at sealed.
AlwaysPoll == "top"

\* Nothing was claimed: poll again unless the queue is sealed.
AfterPoll == IF sealed THEN "count1" ELSE "top"

NothingClaimed(c) ==
  /\ cpc[c] = "claim"
  /\ listed[c] = {}
  /\ Goto(c, AfterPoll)
  /\ UNCHANGED <<producers, files, listed, current, cancelled, finals, crashes>>

\* Mutant: pending/ is counted before processing/.
PendingFirst == <<"pending", "processing">>

\* drained counts processing/, then pending/.
CountOrder == <<"processing", "pending">>

EmptyDir(dir) == IF dir = "pending" THEN pending = {} ELSE processing = {}

CountFirst(c) ==
  /\ cpc[c] = "count1"
  /\ Goto(c, IF EmptyDir(CountOrder[1]) THEN "count2" ELSE "top")
  /\ UNCHANGED <<producers, files, listed, current, cancelled, finals,
                 crashes>>

CountSecond(c) ==
  /\ cpc[c] = "count2"
  /\ Goto(c, IF EmptyDir(CountOrder[2]) THEN "drained" ELSE "top")
  /\ UNCHANGED <<producers, files, listed, current, cancelled, finals,
                 crashes>>

\* The consumer's worker receives the message.
HandOver(c) ==
  /\ cpc[c] = "offer"
  /\ handles' = handles \cup {[owner |-> c, entry |-> e] : e \in current[c]}
  /\ current' = [current EXCEPT ![c] = {}]
  /\ Goto(c, "top")
  /\ UNCHANGED <<producers, files, listed, cancelled, acked, crashes>>

CancelCtx(c) ==
  /\ c \in Cancellable \ cancelled
  /\ cancelled' = cancelled \cup {c}
  /\ UNCHANGED <<producers, files, receivers, finals, crashes>>

\* The process dies: its handles are gone, its entries stay in processing/.
Crash(c) ==
  /\ crashes < MaxCrashes
  /\ crashes' = crashes + 1
  /\ cpc[c] # "down"
  /\ \A e \in current[c] \cup {h.entry : h \in {g \in handles : g.owner = c}} :
       e \in processing => e.deliveries < MaxDeliveries
  /\ Goto(c, "down")
  /\ listed' = [listed EXCEPT ![c] = {}]
  /\ current' = [current EXCEPT ![c] = {}]
  /\ handles' = {h \in handles : h.owner # c}
  /\ cancelled' = cancelled \ {c}
  /\ UNCHANGED <<producers, files, acked>>

\* A new process opens the directory and calls Receive.
Restart(c) ==
  /\ cpc[c] = "down"
  /\ Goto(c, "top")
  /\ UNCHANGED <<producers, files, listed, current, cancelled, finals,
                 crashes>>

-----------------------------------------------------------------------------
(* The handle of a message: sync.Once lets the first call through, and the *)
(* call reaches the entry only under the name this delivery gave it.       *)

Ack(h) ==
  /\ h \in handles
  /\ handles' = handles \ {h}
  /\ \/ /\ LeaveProcessing(h.entry)
        /\ acked' = acked \cup {h.entry}
        /\ UNCHANGED <<pending, dead>>
     \/ Gone(h.entry) /\ UNCHANGED acked
  /\ UNCHANGED <<producers, receivers, cancelled, crashes>>

Nack(h) ==
  /\ h \in handles
  /\ h.entry \in processing => h.entry.deliveries < MaxDeliveries
  /\ handles' = handles \ {h}
  /\ ToPending(h.entry) \/ Gone(h.entry)
  /\ UNCHANGED <<producers, receivers, cancelled, acked, crashes>>

DeadLetter(h) ==
  /\ h \in handles
  /\ handles' = handles \ {h}
  /\ ToDead(h.entry) \/ Gone(h.entry)
  /\ UNCHANGED <<producers, receivers, cancelled, acked, crashes>>

Finalize(h) == Ack(h) \/ Nack(h) \/ DeadLetter(h)

Publisher(m) == RenameTmp(m) \/ TearPublish(m)

Receiver(c) ==
  \/ ListExpired(c) \/ Reclaim(c) \/ ListPending(c)
  \/ Claim(c) \/ ReadOK(c) \/ Divert(c) \/ NothingClaimed(c)
  \/ CountFirst(c) \/ CountSecond(c)
  \/ HandOver(c) \/ ReturnOnCancel(c)

Next ==
  \/ \E m \in Messages : WriteTmp(m) \/ Publisher(m)
  \/ Seal
  \/ \E e \in processing : Expire(e)
  \/ \E c \in Consumers : Receiver(c) \/ CancelCtx(c) \/ Crash(c) \/ Restart(c)
  \/ \E h \in handles : Finalize(h)

Spec == Init /\ [][Next]_vars

(***************************************************************************)
(* Fairness.  A receiver that can take a step does, a crashed consumer is  *)
(* restarted, leases run out, and a worker finalizes the delivery that the *)
(* bound makes its last; any earlier one it may keep for ever.             *)
(***************************************************************************)
Fairness ==
  /\ \A c \in Consumers : WF_vars(Receiver(c)) /\ WF_vars(Restart(c))
  /\ \A e \in Entry : WF_vars(e \in processing /\ Expire(e))
  /\ \A h \in Handle :
       WF_vars(h.entry.deliveries = MaxDeliveries /\ Finalize(h))

FairSpec == Spec /\ Fairness

-----------------------------------------------------------------------------
TypeOK ==
  /\ published \in [Messages -> {"no", "tmp", "yes", "torn"}]
  /\ pending \subseteq Entry /\ processing \subseteq Entry
  /\ dead \subseteq Entry /\ acked \subseteq Entry
  /\ expired \subseteq processing
  /\ sealed \in BOOLEAN
  /\ cpc \in [Consumers -> {"top", "reclaim", "claim", "read", "offer",
                            "count1", "count2", "cancelled", "drained",
                            "down"}]
  /\ listed \in [Consumers -> SUBSET Entry]
  /\ current \in [Consumers -> SUBSET Entry]
  /\ \A c \in Consumers : Cardinality(current[c]) <= 1
  /\ cancelled \subseteq Cancellable
  /\ handles \subseteq Handle
  /\ crashes \in 0..MaxCrashes

Of(m, S) == {e \in S : e.seq = m}

\* "Claiming a message is an atomic rename, so two consumers never take the
\* same one": an entry of processing/ is at most one claim's or handle's.
OneOwner ==
  \A e \in processing :
    Cardinality({c \in Consumers : e \in current[c]})
      + Cardinality({h \in handles : h.entry = e}) <= 1

\* A consumer leaves the queue as drained only when there is nothing left in
\* it, nor will be.  (fileq.go: "this order never observes a message as absent
\* from both".)
DrainIsSound ==
  \A c \in Consumers :
    cpc[c] = "drained" => pending = {} /\ processing = {}

\* The last consumer to leave leaves a drained queue: one that left too early
\* did so since another had just claimed the entry.
LastOneDrains ==
  (\A c \in Consumers : cpc[c] = "drained") => pending = {} /\ processing = {}

Finalized(m) == Of(m, acked) # {} \/ Of(m, dead) # {}

Abstract == INSTANCE Delivery WITH
  copies <- [m \in Messages |->
               [waiting |-> Cardinality(Of(m, pending)),
                held |-> Cardinality(Of(m, processing)),
                acked |-> Cardinality(Of(m, acked)),
                dead |-> Cardinality(Of(m, dead))]],
  count <- [m \in Messages |->
              LET live == Of(m, pending) \cup Of(m, processing) IN
              IF live = {} THEN 0 ELSE (CHOOSE e \in live : TRUE).deliveries],
  open <- cancelled = {}

\* The directory is a Delivery, whatever the interleaving of claims, reclaims,
\* stale handles and crashes: a message is one file until one Ack removes it,
\* and its name counts every delivery, also those whose consumer died.
ImplementsDelivery == Abstract!Spec

\* The queue is worked off: a message is claimed again until it is finalized,
\* unless a consumer is cancelled, and once it is sealed and every message is
\* finalized it lets every receiver go.
WorkedOff ==
  /\ Abstract!Redelivered
  /\ \A c \in Consumers :
       sealed /\ (\A m \in Messages : published[m] = "torn" \/ Finalized(m))
         ~> cpc[c] \in {"drained", "cancelled"}
=============================================================================
