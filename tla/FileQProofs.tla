----------------------------- MODULE FileQProofs ------------------------------
(***************************************************************************)
(* Machine-checked theorems about the file queue, for any number of        *)
(* messages, consumer processes, crashes and deliveries.                   *)
(***************************************************************************)
EXTENDS FileQ, FiniteSetTheorems, TLAPS

\* TypeOK, with the cardinality of current spelled out.
TypeInv ==
  /\ published \in [Messages -> {"no", "tmp", "yes", "torn"}]
  /\ pending \subseteq Entry /\ processing \subseteq Entry
  /\ dead \subseteq Entry /\ acked \subseteq Entry
  /\ expired \subseteq processing
  /\ sealed \in BOOLEAN
  /\ cpc \in [Consumers -> {"top", "reclaim", "claim", "read", "offer",
                            "count1", "count2", "cancelled", "drained",
                            "down"}]
  /\ listed \in [Consumers -> SUBSET Entry]
  /\ current \in [Consumers -> SUBSET Entry]
  /\ \A c \in Consumers : \A e, f \in current[c] : e = f
  /\ cancelled \subseteq Cancellable
  /\ handles \subseteq Handle
  /\ crashes \in 0..MaxCrashes

\* What is in pending/ can be claimed once more.
BoundInv ==
  /\ \A e \in pending \cup expired : e.deliveries < MaxDeliveries
  /\ \A c \in Consumers : cpc[c] = "reclaim" =>
       \A e \in listed[c] : e.deliveries < MaxDeliveries

Files == pending \cup processing \cup dead \cup acked

\* A message that was published is one file, in one directory.
FileInv ==
  /\ \A e, f \in Files : e.seq = f.seq => e = f
  /\ pending \cap processing = {}
  /\ dead \cap (pending \cup processing) = {}
  /\ acked \cap (pending \cup processing \cup dead) = {}
  /\ \A e \in Files : published[e.seq] = "yes"

\* The names under which consumers and handles know their messages.
Names == (UNION {current[c] : c \in Consumers}) \cup {h.entry : h \in handles}

\* No such name is ahead of the file's: the next claim makes a fresh one.
NameInv ==
  \A x \in Names :
    \E f \in Files : f.seq = x.seq /\ x.deliveries <= f.deliveries

\* A name is one consumer's or one handle's.
OwnerInv ==
  /\ \A c, d \in Consumers : \A e \in current[c] : e \in current[d] => c = d
  /\ \A h, g \in handles : h.entry = g.entry => h = g
  /\ \A c \in Consumers : \A h \in handles : h.entry \notin current[c]

\* What is in processing/ keeps a consumer from the second count, and what is
\* in pending/ keeps one from leaving.
LeaveInv ==
  /\ \A c \in Consumers : cpc[c] \in {"count1", "count2", "drained"} => sealed
  /\ sealed => \A m \in Messages : published[m] \in {"yes", "torn"}
  /\ processing # {} =>
       \E c \in Consumers : cpc[c] \notin {"count2", "drained"}
  /\ pending # {} => \E c \in Consumers : cpc[c] # "drained"

IInv ==
  /\ TypeInv
  /\ BoundInv
  /\ FileInv
  /\ NameInv
  /\ OwnerInv
  /\ LeaveInv

-----------------------------------------------------------------------------
(* What a step does to the directories.                                    *)

directories == <<pending, processing, dead, acked>>

\* The files stay where they are.
NoMove ==
  /\ UNCHANGED directories
  /\ \A m \in Messages : published[m] = "yes" => published'[m] = "yes"

\* The name of the next delivery.
Again(e) == [e EXCEPT !.deliveries = @ + 1]

Claimed(e) ==
  /\ e \in pending
  /\ pending' = pending \ {e}
  /\ processing' = processing \cup {Again(e)}
  /\ UNCHANGED <<dead, acked, published>>

Returned(e) ==
  /\ e \in processing
  /\ processing' = processing \ {e}
  /\ pending' = pending \cup {e}
  /\ UNCHANGED <<dead, acked, published>>

Buried(e) ==
  /\ e \in processing
  /\ processing' = processing \ {e}
  /\ dead' = dead \cup {e}
  /\ UNCHANGED <<pending, acked, published>>

Removed(e) ==
  /\ e \in processing
  /\ processing' = processing \ {e}
  /\ acked' = acked \cup {e}
  /\ UNCHANGED <<pending, dead, published>>

FileMove ==
  \/ \E m \in Messages : RenameTmp(m) /\ UNCHANGED acked
  \/ \E e \in Entry : Claimed(e) \/ Returned(e) \/ Buried(e) \/ Removed(e)

\* A step moves one file or none.
LEMMA MovesOne == TypeInv /\ [Next]_vars => NoMove \/ FileMove
<1> SUFFICES ASSUME TypeInv, [Next]_vars PROVE NoMove \/ FileMove
  OBVIOUS
<1> USE DEF NoMove, FileMove, directories, files, finals, producers
<1>1. ASSUME NEW m \in Messages, WriteTmp(m) \/ Publisher(m)
      PROVE  NoMove \/ FileMove
  <2>1. CASE WriteTmp(m) \/ TearPublish(m)
    BY <2>1 DEF WriteTmp, TearPublish, TypeInv
  <2>2. CASE RenameTmp(m)
    BY <2>2 DEF RenameTmp
  <2> QED
    BY <1>1, <2>1, <2>2 DEF Publisher
<1>2. CASE Seal
  BY <1>2 DEF Seal
<1>3. ASSUME NEW e \in processing, Expire(e) PROVE NoMove
  BY <1>3 DEF Expire
<1>4. ASSUME NEW c \in Consumers, Receiver(c) PROVE NoMove \/ FileMove
  <2>1. CASE Reclaim(c)
    <3>1. PICK e \in listed[c] : ToPending(e) \/ Gone(e)
      BY <2>1 DEF Reclaim
    <3>2. e \in Entry
      BY DEF TypeInv
    <3> QED
      BY <2>1, <3>1, <3>2
         DEF Reclaim, ToPending, LeaveProcessing, Gone, Returned
  <2>2. CASE Claim(c)
    BY <2>2 DEF Claim, Present, Claimed, Again, TypeInv
  <2>3. CASE Divert(c)
    <3>1. PICK e \in current[c] : ToDead(e) \/ Gone(e)
      BY <2>3 DEF Divert
    <3>2. e \in Entry
      BY DEF TypeInv
    <3> QED
      BY <2>3, <3>1, <3>2 DEF Divert, ToDead, LeaveProcessing, Gone, Buried
  <2>4. CASE \/ ListExpired(c) \/ ListPending(c) \/ ReadOK(c)
             \/ NothingClaimed(c) \/ CountFirst(c) \/ CountSecond(c)
             \/ HandOver(c) \/ ReturnOnCancel(c)
    BY <2>4 DEF ListExpired, ListPending, ReadOK, NothingClaimed, CountFirst,
                CountSecond, HandOver, ReturnOnCancel
  <2> QED
    BY <1>4, <2>1, <2>2, <2>3, <2>4 DEF Receiver
<1>5. ASSUME NEW c \in Consumers, CancelCtx(c) \/ Crash(c) \/ Restart(c)
      PROVE  NoMove
  BY <1>5 DEF CancelCtx, Crash, Restart
<1>6. ASSUME NEW h \in handles, Finalize(h) PROVE NoMove \/ FileMove
  <2>1. h.entry \in Entry
    BY DEF TypeInv, Handle
  <2>2. CASE Ack(h)
    BY <2>1, <2>2 DEF Ack, LeaveProcessing, Gone, Removed
  <2>3. CASE Nack(h)
    BY <2>1, <2>3 DEF Nack, ToPending, LeaveProcessing, Gone, Returned
  <2>4. CASE DeadLetter(h)
    BY <2>1, <2>4 DEF DeadLetter, ToDead, LeaveProcessing, Gone, Buried
  <2> QED
    BY <1>6, <2>2, <2>3, <2>4 DEF Finalize
<1>7. CASE UNCHANGED vars
  BY <1>7 DEF vars
<1> QED
  BY <1>1, <1>2, <1>3, <1>4, <1>5, <1>6, <1>7 DEF Next

\* The entry a claim makes.
LEMMA NextName ==
  ASSUME TypeInv, BoundInv, NEW e \in pending
  PROVE  /\ e \in Entry /\ e.seq \in Messages /\ e.deliveries \in Nat
         /\ Again(e) \in Entry
         /\ Again(e).seq = e.seq /\ Again(e).deliveries = e.deliveries + 1
  BY BoundAssumption DEF TypeInv, BoundInv, Again, Entry

\* So a message stays one file.
LEMMA FilesKept ==
  ASSUME TypeInv, BoundInv, FileInv, [Next]_vars
  PROVE  FileInv'
<1> USE DEF FileInv, Files
<1>1. Files \subseteq Entry /\ \A e \in Files : e.seq \in Messages
  BY DEF TypeInv, Entry
<1>2. CASE NoMove
  BY <1>1, <1>2 DEF NoMove, directories
<1>3. ASSUME NEW m \in Messages, RenameTmp(m), UNCHANGED acked PROVE FileInv'
  <2>1. PICK e : e = [seq |-> m, deliveries |-> 0]
    OBVIOUS
  <2>2. /\ pending' = pending \cup {e} /\ e.seq = m
        /\ UNCHANGED <<processing, dead>>
        /\ published[m] = "tmp" /\ published'[m] = "yes"
        /\ \A n \in Messages : published[n] = "yes" => published'[n] = "yes"
    BY <1>3, <2>1 DEF RenameTmp, TypeInv
  <2>3. \A f \in Files : f.seq # m /\ f # e
    BY <2>2
  <2> QED
    BY <1>1, <1>3, <2>2, <2>3
<1>4. ASSUME NEW e \in Entry, Claimed(e) PROVE FileInv'
  <2>1. PICK f : f = Again(e)
    OBVIOUS
  <2>2. f.seq = e.seq /\ f.deliveries # e.deliveries
    BY <1>4, <2>1, NextName DEF Claimed
  <2>3. f \notin Files
    BY <1>4, <2>2 DEF Claimed
  <2> QED
    BY <1>4, <2>1, <2>2, <2>3 DEF Claimed
<1>5. ASSUME NEW e \in Entry, Returned(e) \/ Buried(e) \/ Removed(e)
      PROVE  FileInv'
  BY <1>5 DEF Returned, Buried, Removed
<1> QED
  BY <1>2, <1>3, <1>4, <1>5, MovesOne DEF FileMove

-----------------------------------------------------------------------------
(* Types and bounds.                                                       *)

LEMMA InitIInv == Init => IInv
<1> SUFFICES ASSUME Init PROVE IInv
  OBVIOUS
<1> USE DEF Init
<1>1. TypeInv /\ BoundInv
  <2>1. crashes \in 0..MaxCrashes
    BY BoundAssumption
  <2>2. BoundInv
    BY DEF BoundInv
  <2>3. TypeInv
    BY <2>1 DEF TypeInv
  <2> QED
    BY <2>2, <2>3
<1>2. FileInv /\ NameInv /\ OwnerInv
  BY DEF FileInv, Files, NameInv, Names, OwnerInv
<1>3. LeaveInv
  BY DEF LeaveInv
<1> QED
  BY <1>1, <1>2, <1>3 DEF IInv

\* A rename out of processing/ keeps the types and the bound.
LEMMA LeavingTyped ==
  ASSUME TypeInv, BoundInv, NEW e \in Entry,
         \/ ToPending(e) /\ e.deliveries < MaxDeliveries
         \/ ToDead(e)
         \/ LeaveProcessing(e) /\ UNCHANGED <<pending, dead>>
         \/ Gone(e)
  PROVE  /\ pending' \subseteq Entry /\ processing' \subseteq Entry
         /\ dead' \subseteq Entry
         /\ expired' \subseteq processing'
         /\ \A f \in pending' \cup expired' : f.deliveries < MaxDeliveries
  BY DEF ToPending, ToDead, LeaveProcessing, Gone, files, TypeInv, BoundInv

\* Every step of a receiver is typed, and claims what has a delivery left.
LEMMA ReceiverTyped ==
  ASSUME TypeInv, BoundInv, NEW c \in Consumers, Receiver(c)
  PROVE  TypeInv' /\ BoundInv'
<1> USE DEF producers, files, finals, Goto
<1>1. CASE ListExpired(c)
  BY <1>1 DEF ListExpired, TypeInv, BoundInv
<1>2. CASE Reclaim(c)
  <2>1. PICK e \in listed[c] : /\ listed' = [listed EXCEPT ![c] = @ \ {e}]
                               /\ ToPending(e) \/ Gone(e)
    BY <1>2 DEF Reclaim
  <2>2. e \in Entry /\ e.deliveries < MaxDeliveries
    BY <1>2 DEF Reclaim, TypeInv, BoundInv
  <2>3. /\ pending' \subseteq Entry /\ processing' \subseteq Entry
        /\ dead' \subseteq Entry
        /\ expired' \subseteq processing'
        /\ \A f \in pending' \cup expired' : f.deliveries < MaxDeliveries
    BY <2>1, <2>2, LeavingTyped
  <2>4. TypeInv'
    BY <1>2, <2>1, <2>3 DEF Reclaim, TypeInv
  <2>5. BoundInv'
    BY <1>2, <2>1, <2>3 DEF Reclaim, TypeInv, BoundInv
  <2> QED
    BY <2>4, <2>5
<1>3. CASE ListPending(c)
  BY <1>3 DEF ListPending, TypeInv, BoundInv
<1>4. CASE Claim(c)
  <2>1. PICK e : e = Oldest(listed[c])
    OBVIOUS
  <2>2. listed' = [listed EXCEPT ![c] = @ \ {e}]
    BY <1>4, <2>1 DEF Claim
  <2>3. CASE Present(e)
    <3>1. /\ e \in pending /\ pending' = pending \ {e}
          /\ processing' = processing \cup {Again(e)}
          /\ current' = [current EXCEPT ![c] = {Again(e)}]
          /\ cpc' = [cpc EXCEPT ![c] = "read"]
          /\ UNCHANGED <<producers, dead, expired, cancelled, finals, crashes>>
      BY <1>4, <2>1, <2>3 DEF Claim, Present, Again
    <3>2. Again(e) \in Entry
      BY <3>1, NextName
    <3>3. TypeInv'
      BY <2>2, <3>1, <3>2 DEF TypeInv
    <3>4. BoundInv'
      BY <2>2, <3>1 DEF TypeInv, BoundInv
    <3> QED
      BY <3>3, <3>4
  <2>4. CASE ~Present(e)
    BY <1>4, <2>1, <2>2, <2>4 DEF Claim, TypeInv, BoundInv
  <2> QED
    BY <2>3, <2>4
<1>5. CASE ReadOK(c)
  BY <1>5 DEF ReadOK, TypeInv, BoundInv
<1>6. CASE Divert(c)
  <2>1. PICK e \in current[c] : ToDead(e) \/ Gone(e)
    BY <1>6 DEF Divert
  <2>2. e \in Entry
    BY DEF TypeInv
  <2>3. /\ pending' \subseteq Entry /\ processing' \subseteq Entry
        /\ dead' \subseteq Entry
        /\ expired' \subseteq processing'
        /\ \A f \in pending' \cup expired' : f.deliveries < MaxDeliveries
    BY <2>1, <2>2, LeavingTyped
  <2> QED
    BY <1>6, <2>3 DEF Divert, TypeInv, BoundInv
<1>7. CASE NothingClaimed(c)
  BY <1>7 DEF NothingClaimed, AfterPoll, TypeInv, BoundInv
<1>8. CASE CountFirst(c) \/ CountSecond(c)
  BY <1>8 DEF CountFirst, CountSecond, TypeInv, BoundInv
<1>9. CASE HandOver(c)
  <2>1. \A e \in current[c] : [owner |-> c, entry |-> e] \in Handle
    BY DEF TypeInv, Handle
  <2> QED
    BY <1>9, <2>1 DEF HandOver, TypeInv, BoundInv
<1>10. CASE ReturnOnCancel(c)
  BY <1>10 DEF ReturnOnCancel, TypeInv, BoundInv
<1> QED
  BY <1>1, <1>2, <1>3, <1>4, <1>5, <1>6, <1>7, <1>8, <1>9, <1>10 DEF Receiver

\* Every step is typed.
LEMMA NextTyped ==
  ASSUME TypeInv, BoundInv, [Next]_vars
  PROVE  TypeInv' /\ BoundInv'
<1> USE DEF producers, files, receivers, finals, Goto
<1>1. ASSUME NEW m \in Messages, WriteTmp(m) \/ Publisher(m)
      PROVE  TypeInv' /\ BoundInv'
  <2>1. CASE WriteTmp(m)
    BY <2>1 DEF WriteTmp, TypeInv, BoundInv
  <2>2. CASE TearPublish(m)
    BY <2>2, BoundAssumption DEF TearPublish, TypeInv, BoundInv
  <2>3. CASE RenameTmp(m)
    <3>1. [seq |-> m, deliveries |-> 0] \in Entry
      BY BoundAssumption DEF Entry
    <3> QED
      BY <2>3, <3>1, BoundAssumption DEF RenameTmp, TypeInv, BoundInv
  <2> QED
    BY <1>1, <2>1, <2>2, <2>3 DEF Publisher
<1>2. CASE Seal
  BY <1>2 DEF Seal, TypeInv, BoundInv
<1>3. ASSUME NEW e \in processing, Expire(e) PROVE TypeInv' /\ BoundInv'
  BY <1>3 DEF Expire, TypeInv, BoundInv
<1>4. ASSUME NEW c \in Consumers, Receiver(c) PROVE TypeInv' /\ BoundInv'
  BY <1>4, ReceiverTyped
<1>5. ASSUME NEW c \in Consumers, CancelCtx(c) \/ Crash(c) \/ Restart(c)
      PROVE  TypeInv' /\ BoundInv'
  <2>1. CASE CancelCtx(c)
    BY <2>1 DEF CancelCtx, TypeInv, BoundInv
  <2>2. CASE Crash(c)
    BY <2>2, BoundAssumption DEF Crash, TypeInv, BoundInv
  <2>3. CASE Restart(c)
    BY <2>3 DEF Restart, TypeInv, BoundInv
  <2> QED
    BY <1>5, <2>1, <2>2, <2>3
<1>6. ASSUME NEW h \in handles, Finalize(h) PROVE TypeInv' /\ BoundInv'
  <2>1. h.entry \in Entry /\ handles' = handles \ {h}
    BY <1>6 DEF Finalize, Ack, Nack, DeadLetter, TypeInv, Handle
  <2>2. \/ ToPending(h.entry) /\ h.entry.deliveries < MaxDeliveries
        \/ ToDead(h.entry)
        \/ LeaveProcessing(h.entry) /\ UNCHANGED <<pending, dead>>
        \/ Gone(h.entry)
    BY <1>6 DEF Finalize, Ack, Nack, DeadLetter, ToPending, LeaveProcessing
  <2>3. /\ pending' \subseteq Entry /\ processing' \subseteq Entry
        /\ dead' \subseteq Entry
        /\ expired' \subseteq processing'
        /\ \A f \in pending' \cup expired' : f.deliveries < MaxDeliveries
    BY <2>1, <2>2, LeavingTyped
  <2>4. acked' \subseteq Entry
    BY <1>6, <2>1 DEF Finalize, Ack, Nack, DeadLetter, TypeInv
  <2>5. UNCHANGED <<producers, receivers, cancelled, crashes>>
    BY <1>6 DEF Finalize, Ack, Nack, DeadLetter
  <2> QED
    BY <2>1, <2>3, <2>4, <2>5 DEF TypeInv, BoundInv
<1>7. CASE UNCHANGED vars
  BY <1>7 DEF vars, TypeInv, BoundInv
<1> QED
  BY <1>1, <1>2, <1>3, <1>4, <1>5, <1>6, <1>7 DEF Next

-----------------------------------------------------------------------------
(* Names and their owners.                                                 *)

\* A name is a consumer's or a handle's.
LEMMA WhoseName ==
  /\ \A x : x \in Names <=> \/ \E c \in Consumers : x \in current[c]
                            \/ \E h \in handles : x = h.entry
  /\ \A x : x \in Names' <=> \/ \E c \in Consumers : x \in current'[c]
                             \/ \E h \in handles' : x = h.entry
  BY DEF Names

\* Nobody has made or handed on a name, though some may have been given up.
NamesKept ==
  /\ \A c \in Consumers : current'[c] \subseteq current[c]
  /\ handles' \subseteq handles

\* A step that is no claim and no hand-over makes no name.
LEMMA OthersKeepNames ==
  ASSUME TypeInv, [Next]_vars
  PROVE  \/ NamesKept
         \/ \E c \in Consumers : Claim(c) \/ HandOver(c)
<1> USE DEF NamesKept, receivers, finals
<1>1. ASSUME NEW m \in Messages, WriteTmp(m) \/ Publisher(m) PROVE NamesKept
  BY <1>1 DEF WriteTmp, Publisher, RenameTmp, TearPublish
<1>2. CASE Seal
  BY <1>2 DEF Seal
<1>3. ASSUME NEW e \in processing, Expire(e) PROVE NamesKept
  BY <1>3 DEF Expire
<1>4. ASSUME NEW c \in Consumers, Receiver(c), ~Claim(c), ~HandOver(c)
      PROVE  NamesKept
  <2>1. CASE \/ ListExpired(c) \/ Reclaim(c) \/ ListPending(c) \/ ReadOK(c)
             \/ NothingClaimed(c) \/ CountFirst(c) \/ CountSecond(c)
    BY <2>1 DEF ListExpired, Reclaim, ListPending, ReadOK, NothingClaimed,
                CountFirst, CountSecond
  <2>2. CASE Divert(c) \/ ReturnOnCancel(c)
    BY <2>2 DEF Divert, ReturnOnCancel, TypeInv
  <2> QED
    BY <1>4, <2>1, <2>2 DEF Receiver
<1>5. ASSUME NEW c \in Consumers, CancelCtx(c) \/ Crash(c) \/ Restart(c)
      PROVE  NamesKept
  BY <1>5 DEF CancelCtx, Crash, Restart, TypeInv
<1>6. ASSUME NEW h \in handles, Finalize(h) PROVE NamesKept
  BY <1>6 DEF Finalize, Ack, Nack, DeadLetter
<1>7. CASE UNCHANGED vars
  BY <1>7 DEF vars
<1> QED
  BY <1>1, <1>2, <1>3, <1>4, <1>5, <1>6, <1>7 DEF Next

\* A file keeps its message, and its count does not go down.
LEMMA FilesGrow ==
  ASSUME TypeInv, BoundInv, [Next]_vars
  PROVE  \A f \in Files : \E g \in Files' :
           g.seq = f.seq /\ f.deliveries <= g.deliveries
<1> USE DEF Files
<1>1. Files \subseteq Entry /\ \A f \in Files : f.deliveries <= f.deliveries
  BY BoundAssumption DEF TypeInv, Entry
<1>2. CASE NoMove
  BY <1>1, <1>2 DEF NoMove, directories
<1>3. ASSUME NEW m \in Messages, RenameTmp(m), UNCHANGED acked
      PROVE  Files \subseteq Files'
  BY <1>3 DEF RenameTmp
<1>4. ASSUME NEW e \in Entry, Claimed(e), NEW f \in Files
      PROVE  \E g \in Files' : g.seq = f.seq /\ f.deliveries <= g.deliveries
  <2>1. CASE f = e
    <3>1. /\ Again(e) \in Files' /\ Again(e).seq = e.seq
          /\ e.deliveries \in Nat /\ Again(e).deliveries = e.deliveries + 1
      BY <1>4, NextName DEF Claimed
    <3>2. e.deliveries <= Again(e).deliveries
      BY <3>1
    <3> QED
      BY <2>1, <3>1, <3>2
  <2>2. CASE f # e
    BY <1>1, <1>4, <2>2 DEF Claimed
  <2> QED
    BY <2>1, <2>2
<1>5. ASSUME NEW e \in Entry, Returned(e) \/ Buried(e) \/ Removed(e)
      PROVE  Files \subseteq Files'
  BY <1>5 DEF Returned, Buried, Removed
<1> QED
  BY <1>1, <1>2, <1>3, <1>4, <1>5, MovesOne DEF FileMove

\* A claim makes a name that nobody has.
LEMMA FreshName ==
  ASSUME TypeInv, BoundInv, FileInv, NameInv, NEW e \in pending
  PROVE  Again(e) \notin Names
<1> SUFFICES ASSUME Again(e) \in Names PROVE FALSE
  OBVIOUS
<1>1. PICK f \in Files :
        f.seq = Again(e).seq /\ Again(e).deliveries <= f.deliveries
  BY DEF NameInv
<1>2. f = e
  BY <1>1, NextName DEF FileInv, Files
<1>3. e.deliveries + 1 <= e.deliveries /\ e.deliveries \in Nat
  BY <1>1, <1>2, NextName
<1> QED
  BY <1>3

\* What Claim does, for a file that is still there.
LEMMA ClaimMakes ==
  ASSUME TypeInv, BoundInv, NEW c \in Consumers, Claim(c)
  PROVE  \/ NamesKept
         \/ /\ UNCHANGED handles
            /\ \E e \in pending :
                 /\ current' = [current EXCEPT ![c] = {Again(e)}]
                 /\ Again(e) \in processing'
<1>1. PICK e : e = Oldest(listed[c])
  OBVIOUS
<1>2. UNCHANGED handles
  BY DEF Claim, finals
<1>3. CASE Present(e)
  <2>1. /\ e \in pending
        /\ current' = [current EXCEPT ![c] = {Again(e)}]
        /\ Again(e) \in processing'
    BY <1>1, <1>3 DEF Claim, Present, Again
  <2> QED
    BY <1>2, <2>1
<1>4. CASE ~Present(e)
  <2>1. UNCHANGED current
    BY <1>1, <1>4 DEF Claim
  <2> QED
    BY <1>2, <2>1 DEF NamesKept
<1> QED
  BY <1>3, <1>4

\* So a name has one owner.
LEMMA NamesHaveOwners ==
  ASSUME TypeInv, BoundInv, FileInv, NameInv, OwnerInv, [Next]_vars
  PROVE  NameInv' /\ OwnerInv'
<1>0. \A x \in Names :
        \E g \in Files' : g.seq = x.seq /\ x.deliveries <= g.deliveries
  <2> TAKE x \in Names
  <2>1. PICK f \in Files : f.seq = x.seq /\ x.deliveries <= f.deliveries
    BY DEF NameInv
  <2>2. PICK g \in Files' : g.seq = f.seq /\ f.deliveries <= g.deliveries
    BY <2>1, FilesGrow
  <2>3. x.deliveries \in Int /\ f.deliveries \in Int /\ g.deliveries \in Int
    <3>1. x \in Entry /\ f \in Entry
      BY WhoseName DEF Files, TypeInv, Handle
    <3>2. g \in Entry
      BY NextTyped DEF Files, TypeInv
    <3> QED
      BY <3>1, <3>2, BoundAssumption DEF Entry
  <2> QED
    BY <2>1, <2>2, <2>3
<1>1. CASE NamesKept
  <2>1. Names' \subseteq Names
    BY <1>1 DEF NamesKept, Names
  <2>2. OwnerInv'
    BY <1>1 DEF NamesKept, OwnerInv
  <2> QED
    BY <1>0, <2>1, <2>2 DEF NameInv
<1>2. ASSUME NEW c \in Consumers, HandOver(c) PROVE NameInv' /\ OwnerInv'
  <2>1. /\ handles' =
             handles \cup {[owner |-> c, entry |-> e] : e \in current[c]}
        /\ current'[c] = {}
        /\ \A d \in Consumers \ {c} : current'[d] = current[d]
    BY <1>2 DEF HandOver, TypeInv
  <2>2. Names' \subseteq Names
    <3> SUFFICES ASSUME NEW x \in Names' PROVE x \in Names
      OBVIOUS
    <3>1. CASE \E d \in Consumers : x \in current'[d]
      BY <2>1, <3>1, WhoseName
    <3>2. CASE \E h \in handles' : x = h.entry
      BY <2>1, <3>2, WhoseName
    <3> QED
      BY <3>1, <3>2, WhoseName
  <2>3. OwnerInv'
    BY <2>1 DEF OwnerInv, TypeInv
  <2> QED
    BY <1>0, <2>2, <2>3 DEF NameInv
<1>3. ASSUME NEW c \in Consumers, Claim(c) PROVE NameInv' /\ OwnerInv'
  <2>1. CASE NamesKept
    BY <1>1, <2>1
  <2>2. ASSUME UNCHANGED handles, NEW e \in pending,
               current' = [current EXCEPT ![c] = {Again(e)}],
               Again(e) \in processing'
        PROVE  NameInv' /\ OwnerInv'
    <3>1. PICK f : f = Again(e)
      OBVIOUS
    <3>2. /\ f \notin Names /\ f \in Files' /\ f.seq = f.seq
          /\ f.deliveries <= f.deliveries
      BY <2>2, <3>1, FreshName, NextName, BoundAssumption DEF Files, Entry
    <3>3. /\ current'[c] = {f}
          /\ \A d \in Consumers \ {c} : current'[d] = current[d]
      BY <2>2, <3>1 DEF TypeInv
    <3>4. Names' \subseteq Names \cup {f}
      BY <2>2, <3>3 DEF Names
    <3>5. OwnerInv'
      <4>1. /\ \A d \in Consumers : f \notin current[d]
            /\ \A h \in handles : h.entry # f
        BY <3>2, WhoseName
      <4> QED
        BY <2>2, <3>3, <4>1 DEF OwnerInv
    <3> QED
      BY <1>0, <3>2, <3>4, <3>5 DEF NameInv
  <2> QED
    BY <1>3, <2>1, <2>2, ClaimMakes
<1> QED
  BY <1>1, <1>2, <1>3, OthersKeepNames

-----------------------------------------------------------------------------
(* Leaving.                                                                *)

\* A receiver goes on to the second count, and leaves, only when it has found
\* processing/, and then pending/, empty, and only from a sealed queue.
LEMMA LeavesLate ==
  ASSUME TypeInv, NEW c \in Consumers, [Next]_vars
  PROVE  /\ cpc'[c] = "count2" => cpc[c] \in {"count1", "count2"}
         /\ cpc'[c] = "count2" /\ cpc[c] # "count2" => processing = {}
         /\ cpc'[c] = "drained" => cpc[c] \in {"count2", "drained"}
         /\ cpc'[c] = "drained" /\ cpc[c] # "drained" => pending = {}
         /\ cpc'[c] = "count1" /\ cpc[c] # "count1" => sealed
         /\ cpc[c] = "drained" /\ cpc'[c] # "drained" => cpc'[c] = "down"
         /\ cpc[c] = "count2" /\ cpc'[c] # "count2"
              => cpc'[c] \in {"drained", "top", "down"}
<1> DEFINE StepOf(d) ==
         \/ UNCHANGED cpc
         \/ /\ cpc[d] \notin {"count1", "count2", "drained"}
            /\ \E p \in {"top", "reclaim", "claim", "read", "offer",
                         "cancelled"} : cpc' = [cpc EXCEPT ![d] = p]
         \/ /\ cpc[d] = "claim" /\ sealed
            /\ cpc' = [cpc EXCEPT ![d] = "count1"]
         \/ /\ cpc[d] = "count1" /\ processing = {}
            /\ cpc' = [cpc EXCEPT ![d] = "count2"]
         \/ /\ cpc[d] = "count2" /\ pending = {}
            /\ cpc' = [cpc EXCEPT ![d] = "drained"]
         \/ /\ cpc[d] \in {"count1", "count2"}
            /\ cpc' = [cpc EXCEPT ![d] = "top"]
<1> USE DEF receivers, Goto
<1>1. ASSUME NEW m \in Messages, WriteTmp(m) \/ Publisher(m)
      PROVE  UNCHANGED cpc
  BY <1>1 DEF WriteTmp, Publisher, RenameTmp, TearPublish
<1>2. ASSUME Seal PROVE UNCHANGED cpc
  BY <1>2 DEF Seal
<1>3. ASSUME NEW e \in processing, Expire(e) PROVE UNCHANGED cpc
  BY <1>3 DEF Expire
<1>4. ASSUME NEW d \in Consumers, Receiver(d)
      PROVE  StepOf(d)
  <2>1. CASE ListExpired(d) \/ ListPending(d) \/ ReadOK(d) \/ Reclaim(d)
    BY <2>1 DEF ListExpired, ListPending, ReadOK, Reclaim
  <2>2. CASE Claim(d)
    BY <2>2 DEF Claim
  <2>3. CASE Divert(d) \/ HandOver(d) \/ ReturnOnCancel(d)
    BY <2>3 DEF Divert, HandOver, ReturnOnCancel
  <2>4. CASE NothingClaimed(d)
    BY <2>4 DEF NothingClaimed, AfterPoll
  <2>5. CASE CountFirst(d)
    BY <2>5 DEF CountFirst, CountOrder, EmptyDir
  <2>6. CASE CountSecond(d)
    BY <2>6 DEF CountSecond, CountOrder, EmptyDir
  <2> QED
    BY <1>4, <2>1, <2>2, <2>3, <2>4, <2>5, <2>6 DEF Receiver
<1>5. ASSUME NEW d \in Consumers, CancelCtx(d) \/ Crash(d) \/ Restart(d)
      PROVE  \/ UNCHANGED cpc
             \/ cpc' = [cpc EXCEPT ![d] = "down"]
             \/ cpc[d] = "down" /\ cpc' = [cpc EXCEPT ![d] = "top"]
  BY <1>5 DEF CancelCtx, Crash, Restart
<1>6. ASSUME NEW h \in handles, Finalize(h) PROVE UNCHANGED cpc
  BY <1>6 DEF Finalize, Ack, Nack, DeadLetter
<1>7. ASSUME UNCHANGED vars PROVE UNCHANGED cpc
  BY <1>7 DEF vars
<1>8. \/ UNCHANGED cpc
      \/ \E d \in Consumers :
           \/ StepOf(d)
           \/ cpc' = [cpc EXCEPT ![d] = "down"]
           \/ cpc[d] = "down" /\ cpc' = [cpc EXCEPT ![d] = "top"]
  BY <1>1, <1>2, <1>3, <1>4, <1>5, <1>6, <1>7 DEF Next
<1>9. CASE UNCHANGED cpc
  BY <1>9
<1>10. ASSUME NEW d \in Consumers, NEW p, cpc' = [cpc EXCEPT ![d] = p]
       PROVE  cpc'[c] = IF c = d THEN p ELSE cpc[c]
  BY <1>10 DEF TypeInv
<1> QED
  BY <1>8, <1>9, <1>10

\* The queue stays sealed, and then nothing is published.
LEMMA SealLasts ==
  ASSUME TypeInv, LeaveInv, [Next]_vars
  PROVE  /\ sealed => sealed' /\ UNCHANGED published
         /\ sealed' => \A m \in Messages : published'[m] \in {"yes", "torn"}
<1> USE DEF producers, LeaveInv
<1>1. ASSUME NEW m \in Messages, WriteTmp(m) \/ Publisher(m)
      PROVE  ~sealed /\ ~sealed'
  BY <1>1 DEF WriteTmp, Publisher, RenameTmp, TearPublish, TypeInv
<1>2. CASE Seal
  BY <1>2 DEF Seal
<1>3. ASSUME NEW e \in processing, Expire(e) PROVE UNCHANGED producers
  BY <1>3 DEF Expire
<1>4. ASSUME NEW d \in Consumers, Receiver(d) PROVE UNCHANGED producers
  BY <1>4 DEF Receiver, ListExpired, Reclaim, ListPending, Claim, ReadOK,
              Divert, NothingClaimed, CountFirst, CountSecond, HandOver,
              ReturnOnCancel
<1>5. ASSUME NEW d \in Consumers, CancelCtx(d) \/ Crash(d) \/ Restart(d)
      PROVE  UNCHANGED producers
  BY <1>5 DEF CancelCtx, Crash, Restart
<1>6. ASSUME NEW h \in handles, Finalize(h) PROVE UNCHANGED producers
  BY <1>6 DEF Finalize, Ack, Nack, DeadLetter
<1>7. CASE UNCHANGED vars
  BY <1>7 DEF vars
<1> QED
  BY <1>1, <1>2, <1>3, <1>4, <1>5, <1>6, <1>7 DEF Next

\* Only a receiver claims, and it is then neither counting nor gone.
LEMMA ClaimerStays ==
  ASSUME TypeInv, BoundInv, [Next]_vars, NEW e \in Entry, Claimed(e)
  PROVE  \E c \in Consumers : cpc'[c] = "read"
<1> USE DEF files
<1>0. /\ Again(e) \in processing' /\ Again(e) # e
      /\ pending' # pending /\ e \notin pending'
  <2>1. Again(e).deliveries # e.deliveries
    BY NextName DEF Claimed
  <2> QED
    BY <2>1 DEF Claimed
<1>1. ASSUME NEW m \in Messages, WriteTmp(m) \/ Publisher(m)
      PROVE  pending \subseteq pending'
  BY <1>1 DEF WriteTmp, Publisher, RenameTmp, TearPublish
<1>2. ASSUME Seal PROVE UNCHANGED pending
  BY <1>2 DEF Seal
<1>3. ASSUME NEW f \in processing, Expire(f) PROVE UNCHANGED pending
  BY <1>3 DEF Expire
<1>4. ASSUME NEW d \in Consumers, Receiver(d)
      PROVE  pending \subseteq pending' \/ Claim(d)
  BY <1>4 DEF Receiver, ListExpired, Reclaim, ListPending, ReadOK,
              Divert, NothingClaimed, CountFirst, CountSecond, HandOver,
              ReturnOnCancel, ToPending, ToDead, Gone
<1>5. ASSUME NEW d \in Consumers, CancelCtx(d) \/ Crash(d) \/ Restart(d)
      PROVE  UNCHANGED pending
  BY <1>5 DEF CancelCtx, Crash, Restart
<1>6. ASSUME NEW h \in handles, Finalize(h) PROVE pending \subseteq pending'
  BY <1>6 DEF Finalize, Ack, Nack, DeadLetter, ToPending, ToDead, Gone
<1>7. ASSUME UNCHANGED vars PROVE UNCHANGED pending
  BY <1>7 DEF vars
<1>8. PICK d \in Consumers : Claim(d)
  BY <1>0, <1>1, <1>2, <1>3, <1>4, <1>5, <1>6, <1>7 DEF Next, Claimed
<1>9. cpc'[d] = "read"
  BY <1>0, <1>8 DEF Claim, Goto, TypeInv
<1> QED
  BY <1>9

\* So the last one to leave leaves nothing behind.
LEMMA LeavingKept ==
  ASSUME TypeInv, BoundInv, FileInv, LeaveInv, [Next]_vars
  PROVE  LeaveInv'
<1>1. \A c \in Consumers :
        cpc'[c] \in {"count1", "count2", "drained"} => sealed'
  BY LeavesLate, SealLasts DEF LeaveInv
<1>2. sealed' => \A m \in Messages : published'[m] \in {"yes", "torn"}
  BY SealLasts
<1>3. ASSUME processing' # {}
      PROVE  \E c \in Consumers : cpc'[c] \notin {"count2", "drained"}
  <2>1. CASE \E e \in Entry : Claimed(e)
    BY <2>1, ClaimerStays
  <2>2. CASE ~\E e \in Entry : Claimed(e)
    <3>1. processing # {}
      BY <1>3, <2>2, MovesOne
         DEF NoMove, directories, FileMove, RenameTmp, Returned, Buried, Removed
    <3>2. PICK c \in Consumers : cpc[c] \notin {"count2", "drained"}
      BY <3>1 DEF LeaveInv
    <3> QED
      BY <3>1, <3>2, LeavesLate
  <2> QED
    BY <2>1, <2>2
<1>4. ASSUME pending' # {}
      PROVE  \E c \in Consumers : cpc'[c] # "drained"
  <2>1. CASE pending # {}
    <3>1. PICK c \in Consumers : cpc[c] # "drained"
      BY <2>1 DEF LeaveInv
    <3> QED
      BY <2>1, <3>1, LeavesLate
  <2>2. CASE pending = {} /\ processing # {}
    <3>1. PICK c \in Consumers : cpc[c] \notin {"count2", "drained"}
      BY <2>2 DEF LeaveInv
    <3> QED
      BY <2>2, <3>1, LeavesLate
  <2>3. CASE pending = {} /\ processing = {}
    <3>1. PICK m \in Messages : RenameTmp(m)
      BY <1>4, <2>3, MovesOne
         DEF NoMove, directories, FileMove, Claimed, Returned, Buried, Removed
    <3>2. ~sealed
      BY <3>1 DEF RenameTmp, LeaveInv
    <3>3. PICK c \in Consumers : TRUE
      BY ConsumerAssumption
    <3>4. cpc[c] \notin {"count2", "drained"}
      BY <3>2 DEF LeaveInv
    <3> QED
      BY <3>4, LeavesLate
  <2> QED
    BY <2>1, <2>2, <2>3
<1> QED
  BY <1>1, <1>2, <1>3, <1>4 DEF LeaveInv

-----------------------------------------------------------------------------
\* Every step keeps the invariant.
LEMMA NextIInv == IInv /\ [Next]_vars => IInv'
<1> SUFFICES ASSUME IInv, [Next]_vars PROVE IInv'
  OBVIOUS
<1> USE DEF IInv
<1>1. TypeInv' /\ BoundInv'
  BY NextTyped
<1>2. FileInv'
  BY FilesKept
<1>3. NameInv' /\ OwnerInv'
  BY NamesHaveOwners
<1>4. LeaveInv'
  BY LeavingKept
<1> QED
  BY <1>1, <1>2, <1>3, <1>4

\* The cardinality of a set with one element at most.
LEMMA AtMostOne ==
  ASSUME NEW S, \A x, y \in S : x = y
  PROVE  /\ Cardinality(S) \in {0, 1}
         /\ S = {} <=> Cardinality(S) = 0
<1>1. CASE S = {}
  BY <1>1, FS_EmptySet
<1>2. CASE S # {}
  <2>1. PICK x : x \in S
    BY <1>2
  <2>2. S = {x}
    BY <2>1
  <2>3. Cardinality(S) = 1
    BY <2>2, FS_Singleton
  <2> QED
    BY <1>2, <2>3
<1> QED
  BY <1>1, <1>2

\* A receiver holds one entry at most, and no file name carries a count beyond
\* the deliveries there were.
THEOREM TypeCorrect == Spec => []TypeOK
<1>1. IInv => TypeOK
  <2> SUFFICES ASSUME IInv PROVE TypeOK
    OBVIOUS
  <2>1. \A c \in Consumers : Cardinality(current[c]) <= 1
    <3> TAKE c \in Consumers
    <3>1. \A e, f \in current[c] : e = f
      BY DEF IInv, TypeInv
    <3>2. Cardinality(current[c]) \in {0, 1}
      BY <3>1, AtMostOne
    <3> QED
      BY <3>2
  <2> QED
    BY <2>1 DEF IInv, TypeInv, TypeOK
<1> QED
  BY <1>1, InitIInv, NextIInv, PTL DEF Spec

\* However the renames of any number of consumers interleave, and whoever
\* reclaims or crashes, a claimed file is one receiver's or one handle's: the
\* name of a claim is fresh, so that a handle of an earlier one misses it.
THEOREM OwnedOnce == Spec => []OneOwner
<1>1. IInv => OneOwner
  <2> SUFFICES ASSUME IInv, NEW e \in processing
               PROVE  Cardinality({c \in Consumers : e \in current[c]})
                        + Cardinality({h \in handles : h.entry = e}) <= 1
    BY DEF OneOwner
  <2> DEFINE A == {c \in Consumers : e \in current[c]}
             B == {h \in handles : h.entry = e}
  <2>1. (\A c, d \in A : c = d) /\ (\A h, g \in B : h = g)
    BY DEF IInv, OwnerInv
  <2>2. A = {} \/ B = {}
    BY DEF IInv, OwnerInv
  <2>3. /\ Cardinality(A) \in {0, 1} /\ Cardinality(B) \in {0, 1}
        /\ A = {} <=> Cardinality(A) = 0
        /\ B = {} <=> Cardinality(B) = 0
    <3> HIDE DEF A, B
    <3> QED
      BY <2>1, AtMostOne
  <2> HIDE DEF A, B
  <2>4. Cardinality(A) + Cardinality(B) <= 1
    BY <2>2, <2>3
  <2> QED
    BY <2>4 DEF A, B
<1> QED
  BY <1>1, InitIInv, NextIInv, PTL DEF Spec

\* When every consumer has left the queue as drained, it is: although drained
\* reads the two directories one after the other while others rename files,
\* some consumer is still to count for as long as there is a file.
THEOREM LastDrains == Spec => []LastOneDrains
<1>1. IInv => LastOneDrains
  BY DEF IInv, LeaveInv, LastOneDrains
<1> QED
  BY <1>1, InitIInv, NextIInv, PTL DEF Spec

-----------------------------------------------------------------------------
(* The directory implements Delivery.                                      *)

Copies(w, h, a, d) == [waiting |-> w, held |-> h, acked |-> a, dead |-> d]

\* What the directory is as a Delivery.
CopiesOf ==
  [m \in Messages |->
     Copies(Cardinality(Of(m, pending)), Cardinality(Of(m, processing)),
            Cardinality(Of(m, acked)), Cardinality(Of(m, dead)))]

Live(m) == Of(m, pending) \cup Of(m, processing)

CountOf ==
  [m \in Messages |->
     IF Live(m) = {} THEN 0 ELSE (CHOOSE e \in Live(m) : TRUE).deliveries]

\* The places a copy moves between.
LEMMA CopiesMove ==
  /\ Copies(0, 0, 0, 0) = Abstract!Nowhere
  /\ Copies(1, 0, 0, 0) = [Abstract!Nowhere EXCEPT !["waiting"] = 1]
  /\ Copies(0, 1, 0, 0)
       = [Copies(1, 0, 0, 0) EXCEPT !["waiting"] = @ - 1, !["held"] = @ + 1]
  /\ Copies(1, 0, 0, 0)
       = [Copies(0, 1, 0, 0) EXCEPT !["waiting"] = @ + 1, !["held"] = @ - 1]
  /\ Copies(0, 0, 1, 0)
       = [Copies(0, 1, 0, 0) EXCEPT !["held"] = @ - 1, !["acked"] = @ + 1]
  /\ Copies(0, 0, 0, 1)
       = [Copies(0, 1, 0, 0) EXCEPT !["held"] = @ - 1, !["dead"] = @ + 1]
  /\ Copies(1, 0, 0, 0)["waiting"] = 1 /\ Copies(0, 1, 0, 0)["held"] = 1
<1> USE DEF Copies
<1>1. Copies(0, 0, 0, 0) = Abstract!Nowhere
  BY DEF Abstract!Nowhere, Abstract!Places
<1>2. Copies(1, 0, 0, 0) = [Copies(0, 0, 0, 0) EXCEPT !["waiting"] = 1]
  OBVIOUS
<1>3. Copies(0, 1, 0, 0)
        = [Copies(1, 0, 0, 0) EXCEPT !["waiting"] = @ - 1, !["held"] = @ + 1]
  OBVIOUS
<1>4. Copies(1, 0, 0, 0)
        = [Copies(0, 1, 0, 0) EXCEPT !["waiting"] = @ + 1, !["held"] = @ - 1]
  OBVIOUS
<1>5. Copies(0, 0, 1, 0)
        = [Copies(0, 1, 0, 0) EXCEPT !["held"] = @ - 1, !["acked"] = @ + 1]
  OBVIOUS
<1>6. Copies(0, 0, 0, 1)
        = [Copies(0, 1, 0, 0) EXCEPT !["held"] = @ - 1, !["dead"] = @ + 1]
  OBVIOUS
<1>7. Copies(1, 0, 0, 0)["waiting"] = 1 /\ Copies(0, 1, 0, 0)["held"] = 1
  OBVIOUS
<1> QED
  BY <1>1, <1>2, <1>3, <1>4, <1>5, <1>6, <1>7

\* The files of a message in a directory: its only file, or none.
LEMMA OfOne ==
  ASSUME NEW D, NEW e, \A f \in D : f.seq = e.seq => f = e
  PROVE  /\ Of(e.seq, D) = IF e \in D THEN {e} ELSE {}
         /\ Cardinality(Of(e.seq, D)) = IF e \in D THEN 1 ELSE 0
<1>1. Of(e.seq, D) = IF e \in D THEN {e} ELSE {}
  BY DEF Of
<1> QED
  BY <1>1, FS_EmptySet, FS_Singleton, Zenon

\* Where the file of a message is, there is its only copy.
CopyInv ==
  /\ \A e \in pending : /\ CopiesOf[e.seq] = Copies(1, 0, 0, 0)
                       /\ CountOf[e.seq] = e.deliveries
  /\ \A e \in processing : /\ CopiesOf[e.seq] = Copies(0, 1, 0, 0)
                          /\ CountOf[e.seq] = e.deliveries
  /\ \A e \in acked : /\ CopiesOf[e.seq] = Copies(0, 0, 1, 0)
                     /\ CountOf[e.seq] = 0
  /\ \A e \in dead : /\ CopiesOf[e.seq] = Copies(0, 0, 0, 1)
                    /\ CountOf[e.seq] = 0
  /\ \A m \in Messages : published[m] # "yes" =>
       /\ CopiesOf[m] = Copies(0, 0, 0, 0)
       /\ CountOf[m] = 0

LEMMA CopyOfFile == IInv => CopyInv
<1> SUFFICES ASSUME IInv PROVE CopyInv
  OBVIOUS
<1> USE DEF IInv, FileInv, Files
<1>1. \A e \in Files : e.seq \in Messages
  BY DEF TypeInv, Entry
<1>2. ASSUME NEW e \in Files
      PROVE  /\ CopiesOf[e.seq] =
                  Copies(IF e \in pending THEN 1 ELSE 0,
                         IF e \in processing THEN 1 ELSE 0,
                         IF e \in acked THEN 1 ELSE 0,
                         IF e \in dead THEN 1 ELSE 0)
             /\ CountOf[e.seq] = IF e \in pending \cup processing
                                 THEN e.deliveries ELSE 0
  <2>1. /\ Of(e.seq, pending) = IF e \in pending THEN {e} ELSE {}
        /\ Of(e.seq, processing) = IF e \in processing THEN {e} ELSE {}
        /\ Cardinality(Of(e.seq, pending)) = IF e \in pending THEN 1 ELSE 0
        /\ Cardinality(Of(e.seq, processing))
             = IF e \in processing THEN 1 ELSE 0
        /\ Cardinality(Of(e.seq, acked)) = IF e \in acked THEN 1 ELSE 0
        /\ Cardinality(Of(e.seq, dead)) = IF e \in dead THEN 1 ELSE 0
    BY OfOne
  <2>2. Live(e.seq) = IF e \in pending \cup processing THEN {e} ELSE {}
    BY <2>1 DEF Live
  <2> QED
    BY <1>1, <2>1, <2>2 DEF CopiesOf, CountOf
<1>3. ASSUME NEW m \in Messages, published[m] # "yes"
      PROVE  CopiesOf[m] = Copies(0, 0, 0, 0) /\ CountOf[m] = 0
  <2>1. /\ Of(m, pending) = {} /\ Of(m, processing) = {}
        /\ Of(m, acked) = {} /\ Of(m, dead) = {}
    BY <1>3 DEF Of
  <2> QED
    BY <2>1, FS_EmptySet DEF CopiesOf, CountOf, Live
<1>4. \A e \in pending : /\ CopiesOf[e.seq] = Copies(1, 0, 0, 0)
                        /\ CountOf[e.seq] = e.deliveries
  BY <1>2
<1>5. \A e \in processing : /\ CopiesOf[e.seq] = Copies(0, 1, 0, 0)
                           /\ CountOf[e.seq] = e.deliveries
  BY <1>2
<1>6. \A e \in acked : /\ CopiesOf[e.seq] = Copies(0, 0, 1, 0)
                      /\ CountOf[e.seq] = 0
  BY <1>2
<1>7. \A e \in dead : /\ CopiesOf[e.seq] = Copies(0, 0, 0, 1)
                     /\ CountOf[e.seq] = 0
  BY <1>2
<1> QED
  BY <1>3, <1>4, <1>5, <1>6, <1>7 DEF CopyInv

\* The other messages stay where they are.
LEMMA OthersStay ==
  ASSUME NEW m \in Messages, NEW n \in Messages, m # n,
         NEW e, e.seq = m, NEW f, f.seq = m,
         /\ pending' \ {e, f} = pending \ {e, f}
         /\ processing' \ {e, f} = processing \ {e, f}
         /\ acked' \ {e, f} = acked \ {e, f}
         /\ dead' \ {e, f} = dead \ {e, f}
  PROVE  CopiesOf'[n] = CopiesOf[n] /\ CountOf'[n] = CountOf[n]
<1>1. /\ Of(n, pending)' = Of(n, pending)
      /\ Of(n, processing)' = Of(n, processing)
      /\ Of(n, acked)' = Of(n, acked)
      /\ Of(n, dead)' = Of(n, dead)
  BY DEF Of
<1>2. Live(n)' = Live(n)
  BY <1>1 DEF Live
<1> QED
  BY <1>1, <1>2 DEF CopiesOf, CountOf

\* A message whose copy goes from one place to another.
LEMMA MovedFrom ==
  ASSUME NEW f, DOMAIN f = Messages, NEW g, g = [n \in Messages |-> g[n]],
         NEW m \in Messages, \A n \in Messages \ {m} : g[n] = f[n],
         NEW x, NEW y, x # y,
         g[m] = [f[m] EXCEPT ![x] = @ - 1, ![y] = @ + 1]
  PROVE  g = [f EXCEPT ![m][x] = @ - 1, ![m][y] = @ + 1]
<1> DEFINE one == [f EXCEPT ![m] = [f[m] EXCEPT ![x] = @ - 1]]
           two == [one EXCEPT ![m] = [one[m] EXCEPT ![y] = @ + 1]]
<1>1. one[m] = [f[m] EXCEPT ![x] = @ - 1] /\ DOMAIN one = Messages
  OBVIOUS
<1>2. two[m] = [one[m] EXCEPT ![y] = @ + 1] /\ DOMAIN two = Messages
  OBVIOUS
<1>3. \A n \in Messages \ {m} : one[n] = f[n] /\ two[n] = one[n]
  OBVIOUS
<1>4. two[m] = g[m]
  <2>1. one[m][y] = f[m][y]
    BY <1>1
  <2> HIDE DEF one, two
  <2> QED
    BY <1>1, <1>2, <2>1
<1>5. two = [n \in Messages |-> two[n]]
  <2> HIDE DEF one
  <2> QED
    BY <1>1
<1>6. g = two
  <2> HIDE DEF two
  <2> QED
    BY <1>3, <1>4, <1>5
<1> QED
  BY <1>6

\* Init is one of Delivery's: the directory is empty.
LEMMA InitImplements == Init => Abstract!Init
<1> SUFFICES ASSUME Init PROVE Abstract!Init
  OBVIOUS
<1>1. \A m \in Messages : /\ CopiesOf[m] = Copies(0, 0, 0, 0)
                         /\ CountOf[m] = 0
  BY InitIInv, CopyOfFile DEF CopyInv, Init
<1>2. /\ CopiesOf = [m \in Messages |->
                       IF m \in {}
                       THEN [Abstract!Nowhere EXCEPT !["waiting"] = 1]
                       ELSE Abstract!Nowhere]
      /\ {} \in SUBSET Messages
  BY <1>1, CopiesMove DEF CopiesOf
<1>3. CountOf = [m \in Messages |-> 0]
  BY <1>1 DEF CountOf
<1>4. (cancelled = {}) = TRUE
  BY DEF Init
<1> QED
  BY <1>2, <1>3, <1>4 DEF Abstract!Init, CopiesOf, CountOf, Copies, Live

\* A step that moves no file.
LEMMA StayImplements ==
  ASSUME UNCHANGED directories
  PROVE  Abstract!Toggle \/ UNCHANGED Abstract!vars
<1>1. CopiesOf' = CopiesOf /\ CountOf' = CountOf
  BY DEF directories, CopiesOf, CountOf, Live, Of
<1>2. CASE (cancelled' = {}) = (cancelled = {})
  BY <1>1, <1>2 DEF Abstract!vars, CopiesOf, CountOf, Copies, Live
<1>3. CASE (cancelled' = {}) = ~(cancelled = {})
  BY <1>1, <1>3 DEF Abstract!Toggle, CopiesOf, CountOf, Copies, Live
<1> QED
  BY <1>2, <1>3

\* The rename of the .tmp file publishes the message.
LEMMA PublishImplements ==
  ASSUME IInv, IInv', NEW m \in Messages, RenameTmp(m), UNCHANGED acked
  PROVE  Abstract!Publish(m)
<1>1. CopyInv /\ CopyInv'
  BY CopyOfFile, PTL
<1>2. PICK e : e = [seq |-> m, deliveries |-> 0]
  OBVIOUS
<1>3. /\ e.seq = m /\ e.deliveries = 0 /\ e \in pending'
      /\ pending' \ {e} = pending \ {e}
      /\ published[m] # "yes"
      /\ UNCHANGED <<processing, dead, cancelled>>
  BY <1>2 DEF RenameTmp
<1>4. /\ CopiesOf[m] = Copies(0, 0, 0, 0) /\ CountOf[m] = 0
      /\ CopiesOf'[m] = Copies(1, 0, 0, 0) /\ CountOf'[m] = 0
  BY <1>1, <1>3 DEF CopyInv
<1>5. \A n \in Messages \ {m} :
        CopiesOf'[n] = CopiesOf[n] /\ CountOf'[n] = CountOf[n]
  BY <1>3, OthersStay
<1>6. CopiesOf[m] = Abstract!Nowhere
  BY <1>4, CopiesMove
<1>7. CopiesOf' = [CopiesOf EXCEPT ![m]["waiting"] = 1]
  <2>1. CopiesOf' = [CopiesOf EXCEPT ![m] = Copies(1, 0, 0, 0)]
    BY <1>4, <1>5 DEF CopiesOf
  <2>2. Copies(1, 0, 0, 0) = [CopiesOf[m] EXCEPT !["waiting"] = 1]
    BY <1>6, CopiesMove
  <2> QED
    BY <2>1, <2>2
<1>8. CountOf' = CountOf
  BY <1>4, <1>5 DEF CountOf
<1> QED
  BY <1>3, <1>6, <1>7, <1>8
     DEF Abstract!Publish, CopiesOf, CountOf, Copies, Live

\* The rename into processing/ claims it, and counts the delivery.
LEMMA ClaimImplements ==
  ASSUME IInv, IInv', NEW e \in Entry, Claimed(e), UNCHANGED cancelled
  PROVE  Abstract!Claim(e.seq)
<1>1. CopyInv /\ CopyInv'
  BY CopyOfFile, PTL
<1>2. PICK f : f = Again(e)
  OBVIOUS
<1>3. PICK m \in Messages : m = e.seq
  BY DEF Entry
<1>4. /\ e \in pending /\ f \in processing'
      /\ f.seq = m /\ f.deliveries = e.deliveries + 1
      /\ pending' \ {e, f} = pending \ {e, f}
      /\ processing' \ {e, f} = processing \ {e, f}
      /\ UNCHANGED <<acked, dead>>
  BY <1>2, <1>3, NextName DEF Claimed, IInv
<1>5. /\ CopiesOf[m] = Copies(1, 0, 0, 0) /\ CountOf[m] = e.deliveries
      /\ CopiesOf'[m] = Copies(0, 1, 0, 0) /\ CountOf'[m] = f.deliveries
  BY <1>1, <1>3, <1>4 DEF CopyInv
<1>6. \A n \in Messages \ {m} :
        CopiesOf'[n] = CopiesOf[n] /\ CountOf'[n] = CountOf[n]
  BY <1>3, <1>4, OthersStay
<1>7. CopiesOf[m]["waiting"] > 0
  BY <1>5, CopiesMove
<1>8. CopiesOf'
        = [CopiesOf EXCEPT ![m]["waiting"] = @ - 1, ![m]["held"] = @ + 1]
  <2>1. CopiesOf'[m]
          = [CopiesOf[m] EXCEPT !["waiting"] = @ - 1, !["held"] = @ + 1]
    BY <1>5, CopiesMove
  <2> QED
    BY <1>6, <2>1, MovedFrom DEF CopiesOf
<1>9. CountOf' = [CountOf EXCEPT ![m] = @ + 1]
  BY <1>4, <1>5, <1>6, ZenonT(60) DEF CountOf
<1> QED
  BY <1>3, <1>7, <1>8, <1>9
     DEF Abstract!Claim, CopiesOf, CountOf, Copies, Live

\* The rename back into pending/ gives it back.
LEMMA GiveBackImplements ==
  ASSUME IInv, IInv', NEW e \in Entry, Returned(e), UNCHANGED cancelled
  PROVE  Abstract!GiveBack({e.seq})
<1>1. CopyInv /\ CopyInv'
  BY CopyOfFile, PTL
<1>2. PICK m \in Messages : m = e.seq
  BY DEF Entry
<1>3. /\ e \in processing /\ e \in pending'
      /\ pending' \ {e} = pending \ {e}
      /\ processing' \ {e} = processing \ {e}
      /\ UNCHANGED <<acked, dead>>
  BY DEF Returned
<1>4. /\ CopiesOf[m] = Copies(0, 1, 0, 0) /\ CountOf[m] = e.deliveries
      /\ CopiesOf'[m] = Copies(1, 0, 0, 0) /\ CountOf'[m] = e.deliveries
  BY <1>1, <1>2, <1>3 DEF CopyInv
<1>5. \A n \in Messages \ {m} :
        CopiesOf'[n] = CopiesOf[n] /\ CountOf'[n] = CountOf[n]
  BY <1>2, <1>3, OthersStay
<1>6. \A n \in {m} : CopiesOf[n]["held"] > 0
  BY <1>4, CopiesMove
<1>7. CopiesOf' = [n \in Messages |->
                     IF n \in {m} THEN [CopiesOf[n] EXCEPT !["waiting"] = @ + 1,
                                                           !["held"] = @ - 1]
                     ELSE CopiesOf[n]]
  BY <1>4, <1>5, CopiesMove DEF CopiesOf
<1>8. CountOf' = CountOf
  BY <1>4, <1>5 DEF CountOf
<1> QED
  BY <1>2, <1>6, <1>7, <1>8
     DEF Abstract!GiveBack, CopiesOf, CountOf, Copies, Live

\* The rename into dead/, or the removal, finalizes it.
LEMMA FinalizeImplements ==
  ASSUME IInv, IInv', NEW e \in Entry, UNCHANGED cancelled
  PROVE  /\ Removed(e) => Abstract!Finalize(e.seq, "acked")
         /\ Buried(e) => Abstract!Finalize(e.seq, "dead")
<1>1. CopyInv /\ CopyInv'
  BY CopyOfFile, PTL
<1>2. PICK m \in Messages : m = e.seq
  BY DEF Entry
<1>3. ASSUME NEW place \in {"acked", "dead"}, Removed(e) \/ Buried(e),
             IF place = "acked" THEN Removed(e) ELSE Buried(e)
      PROVE  Abstract!Finalize(m, place)
  <2>1. /\ e \in processing
        /\ pending' \ {e} = pending \ {e}
        /\ processing' \ {e} = processing \ {e}
        /\ acked' \ {e} = acked \ {e}
        /\ dead' \ {e} = dead \ {e}
        /\ e \in IF place = "acked" THEN acked' ELSE dead'
    BY <1>3 DEF Removed, Buried
  <2>2. /\ CopiesOf[m] = Copies(0, 1, 0, 0)
        /\ CopiesOf'[m] = IF place = "acked" THEN Copies(0, 0, 1, 0)
                          ELSE Copies(0, 0, 0, 1)
        /\ CountOf'[m] = 0
    BY <1>1, <1>2, <2>1 DEF CopyInv
  <2>3. \A n \in Messages \ {m} :
          CopiesOf'[n] = CopiesOf[n] /\ CountOf'[n] = CountOf[n]
    BY <1>2, <2>1, OthersStay
  <2>4. CopiesOf[m]["held"] > 0
    BY <2>2, CopiesMove
  <2>5. CopiesOf'
          = [CopiesOf EXCEPT ![m]["held"] = @ - 1, ![m][place] = @ + 1]
    <3>1. CopiesOf'[m]
            = [CopiesOf[m] EXCEPT !["held"] = @ - 1, ![place] = @ + 1]
      BY <2>2, CopiesMove
    <3> QED
      BY <2>3, <3>1, MovedFrom DEF CopiesOf
  <2>6. CountOf' = [CountOf EXCEPT ![m] = 0]
    BY <2>2, <2>3 DEF CountOf
  <2> QED
    BY <2>4, <2>5, <2>6 DEF Abstract!Finalize, CopiesOf, CountOf, Copies, Live
<1> QED
  BY <1>2, <1>3

\* No step both moves a file and cancels a ctx or starts a process anew.
LEMMA MovesApart == [Next]_vars => UNCHANGED cancelled \/ UNCHANGED directories
<1> SUFFICES ASSUME [Next]_vars
             PROVE  UNCHANGED cancelled \/ UNCHANGED directories
  OBVIOUS
<1> USE DEF files, finals, directories
<1>1. ASSUME NEW m \in Messages, WriteTmp(m) \/ Publisher(m)
      PROVE  UNCHANGED cancelled
  BY <1>1 DEF WriteTmp, Publisher, RenameTmp, TearPublish
<1>2. CASE Seal
  BY <1>2 DEF Seal
<1>3. ASSUME NEW e \in processing, Expire(e) PROVE UNCHANGED cancelled
  BY <1>3 DEF Expire
<1>4. ASSUME NEW c \in Consumers, Receiver(c) PROVE UNCHANGED cancelled
  BY <1>4 DEF Receiver, ListExpired, Reclaim, ListPending, Claim, ReadOK,
              Divert, NothingClaimed, CountFirst, CountSecond, HandOver,
              ReturnOnCancel
<1>5. ASSUME NEW c \in Consumers, CancelCtx(c) \/ Crash(c) \/ Restart(c)
      PROVE  UNCHANGED directories
  BY <1>5 DEF CancelCtx, Crash, Restart
<1>6. ASSUME NEW h \in handles, Finalize(h) PROVE UNCHANGED cancelled
  BY <1>6 DEF Finalize, Ack, Nack, DeadLetter
<1>7. CASE UNCHANGED vars
  BY <1>7 DEF vars
<1> QED
  BY <1>1, <1>2, <1>3, <1>4, <1>5, <1>6, <1>7 DEF Next

\* Every step is a step of Delivery or leaves it alone.
LEMMA StepImplements ==
  IInv /\ IInv' /\ [Next]_vars => [Abstract!Next]_(Abstract!vars)
<1> SUFFICES ASSUME IInv, IInv', [Next]_vars
             PROVE  Abstract!Next \/ UNCHANGED Abstract!vars
  OBVIOUS
<1>1. CASE UNCHANGED directories
  BY <1>1, StayImplements DEF Abstract!Next
<1>2. ASSUME ~UNCHANGED directories PROVE UNCHANGED cancelled /\ FileMove
  BY <1>2, MovesApart, MovesOne DEF IInv, NoMove
<1>3. ASSUME NEW m \in Messages, RenameTmp(m), UNCHANGED acked
      PROVE  Abstract!Next
  BY <1>3, PublishImplements DEF Abstract!Next
<1>4. ASSUME NEW e \in Entry, UNCHANGED cancelled,
             Claimed(e) \/ Returned(e) \/ Buried(e) \/ Removed(e)
      PROVE  Abstract!Next
  <2>1. e.seq \in Messages
    BY DEF Entry
  <2>2. CASE Claimed(e)
    BY <1>4, <2>1, <2>2, ClaimImplements DEF Abstract!Next
  <2>3. CASE Returned(e)
    <3>1. Abstract!GiveBack({e.seq})
      BY <1>4, <2>3, GiveBackImplements
    <3> QED
      BY <2>1, <3>1 DEF Abstract!Next
  <2>4. CASE Buried(e) \/ Removed(e)
    BY <1>4, <2>1, <2>4, FinalizeImplements DEF Abstract!Next
  <2> QED
    BY <1>4, <2>2, <2>3, <2>4
<1> QED
  BY <1>1, <1>2, <1>3, <1>4 DEF FileMove

\* The directory is a Delivery, whatever the interleaving of claims, reclaims,
\* stale handles and crashes: a message is one file until one Ack removes it,
\* and its name counts every delivery, also those whose consumer died.
THEOREM DirectoryImplements == Spec => ImplementsDelivery
  BY InitIInv, NextIInv, InitImplements, StepImplements, PTL
     DEF Spec, ImplementsDelivery, Abstract!Spec

-----------------------------------------------------------------------------
(* What a Delivery is known to do, of the directory.                       *)

Promise == INSTANCE DeliveryProofs WITH
  copies <- [m \in Messages |->
               [waiting |-> Cardinality(Of(m, pending)),
                held |-> Cardinality(Of(m, processing)),
                acked |-> Cardinality(Of(m, acked)),
                dead |-> Cardinality(Of(m, dead))]],
  count <- [m \in Messages |->
              LET live == Of(m, pending) \cup Of(m, processing) IN
              IF live = {} THEN 0 ELSE (CHOOSE e \in live : TRUE).deliveries],
  open <- cancelled = {}

\* Abstract and Promise instantiate Delivery alike.
LEMMA SamePromise ==
  /\ Abstract!Init = Promise!Init
  /\ Abstract!Next = Promise!Next
  /\ UNCHANGED Abstract!vars <=> UNCHANGED Promise!vars
  /\ Abstract!NothingUndone = Promise!NothingUndone
  /\ Abstract!OneCopy = Promise!OneCopy
  BY DEF Abstract!Init, Promise!Init, Abstract!Nowhere, Promise!Nowhere,
         Abstract!Next, Promise!Next, Abstract!Publish, Promise!Publish,
         Abstract!Claim, Promise!Claim, Abstract!GiveBack, Promise!GiveBack,
         Abstract!Finalize, Promise!Finalize, Abstract!Toggle, Promise!Toggle,
         Abstract!vars, Promise!vars, Abstract!Places, Promise!Places,
         Abstract!NothingUndone, Promise!NothingUndone,
         Abstract!Finalized, Promise!Finalized,
         Abstract!OneCopy, Promise!OneCopy

\* A message is in one directory, and no handle, reclaim or crash brings back
\* one that was acked or dead-lettered; the count in its file name does not
\* fall before.
THEOREM FinalForGood ==
  Spec => []Abstract!OneCopy /\ [][Abstract!NothingUndone]_(Abstract!vars)
<1>1. Abstract!Init => Promise!Init
  BY SamePromise
<1>2. [Abstract!Next]_(Abstract!vars) => [Promise!Next]_(Promise!vars)
  BY SamePromise
<1>3. Spec => Promise!Spec
  <2>1. Spec => Abstract!Spec
    BY DirectoryImplements DEF ImplementsDelivery
  <2> QED
    BY <1>1, <1>2, <2>1, PTL DEF Abstract!Spec, Promise!Spec
<1>4. Promise!OneCopy => Abstract!OneCopy
  BY SamePromise
<1>5. [Promise!NothingUndone]_(Promise!vars)
        => [Abstract!NothingUndone]_(Abstract!vars)
  BY SamePromise
<1>6. Spec => []Abstract!OneCopy
  BY <1>3, <1>4, Promise!OneCopyAlways, PTL
<1>7. Spec => [][Abstract!NothingUndone]_(Abstract!vars)
  BY <1>3, <1>5, Promise!FinalForGood, PTL
<1> QED
  BY <1>6, <1>7
=============================================================================
