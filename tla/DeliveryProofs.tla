---------------------------- MODULE DeliveryProofs ----------------------------
(***************************************************************************)
(* What every implementation of Delivery inherits: one copy of a message,  *)
(* for any set of messages.  OneCopy is inductive by itself, but for the   *)
(* fact that copies is a function on Messages.                             *)
(***************************************************************************)
EXTENDS Delivery, TLAPS

TypeInv == copies \in [Messages -> [Places -> Int]]

IInv == TypeInv /\ OneCopy

\* The four places, one of which a copy can be at.
LEMMA SinglePlace ==
  /\ Nowhere \in [Places -> Int]
  /\ \A place \in Places : [Nowhere EXCEPT ![place] = 1] \in [Places -> Int]
  BY DEF Nowhere, Places

\* A queue starts with one copy of the messages it has.
LEMMA InitOneCopy == Init => IInv
<1> SUFFICES ASSUME Init PROVE IInv
  OBVIOUS
<1>1. PICK old \in SUBSET Messages :
        copies = [m \in Messages |->
                    IF m \in old THEN [Nowhere EXCEPT !["waiting"] = 1]
                    ELSE Nowhere]
  BY DEF Init
<1>2. "waiting" \in Places
  BY DEF Places
<1>3. TypeInv
  BY <1>1, <1>2, SinglePlace DEF TypeInv
<1>4. OneCopy
  BY <1>1, <1>2 DEF OneCopy
<1> QED
  BY <1>3, <1>4 DEF IInv

\* Where the one copy is: a place that has a copy is the place.
LEMMA TheCopy ==
  ASSUME IInv, NEW m \in Messages, NEW place \in Places,
         copies[m][place] > 0
  PROVE  copies[m] = [Nowhere EXCEPT ![place] = 1]
<1>1. copies[m] # Nowhere
  BY DEF Nowhere, Places
<1>2. PICK other \in Places : copies[m] = [Nowhere EXCEPT ![other] = 1]
  BY <1>1 DEF IInv, OneCopy
<1>3. other = place
  BY <1>2 DEF Nowhere, Places
<1> QED
  BY <1>2, <1>3

\* A copy that moves from one place to another is still the one copy.
LEMMA Moves ==
  ASSUME NEW from \in Places, NEW to \in Places, from # to,
         NEW c, c = [Nowhere EXCEPT ![from] = 1]
  PROVE  [c EXCEPT ![from] = @ - 1, ![to] = @ + 1]
           = [Nowhere EXCEPT ![to] = 1]
  BY DEF Nowhere, Places

\* Every step keeps the one copy.
LEMMA StepOneCopy == IInv /\ [Next]_vars => IInv'
<1> SUFFICES ASSUME IInv, [Next]_vars PROVE IInv'
  OBVIOUS
<1> USE DEF IInv
<1>places. {"waiting", "held", "acked", "dead"} = Places
  BY DEF Places
<1>1. ASSUME NEW m \in Messages, Publish(m) PROVE IInv'
  <2>1. copies' = [copies EXCEPT ![m] = [Nowhere EXCEPT !["waiting"] = 1]]
    BY <1>1 DEF Publish, TypeInv
  <2> QED
    BY <2>1, <1>places, SinglePlace, ZenonT(60) DEF TypeInv, OneCopy
<1>2. ASSUME NEW m \in Messages, Claim(m) PROVE IInv'
  <2>1. copies[m] = [Nowhere EXCEPT !["waiting"] = 1]
    BY <1>2, <1>places, TheCopy DEF Claim
  <2>2. copies' = [copies EXCEPT ![m] = [Nowhere EXCEPT !["held"] = 1]]
    BY <1>2, <1>places, <2>1, Moves DEF Claim, TypeInv
  <2> QED
    BY <2>2, <1>places, SinglePlace, ZenonT(60) DEF TypeInv, OneCopy
<1>3. ASSUME NEW m \in Messages, NEW place \in {"acked", "dead"},
             Finalize(m, place)
      PROVE IInv'
  <2>1. copies[m] = [Nowhere EXCEPT !["held"] = 1]
    BY <1>3, <1>places, TheCopy DEF Finalize
  <2>2. copies' = [copies EXCEPT ![m] = [Nowhere EXCEPT ![place] = 1]]
    BY <1>3, <1>places, <2>1, Moves DEF Finalize, TypeInv
  <2> QED
    BY <2>2, <1>places, SinglePlace, ZenonT(60) DEF TypeInv, OneCopy
<1>4. ASSUME NEW S \in SUBSET Messages, GiveBack(S) PROVE IInv'
  <2>1. \A m \in S : copies[m] = [Nowhere EXCEPT !["held"] = 1]
    BY <1>4, <1>places, TheCopy DEF GiveBack
  <2>2. \A m \in S : copies'[m] = [Nowhere EXCEPT !["waiting"] = 1]
    <3> TAKE m \in S
    <3>1. copies'[m] = [copies[m] EXCEPT !["waiting"] = @ + 1,
                                         !["held"] = @ - 1]
      BY <1>4 DEF GiveBack
    <3>2. copies[m] = [Nowhere EXCEPT !["held"] = 1]
      BY <2>1
    <3> QED
      BY <3>1, <3>2 DEF Nowhere, Places
  <2>3. \A m \in Messages \ S : copies'[m] = copies[m]
    BY <1>4 DEF GiveBack
  <2>4. copies' = [m \in Messages |->
                     IF m \in S THEN [Nowhere EXCEPT !["waiting"] = 1]
                     ELSE copies[m]]
    BY <1>4, <2>2 DEF GiveBack
  <2> QED
    BY <2>2, <2>3, <2>4, <1>places, SinglePlace DEF TypeInv, OneCopy
<1>5. CASE UNCHANGED copies
  BY <1>5 DEF TypeInv, OneCopy
<1> QED
  BY <1>1, <1>2, <1>3, <1>4, <1>5 DEF Next, Toggle, vars

\* A message of a Delivery is in one place at most, in every reachable state:
\* what refines Delivery neither duplicates nor loses a message, nor finalizes
\* it twice.
THEOREM OneCopyAlways == Spec => []OneCopy
<1>1. IInv => OneCopy
  BY DEF IInv
<1> QED
  BY <1>1, InitOneCopy, StepOneCopy, PTL DEF Spec

CountInv == count \in [Messages -> Nat]

\* Deliveries are counted in natural numbers.
LEMMA Counts == Spec => []CountInv
<1>1. Init => CountInv
  BY DEF Init, CountInv
<1>2. CountInv /\ [Next]_vars => CountInv'
  <2> SUFFICES ASSUME CountInv, [Next]_vars PROVE CountInv'
    OBVIOUS
  <2>1. ASSUME NEW m \in Messages, Claim(m) PROVE CountInv'
    BY <2>1 DEF CountInv, Claim
  <2>2. ASSUME NEW m \in Messages, NEW place \in {"acked", "dead"},
               Finalize(m, place)
        PROVE CountInv'
    BY <2>2 DEF CountInv, Finalize
  <2>3. CASE UNCHANGED count
    BY <2>3 DEF CountInv
  <2> QED
    BY <2>1, <2>2, <2>3 DEF Next, Publish, GiveBack, Toggle, vars
<1> QED
  BY <1>1, <1>2, PTL DEF Spec

\* A message that is finalized is nowhere else: no action can take hold of it.
LEMMA FinalAlone ==
  ASSUME IInv, NEW m \in Messages, Finalized(m)
  PROVE  copies[m] # Nowhere /\ copies[m]["held"] = 0
         /\ copies[m]["waiting"] = 0
<1>1. copies[m] # Nowhere
  BY DEF Finalized, Nowhere, Places
<1>2. PICK place \in Places : copies[m] = [Nowhere EXCEPT ![place] = 1]
  BY <1>1 DEF IInv, OneCopy
<1>3. place \in {"acked", "dead"}
  BY <1>2 DEF Finalized, Nowhere, Places
<1> QED
  BY <1>1, <1>2, <1>3 DEF Nowhere, Places

\* A finalization leaves the message finalized.
LEMMA FinalizeFinalizes ==
  ASSUME IInv, NEW m \in Messages, NEW place \in {"acked", "dead"},
         Finalize(m, place)
  PROVE  Finalized(m)'
<1>1. copies[m] = [Nowhere EXCEPT !["held"] = 1]
  BY TheCopy DEF Finalize, Places
<1>2. copies'[m] = [copies[m] EXCEPT !["held"] = @ - 1, ![place] = @ + 1]
  BY DEF Finalize, IInv, TypeInv
<1> QED
  BY <1>1, <1>2 DEF Finalized, Nowhere, Places

LEMMA StepUndoesNothing ==
  IInv /\ CountInv /\ [Next]_vars => [NothingUndone]_vars
<1> SUFFICES ASSUME IInv, CountInv, Next, NEW m \in Messages
             PROVE  /\ Finalized(m) => copies'[m] = copies[m]
                    /\ count'[m] < count[m] => Finalized(m)'
  BY DEF NothingUndone
<1> USE DEF IInv, TypeInv, CountInv
<1>1. ASSUME NEW l \in Messages, Publish(l) \/ Claim(l)
      PROVE  /\ Finalized(m) => copies'[m] = copies[m]
             /\ ~(count'[m] < count[m])
  BY <1>1, FinalAlone DEF Publish, Claim
<1>2. ASSUME NEW l \in Messages, NEW place \in {"acked", "dead"},
             Finalize(l, place)
      PROVE  /\ Finalized(m) => copies'[m] = copies[m]
             /\ count'[m] < count[m] => Finalized(m)'
  <2>1. CASE l = m
    <3>1. Finalized(m)'
      BY <1>2, <2>1, FinalizeFinalizes
    <3>2. ~Finalized(m)
      BY <1>2, <2>1, FinalAlone DEF Finalize
    <3> QED
      BY <3>1, <3>2
  <2>2. CASE l # m
    BY <1>2, <2>2 DEF Finalize
  <2> QED
    BY <2>1, <2>2
<1>3. ASSUME NEW S \in SUBSET Messages, GiveBack(S)
      PROVE  /\ Finalized(m) => copies'[m] = copies[m]
             /\ ~(count'[m] < count[m])
  BY <1>3, FinalAlone DEF GiveBack
<1>4. CASE Toggle
  BY <1>4 DEF Toggle
<1> QED
  BY <1>1, <1>2, <1>3, <1>4 DEF Next

\* What is finalized stays finalized, whoever still has a handle of it, and the
\* deliveries of a message are counted up to its end.
THEOREM FinalForGood == Spec => [][NothingUndone]_vars
<1>1. IInv /\ CountInv /\ [Next]_vars => [NothingUndone]_vars
  BY StepUndoesNothing
<1> QED
  BY <1>1, InitOneCopy, StepOneCopy, Counts, PTL DEF Spec
==============================================================================
