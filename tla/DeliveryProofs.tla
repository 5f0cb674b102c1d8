--------------------------- MODULE DeliveryProofs ---------------------------
(***************************************************************************)
(* Theorems about Delivery for every number of workers, page size, stream  *)
(* length and bound.                                                       *)
(***************************************************************************)
EXTENDS Delivery, SetLemmas

-----------------------------------------------------------------------------
(***************************************************************************)
(* What XREADGROUP returns.                                                *)
(***************************************************************************)
LEMMA FreshType ==
  ASSUME TypeOK
  PROVE  /\ Fresh \subseteq Msgs /\ Fresh \subseteq Int /\ IsFiniteSet(Fresh)
         /\ published \in Nat /\ trimmed \in Nat /\ last \in Nat
         /\ \A m \in Fresh : trimmed < m /\ last < m /\ m <= published
<1>1. published \in Nat /\ trimmed \in Nat /\ last \in Nat /\ published <= MaxMsgs
  BY DeliveryAssumption DEF TypeOK
<1>2. Fresh \subseteq Msgs /\ \A m \in Fresh : trimmed < m /\ last < m /\ m <= published
  BY <1>1, DeliveryAssumption DEF Fresh, Msgs
<1>3. IsFiniteSet(Msgs)
  BY DeliveryAssumption, FS_Interval DEF Msgs
<1>4. IsFiniteSet(Fresh) /\ Fresh \subseteq Int
  <2>1. IsFiniteSet(Fresh)
    BY <1>2, <1>3, FS_Subset
  <2> QED BY <2>1, <1>2 DEF Msgs
<1> QED BY <1>1, <1>2, <1>4

\* A page holds entries of the set it pages.
LEMMA PageSubset == \A S : Page(S) \subseteq S
BY DEF Page

\* A page of a nonempty set is not empty: it holds the smallest element.
LEMMA PageNonempty ==
  ASSUME NEW S, S \subseteq Int, IsFiniteSet(S), S # {}
  PROVE  Page(S) # {}
<1>1. PICK m \in S : \A n \in S : m <= n
  BY MinExists
<1>2. {n \in S : n < m} = {}
  <2>1. \A n \in S : ~(n < m)
    BY <1>1
  <2> QED BY <2>1
<1>3. Cardinality({n \in S : n < m}) = 0
  BY <1>2, FS_EmptySet
<1> QED BY <1>3, DeliveryAssumption DEF Page

\* A page has no gap: with an element it holds every smaller one of the set.
LEMMA PageClosed ==
  ASSUME NEW S, S \subseteq Int, IsFiniteSet(S),
         NEW m \in Page(S), NEW k \in S, k <= m
  PROVE  k \in Page(S)
<1> DEFINE Below(x) == {n \in S : n < x}
<1>1. m \in S /\ Cardinality(Below(m)) < Count
  BY DEF Page
<1>2. Below(k) \subseteq Below(m)
  <2>1. \A n \in S : n < k => n < m
    BY <1>1
  <2> QED BY <2>1
<1>3. /\ IsFiniteSet(Below(m)) /\ IsFiniteSet(Below(k))
      /\ Below(m) \subseteq S
  BY FS_Subset
<1>4. Cardinality(Below(k)) <= Cardinality(Below(m))
  BY <1>2, <1>3, FS_Subset
<1>5. Cardinality(Below(m)) \in Nat /\ Cardinality(Below(k)) \in Nat
  BY <1>3, FS_CardinalityType
<1>6. Cardinality(Below(k)) < Count
  BY <1>1, <1>4, <1>5, DeliveryAssumption
<1> QED BY <1>6 DEF Page

\* XREADGROUP ">" leaves no gap behind the new last-delivered id.
LEMMA LastOfPage ==
  ASSUME TypeOK, Fresh # {}
  PROVE  /\ LastOf(Page(Fresh)) \in Fresh
         /\ Page(Fresh) = {m \in Fresh : m <= LastOf(Page(Fresh))}
<1> DEFINE P == Page(Fresh)
<1>1. P \subseteq Fresh /\ P # {} /\ IsFiniteSet(P) /\ P \subseteq Int
  BY FreshType, PageSubset, PageNonempty, FS_Subset
<1>2. \E m \in P : \A n \in P : n <= m
  <2> HIDE DEF P
  <2> QED BY <1>1, MaxExists
<1>3. LastOf(P) \in P /\ \A n \in P : n <= LastOf(P)
  BY <1>1, <1>2 DEF LastOf
<1>4. \A m \in Fresh : m <= LastOf(P) => m \in P
  BY <1>3, FreshType, PageClosed
<1> QED BY <1>1, <1>3, <1>4
-----------------------------------------------------------------------------
(***************************************************************************)
(* Type correctness                                                        *)
(***************************************************************************)
LEMMA TypeInit == Init => TypeOK
BY DeliveryAssumption DEF Init, TypeOK, Msgs

\* Counting a batch as handled keeps handled a map to naturals.
LEMMA BumpType ==
  ASSUME TypeOK, NEW S
  PROVE  /\ Bump(S) \in [Msgs -> Nat]
         /\ \A m \in Msgs : Bump(S)[m] >= handled[m] /\ (m \in S => Bump(S)[m] > 0)
BY DEF Bump, TypeOK

\* Every step of the queue and its workers preserves TypeOK.
LEMMA TypeStep == TypeOK /\ [Next]_vars => TypeOK'
<1> SUFFICES ASSUME TypeOK, [Next]_vars PROVE TypeOK'
  OBVIOUS
<1> USE DEF TypeOK, server, counters
<1>1. CASE Publish
  BY <1>1, DeliveryAssumption DEF Publish
<1>2. ASSUME NEW c \in Consumers, Start(c) PROVE TypeOK'
  BY <1>2 DEF Start
<1>3. ASSUME NEW c \in Consumers, ReadPending(c) PROVE TypeOK'
  <2>1. Page(pel[c]) \subseteq Msgs
    BY PageSubset
  <2>2. pel[c] = {} => Page(pel[c]) = {}
    BY PageSubset
  <2> QED BY <1>3, <2>1, <2>2 DEF ReadPending
<1>4. ASSUME NEW c \in Consumers, ReadNew(c) PROVE TypeOK'
  <2>1. Page(Fresh) \subseteq Msgs
    BY FreshType, PageSubset
  <2>2. LastOf(Page(Fresh)) \in 0 .. published
    BY <1>4, FreshType, LastOfPage DEF ReadNew
  <2> QED BY <1>4, <2>1, <2>2 DEF ReadNew
<1>5. ASSUME NEW c \in Consumers, Parse(c) PROVE TypeOK'
  BY <1>5 DEF Parse
<1>6. ASSUME NEW c \in Consumers, Process(c) PROVE TypeOK'
  BY <1>6, BumpType DEF Process
<1>7. ASSUME NEW c \in Consumers, Ack(c) PROVE TypeOK'
  BY <1>7 DEF Ack
<1>8. ASSUME NEW c \in Consumers, Stop(c) PROVE TypeOK'
  BY <1>8, BumpType DEF Stop
<1>9. CASE UNCHANGED vars
  BY <1>9 DEF vars
<1> QED BY <1>1, <1>2, <1>3, <1>4, <1>5, <1>6, <1>7, <1>8, <1>9 DEF Next, Work

\* Every variable of the queue and of its workers keeps its type, and a worker that
\* reads has left no batch behind.
THEOREM TypeCorrect == Spec => []TypeOK
BY TypeInit, TypeStep, PTL DEF Spec
-----------------------------------------------------------------------------
(***************************************************************************)
(* The inductive invariant.  A message in hand is pending for the name     *)
(* that holds it, a pending message has been delivered to the group and    *)
(* has one owner, and a batch is acknowledged only once it has been        *)
(* handled or has raised.                                                  *)
(***************************************************************************)
HeldIsPending == \A c \in Consumers : batch[c] \subseteq pel[c]
PendingIsDelivered == \A c \in Consumers : \A m \in pel[c] : m <= last
PendingDisjoint == \A c, d \in Consumers : c # d => pel[c] \cap pel[d] = {}
AckIsSettled ==
  \A c \in Consumers : pc[c] = "ack" =>
    \A m \in batch[c] : handled[m] > 0 \/ m \in raised

IInv == /\ HeldIsPending /\ PendingIsDelivered /\ PendingDisjoint
        /\ AckIsSettled /\ NothingForgotten

\* The inductive invariant holds before anything is published.
LEMMA IInvInit == Init => IInv
BY DeliveryAssumption DEF Init, IInv, HeldIsPending, PendingIsDelivered, PendingDisjoint,
   AckIsSettled, NothingForgotten, Settled, Msgs

\* Every step of the queue and its workers preserves the inductive invariant.
LEMMA IInvStep == TypeOK /\ TypeOK' /\ IInv /\ [Next]_vars => IInv'
<1> SUFFICES ASSUME TypeOK, TypeOK', IInv, [Next]_vars PROVE IInv'
  OBVIOUS
<1> USE DEF server, counters
<1>1. CASE Publish
  <2>1. /\ last' = last /\ pel' = pel /\ pc' = pc /\ batch' = batch
        /\ handled' = handled /\ raised' = raised
    BY <1>1 DEF Publish
  <2>2. Unreadable \subseteq Unreadable'
    BY <1>1 DEF Publish, Unreadable, TypeOK
  <2> QED BY <2>1, <2>2 DEF IInv, HeldIsPending, PendingIsDelivered, PendingDisjoint,
      AckIsSettled, NothingForgotten, Settled
<1>2. ASSUME NEW c \in Consumers, Start(c) PROVE IInv'
  BY <1>2 DEF Start, IInv, HeldIsPending, PendingIsDelivered, PendingDisjoint,
     AckIsSettled, NothingForgotten, Settled, Unreadable, TypeOK
<1>3. ASSUME NEW c \in Consumers, ReadPending(c) PROVE IInv'
  <2>1. HeldIsPending'
    BY <1>3, PageSubset DEF ReadPending, IInv, HeldIsPending, TypeOK
  <2>2. AckIsSettled'
    BY <1>3 DEF ReadPending, IInv, AckIsSettled, TypeOK
  <2> QED BY <1>3, <2>1, <2>2 DEF ReadPending, IInv, PendingIsDelivered, PendingDisjoint,
      NothingForgotten, Settled, Unreadable
<1>4. ASSUME NEW c \in Consumers, ReadNew(c) PROVE IInv'
  <2> DEFINE P == Page(Fresh)
  <2>1. /\ P \subseteq Fresh /\ last' \in Fresh /\ P = {m \in Fresh : m <= last'}
    BY <1>4, LastOfPage DEF ReadNew
  <2>2. pel' = [pel EXCEPT ![c] = @ \cup P]
    BY <1>4 DEF ReadNew
  <2>3. last' \in Nat /\ last < last' /\ \A m \in P : last < m /\ m <= last'
    BY <2>1, FreshType
  <2> HIDE DEF P
  <2>4. HeldIsPending'
    BY <1>4, <2>2 DEF ReadNew, IInv, HeldIsPending, TypeOK, P
  <2>5. PendingIsDelivered'
    <3>1. \A d \in Consumers : \A m \in pel[d] : m \in Nat /\ m <= last
      BY DEF IInv, PendingIsDelivered, TypeOK, Msgs
    <3> QED BY <3>1, <2>2, <2>3, FreshType DEF PendingIsDelivered, TypeOK
  <2>6. PendingDisjoint'
    <3>1. \A d \in Consumers : pel[d] \cap P = {}
      BY <2>3, FreshType DEF IInv, PendingIsDelivered, TypeOK, Msgs
    <3> QED BY <3>1, <2>2 DEF IInv, PendingDisjoint, TypeOK
  <2>7. AckIsSettled'
    BY <1>4 DEF ReadNew, IInv, AckIsSettled, TypeOK
  <2>8. NothingForgotten'
    <3> SUFFICES ASSUME NEW m \in Msgs, Settled(m)'
                 PROVE  handled[m] > 0 \/ m \in Unreadable \/ m \in raised
      BY <1>4 DEF ReadNew, NothingForgotten, Unreadable
    <3>1. m \notin P /\ m <= last' /\ \A d \in Consumers : m \notin pel[d]
      BY <2>2 DEF Settled, TypeOK
    <3>2. CASE m <= last
      BY <3>1, <3>2 DEF IInv, NothingForgotten, Settled
    <3>3. CASE m > last
      <4>1. m \notin Fresh
        BY <3>1, <2>1
      <4>2. m <= trimmed
        BY <4>1, <3>1, <3>3, <2>1, FreshType DEF Fresh, Msgs
      <4> QED BY <4>2, FreshType DEF Unreadable, Msgs
    <3> QED BY <3>2, <3>3, FreshType DEF Msgs
  <2> QED BY <2>4, <2>5, <2>6, <2>7, <2>8 DEF IInv
<1>5. ASSUME NEW c \in Consumers, Parse(c) PROVE IInv'
  <2>1. HeldIsPending' /\ PendingIsDelivered' /\ PendingDisjoint'
    BY <1>5 DEF Parse, IInv, HeldIsPending, PendingIsDelivered, PendingDisjoint, TypeOK
  <2>2. AckIsSettled'
    BY <1>5 DEF Parse, IInv, AckIsSettled, TypeOK
  <2>3. NothingForgotten'
    BY <1>5 DEF Parse, IInv, NothingForgotten, Settled, Unreadable, TypeOK
  <2> QED BY <2>1, <2>2, <2>3 DEF IInv
<1>6. ASSUME NEW c \in Consumers, Process(c) PROVE IInv'
  <2>1. HeldIsPending' /\ PendingIsDelivered' /\ PendingDisjoint'
    BY <1>6 DEF Process, IInv, HeldIsPending, PendingIsDelivered, PendingDisjoint
  <2>2. \A m \in Msgs : handled'[m] >= handled[m]
    BY <1>6, BumpType DEF Process, TypeOK
  <2>3. \A m \in batch[c] : handled'[m] > 0 \/ m \in raised'
    BY <1>6, BumpType DEF Process, TypeOK
  <2>4. raised \subseteq raised'
    BY <1>6 DEF Process
  <2>5. AckIsSettled'
    BY <1>6, <2>2, <2>3, <2>4 DEF Process, IInv, AckIsSettled, TypeOK
  <2>6. NothingForgotten'
    BY <1>6, <2>2, <2>4 DEF Process, IInv, NothingForgotten, Settled, Unreadable, TypeOK
  <2> QED BY <2>1, <2>5, <2>6 DEF IInv
<1>7. ASSUME NEW c \in Consumers, Ack(c) PROVE IInv'
  <2>1. HeldIsPending' /\ PendingIsDelivered' /\ PendingDisjoint'
    BY <1>7 DEF Ack, IInv, HeldIsPending, PendingIsDelivered, PendingDisjoint, TypeOK
  <2>2. AckIsSettled'
    BY <1>7 DEF Ack, IInv, AckIsSettled, TypeOK
  <2>3. NothingForgotten'
    BY <1>7 DEF Ack, IInv, AckIsSettled, NothingForgotten, Settled, Unreadable, TypeOK
  <2> QED BY <2>1, <2>2, <2>3 DEF IInv
<1>8. ASSUME NEW c \in Consumers, Stop(c) PROVE IInv'
  <2>1. HeldIsPending' /\ PendingIsDelivered' /\ PendingDisjoint'
    BY <1>8 DEF Stop, IInv, HeldIsPending, PendingIsDelivered, PendingDisjoint, TypeOK
  <2>2. \A m \in Msgs : handled'[m] >= handled[m]
    BY <1>8, BumpType DEF Stop, TypeOK
  <2>3. AckIsSettled'
    BY <1>8, <2>2 DEF Stop, IInv, AckIsSettled, TypeOK
  <2>4. NothingForgotten'
    BY <1>8, <2>2 DEF Stop, IInv, NothingForgotten, Settled, Unreadable, TypeOK
  <2> QED BY <2>1, <2>3, <2>4 DEF IInv
<1>9. CASE UNCHANGED vars
  BY <1>9 DEF vars, IInv, HeldIsPending, PendingIsDelivered, PendingDisjoint, AckIsSettled,
     NothingForgotten, Settled, Unreadable
<1> QED BY <1>1, <1>2, <1>3, <1>4, <1>5, <1>6, <1>7, <1>8, <1>9 DEF Next, Work

\* TypeOK and the inductive invariant hold in every state of the queue, its
\* group and its workers.
THEOREM Inductive == Spec => [](TypeOK /\ IInv)
<1>1. Init => TypeOK /\ IInv
  BY TypeInit, IInvInit
<1>2. TypeOK /\ IInv /\ [Next]_vars => (TypeOK /\ IInv)'
  BY TypeStep, IInvStep
<1> QED BY <1>1, <1>2, PTL DEF Spec

\* No crash, restart, lost reply or trimming makes the queue forget a message
\* that no worker handled, for any number of workers and any page size.
THEOREM NothingIsForgotten == Spec => []NothingForgotten
<1>1. TypeOK /\ IInv => NothingForgotten
  BY DEF IInv
<1> QED BY <1>1, Inductive, PTL

\* Two workers never hold the same message.
THEOREM OneOwnerEach == Spec => []OneOwner
<1>1. TypeOK /\ IInv => OneOwner
  BY DEF IInv, HeldIsPending, PendingDisjoint, OneOwner
<1> QED BY <1>1, Inductive, PTL
-----------------------------------------------------------------------------
(***************************************************************************)
(* The queue implements AtLeastOnce: what is owed is what the group has    *)
(* not been given yet, and what is pending.                                *)
(***************************************************************************)
AllPending == UNION {pel[c] : c \in Consumers}

\* What is owed is what is still to be delivered, and what is pending.
LEMMA OwedIs ==
  ASSUME TypeOK
  PROVE  Owed = Fresh \cup AllPending
BY FreshType DEF Owed, Fresh, AllPending, Msgs

\* The same after a step.
LEMMA OwedIsNext ==
  ASSUME TypeOK'
  PROVE  Owed' = Fresh' \cup AllPending'
<1>1. /\ published' \in Nat /\ trimmed' \in Nat /\ last' \in Nat
      /\ published' <= MaxMsgs
  BY DeliveryAssumption DEF TypeOK
<1> QED BY <1>1, DeliveryAssumption DEF Owed, Fresh, AllPending, Msgs

\* XACK of entries in hand removes them from what is owed and nothing else.
LEMMA SettleStep ==
  ASSUME TypeOK, TypeOK', IInv, NEW c \in Consumers, NEW S \in SUBSET pel[c],
         pel' = [pel EXCEPT ![c] = @ \ S], UNCHANGED server
  PROVE  Owed' = Owed \ S
<1>1. Fresh' = Fresh /\ Fresh \cap S = {}
  BY FreshType DEF server, Fresh, IInv, PendingIsDelivered
<1>2. AllPending' = AllPending \ S
  <2>1. \A d \in Consumers : pel'[d] = pel[d] \ S
    BY DEF TypeOK, IInv, PendingDisjoint
  <2> QED BY <2>1 DEF AllPending
<1>3. Owed = Fresh \cup AllPending /\ Owed' = Fresh' \cup AllPending'
  BY OwedIs, OwedIsNext
<1> QED BY <1>1, <1>2, <1>3

\* The initial states of the queue map to those of AtLeastOnce.
LEMMA AbsInit == Init => Abs!Init
BY DeliveryAssumption DEF Init, Abs!Init, Owed, Abs!Msgs, Msgs, Unreadable

\* Every step of the queue and its workers maps to a step of AtLeastOnce, or
\* to a stutter.
LEMMA AbsStep == TypeOK /\ TypeOK' /\ IInv /\ [Next]_vars => [Abs!Next]_(Abs!vars)
<1> SUFFICES ASSUME TypeOK, TypeOK', IInv, [Next]_vars PROVE [Abs!Next]_(Abs!vars)
  OBVIOUS
<1> USE DEF Abs!Msgs, Msgs, server, counters
<1>0. \A c \in Consumers : batch[c] \subseteq pel[c] /\ pel[c] \subseteq Owed
  BY DEF IInv, HeldIsPending, Owed
<1>1. CASE Publish
  <2> DEFINE E == (trimmed + 1) .. trimmed'
             D == E \ AllPending
  <2>1. published < MaxMsgs /\ published' = published + 1 /\ trimmed' \in trimmed .. published
    BY <1>1 DEF Publish
  <2>2. Unreadable' = Unreadable \cup E
    BY <2>1, FreshType DEF Unreadable
  <2>3. E \in SUBSET Msgs /\ D \in SUBSET E
    BY <2>1, FreshType, DeliveryAssumption DEF TypeOK
  <2>4. AllPending' = AllPending
    BY <1>1 DEF Publish, AllPending
  <2>5. Fresh' = (Fresh \cup {published + 1}) \ E
    BY <1>1, <2>1, FreshType DEF Fresh, Publish, TypeOK
  <2>6. published + 1 \notin E
    BY <2>1, FreshType
  <2>7. Owed = Fresh \cup AllPending
    BY OwedIs
  <2>8. Owed' = Fresh' \cup AllPending'
    BY OwedIsNext
  <2>9. Owed' = (Owed \cup {published + 1}) \ D
    BY <2>4, <2>5, <2>6, <2>7, <2>8
  <2>10. (Unreadable \cup raised)' = (Unreadable \cup raised) \cup E
    BY <1>1, <2>2 DEF Publish
  <2> QED BY <1>1, <2>1, <2>3, <2>9, <2>10 DEF Publish, Abs!Next, Abs!Send
<1>2. ASSUME NEW c \in Consumers, Start(c) \/ ReadPending(c) PROVE UNCHANGED Abs!vars
  BY <1>2 DEF Start, ReadPending, Abs!vars, Owed, Unreadable
<1>3. ASSUME NEW c \in Consumers, ReadNew(c) PROVE UNCHANGED Abs!vars
  <2> DEFINE P == Page(Fresh)
  <2>1. P \subseteq Fresh /\ last' \in Fresh /\ P = {m \in Fresh : m <= last'}
    BY <1>3, LastOfPage DEF ReadNew
  <2>2. /\ pel' = [pel EXCEPT ![c] = @ \cup P]
        /\ published' = published /\ trimmed' = trimmed
    BY <1>3 DEF ReadNew
  <2> HIDE DEF P
  <2>3. Fresh' = Fresh \ P
    BY <2>1, <2>2, FreshType DEF Fresh
  <2>4. AllPending' = AllPending \cup P
    BY <2>2 DEF AllPending, TypeOK
  <2>5. Owed = Fresh \cup AllPending /\ Owed' = Fresh' \cup AllPending'
    BY OwedIs, OwedIsNext
  <2>6. Owed' = Owed
    BY <2>1, <2>3, <2>4, <2>5
  <2> QED BY <1>3, <2>6 DEF ReadNew, Abs!vars, Unreadable
<1>4. ASSUME NEW c \in Consumers, Parse(c) PROVE Abs!Settle
  <2> DEFINE S == batch[c] \cap Unreadable
  <2>1. S \in SUBSET pel[c] /\ S \in SUBSET Owed
    BY <1>0
  <2>2. Owed' = Owed \ S
    BY <1>4, <2>1, SettleStep DEF Parse
  <2> QED BY <1>4, <2>1, <2>2 DEF Parse, Abs!Settle, Unreadable
<1>5. ASSUME NEW c \in Consumers, Process(c) PROVE Abs!Handle \/ Abs!Excuse
  <2>1. UNCHANGED <<published, Owed, Unreadable>> /\ batch[c] \in SUBSET Owed
    BY <1>0, <1>5 DEF Process, Owed, Unreadable
  <2>2. CASE handled' = Bump(batch[c]) /\ raised' = raised
    BY <2>1, <2>2 DEF Abs!Handle, Bump
  <2>3. CASE handled' = handled /\ raised' = raised \cup batch[c]
    BY <2>1, <2>3 DEF Abs!Excuse
  <2> QED BY <1>5, <2>2, <2>3 DEF Process
<1>6. ASSUME NEW c \in Consumers, Ack(c) PROVE Abs!Settle
  <2>1. batch[c] \in SUBSET pel[c] /\ batch[c] \in SUBSET Owed
    BY <1>0
  <2>2. Owed' = Owed \ batch[c]
    BY <1>6, <2>1, SettleStep DEF Ack
  <2>3. \A m \in batch[c] : handled[m] > 0 \/ m \in raised
    BY <1>6 DEF Ack, IInv, AckIsSettled
  <2> QED BY <1>6, <2>1, <2>2, <2>3 DEF Ack, Abs!Settle, Unreadable
<1>7. ASSUME NEW c \in Consumers, Stop(c) PROVE Abs!Handle
  <2>1. UNCHANGED <<published, Owed, Unreadable, raised>>
    BY <1>7 DEF Stop, Owed, Unreadable
  <2>2. PICK S \in SUBSET batch[c] : handled' = Bump(S)
    BY <1>7 DEF Stop
  <2>3. S \in SUBSET Owed
    BY <1>0
  <2> QED BY <2>1, <2>2, <2>3 DEF Abs!Handle, Bump
<1>8. CASE UNCHANGED vars
  BY <1>8 DEF vars, Abs!vars, Owed, Unreadable
<1> QED BY <1>1, <1>2, <1>3, <1>4, <1>5, <1>6, <1>7, <1>8 DEF Next, Work, Abs!Next

\* The Redis queue and its workers implement at-least-once delivery.
THEOREM DeliveryImplementsAtLeastOnce == Spec => AtLeastOnceSpec
<1>1. TypeOK /\ IInv /\ [Next]_vars => TypeOK'
  BY TypeStep
<1> QED BY <1>1, AbsInit, AbsStep, Inductive, PTL DEF Spec, AtLeastOnceSpec, Abs!Spec
=============================================================================
