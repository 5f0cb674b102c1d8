---------------------------- MODULE AtLeastOnce -----------------------------
(***************************************************************************)
(* What the queue and its workers promise about a message, whatever        *)
(* crashes: from the moment it is published it is owed, and it is settled  *)
(* only after it has been handled at least once, unless it is excused      *)
(* (unreadable, trimmed from the stream, or given up after an exception).  *)
(***************************************************************************)
EXTENDS Naturals

CONSTANT MaxMsgs   \* bound: messages published in a behaviour

VARIABLES
  sent,      \* messages 1 .. sent have been published
  owed,      \* published and not settled
  handled,   \* handled[m]: times m has been handled
  excused    \* messages that may be settled without having been handled

vars == <<sent, owed, handled, excused>>

Msgs == 1 .. MaxMsgs

Init ==
  /\ sent = 0 /\ owed = {}
  /\ handled = [m \in Msgs |-> 0]
  /\ excused \in SUBSET Msgs

\* A message is published; the messages E are excused, some of them forgotten.
Send ==
  /\ sent < MaxMsgs
  /\ sent' = sent + 1
  /\ \E E \in SUBSET Msgs : \E D \in SUBSET E :
       /\ excused' = excused \cup E
       /\ owed' = (owed \cup {sent + 1}) \ D
  /\ UNCHANGED handled

\* Some of the messages that are owed are handled once more.
Handle ==
  /\ \E S \in SUBSET owed : handled' = [m \in Msgs |-> handled[m] + IF m \in S THEN 1 ELSE 0]
  /\ UNCHANGED <<sent, owed, excused>>

\* Messages that are owed are given up.
Excuse ==
  /\ \E S \in SUBSET owed : excused' = excused \cup S
  /\ UNCHANGED <<sent, owed, handled>>

\* Messages leave the debt: each was handled, or is excused.
Settle ==
  /\ \E S \in SUBSET owed :
       /\ \A m \in S : handled[m] > 0 \/ m \in excused
       /\ owed' = owed \ S
  /\ UNCHANGED <<sent, handled, excused>>

Next == Send \/ Handle \/ Excuse \/ Settle

Spec == Init /\ [][Next]_vars
=============================================================================
