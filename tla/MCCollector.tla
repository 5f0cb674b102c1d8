---------------------------- MODULE MCCollector -----------------------------
(* Small instances of Collector: one listener that reads two sources, as the *)
(* UDP listener does, or one listener per source, as for TCP connections.    *)
(* And of Intake: a connection with messages that hold digits, blanks and    *)
(* newlines, and a small file.  One of the three moves in a behaviour.       *)
EXTENDS Collector, Intake

CONSTANTS l1, l2, s1, s2, loop

MCShared == [s \in Sources |-> l1]
MCOwn    == [s \in Sources |-> IF s = s1 THEN l1 ELSE l2]

\* Three lines of s1 fill a batch of two and leave one behind; one of s2 only
\* leaves with the tick.
MCMaxLines == [s \in Sources |-> IF s = s1 THEN 3 ELSE 2]

MCMessages == {<<"x">>, <<"1", "x">>, <<"x", NL>>, <<"x", SP, "2", "x", "x", "x", "x", "x", "x", "x">>}

MCNext ==
  \/ /\ sent = <<>> /\ written = 0 /\ opened = 0
     /\ Next /\ UNCHANGED <<sent, stream, tail>>
  \/ /\ crashes = 0 /\ \A s \in Sources : read[s] = 0
     /\ \/ sent = <<>> /\ Follow
        \/ written = 0 /\ opened = 0 /\ Listen
     /\ UNCHANGED vars
MCInit == Init /\ InitIntake
MCSpec == MCInit /\ [][MCNext]_<<vars, sent, stream, tail>> /\ Fairness
=============================================================================
