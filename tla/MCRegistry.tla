----------------------------- MODULE MCRegistry -----------------------------
(* Small instances of Registry.  Version 1 of pack a beats the structural    *)
(* parsers on shape s1, version 2 no longer matches it; pack b, in the       *)
(* vendor directory, matches it too.                                         *)
EXTENDS Registry

CONSTANTS w1, a1, a2, api, worker, a, b, s1, s2, g1

MCHome  == [t \in Threads |-> IF worker \in Engines /\ t = w1 THEN worker ELSE api]
MCCalls == [t \in Threads |-> IF t = w1 THEN {"route"} ELSE {"admin"}]
MCScore == [i \in Packs |-> [v \in Versions |-> [s \in Shapes |->
              IF i = a THEN (IF v = 1 THEN 3 ELSE 0) ELSE 2]]]
MCBase   == [s \in Shapes |-> 1]
MCVendor == [i \in {b} |-> 1]
MCDraft  == [g \in Suggestions |-> [id |-> a, ver |-> 1]]
=============================================================================
