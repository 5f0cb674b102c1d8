---------------------------- MODULE MCDetection ----------------------------
(***************************************************************************)
(* A small instance of Detection: an API process with two threads and a    *)
(* worker.  The pack "asa" parses a source that two tenants use: shape A   *)
(* well or badly, shape B badly, all of one family.  Three ticks make      *)
(* resource drift that is too old, near, or newer than an alert.  And two  *)
(* templates for Evolution, which share nothing with it: one of the two    *)
(* moves.                                                                  *)
(***************************************************************************)
EXTENDS Detection, Evolution

MCEvent(tenant, shape, tier, conf, template) ==
  [tenant |-> tenant, source |-> "fw", parser |-> "asa", shape |-> shape, family |-> "F",
   conf |-> conf, tier |-> tier, template |-> template]
Well   == MCEvent("acme", "A", 2, 90, None)
Badly  == MCEvent("acme", "A", 7, 30, None)   \* and mining failed
Other  == MCEvent("default", "B", 7, 30, "T")
MCEvents == {Well, Badly, Other}
MCTraffic == [t \in {"a1", "a2", "w"} |-> IF t = "a1" THEN {Well, Other} ELSE {Badly, Other}]
MCHome == [t \in {"a1", "a2", "w"} |-> IF t = "w" THEN "worker" ELSE "api"]
MCShare == [t \in {"a1", "a2", "w"} |-> IF t = "a1" THEN 3 ELSE IF t = "a2" THEN 1 ELSE 0]
\* One shape only against one other: divergence 1.
MCFar == {<<h, g>> \in ([{"A", "B"} -> 0..2] \X [{"A", "B"} -> 0..2]) :
            \A s \in {"A", "B"} : h[s] = 0 \/ g[s] = 0}
MCDesired == [cpu |-> "4", image |-> "v1"]
MCObservations == {[cpu |-> "4", image |-> "v2"], [cpu |-> "2"]}

\* Ticks and drafts have no table in common, and are not combined; nor are
\* several ticks with the second API thread and failures.
Focus ==
  /\ ticks' >= 1 => drafted' = 0
  /\ ticks' >= 2 => faults' = 0 /\ served'["a2"] = 0

MCNext ==
  \/ oldTpl = <<>> /\ newTpl = <<>> /\ Next /\ Focus /\ UNCHANGED <<oldTpl, newTpl>>
  \/ /\ ticks = 0 /\ faults = 0 /\ \A t \in Threads : served[t] = 0
     /\ Extend /\ UNCHANGED vars
MCInit == Init /\ InitTemplates
MCSpec == MCInit /\ [][MCNext]_<<vars, oldTpl, newTpl>>
=============================================================================
