------------------------------ MODULE Detection ------------------------------
(***************************************************************************)
(* What a pipeline does with a parsed event besides storing it             *)
(* (uli/pipeline.py, _compute): the drift monitor observes it              *)
(* (uli/drift/parser_drift.py), an alert is correlated with resource drift *)
(* (uli/drift/correlator.py), and an event nobody could parse joins a      *)
(* cluster (uli/detection/unknown.py), from which the API drafts a pack.   *)
(* Workers look for resource drift between their batches                   *)
(* (uli/drift/resource.py).                                                *)
(*                                                                         *)
(* Every process has a monitor of its own; the tables are shared.  Only    *)
(* the window is counted under the monitor's lock.  Confidences are        *)
(* hundredths; the divergence of two histograms is given by Far.           *)
(***************************************************************************)
EXTENDS Integers, FiniteSets, Sequences

CONSTANTS
  Processes, Threads,
  Home,         \* Home[t]: the process of thread t
  Tickers,      \* threads that run the worker loop
  Events,       \* records: tenant, source, parser, shape, family, conf, tier, template
  Ignored,      \* parser ids the monitor does not observe
  Window,       \* window_events
  Required,     \* consecutive
  Far,          \* pairs of histograms whose divergence exceeds js_threshold
  ConfDrop,     \* confidence_drop
  Tau,          \* tau_known
  LookBack,     \* correlation_window_s
  ListLimit,    \* the limit of list_drift (50)
  MaxExplained, \* the most ids correlate returns (5)
  Desired,      \* desired-state.yaml
  Observations, \* what observe_system may return
  DefaultTenant,
  Traffic,      \* Traffic[t]: the events thread t may be given
  Share,        \* bound: Share[t] of them are served by thread t
  MaxTicks, MaxDrafts, MaxFaults,  \* bounds
  None

Field(f) == {e[f] : e \in Events}
Shapes   == Field("shape")
Key(e)   == <<e.source, e.parser>>
Keys     == {Key(e) : e \in Events}
Family(e) == <<e.tenant, e.source, e.family>>
Families == {Family(e) : e \in Events}

ASSUME DetectionAssumption ==
  /\ Home \in [Threads -> Processes] /\ Tickers \subseteq Threads
  /\ \A e \in Events : e.conf \in 0..100 /\ e.tier \in 1..7
  /\ {Window, Required, MaxExplained} \subseteq Nat \ {0}
  /\ Traffic \in [Threads -> SUBSET Events] /\ Share \in [Threads -> Nat]
  /\ {LookBack, ListLimit, MaxTicks, MaxDrafts, MaxFaults} \subseteq Nat
  /\ None \notin Events /\ None \notin Nat

VARIABLES
  window,    \* window[p][k]: shapes and confidence sum of the open window
  ewma,      \* ewma[p][k]: _ewma_conf
  ref,       \* ref[p][k]: _reference, or None
  hits,      \* hits[p][k]: _consecutive_hits
  alerts,    \* parser_drift_events, in the order of their insertion
  drift,     \* drift_events, in the order of their insertion
  indexed,   \* snapshots in raw_index
  clusters,  \* unknown_clusters, in the order of their insertion
  drafts,    \* clusters that parser_suggestions has a row for
  now,       \* a clock that ticks with every detected_at
  pc, job,
  served, ticks, drafted, faults,
  run,       \* run[p][k]: windows that drifted, one after the other, up to now
  raced,     \* keys of processes of which two windows were evaluated at once
  recorded,  \* recorded[f]: events of family f whose cluster was written
  shared     \* families recorded by two threads at once

monitor == <<window, ewma, ref, hits, run, raced>>
tables  == <<alerts, drift, indexed, clusters, drafts, recorded, shared>>
counts  == <<served, ticks, drafted, faults>>
vars    == <<monitor, tables, now, pc, job, counts>>
-----------------------------------------------------------------------------
NoHist  == [s \in Shapes |-> 0]
Fresh   == [hist |-> NoHist, sum |-> 0, n |-> 0]
ForAll(v) == [p \in Processes |-> [k \in Keys |-> v]]
Idle    == [ev |-> None]

Goto(t, s) == pc' = [pc EXCEPT ![t] = s]
Finish(t)  == Goto(t, "idle") /\ job' = [job EXCEPT ![t] = Idle]
Fault      == faults < MaxFaults /\ faults' = faults + 1 /\ UNCHANGED <<served, ticks, drafted>>
Ev(t)      == job[t].ev

Init ==
  /\ window = ForAll(Fresh) /\ ewma = ForAll(None) /\ ref = ForAll(None) /\ hits = ForAll(0)
  /\ alerts = <<>> /\ drift = <<>> /\ indexed = {} /\ clusters = <<>> /\ drafts = {}
  /\ now = 0
  /\ pc = [t \in Threads |-> "idle"] /\ job = [t \in Threads |-> Idle]
  /\ served = [t \in Threads |-> 0] /\ ticks = 0 /\ drafted = 0 /\ faults = 0
  /\ run = ForAll(0) /\ raced = {} /\ recorded = [f \in Families |-> 0] /\ shared = {}

\* The gate to the unknown registry, once the monitor is done with e.
Unknown(e) == e.tier >= 4 /\ e.conf < Tau
Observed(t, e) ==
  IF Unknown(e) THEN Goto(t, "find") /\ job' = [job EXCEPT ![t] = [ev |-> e]] ELSE Finish(t)
-----------------------------------------------------------------------------
(***************************************************************************)
(* DriftMonitor.observe                                                    *)
(***************************************************************************)
Counted(w, e) ==
  [hist |-> [w.hist EXCEPT ![e.shape] = @ + 1], sum |-> w.sum + e.conf, n |-> w.n + 1]
MeanSum(w) == w.sum   \* mutant: the division is missing
Mean(w) == w.sum \div w.n
Average(old, conf) == IF old = None THEN conf ELSE (9 * old + conf) \div 10

Evaluating == {"evaluate", "capture", "judge", "check"}

\* Under the lock: the event is counted, and a window that is full, or has been
\* open for window_seconds, is taken and replaced.
Observe(t, e) ==
  /\ pc[t] = "idle" /\ served[t] < Share[t]
  /\ served' = [served EXCEPT ![t] = @ + 1]
  /\ LET p == Home[t]
         k == Key(e)
         w == Counted(window[p][k], e)
     IN IF e.parser \in Ignored
        THEN Observed(t, e) /\ UNCHANGED monitor
        ELSE /\ ewma' = [ewma EXCEPT ![p][k] = Average(@, e.conf)]
             /\ \/ /\ w.n < Window
                   /\ window' = [window EXCEPT ![p][k] = w]
                   /\ Observed(t, e)
                   /\ UNCHANGED raced
                \/ /\ window' = [window EXCEPT ![p][k] = Fresh]
                   /\ Goto(t, "evaluate")
                   /\ job' = [job EXCEPT ![t] = [ev |-> e, win |-> w]]
                   /\ raced' = IF \E u \in Threads : Home[u] = p /\ pc[u] \in Evaluating
                                                     /\ Key(Ev(u)) = k
                               THEN raced \cup {<<p, k>>} ELSE raced
             /\ UNCHANGED <<ref, hits, run>>
  /\ UNCHANGED <<tables, now, ticks, drafted, faults>>

\* ref = self._reference.get(key)
Evaluate(t) ==
  /\ pc[t] = "evaluate"
  /\ LET r == ref[Home[t]][Key(Ev(t))]
     IN IF r = None THEN Goto(t, "capture") /\ UNCHANGED job
        ELSE Goto(t, "judge") /\ job' = [job EXCEPT ![t] = [ev |-> Ev(t), win |-> @.win, ref |-> r]]
  /\ UNCHANGED <<monitor, tables, now, counts>>

CaptureAgain(t) ==   \* mutant: a later window may become the reference too
  /\ pc[t] \in {"capture", "judge"}
  /\ LET w == job[t].win
     IN ref' = [ref EXCEPT ![Home[t]][Key(Ev(t))] = [hist |-> w.hist, mean |-> Mean(w)]]
  /\ Observed(t, Ev(t))
  /\ UNCHANGED <<window, ewma, hits, run, raced, tables, now, counts>>
\* The first window becomes the reference.
Capture(t) ==
  /\ pc[t] = "capture"
  /\ LET w == job[t].win
     IN ref' = [ref EXCEPT ![Home[t]][Key(Ev(t))] = [hist |-> w.hist, mean |-> Mean(w)]]
  /\ Observed(t, Ev(t))
  /\ UNCHANGED <<window, ewma, hits, run, raced, tables, now, counts>>

Drifted(r, w, avg) == <<r.hist, w.hist>> \in Far \/ r.mean - avg > ConfDrop

EndRunKeepsHits(p, k) ==   \* mutant: the reset is missing
  run' = [run EXCEPT ![p][k] = 0] /\ UNCHANGED hits
EndRun(p, k) == hits' = [hits EXCEPT ![p][k] = 0] /\ run' = [run EXCEPT ![p][k] = 0]

\* A window as usual ends the run of hits.
Judge(t) ==
  /\ pc[t] = "judge"
  /\ LET p == Home[t]
         k == Key(Ev(t))
     IN IF Drifted(job[t].ref, job[t].win, ewma[p][k])
        THEN /\ hits' = [hits EXCEPT ![p][k] = @ + 1]
             /\ run'  = [run EXCEPT ![p][k] = @ + 1]
             /\ Goto(t, "check") /\ UNCHANGED job
        ELSE EndRun(p, k) /\ Observed(t, Ev(t))
  /\ UNCHANGED <<window, ewma, ref, raced, tables, now, counts>>

\* A rare or transient deviation is no drift.  The hits are reset before the
\* alert is written.
Check(t) ==
  /\ pc[t] = "check"
  /\ LET p == Home[t]
         k == Key(Ev(t))
     IN IF hits[p][k] < Required
        THEN Observed(t, Ev(t)) /\ UNCHANGED <<hits, run, now>>
        ELSE /\ EndRun(p, k)
             /\ now'  = now + 1
             /\ job'  = [job EXCEPT ![t] = [ev |-> Ev(t),
                           row |-> [tenant |-> Ev(t).tenant, key |-> k, at |-> now', explained |-> {},
                                    asked |-> 0, run |-> run[p][k], raced |-> <<p, k>> \in raced]]]
             /\ Goto(t, "alert")
  /\ UNCHANGED <<window, ewma, ref, raced, tables, counts>>

\* write_parser_drift; if it raises, the alert is lost.
Alert(t) ==
  /\ pc[t] = "alert"
  /\ \/ /\ alerts' = Append(alerts, job[t].row)
        /\ job' = [job EXCEPT ![t] = [ev |-> Ev(t), id |-> Len(alerts'), row |-> @.row]]
        /\ Goto(t, "degrade") /\ UNCHANGED counts
     \/ Fault /\ Observed(t, Ev(t)) /\ UNCHANGED alerts
  /\ UNCHANGED <<monitor, drift, indexed, clusters, drafts, recorded, shared, now>>

\* upsert_source(parser_health="degraded"); if it raises, nobody correlates.
Degrade(t) ==
  /\ pc[t] = "degrade"
  /\ \/ Goto(t, "correlate") /\ UNCHANGED <<job, counts>>
     \/ Fault /\ Observed(t, Ev(t))
  /\ UNCHANGED <<monitor, tables, now>>
-----------------------------------------------------------------------------
(***************************************************************************)
(* correlate, and its result written to the alert                          *)
(***************************************************************************)
\* The sets of n elements of S, or all of S, none left out of which is later
\* than one chosen.
Latest(S, n) ==
  {X \in SUBSET S :
     /\ Cardinality(X) = IF Cardinality(S) < n THEN Cardinality(S) ELSE n
     /\ \A i \in X, j \in S \ X : drift[j].at <= drift[i].at}

\* list_drift: the latest rows of the tenant since the look-back, at most ListLimit.
Listed(a) ==
  Latest({i \in DOMAIN drift : drift[i].tenant = a.tenant /\ drift[i].at >= a.at - LookBack},
         ListLimit)

ExplainsOldest(a) ==   \* mutant: the candidates are sorted without reverse=True
  LET oldest(S) == {X \in SUBSET S :
                      /\ Cardinality(X) = IF Cardinality(S) < MaxExplained THEN Cardinality(S)
                                          ELSE MaxExplained
                      /\ \A i \in X, j \in S \ X : drift[i].at <= drift[j].at}
  IN UNION {oldest({i \in L : drift[i].at <= a.at}) : L \in Listed(a)}
\* Of those, what was detected no later than the alert, the latest first.
Explains(a) == UNION {Latest({i \in L : drift[i].at <= a.at}, MaxExplained) : L \in Listed(a)}

Correlate(t) ==
  /\ pc[t] = "correlate"
  /\ \/ \E X \in Explains(job[t].row) :
          /\ IF X = {} THEN Observed(t, Ev(t))
             ELSE Goto(t, "explain") /\ job' = [job EXCEPT ![t].row.explained = X,
                                                           ![t].row.asked = Len(drift)]
          /\ UNCHANGED counts
     \/ Fault /\ Observed(t, Ev(t))
  /\ UNCHANGED <<monitor, tables, now>>

\* update_parser_drift(explained_by)
Explain(t) ==
  /\ pc[t] = "explain"
  /\ \/ alerts' = [alerts EXCEPT ![job[t].id] = job[t].row] /\ UNCHANGED counts
     \/ Fault /\ UNCHANGED alerts
  /\ Observed(t, Ev(t))
  /\ UNCHANGED <<monitor, drift, indexed, clusters, drafts, recorded, shared, now>>
-----------------------------------------------------------------------------
(***************************************************************************)
(* record_unknown                                                          *)
(***************************************************************************)
MatchesAnyTenant(c, e) == c.source = e.source /\ c.family = e.family   \* mutant
Matches(c, e) == c.tenant = e.tenant /\ c.source = e.source /\ c.family = e.family

\* find_unknown_cluster: one of the rows that match, and its values.
Find(t) ==
  /\ pc[t] = "find"
  /\ LET e    == Ev(t)
         rows == {i \in DOMAIN clusters : Matches(clusters[i], e)}
         read(i, row) == /\ Goto(t, "upsert")
                         /\ job' = [job EXCEPT ![t] = [ev |-> e, id |-> i, row |-> row]]
     IN /\ \/ /\ rows = {} /\ UNCHANGED counts
              /\ read(None, [tenant |-> e.tenant, source |-> e.source, family |-> e.family,
                             count |-> 0, status |-> "open", templates |-> {}])
           \/ \E i \in rows : read(i, clusters[i]) /\ UNCHANGED counts
           \/ Fault /\ Finish(t)
        /\ shared' = IF \E u \in Threads : pc[u] = "upsert" /\ Family(Ev(u)) = Family(e)
                     THEN shared \cup {Family(e)} ELSE shared
  /\ UNCHANGED <<monitor, alerts, drift, indexed, clusters, drafts, recorded, now>>

Joined(row, e) ==
  [row EXCEPT !.count = @ + 1,
              !.templates = IF e.template = None THEN @ ELSE @ \cup {e.template}]

\* upsert_unknown_cluster: every column is written from what was read.
Upsert(t) ==
  /\ pc[t] = "upsert"
  /\ LET row == Joined(job[t].row, Ev(t))
         id  == job[t].id
     IN \/ /\ clusters' = IF id = None THEN Append(clusters, row) ELSE [clusters EXCEPT ![id] = row]
           /\ recorded' = [recorded EXCEPT ![Family(Ev(t))] = @ + 1]
           /\ UNCHANGED counts
        \/ Fault /\ UNCHANGED <<clusters, recorded>>
  /\ Finish(t)
  /\ UNCHANGED <<monitor, alerts, drift, indexed, drafts, shared, now>>
-----------------------------------------------------------------------------
(***************************************************************************)
(* POST /v1/unknown/{cluster_id}/suggest                                   *)
(***************************************************************************)
\* get_unknown; without a template the answer is 422.
StartSuggest(t, c) ==
  /\ t \notin Tickers /\ pc[t] = "idle" /\ drafted < MaxDrafts
  /\ clusters[c].templates # {}
  /\ drafted' = drafted + 1
  /\ Goto(t, "draft")
  /\ job' = [job EXCEPT ![t] = [ev |-> None, id |-> c]]
  /\ UNCHANGED <<monitor, tables, now, served, ticks, faults>>

DraftUnnoticed(t) == Fault /\ Goto(t, "mark") /\ UNCHANGED <<job, drafts>>   \* mutant
DraftFails(t) == Fault /\ Finish(t) /\ UNCHANGED drafts

\* add_suggestion, then the cluster's status.
Draft(t) ==
  /\ pc[t] = "draft"
  /\ \/ drafts' = drafts \cup {job[t].id} /\ Goto(t, "mark") /\ UNCHANGED <<job, counts>>
     \/ DraftFails(t)
  /\ UNCHANGED <<monitor, alerts, drift, indexed, clusters, recorded, shared, now>>

Mark(t) ==
  /\ pc[t] = "mark"
  /\ \/ clusters' = [clusters EXCEPT ![job[t].id].status = "suggested"] /\ UNCHANGED counts
     \/ Fault /\ UNCHANGED clusters
  /\ Finish(t)
  /\ UNCHANGED <<monitor, alerts, drift, indexed, drafts, recorded, shared, now>>
-----------------------------------------------------------------------------
(***************************************************************************)
(* ResourceDriftAgent.tick                                                 *)
(***************************************************************************)
\* A desired state and an observation map settings to values; a setting that is
\* not desired is not compared, and a container that is not there is missing.
Diff(want, got) ==
  {x \in DOMAIN want : want[x] # None /\ (x \notin DOMAIN got \/ got[x] # want[x])}

\* The snapshot is appended to the raw store.
StartTick(t, snap) ==
  /\ t \in Tickers /\ pc[t] = "idle" /\ ticks < MaxTicks
  /\ ticks' = ticks + 1
  /\ Goto(t, "index")
  /\ job' = [job EXCEPT ![t] = [ev |-> None, snap |-> snap]]
  /\ UNCHANGED <<monitor, tables, now, served, drafted, faults>>

Taken(t) ==
  /\ now' = now + 1
  /\ job' = [job EXCEPT ![t] = [ev |-> None, snap |-> @.snap, at |-> now',
                                todo |-> Diff(Desired, @.snap)]]
  /\ Goto(t, "write")

NotIndexedUnnoticed(t) == Fault /\ Taken(t) /\ UNCHANGED indexed   \* mutant
NotIndexed(t) == Fault /\ Finish(t) /\ UNCHANGED <<indexed, now>>

\* index_raw, then the differences are taken, at one time.
IndexSnap(t) ==
  /\ pc[t] = "index"
  /\ \/ indexed' = indexed \cup {job[t].snap} /\ Taken(t) /\ UNCHANGED counts
     \/ NotIndexed(t)
  /\ UNCHANGED <<monitor, alerts, drift, clusters, drafts, recorded, shared>>

\* write_drift, one transaction per difference, in some fixed order; if it
\* raises, the rest is lost.
WriteDrift(t) ==
  /\ pc[t] = "write"
  /\ IF job[t].todo = {} THEN Finish(t) /\ UNCHANGED <<drift, counts>>
     ELSE LET x    == CHOOSE x \in job[t].todo : TRUE
              left == job[t].todo \ {x}
          IN \/ /\ drift' = Append(drift, [tenant |-> DefaultTenant, key |-> x,
                                            snap |-> job[t].snap, at |-> job[t].at])
                /\ IF left = {} THEN Finish(t)
                   ELSE job' = [job EXCEPT ![t].todo = left] /\ UNCHANGED pc
                /\ UNCHANGED counts
             \/ Fault /\ Finish(t) /\ UNCHANGED drift
  /\ UNCHANGED <<monitor, alerts, indexed, clusters, drafts, recorded, shared, now>>
-----------------------------------------------------------------------------
\* A process dies and is restarted: its monitor is gone, its calls are cut off.
Restart(p) ==
  /\ Fault
  /\ window' = [window EXCEPT ![p] = [k \in Keys |-> Fresh]]
  /\ ewma'   = [ewma EXCEPT ![p] = [k \in Keys |-> None]]
  /\ ref'    = [ref EXCEPT ![p] = [k \in Keys |-> None]]
  /\ hits'   = [hits EXCEPT ![p] = [k \in Keys |-> 0]]
  /\ run'    = [run EXCEPT ![p] = [k \in Keys |-> 0]]
  /\ raced'  = {x \in raced : x[1] # p}
  /\ pc'     = [t \in Threads |-> IF Home[t] = p THEN "idle" ELSE pc[t]]
  /\ job'    = [t \in Threads |-> IF Home[t] = p THEN Idle ELSE job[t]]
  /\ UNCHANGED <<tables, now>>

Step(t) ==
  \/ Evaluate(t) \/ Capture(t) \/ Judge(t) \/ Check(t) \/ Alert(t) \/ Degrade(t)
  \/ Correlate(t) \/ Explain(t) \/ Find(t) \/ Upsert(t) \/ Draft(t) \/ Mark(t)
  \/ IndexSnap(t) \/ WriteDrift(t)

Next ==
  \/ \E p \in Processes : Restart(p)
  \/ \E t \in Threads :
       \/ \E e \in Traffic[t] : Observe(t, e)
       \/ \E c \in DOMAIN clusters : StartSuggest(t, c)
       \/ \E o \in Observations : StartTick(t, o)
       \/ Step(t)

Spec == Init /\ [][Next]_vars
-----------------------------------------------------------------------------
(***************************************************************************)
(* Properties                                                              *)
(***************************************************************************)
Hist == [Shapes -> 0..Window]
Open == [hist : Hist, sum : Nat, n : 0..Window - 1]
Reference == [hist : Hist, mean : 0..100]

\* Every variable holds a value of its kind.  An open window is never full, and
\* no row of a table precedes what it refers to.
TypeOK ==
  /\ window \in [Processes -> [Keys -> Open]]
  /\ ewma \in [Processes -> [Keys -> 0..100 \cup {None}]]
  /\ ref \in [Processes -> [Keys -> Reference \cup {None}]]
  /\ hits \in [Processes -> [Keys -> Nat]]
  /\ \A i \in DOMAIN alerts : alerts[i].at <= now /\ alerts[i].explained \subseteq DOMAIN drift
  /\ \A i \in DOMAIN drift : drift[i].at <= now /\ drift[i].key \in DOMAIN Desired
  /\ indexed \subseteq Observations /\ drafts \subseteq DOMAIN clusters
  /\ \A i \in DOMAIN clusters : clusters[i].count >= 1
  /\ \A t \in Threads : pc[t] = "idle" <=> job[t] = Idle

\* Drift is declared "when JS > theta for k consecutive windows" and is
\* "sustained" (docs/architecture.md:151): unless two threads evaluated windows
\* of the key at once, an alert has Required drifted windows in a row behind it,
\* all since the alert before, and such a row never passes without an alert.
AlertsSustained ==
  /\ \A i \in DOMAIN alerts : alerts[i].raced \/ alerts[i].run = Required
  /\ \A p \in Processes, k \in Keys :
       \/ <<p, k>> \in raced
       \/ \E t \in Threads : Home[t] = p /\ pc[t] \in Evaluating /\ Key(Ev(t)) = k
       \/ run[p][k] < Required

\* What a monitor compares with stays what it is while its process lives, since
\* set_reference has no caller but the first window (parser_drift.py:80): only a
\* window that found no reference, and was evaluated together with another that
\* did (:78 is outside the lock), can replace the reference, so that each thread
\* does so at most once.  (docs/architecture.md:151 has the reference captured
\* again at an approval, which nothing in the code does.)
FrozenReference ==
  [][\A p \in Processes, k \in Keys :
       ref[p][k] \notin {None, ref'[p][k]} =>
         \/ Restart(p)
         \/ /\ <<p, k>> \in raced
            /\ \E t \in Threads : Home[t] = p /\ pc[t] = "capture" /\ Key(Ev(t)) = k]_vars

\* Every resource drift event has its evidence: the snapshot it names can be
\* looked up, and it does differ from the desired state in the event's setting.
DriftEvidence ==
  \A i \in DOMAIN drift :
    drift[i].snap \in indexed /\ drift[i].key \in Diff(Desired, drift[i].snap)

\* An alert is explained by drift of its own tenant that was detected before it,
\* within the look-back, and by the nearest there was when it asked: what it
\* leaves out is no later than what it names, unless newer rows filled the list.
NearestExplained ==
  \A a \in {alerts[i] : i \in DOMAIN alerts} :
    LET before(i) == /\ drift[i].tenant = a.tenant
                     /\ drift[i].at \in a.at - LookBack..a.at
        newer == {i \in 1..a.asked : drift[i].tenant = a.tenant /\ drift[i].at > a.at}
    IN /\ \A i \in a.explained : before(i)
       /\ Cardinality(a.explained) <= MaxExplained
       /\ \A j \in 1..a.asked \ a.explained : before(j) =>
            \/ Cardinality(newer) + Cardinality(a.explained) >= ListLimit
            \/ /\ Cardinality(a.explained) = MaxExplained
               /\ \A i \in a.explained : drift[j].at <= drift[i].at

\* The clusters of a family together never count more events than were
\* recorded.  Unless two threads recorded the family at once, there is one
\* cluster of it and it counts them all.
Count(f) ==
  LET upto[n \in Nat] ==
        IF n = 0 THEN 0
        ELSE upto[n - 1] + IF Family(clusters[n]) = f THEN clusters[n].count ELSE 0
  IN upto[Len(clusters)]
UnknownCounted ==
  \A f \in Families :
    /\ Count(f) <= recorded[f]
    /\ f \in shared
       \/ /\ Count(f) = recorded[f]
          /\ Cardinality({i \in DOMAIN clusters : Family(clusters[i]) = f}) <= 1

\* A cluster that says "suggested" has a draft of a pack, one made from a
\* template, whichever call fails and whatever the cluster is overwritten with.
SuggestedHasDraft ==
  \A i \in DOMAIN clusters : clusters[i].status = "suggested" => i \in drafts
=============================================================================
