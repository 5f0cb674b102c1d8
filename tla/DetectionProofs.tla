--------------------------- MODULE DetectionProofs ---------------------------
(***************************************************************************)
(* Theorems about Detection for any number of processes, threads, events   *)
(* and faults, any window size, and any measure of divergence; and of      *)
(* Evolution for templates of any classes and length.                      *)
(***************************************************************************)
EXTENDS Detection, Evolution, SetLemmas, SequenceTheorems

-----------------------------------------------------------------------------
(***************************************************************************)
(* What every variable holds, and what each call has in hand               *)
(*                                                                         *)
(* An open window never holds more of a shape than events, nor more        *)
(* confidence than 100 of each: so the mean of a window is a confidence.   *)
(***************************************************************************)
Windows(m) == {w \in [hist : Hist, sum : Nat, n : 0..m] :
                 w.sum <= 100 * w.n /\ \A s \in Shapes : w.hist[s] <= w.n}
Full == {w \in Windows(Window) : w.n >= 1}

AlertRow   == [tenant : Field("tenant"), key : Keys, at : Nat, explained : SUBSET Nat,
               asked : Nat, run : Nat, raced : BOOLEAN]
DriftRow   == [tenant : {DefaultTenant}, key : DOMAIN Desired, snap : Observations, at : Nat]
ClusterRow == [tenant : Field("tenant"), source : Field("source"), family : Field("family"),
               count : Nat, status : {"open", "suggested"}, templates : SUBSET Field("template")]

\* A row of an alert refers to what there is.
RowOK(r) == r.at <= now /\ r.explained \subseteq 1..Len(drift)

ThreadOK(t) ==
  \/ pc[t] = "idle" /\ job[t] = Idle
  \/ pc[t] \in {"evaluate", "capture"} /\ job[t] \in [ev : Events, win : Full]
  \/ pc[t] \in {"judge", "check"} /\ job[t] \in [ev : Events, win : Full, ref : Reference]
  \/ pc[t] = "alert" /\ job[t] \in [ev : Events, row : AlertRow] /\ RowOK(job[t].row)
  \/ /\ pc[t] \in {"degrade", "correlate", "explain"}
     /\ job[t] \in [ev : Events, id : Nat, row : AlertRow]
     /\ job[t].id \in 1..Len(alerts) /\ RowOK(job[t].row)
  \/ pc[t] = "find" /\ job[t] \in [ev : Events]
  \/ /\ pc[t] = "upsert" /\ job[t] \in [ev : Events, id : Nat \cup {None}, row : ClusterRow]
     /\ job[t].id # None => job[t].id \in 1..Len(clusters)
  \/ /\ pc[t] \in {"draft", "mark"} /\ job[t] \in [ev : {None}, id : Nat]
     /\ job[t].id \in 1..Len(clusters)
  \/ pc[t] = "index" /\ job[t] \in [ev : {None}, snap : Observations]
  \/ /\ pc[t] = "write"
     /\ job[t] \in [ev : {None}, snap : Observations, at : Nat, todo : SUBSET DOMAIN Desired]
     /\ job[t].at <= now

MonitorOK ==
  /\ window \in [Processes -> [Keys -> Windows(Window - 1)]]
  /\ ewma \in [Processes -> [Keys -> 0..100 \cup {None}]]
  /\ ref \in [Processes -> [Keys -> Reference \cup {None}]]
  /\ hits \in [Processes -> [Keys -> Nat]] /\ run \in [Processes -> [Keys -> Nat]]

TablesOK ==
  /\ alerts \in Seq(AlertRow) /\ drift \in Seq(DriftRow) /\ clusters \in Seq(ClusterRow)
  /\ indexed \subseteq Observations /\ drafts \subseteq 1..Len(clusters) /\ now \in Nat
  /\ \A i \in 1..Len(alerts) : RowOK(alerts[i])
  /\ \A i \in 1..Len(drift) : drift[i].at <= now
  /\ \A i \in 1..Len(clusters) : clusters[i].count >= 1

ThreadsOK ==
  /\ pc = [t \in Threads |-> pc[t]] /\ job = [t \in Threads |-> job[t]]
  /\ \A t \in Threads : ThreadOK(t)

TInv == MonitorOK /\ TablesOK /\ ThreadsOK

\* Idle is what only an idle thread has in hand.
LEMMA TInvType == TInv => TypeOK
<1> SUFFICES ASSUME TInv PROVE TypeOK
  OBVIOUS
<1>1. window \in [Processes -> [Keys -> Open]]
  <2>1. Windows(Window - 1) \subseteq Open
    BY DEF Windows, Open
  <2> QED BY <2>1 DEF TInv, MonitorOK
<1>2. ASSUME NEW t \in Threads PROVE pc[t] = "idle" <=> job[t] = Idle
  <2>1. ThreadOK(t) /\ None \notin Events
    BY DetectionAssumption DEF TInv, ThreadsOK
  <2>2. CASE pc[t] = "idle"
    BY <2>1, <2>2 DEF ThreadOK
  <2>3. CASE pc[t] # "idle"
    <3>1. \/ job[t].ev \in Events
          \/ job[t] \in [ev : {None}, id : Nat]
          \/ job[t] \in [ev : {None}, snap : Observations]
          \/ job[t] \in [ev : {None}, snap : Observations, at : Nat, todo : SUBSET DOMAIN Desired]
      BY <2>1, <2>3 DEF ThreadOK
    <3>2. job[t] # Idle
      BY <2>1, <3>1 DEF Idle
    <3> QED BY <2>3, <3>2
  <2> QED BY <2>2, <2>3
<1>3. DOMAIN alerts = 1..Len(alerts) /\ DOMAIN drift = 1..Len(drift) /\ DOMAIN clusters = 1..Len(clusters)
  BY DEF TInv, TablesOK
<1>4. ASSUME NEW i \in 1..Len(drift) PROVE drift[i].key \in DOMAIN Desired
  <2>1. drift[i] \in DriftRow
    BY DEF TInv, TablesOK
  <2> QED BY <2>1 DEF DriftRow
<1> QED BY <1>1, <1>2, <1>3, <1>4 DEF TInv, MonitorOK, TablesOK, RowOK, TypeOK

LEMMA FreshOK == Fresh \in Windows(Window - 1)
<1>1. NoHist \in Hist /\ Window \in Nat \ {0}
  BY DetectionAssumption DEF NoHist, Hist
<1>2. \A s \in Shapes : NoHist[s] = 0
  BY DEF NoHist
<1> QED BY <1>1, <1>2 DEF Fresh, Windows

LEMMA InitT == Init => TInv
<1> SUFFICES ASSUME Init PROVE TInv
  OBVIOUS
<1>2. MonitorOK
  BY FreshOK DEF Init, ForAll, MonitorOK
<1>3. TablesOK
  BY DEF Init, TablesOK
<1>4. ThreadsOK
  BY DEF Init, ThreadsOK, ThreadOK
<1> QED BY <1>2, <1>3, <1>4 DEF TInv
-----------------------------------------------------------------------------
(***************************************************************************)
(* One thread moves                                                        *)
(***************************************************************************)
\* The other threads stay where they are.
Alone(t) ==
  /\ pc' = [u \in Threads |-> pc'[u]] /\ job' = [u \in Threads |-> job'[u]]
  /\ \A u \in Threads \ {t} : pc'[u] = pc[u] /\ job'[u] = job[u]

LEMMA Moves ==
  ASSUME ThreadsOK, NEW t \in Threads, NEW x, NEW y,
         pc' = [pc EXCEPT ![t] = x], job' = [job EXCEPT ![t] = y]
  PROVE  Alone(t) /\ pc'[t] = x /\ job'[t] = y
BY DEF ThreadsOK, Alone

LEMMA MovesOn ==
  ASSUME ThreadsOK, NEW t \in Threads, NEW x, pc' = [pc EXCEPT ![t] = x], job' = job
  PROVE  Alone(t) /\ pc'[t] = x /\ job'[t] = job[t]
BY DEF ThreadsOK, Alone

\* The end of the monitor's part: nobody knows, or the call is over.
Settled(t) == (pc'[t] = "idle" /\ job'[t] = Idle) \/ (pc'[t] = "find" /\ job'[t] \in [ev : Events])

LEMMA Settles ==
  ASSUME ThreadsOK, NEW t \in Threads, Finish(t) \/ \E e \in Events : Observed(t, e)
  PROVE  Alone(t) /\ Settled(t) /\ ThreadOK(t)'
<1>1. CASE Finish(t)
  BY <1>1, Moves DEF Finish, Goto, Settled, ThreadOK
<1>2. ASSUME NEW e \in Events, Observed(t, e) PROVE Alone(t) /\ Settled(t) /\ ThreadOK(t)'
  <2>1. CASE Unknown(e)
    <3>1. pc' = [pc EXCEPT ![t] = "find"] /\ job' = [job EXCEPT ![t] = [ev |-> e]]
      BY <1>2, <2>1 DEF Observed, Goto
    <3>2. Alone(t) /\ pc'[t] = "find" /\ job'[t] = [ev |-> e]
      BY <3>1, Moves
    <3> QED BY <3>2 DEF Settled, ThreadOK
  <2>2. CASE ~Unknown(e)
    BY <1>1, <1>2, <2>2 DEF Observed
  <2> QED BY <2>1, <2>2
<1> QED BY <1>1, <1>2

\* The tables only grow.
Longer ==
  /\ Len(alerts) <= Len(alerts') /\ Len(drift) <= Len(drift') /\ Len(clusters) <= Len(clusters')
  /\ now <= now'

LEMMA AloneT ==
  ASSUME TInv, NEW t \in Threads, Alone(t), Longer, TablesOK', ThreadOK(t)'
  PROVE  ThreadsOK'
<1>1. ASSUME NEW u \in Threads \ {t} PROVE ThreadOK(u)'
  <2>1. ThreadOK(u) /\ pc'[u] = pc[u] /\ job'[u] = job[u]
    BY DEF TInv, ThreadsOK, Alone
  <2>2. now \in Nat /\ now' \in Nat /\ Len(drift) \in Nat /\ Len(drift') \in Nat
        /\ Len(alerts) \in Nat /\ Len(alerts') \in Nat /\ Len(clusters) \in Nat /\ Len(clusters') \in Nat
    BY DEF TInv, TablesOK
  <2>3. /\ 1..Len(drift) \subseteq 1..Len(drift') /\ 1..Len(alerts) \subseteq 1..Len(alerts')
        /\ 1..Len(clusters) \subseteq 1..Len(clusters')
    BY <2>2 DEF Longer
  <2>4. \A r \in AlertRow : RowOK(r) => RowOK(r)'
    BY <2>2, <2>3 DEF RowOK, Longer, AlertRow
  <2>5. \A n \in Nat : n <= now => n <= now'
    BY <2>2 DEF Longer
  <2> QED BY <2>1, <2>3, <2>4, <2>5 DEF ThreadOK
<1> QED BY <1>1 DEF ThreadsOK, Alone

\* A step that leaves the tables alone.
LEMMA SameTables ==
  ASSUME TInv, UNCHANGED <<alerts, drift, indexed, clusters, drafts>>, now' \in Nat, now <= now'
  PROVE  TablesOK' /\ Longer
<1>1. alerts \in Seq(AlertRow) /\ drift \in Seq(DriftRow) /\ now \in Nat /\ Len(alerts) \in Nat
      /\ Len(drift) \in Nat /\ Len(clusters) \in Nat
  BY DEF TInv, TablesOK
<1>2. \A r \in AlertRow : RowOK(r) => RowOK(r)'
  BY <1>1 DEF RowOK, AlertRow
<1>3. \A i \in 1..Len(alerts) : alerts[i] \in AlertRow
  BY <1>1
<1>4. \A i \in 1..Len(drift) : drift[i].at <= now'
  <2> SUFFICES ASSUME NEW i \in 1..Len(drift) PROVE drift[i].at <= now'
    OBVIOUS
  <2>1. drift[i] \in DriftRow /\ drift[i].at <= now
    BY <1>1 DEF TInv, TablesOK
  <2>2. drift[i].at \in Nat
    BY <2>1 DEF DriftRow
  <2> QED BY <1>1, <2>1, <2>2
<1>5. TablesOK'
  BY <1>2, <1>3, <1>4 DEF TInv, TablesOK
<1> QED BY <1>1, <1>5 DEF Longer
-----------------------------------------------------------------------------
(***************************************************************************)
(* DriftMonitor.observe                                                    *)
(***************************************************************************)
LEMMA CountedOK ==
  ASSUME NEW w \in Windows(Window - 1), NEW e \in Events
  PROVE  /\ Counted(w, e) \in Full
         /\ Counted(w, e).n < Window => Counted(w, e) \in Windows(Window - 1)
<1> DEFINE s == e.shape
           h == [w.hist EXCEPT ![s] = @ + 1]
           c == e.conf
<1>1. s \in Shapes /\ c \in 0..100 /\ Window \in Nat \ {0}
  BY DetectionAssumption DEF Shapes, Field
<1>2. w.hist \in Hist /\ w.sum \in Nat /\ w.n \in 0..Window - 1 /\ w.sum <= 100 * w.n
      /\ \A x \in Shapes : w.hist[x] <= w.n
  BY DEF Windows
<1>3. Counted(w, e) = [hist |-> h, sum |-> w.sum + c, n |-> w.n + 1]
  BY DEF Counted
<1> HIDE DEF s, c
<1>4. \A x \in Shapes : h[x] \in 0..Window /\ h[x] <= w.n + 1
  BY <1>1, <1>2 DEF Hist
<1>5. h \in Hist
  BY <1>2, <1>4 DEF Hist
<1> HIDE DEF h
<1>6. w.sum + c \in Nat /\ w.sum + c <= 100 * (w.n + 1) /\ w.n + 1 \in 1..Window
  BY <1>1, <1>2
<1> QED BY <1>1, <1>3, <1>4, <1>5, <1>6 DEF Windows, Full

LEMMA MeanOK ==
  ASSUME NEW w \in Full
  PROVE  [hist |-> w.hist, mean |-> Mean(w)] \in Reference
<1>1. w.hist \in Hist /\ w.sum \in Nat /\ w.n \in Nat \ {0} /\ w.sum <= 100 * w.n
  BY DetectionAssumption DEF Full, Windows
<1>2. ASSUME NEW a \in Nat, NEW n \in Nat \ {0}, a <= 100 * n PROVE a \div n \in 0..100
  <2>1. a \div n \in Nat
    BY SMT
  <2>2. a \div n <= 100
    BY <1>2, SMT
  <2> QED BY <2>1, <2>2
<1> QED BY <1>1, <1>2 DEF Mean, Reference

LEMMA AverageOK ==
  ASSUME NEW old \in 0..100 \cup {None}, NEW c \in 0..100
  PROVE  Average(old, c) \in 0..100
BY DEF Average

\* One entry of a monitor's table changes.
LEMMA PutOK ==
  ASSUME NEW S, NEW m \in [Processes -> [Keys -> S]], NEW p \in Processes, NEW k \in Keys, NEW v \in S
  PROVE  /\ [m EXCEPT ![p][k] = v] \in [Processes -> [Keys -> S]]
         /\ [m EXCEPT ![p][k] = v][p][k] = v
         /\ \A q \in Processes, l \in Keys : q # p \/ l # k => [m EXCEPT ![p][k] = v][q][l] = m[q][l]
OBVIOUS

LEMMA ObserveT ==
  ASSUME TInv, NEW t \in Threads, NEW e \in Traffic[t], Observe(t, e)
  PROVE  TInv'
<1> SUFFICES ASSUME NEW p, p = Home[t], NEW k, k = Key(e), NEW w, w = Counted(window[p][k], e)
             PROVE  TInv'
  OBVIOUS
<1>1. e \in Events /\ p \in Processes /\ k \in Keys /\ e.conf \in 0..100
  BY DetectionAssumption DEF Keys
<1>2. TablesOK' /\ Longer
  BY SameTables DEF Observe, tables, TInv, TablesOK
<1>3. CASE e.parser \in Ignored
  <2>1. Observed(t, e) /\ UNCHANGED <<window, ewma, ref, hits, run>>
    BY <1>3 DEF Observe, monitor
  <2>2. Alone(t) /\ ThreadOK(t)'
    BY <1>1, <2>1, Settles DEF TInv
  <2> QED BY <1>2, <2>1, <2>2, AloneT DEF TInv, MonitorOK
<1>4. CASE e.parser \notin Ignored
  <2>1. /\ ewma' = [ewma EXCEPT ![p][k] = Average(@, e.conf)] /\ UNCHANGED <<ref, hits, run>>
        /\ \/ w.n < Window /\ window' = [window EXCEPT ![p][k] = w] /\ Observed(t, e)
           \/ /\ window' = [window EXCEPT ![p][k] = Fresh]
              /\ pc' = [pc EXCEPT ![t] = "evaluate"]
              /\ job' = [job EXCEPT ![t] = [ev |-> e, win |-> w]]
    BY <1>4 DEF Observe, Goto
  <2>2. w \in Full /\ (w.n < Window => w \in Windows(Window - 1))
    <3>1. window[p][k] \in Windows(Window - 1)
      BY <1>1 DEF TInv, MonitorOK
    <3> QED BY <1>1, <3>1, CountedOK
  <2>3. MonitorOK'
    <3>1. ewma[p][k] \in 0..100 \cup {None}
      BY <1>1 DEF TInv, MonitorOK
    <3>2. Average(ewma[p][k], e.conf) \in 0..100
      BY <1>1, <3>1, AverageOK
    <3>3. window' \in [Processes -> [Keys -> Windows(Window - 1)]]
      <4>1. PICK v \in Windows(Window - 1) : window' = [window EXCEPT ![p][k] = v]
        BY <2>1, <2>2, FreshOK
      <4> QED BY <1>1, <4>1, PutOK DEF TInv, MonitorOK
    <3>4. ewma' \in [Processes -> [Keys -> 0..100 \cup {None}]]
      BY <1>1, <2>1, <3>2 DEF TInv, MonitorOK
    <3> QED BY <2>1, <3>3, <3>4 DEF TInv, MonitorOK
  <2>4. Alone(t) /\ ThreadOK(t)'
    <3>1. CASE Observed(t, e)
      BY <1>1, <3>1, Settles DEF TInv
    <3>2. CASE /\ pc' = [pc EXCEPT ![t] = "evaluate"]
               /\ job' = [job EXCEPT ![t] = [ev |-> e, win |-> w]]
      <4>1. Alone(t) /\ pc'[t] = "evaluate" /\ job'[t] = [ev |-> e, win |-> w]
        BY <3>2, Moves DEF TInv
      <4>2. job'[t] \in [ev : Events, win : Full]
        BY <1>1, <2>2, <4>1
      <4> QED BY <4>1, <4>2 DEF ThreadOK
    <3> QED BY <2>1, <3>1, <3>2
  <2> QED BY <1>2, <2>3, <2>4, AloneT DEF TInv
<1> QED BY <1>3, <1>4

LEMMA EvaluateT ==
  ASSUME TInv, NEW t \in Threads, Evaluate(t)
  PROVE  TInv'
<1>0. SUFFICES ASSUME NEW j, j = job[t], NEW r, r = ref[Home[t]][Key(j.ev)] PROVE TInv'
  OBVIOUS
<1>1. pc[t] = "evaluate" /\ j \in [ev : Events, win : Full] /\ UNCHANGED <<monitor, tables, now>>
  BY <1>0 DEF Evaluate, TInv, ThreadsOK, ThreadOK
<1>2. TablesOK' /\ Longer
  BY <1>1, SameTables DEF tables, TInv, TablesOK
<1>3. MonitorOK'
  BY <1>1 DEF monitor, TInv, MonitorOK
<1>4. CASE r = None
  <2>1. Alone(t) /\ pc'[t] = "capture" /\ job'[t] = j
    <3>1. pc' = [pc EXCEPT ![t] = "capture"] /\ job' = job
      BY <1>0, <1>4 DEF Evaluate, Ev, Goto
    <3> QED BY <1>0, <3>1, MovesOn DEF TInv
  <2>2. ThreadOK(t)'
    BY <1>1, <2>1 DEF ThreadOK
  <2> QED BY <1>2, <1>3, <2>1, <2>2, AloneT DEF TInv
<1>5. CASE r # None
  <2>1. Alone(t) /\ pc'[t] = "judge" /\ job'[t] = [ev |-> j.ev, win |-> j.win, ref |-> r]
    <3>1. /\ pc' = [pc EXCEPT ![t] = "judge"]
          /\ job' = [job EXCEPT ![t] = [ev |-> j.ev, win |-> j.win, ref |-> r]]
      BY <1>0, <1>5 DEF Evaluate, Ev, Goto
    <3> QED BY <3>1, Moves DEF TInv
  <2>2. r \in Reference
    <3>1. Home[t] \in Processes /\ Key(j.ev) \in Keys
      BY <1>1, DetectionAssumption DEF Keys
    <3> QED BY <1>0, <1>5, <3>1 DEF TInv, MonitorOK
  <2>3. ThreadOK(t)'
    BY <1>1, <2>1, <2>2 DEF ThreadOK
  <2> QED BY <1>2, <1>3, <2>1, <2>3, AloneT DEF TInv
<1> QED BY <1>4, <1>5

LEMMA CaptureT ==
  ASSUME TInv, NEW t \in Threads, Capture(t)
  PROVE  TInv'
<1> SUFFICES ASSUME NEW j, j = job[t] PROVE TInv'
  OBVIOUS
<1>1. /\ j \in [ev : Events, win : Full] /\ UNCHANGED <<window, ewma, hits, run, raced, tables, now>>
      /\ Observed(t, j.ev)
      /\ ref' = [ref EXCEPT ![Home[t]][Key(j.ev)] = [hist |-> j.win.hist, mean |-> Mean(j.win)]]
  BY DEF Capture, Ev, TInv, ThreadsOK, ThreadOK
<1>2. j.ev \in Events /\ j.win \in Full /\ Home[t] \in Processes /\ Key(j.ev) \in Keys
  BY <1>1, DetectionAssumption DEF Keys
<1>3. TablesOK' /\ Longer
  BY <1>1, SameTables DEF tables, TInv, TablesOK
<1>4. ref' \in [Processes -> [Keys -> Reference \cup {None}]]
  BY <1>1, <1>2, MeanOK, PutOK DEF TInv, MonitorOK
<1>5. MonitorOK'
  BY <1>1, <1>4 DEF TInv, MonitorOK
<1>6. Alone(t) /\ ThreadOK(t)'
  BY <1>1, <1>2, Settles DEF TInv
<1> QED BY <1>3, <1>5, <1>6, AloneT DEF TInv

LEMMA EndRunT ==
  ASSUME MonitorOK, NEW p \in Processes, NEW k \in Keys, EndRun(p, k), UNCHANGED <<window, ewma, ref>>
  PROVE  MonitorOK'
<1>1. hits' \in [Processes -> [Keys -> Nat]] /\ run' \in [Processes -> [Keys -> Nat]]
  BY DEF EndRun, MonitorOK
<1> QED BY <1>1 DEF MonitorOK

LEMMA JudgeT ==
  ASSUME TInv, NEW t \in Threads, Judge(t)
  PROVE  TInv'
<1> SUFFICES ASSUME NEW j, j = job[t], NEW p, p = Home[t], NEW k, k = Key(j.ev) PROVE TInv'
  OBVIOUS
<1>1. /\ j \in [ev : Events, win : Full, ref : Reference]
      /\ UNCHANGED <<window, ewma, ref, raced, tables, now>>
      /\ \/ /\ hits' = [hits EXCEPT ![p][k] = @ + 1] /\ run' = [run EXCEPT ![p][k] = @ + 1]
            /\ pc' = [pc EXCEPT ![t] = "check"] /\ job' = job
         \/ EndRun(p, k) /\ Observed(t, j.ev)
  BY DEF Judge, Ev, Goto, TInv, ThreadsOK, ThreadOK
<1>2. j.ev \in Events /\ p \in Processes /\ k \in Keys
  BY <1>1, DetectionAssumption DEF Keys
<1>3. TablesOK' /\ Longer
  BY <1>1, SameTables DEF tables, TInv, TablesOK
<1>4. CASE /\ hits' = [hits EXCEPT ![p][k] = @ + 1] /\ run' = [run EXCEPT ![p][k] = @ + 1]
           /\ pc' = [pc EXCEPT ![t] = "check"] /\ job' = job
  <2>1. hits' \in [Processes -> [Keys -> Nat]] /\ run' \in [Processes -> [Keys -> Nat]]
    BY <1>2, <1>4 DEF TInv, MonitorOK
  <2>2. MonitorOK'
    BY <1>1, <2>1 DEF TInv, MonitorOK
  <2>3. Alone(t) /\ pc'[t] = "check" /\ job'[t] = j
    BY <1>4, MovesOn DEF TInv
  <2>4. ThreadOK(t)'
    BY <1>1, <2>3 DEF ThreadOK
  <2> QED BY <1>3, <2>2, <2>3, <2>4, AloneT DEF TInv
<1>5. CASE EndRun(p, k) /\ Observed(t, j.ev)
  <2>1. MonitorOK'
    BY <1>1, <1>2, <1>5, EndRunT DEF TInv
  <2>2. Alone(t) /\ ThreadOK(t)'
    BY <1>2, <1>5, Settles DEF TInv
  <2> QED BY <1>3, <2>1, <2>2, AloneT DEF TInv
<1> QED BY <1>1, <1>4, <1>5

LEMMA CheckT ==
  ASSUME TInv, NEW t \in Threads, Check(t)
  PROVE  TInv'
<1> SUFFICES ASSUME NEW j, j = job[t], NEW p, p = Home[t], NEW k, k = Key(j.ev) PROVE TInv'
  OBVIOUS
<1>1. /\ j \in [ev : Events, win : Full, ref : Reference]
      /\ UNCHANGED <<window, ewma, ref, raced, tables>>
  BY DEF Check, Ev, TInv, ThreadsOK, ThreadOK
<1>2. j.ev \in Events /\ j.ev.tenant \in Field("tenant") /\ p \in Processes /\ k \in Keys
  BY <1>1, DetectionAssumption DEF Keys, Field
<1>3. CASE hits[p][k] < Required
  <2>1. Observed(t, j.ev) /\ UNCHANGED <<hits, run, now>>
    BY <1>3 DEF Check, Ev
  <2>2. TablesOK' /\ Longer
    BY <1>1, <2>1, SameTables DEF tables, TInv, TablesOK
  <2>3. MonitorOK'
    BY <1>1, <2>1 DEF TInv, MonitorOK
  <2>4. Alone(t) /\ ThreadOK(t)'
    BY <1>2, <2>1, Settles DEF TInv
  <2> QED BY <2>2, <2>3, <2>4, AloneT DEF TInv
<1>4. CASE ~(hits[p][k] < Required)
  <2> SUFFICES ASSUME NEW row, row = [tenant |-> j.ev.tenant, key |-> k, at |-> now + 1,
                                      explained |-> {}, asked |-> 0, run |-> run[p][k],
                                      raced |-> <<p, k>> \in raced]
               PROVE  TInv'
    OBVIOUS
  <2>1. /\ EndRun(p, k) /\ now' = now + 1
        /\ pc' = [pc EXCEPT ![t] = "alert"]
        /\ job' = [job EXCEPT ![t] = [ev |-> j.ev, row |-> row]]
    BY <1>4 DEF Check, Ev, Goto
  <2>2. MonitorOK'
    BY <1>1, <1>2, <2>1, EndRunT DEF TInv
  <2>3. now \in Nat /\ now' \in Nat /\ now <= now'
    BY <2>1 DEF TInv, TablesOK
  <2>4. TablesOK' /\ Longer
    BY <1>1, <2>3, SameTables DEF tables
  <2>5. Alone(t) /\ pc'[t] = "alert" /\ job'[t] = [ev |-> j.ev, row |-> row]
    BY <2>1, Moves, ZenonT(80) DEF TInv
  <2>6. row \in AlertRow /\ row.at = now' /\ row.explained = {}
    <3>1. run[p][k] \in Nat /\ (<<p, k>> \in raced) \in BOOLEAN
      BY <1>2 DEF TInv, MonitorOK
    <3> DEFINE b == <<p, k>> \in raced
    <3> HIDE DEF b
    <3>2. row = [tenant |-> j.ev.tenant, key |-> k, at |-> now + 1,
                 explained |-> {}, asked |-> 0, run |-> run[p][k], raced |-> b] /\ b \in BOOLEAN
      BY <3>1 DEF b
    <3> QED BY <1>2, <2>1, <2>3, <3>1, <3>2 DEF AlertRow
  <2>7. RowOK(row)'
    BY <2>3, <2>6 DEF RowOK
  <2>8. ThreadOK(t)'
    <3>1. job'[t] \in [ev : Events, row : AlertRow] /\ job'[t].row = row
      BY <1>2, <2>5, <2>6
    <3>2. RowOK(job[t].row)'
      BY <2>7, <3>1 DEF RowOK
    <3> QED BY <2>5, <3>1, <3>2 DEF ThreadOK
  <2> QED BY <2>2, <2>4, <2>5, <2>8, AloneT DEF TInv
<1> QED BY <1>3, <1>4
-----------------------------------------------------------------------------
(***************************************************************************)
(* An alert and its explanation                                            *)
(***************************************************************************)
\* A row is written behind the others, or over one of them.
Writes(s, n, r, i) ==
  \/ n = Append(s, r) /\ i = Len(s) + 1
  \/ n = [s EXCEPT ![i] = r] /\ i \in 1..Len(s)

LEMMA WriteRow ==
  ASSUME NEW S, NEW s \in Seq(S), NEW n, NEW r \in S, NEW i, Writes(s, n, r, i)
  PROVE  /\ n \in Seq(S) /\ Len(s) <= Len(n) /\ i \in 1..Len(n) /\ n[i] = r /\ Len(n) \in Nat
         /\ \A j \in 1..Len(n) : j # i => j \in 1..Len(s) /\ n[j] = s[j]
         /\ \A j \in 1..Len(s) : j # i => n[j] = s[j]
         /\ Len(n) = Len(s) \/ (Len(n) = Len(s) + 1 /\ i = Len(n) /\ n = Append(s, r))
<1>1. CASE n = Append(s, r) /\ i = Len(s) + 1
  BY <1>1, AppendProperties
<1>2. CASE n = [s EXCEPT ![i] = r] /\ i \in 1..Len(s)
  BY <1>2, ExceptSeq
<1> QED BY <1>1, <1>2 DEF Writes

LEMMA AlertWritten ==
  ASSUME TInv, UNCHANGED <<drift, indexed, clusters, drafts, now>>,
         NEW r \in AlertRow, RowOK(r), NEW i, Writes(alerts, alerts', r, i)
  PROVE  TablesOK' /\ Longer /\ i \in 1..Len(alerts')
<1>1. alerts \in Seq(AlertRow) /\ now \in Nat /\ Len(drift) \in Nat /\ Len(clusters) \in Nat
      /\ \A j \in 1..Len(alerts) : RowOK(alerts[j])
  BY DEF TInv, TablesOK
<1>2. /\ alerts' \in Seq(AlertRow) /\ Len(alerts) <= Len(alerts') /\ i \in 1..Len(alerts') /\ alerts'[i] = r
      /\ \A j \in 1..Len(alerts') : j # i => j \in 1..Len(alerts) /\ alerts'[j] = alerts[j]
  BY <1>1, WriteRow
<1>3. \A j \in 1..Len(alerts') : RowOK(alerts'[j])
  BY <1>1, <1>2
<1>4. \A j \in 1..Len(alerts') : RowOK(alerts[j])'
  BY <1>3 DEF RowOK
<1>5. TablesOK'
  BY <1>1, <1>2, <1>4 DEF TInv, TablesOK
<1> QED BY <1>1, <1>2, <1>5 DEF Longer

LEMMA SameMonitor == ASSUME MonitorOK, UNCHANGED <<window, ewma, ref, hits, run>> PROVE MonitorOK'
BY DEF MonitorOK

\* A call that settles and changes neither table nor monitor.
LEMMA SettlesT ==
  ASSUME TInv, NEW t \in Threads, Finish(t) \/ \E e \in Events : Observed(t, e),
         UNCHANGED <<window, ewma, ref, hits, run>>,
         UNCHANGED <<alerts, drift, indexed, clusters, drafts, now>>
  PROVE  TInv'
<1>1. TablesOK' /\ Longer
  BY SameTables DEF TInv, TablesOK
<1>2. MonitorOK'
  BY SameMonitor DEF TInv
<1>3. Alone(t) /\ ThreadOK(t)'
  BY Settles DEF TInv
<1> QED BY <1>1, <1>2, <1>3, AloneT DEF TInv

LEMMA AlertT ==
  ASSUME TInv, NEW t \in Threads, Alert(t)
  PROVE  TInv'
<1>0. SUFFICES ASSUME NEW j, j = job[t] PROVE TInv'
  OBVIOUS
<1>1. /\ j \in [ev : Events, row : AlertRow] /\ RowOK(j.row)
      /\ UNCHANGED <<window, ewma, ref, hits, run>> /\ UNCHANGED <<drift, indexed, clusters, drafts, now>>
  BY <1>0 DEF Alert, monitor, TInv, ThreadsOK, ThreadOK
<1>2. CASE /\ alerts' = Append(alerts, j.row)
           /\ job' = [job EXCEPT ![t] = [ev |-> j.ev, id |-> Len(alerts'), row |-> j.row]]
           /\ pc' = [pc EXCEPT ![t] = "degrade"]
  <2>0. SUFFICES ASSUME NEW i, i = Len(alerts) + 1,
                        NEW y, y = [ev |-> j.ev, id |-> i, row |-> j.row]
                 PROVE  TInv'
    OBVIOUS
  <2>1. TablesOK' /\ Longer /\ i \in 1..Len(alerts')
    <3>1. Writes(alerts, alerts', j.row, i)
      BY <1>2, <2>0 DEF Writes
    <3>2. j.row \in AlertRow
      BY <1>1
    <3> QED BY <1>1, <3>1, <3>2, AlertWritten
  <2>2. Len(alerts') = i
    BY <1>1, <1>2, <2>0, AppendProperties DEF TInv, TablesOK
  <2>3. Alone(t) /\ pc'[t] = "degrade" /\ job'[t] = y
    <3>1. job' = [job EXCEPT ![t] = y]
      BY <1>2, <2>0, <2>2
    <3>2. pc' = [pc EXCEPT ![t] = "degrade"] /\ ThreadsOK
      BY <1>2 DEF TInv
    <3> QED BY <3>1, <3>2, Moves
  <2>4. RowOK(j.row)'
    BY <1>1 DEF RowOK
  <2>5. ThreadOK(t)'
    <3>1. i \in Nat /\ j.ev \in Events /\ j.row \in AlertRow
      BY <1>1, <2>1, <2>2 DEF TablesOK
    <3>2. job'[t] \in [ev : Events, id : Nat, row : AlertRow] /\ job'[t].row = j.row /\ job'[t].id = i
      BY <2>0, <2>3, <3>1
    <3>3. RowOK(job[t].row)'
      BY <2>4, <3>2 DEF RowOK
    <3> QED BY <2>1, <2>3, <3>2, <3>3 DEF ThreadOK
  <2>6. MonitorOK'
    BY <1>1, SameMonitor DEF TInv
  <2> QED BY <2>1, <2>3, <2>5, <2>6, AloneT DEF TInv
<1>3. CASE Observed(t, j.ev) /\ UNCHANGED alerts
  BY <1>1, <1>3, SettlesT
<1> QED BY <1>0, <1>2, <1>3 DEF Alert, Ev, Goto

\* A thread that goes on with the alert it has in hand.
LEMMA DegradeT ==
  ASSUME TInv, NEW t \in Threads, Degrade(t)
  PROVE  TInv'
<1>0. SUFFICES ASSUME NEW j, j = job[t] PROVE TInv'
  OBVIOUS
<1>1. /\ j \in [ev : Events, id : Nat, row : AlertRow] /\ RowOK(j.row) /\ j.id \in 1..Len(alerts)
      /\ UNCHANGED <<window, ewma, ref, hits, run>>
      /\ UNCHANGED <<alerts, drift, indexed, clusters, drafts, now>>
  BY <1>0 DEF Degrade, monitor, tables, TInv, ThreadsOK, ThreadOK
<1>2. CASE pc' = [pc EXCEPT ![t] = "correlate"] /\ job' = job
  <2>1. Alone(t) /\ pc'[t] = "correlate" /\ job'[t] = job[t]
    BY <1>2, MovesOn DEF TInv
  <2>2. TablesOK' /\ Longer
    BY <1>1, SameTables DEF TInv, TablesOK
  <2>3. ThreadOK(t)'
    BY <1>0, <1>1, <2>1 DEF ThreadOK, RowOK
  <2>4. MonitorOK'
    BY <1>1, SameMonitor DEF TInv
  <2> QED BY <2>1, <2>2, <2>3, <2>4, AloneT DEF TInv
<1>3. CASE Observed(t, j.ev)
  BY <1>1, <1>3, SettlesT
<1> QED BY <1>0, <1>2, <1>3 DEF Degrade, Ev, Goto

\* What explains an alert is drift that was written.
LEMMA ExplainsType ==
  ASSUME TablesOK, NEW r \in AlertRow, NEW X \in Explains(r)
  PROVE  X \subseteq 1..Len(drift) /\ X \in SUBSET Nat
<1>1. X \subseteq DOMAIN drift
  BY DEF Explains, Listed, Latest
<1> QED BY <1>1 DEF TablesOK

LEMMA CorrelateT ==
  ASSUME TInv, NEW t \in Threads, Correlate(t)
  PROVE  TInv'
<1>0. SUFFICES ASSUME NEW j, j = job[t] PROVE TInv'
  OBVIOUS
<1>1. /\ j \in [ev : Events, id : Nat, row : AlertRow] /\ RowOK(j.row) /\ j.id \in 1..Len(alerts)
      /\ UNCHANGED <<window, ewma, ref, hits, run>>
      /\ UNCHANGED <<alerts, drift, indexed, clusters, drafts, now>>
  BY <1>0 DEF Correlate, monitor, tables, TInv, ThreadsOK, ThreadOK
<1>2. ASSUME NEW X \in Explains(j.row), pc' = [pc EXCEPT ![t] = "explain"],
             job' = [job EXCEPT ![t].row.explained = X, ![t].row.asked = Len(drift)]
      PROVE  TInv'
  <2>0. SUFFICES ASSUME NEW row, row = [j.row EXCEPT !.explained = X, !.asked = Len(drift)],
                        NEW y, y = [j EXCEPT !.row = row]
                 PROVE  TInv'
    OBVIOUS
  <2>1. job' = [job EXCEPT ![t] = y]
    BY <1>0, <1>2, <2>0
  <2>2. X \subseteq 1..Len(drift) /\ X \in SUBSET Nat /\ Len(drift) \in Nat
    BY <1>1, ExplainsType, SMTT(30) DEF TInv, TablesOK
  <2>3. row \in AlertRow /\ row.at = j.row.at /\ row.explained = X
    BY <1>1, <2>0, <2>2 DEF AlertRow
  <2>4. y \in [ev : Events, id : Nat, row : AlertRow] /\ y.id = j.id /\ y.row = row
    BY <1>1, <2>0, <2>3
  <2>5. Alone(t) /\ pc'[t] = "explain" /\ job'[t] = y
    BY <1>2, <2>1, Moves DEF TInv
  <2>6. TablesOK' /\ Longer
    BY <1>1, SameTables DEF TInv, TablesOK
  <2>7. RowOK(job[t].row)'
    BY <1>1, <2>2, <2>3, <2>4, <2>5 DEF RowOK
  <2>8. ThreadOK(t)'
    BY <1>1, <2>4, <2>5, <2>7 DEF ThreadOK
  <2>9. MonitorOK'
    BY <1>1, SameMonitor DEF TInv
  <2> QED BY <2>5, <2>6, <2>8, <2>9, AloneT DEF TInv
<1>3. CASE Observed(t, j.ev)
  BY <1>1, <1>3, SettlesT
<1> QED BY <1>0, <1>2, <1>3 DEF Correlate, Ev, Goto

LEMMA ExplainT ==
  ASSUME TInv, NEW t \in Threads, Explain(t)
  PROVE  TInv'
<1>0. SUFFICES ASSUME NEW j, j = job[t] PROVE TInv'
  OBVIOUS
<1>1. /\ j \in [ev : Events, id : Nat, row : AlertRow] /\ RowOK(j.row) /\ j.id \in 1..Len(alerts)
      /\ UNCHANGED <<window, ewma, ref, hits, run>>
      /\ UNCHANGED <<drift, indexed, clusters, drafts, now>> /\ Observed(t, j.ev)
      /\ alerts' = [alerts EXCEPT ![j.id] = j.row] \/ UNCHANGED alerts
  BY <1>0 DEF Explain, Ev, monitor, TInv, ThreadsOK, ThreadOK
<1>2. CASE alerts' = [alerts EXCEPT ![j.id] = j.row]
  <2>1. TablesOK' /\ Longer
    BY <1>1, <1>2, AlertWritten DEF Writes
  <2>2. MonitorOK'
    BY <1>1, SameMonitor DEF TInv
  <2>3. Alone(t) /\ ThreadOK(t)'
    BY <1>1, Settles DEF TInv
  <2> QED BY <2>1, <2>2, <2>3, AloneT DEF TInv
<1>3. CASE UNCHANGED alerts
  BY <1>1, <1>3, SettlesT
<1> QED BY <1>1, <1>2, <1>3
-----------------------------------------------------------------------------
(***************************************************************************)
(* record_unknown, and the suggestion of a pack                            *)
(***************************************************************************)
LEMMA ClusterWritten ==
  ASSUME TInv, UNCHANGED <<alerts, drift, indexed, drafts, now>>,
         NEW r \in ClusterRow, r.count >= 1, NEW i, Writes(clusters, clusters', r, i)
  PROVE  TablesOK' /\ Longer
<1>1. clusters \in Seq(ClusterRow) /\ now \in Nat /\ Len(drift) \in Nat /\ Len(alerts) \in Nat
      /\ Len(clusters) \in Nat
  BY DEF TInv, TablesOK
<1>2. /\ clusters' \in Seq(ClusterRow) /\ Len(clusters) <= Len(clusters') /\ i \in 1..Len(clusters')
      /\ clusters'[i] = r /\ Len(clusters') \in Nat
      /\ \A j \in 1..Len(clusters') : j # i => j \in 1..Len(clusters) /\ clusters'[j] = clusters[j]
  BY <1>1, WriteRow
<1>3. \A j \in 1..Len(clusters') : clusters'[j].count >= 1
  BY <1>2 DEF TInv, TablesOK
<1>4. drafts \subseteq 1..Len(clusters')
  BY <1>1, <1>2 DEF TInv, TablesOK
<1>5. \A j \in 1..Len(alerts) : RowOK(alerts[j])'
  BY DEF TInv, TablesOK, RowOK
<1>6. TablesOK'
  BY <1>1, <1>2, <1>3, <1>4, <1>5 DEF TInv, TablesOK
<1> QED BY <1>1, <1>2, <1>6 DEF Longer

LEMMA FindT ==
  ASSUME TInv, NEW t \in Threads, Find(t)
  PROVE  TInv'
<1>0. SUFFICES ASSUME NEW e, e = job[t].ev PROVE TInv'
  OBVIOUS
<1>1. e \in Events /\ UNCHANGED <<window, ewma, ref, hits, run>>
      /\ UNCHANGED <<alerts, drift, indexed, clusters, drafts, now>>
  BY <1>0 DEF Find, monitor, TInv, ThreadsOK, ThreadOK
<1>2. ASSUME NEW i, NEW row \in ClusterRow, i # None => i \in 1..Len(clusters),
             pc' = [pc EXCEPT ![t] = "upsert"],
             job' = [job EXCEPT ![t] = [ev |-> e, id |-> i, row |-> row]]
      PROVE  TInv'
  <2>1. Alone(t) /\ pc'[t] = "upsert" /\ job'[t] = [ev |-> e, id |-> i, row |-> row]
    BY <1>2, Moves DEF TInv
  <2>2. TablesOK' /\ Longer
    BY <1>1, SameTables DEF TInv, TablesOK
  <2>3. i \in Nat \cup {None}
    BY <1>2 DEF TInv, TablesOK
  <2>4. ThreadOK(t)'
    <3>1. job'[t] \in [ev : Events, id : Nat \cup {None}, row : ClusterRow] /\ job'[t].id = i
      BY <1>1, <1>2, <2>1, <2>3
    <3> QED BY <1>1, <1>2, <2>1, <3>1 DEF ThreadOK
  <2>5. MonitorOK'
    BY <1>1, SameMonitor DEF TInv
  <2> QED BY <2>1, <2>2, <2>4, <2>5, AloneT DEF TInv
<1>3. [tenant |-> e.tenant, source |-> e.source, family |-> e.family,
       count |-> 0, status |-> "open", templates |-> {}] \in ClusterRow
  BY <1>1 DEF ClusterRow, Field
<1>4. \A i \in DOMAIN clusters : i \in 1..Len(clusters) /\ clusters[i] \in ClusterRow
  BY DEF TInv, TablesOK
<1>5. CASE Finish(t)
  BY <1>1, <1>5, SettlesT
<1> QED BY <1>0, <1>2, <1>3, <1>4, <1>5 DEF Find, Ev, Goto

LEMMA JoinedOK ==
  ASSUME NEW r \in ClusterRow, NEW e \in Events
  PROVE  Joined(r, e) \in ClusterRow /\ Joined(r, e).count = r.count + 1 /\ Joined(r, e).status = r.status
<1>1. PICK T \in SUBSET Field("template"), n \in Nat :
        n = r.count + 1 /\ n >= 1 /\ Joined(r, e) = [r EXCEPT !.count = n, !.templates = T]
  <2>1. e.template \in Field("template") /\ r.templates \subseteq Field("template")
        /\ r.count \in Nat /\ r.count + 1 \in Nat /\ r.count + 1 >= 1
    BY DEF Field, ClusterRow
  <2>2. IF e.template = None THEN r.templates \subseteq Field("template")
        ELSE r.templates \cup {e.template} \subseteq Field("template")
    BY <2>1
  <2> QED BY <2>1, <2>2 DEF Joined
<1>2. Joined(r, e) = [tenant |-> r.tenant, source |-> r.source, family |-> r.family,
                      count |-> n, status |-> r.status, templates |-> T]
  BY <1>1 DEF ClusterRow
<1>3. r.tenant \in Field("tenant") /\ r.source \in Field("source") /\ r.family \in Field("family")
      /\ r.status \in {"open", "suggested"}
  BY DEF ClusterRow
<1> QED BY <1>1, <1>2, <1>3 DEF ClusterRow

LEMMA UpsertT ==
  ASSUME TInv, NEW t \in Threads, Upsert(t)
  PROVE  TInv'
<1>0. SUFFICES ASSUME NEW j, j = job[t], NEW r, r = Joined(j.row, j.ev) PROVE TInv'
  OBVIOUS
<1>1. /\ j \in [ev : Events, id : Nat \cup {None}, row : ClusterRow]
      /\ j.id # None => j.id \in 1..Len(clusters)
      /\ UNCHANGED <<window, ewma, ref, hits, run>> /\ UNCHANGED <<alerts, drift, indexed, drafts, now>>
      /\ Finish(t)
  BY <1>0 DEF Upsert, monitor, TInv, ThreadsOK, ThreadOK
<1>2. r \in ClusterRow /\ r.count >= 1
  <2>1. j.row \in ClusterRow /\ j.ev \in Events /\ j.row.count \in Nat
    BY <1>1 DEF ClusterRow
  <2> QED BY <1>0, <2>1, JoinedOK
<1>3. CASE clusters' = clusters
  BY <1>1, <1>3, SettlesT
<1>4. ASSUME NEW i, Writes(clusters, clusters', r, i) PROVE TInv'
  <2>1. TablesOK' /\ Longer
    BY <1>1, <1>2, <1>4, ClusterWritten
  <2>2. MonitorOK'
    BY <1>1, SameMonitor DEF TInv
  <2>3. Alone(t) /\ ThreadOK(t)'
    BY <1>1, Settles DEF TInv
  <2> QED BY <2>1, <2>2, <2>3, AloneT DEF TInv
<1>5. clusters' = clusters \/ \E i : Writes(clusters, clusters', r, i)
  BY <1>0, <1>1 DEF Upsert, Ev, Writes
<1> QED BY <1>3, <1>4, <1>5

LEMMA StartSuggestT ==
  ASSUME TInv, NEW t \in Threads, NEW c \in DOMAIN clusters, StartSuggest(t, c)
  PROVE  TInv'
<1>1. UNCHANGED <<window, ewma, ref, hits, run>> /\ UNCHANGED <<alerts, drift, indexed, clusters, drafts, now>>
  BY DEF StartSuggest, monitor, tables
<1>2. c \in Nat /\ c \in 1..Len(clusters) /\ Len(clusters') = Len(clusters)
  BY <1>1 DEF TInv, TablesOK
<1>3. Alone(t) /\ pc'[t] = "draft" /\ job'[t] = [ev |-> None, id |-> c]
  <2>1. pc' = [pc EXCEPT ![t] = "draft"] /\ job' = [job EXCEPT ![t] = [ev |-> None, id |-> c]]
    BY DEF StartSuggest, Goto
  <2> QED BY <2>1, Moves DEF TInv
<1>4. ThreadOK(t)'
  BY <1>2, <1>3 DEF ThreadOK
<1>5. TablesOK' /\ Longer
  BY <1>1, SameTables, SMTT(30) DEF TInv, TablesOK
<1> QED BY <1>1, <1>3, <1>4, <1>5, SameMonitor, AloneT DEF TInv

LEMMA DraftT ==
  ASSUME TInv, NEW t \in Threads, Draft(t)
  PROVE  TInv'
<1>0. SUFFICES ASSUME NEW j, j = job[t] PROVE TInv'
  OBVIOUS
<1>1. /\ j \in [ev : {None}, id : Nat] /\ j.id \in 1..Len(clusters)
      /\ UNCHANGED <<window, ewma, ref, hits, run>> /\ UNCHANGED <<alerts, drift, indexed, clusters, now>>
  BY <1>0 DEF Draft, monitor, TInv, ThreadsOK, ThreadOK
<1>2. CASE drafts' = drafts \cup {j.id} /\ pc' = [pc EXCEPT ![t] = "mark"] /\ job' = job
  <2>1. Alone(t) /\ pc'[t] = "mark" /\ job'[t] = j
    BY <1>0, <1>2, MovesOn DEF TInv
  <2>2. ThreadOK(t)'
    BY <1>1, <2>1 DEF ThreadOK
  <2>3. \A i \in 1..Len(alerts) : RowOK(alerts[i])'
    BY <1>1 DEF TInv, TablesOK, RowOK
  <2>4. TablesOK'
    BY <1>1, <1>2, <2>3 DEF TInv, TablesOK
  <2>5. Longer
    BY <1>1 DEF Longer, TInv, TablesOK
  <2> QED BY <1>1, <2>1, <2>2, <2>4, <2>5, SameMonitor, AloneT DEF TInv
<1>3. CASE Finish(t) /\ drafts' = drafts
  BY <1>1, <1>3, SettlesT
<1> QED BY <1>0, <1>2, <1>3 DEF Draft, DraftFails, Goto

LEMMA MarkT ==
  ASSUME TInv, NEW t \in Threads, Mark(t)
  PROVE  TInv'
<1>0. SUFFICES ASSUME NEW i, i = job[t].id, NEW r, r = [clusters[i] EXCEPT !.status = "suggested"]
               PROVE  TInv'
  OBVIOUS
<1>1. /\ i \in 1..Len(clusters) /\ Finish(t)
      /\ UNCHANGED <<window, ewma, ref, hits, run>> /\ UNCHANGED <<alerts, drift, indexed, drafts, now>>
  BY <1>0 DEF Mark, monitor, TInv, ThreadsOK, ThreadOK
<1>2. CASE clusters' = clusters
  BY <1>1, <1>2, SettlesT
<1>3. CASE clusters' = [clusters EXCEPT ![i].status = "suggested"]
  <2>1. clusters[i] \in ClusterRow /\ clusters[i].count >= 1
    BY <1>1 DEF TInv, TablesOK
  <2>2. r \in ClusterRow /\ r.count >= 1
    BY <1>0, <2>1 DEF ClusterRow
  <2>3. Writes(clusters, clusters', r, i)
    BY <1>0, <1>1, <1>3 DEF Writes
  <2>4. TablesOK' /\ Longer
    BY <1>1, <2>2, <2>3, ClusterWritten
  <2>5. Alone(t) /\ ThreadOK(t)'
    BY <1>1, Settles DEF TInv
  <2> QED BY <1>1, <2>4, <2>5, SameMonitor, AloneT DEF TInv
<1> QED BY <1>0, <1>2, <1>3 DEF Mark
-----------------------------------------------------------------------------
(***************************************************************************)
(* ResourceDriftAgent.tick                                                 *)
(***************************************************************************)
LEMMA StartTickT ==
  ASSUME TInv, NEW t \in Threads, NEW o \in Observations, StartTick(t, o)
  PROVE  TInv'
<1>1. UNCHANGED <<window, ewma, ref, hits, run>> /\ UNCHANGED <<alerts, drift, indexed, clusters, drafts, now>>
  BY DEF StartTick, monitor, tables
<1>2. Alone(t) /\ pc'[t] = "index" /\ job'[t] = [ev |-> None, snap |-> o]
  <2>1. pc' = [pc EXCEPT ![t] = "index"] /\ job' = [job EXCEPT ![t] = [ev |-> None, snap |-> o]]
    BY DEF StartTick, Goto
  <2> QED BY <2>1, Moves DEF TInv
<1>3. ThreadOK(t)'
  BY <1>2 DEF ThreadOK
<1>4. TablesOK' /\ Longer
  BY <1>1, SameTables DEF TInv, TablesOK
<1> QED BY <1>1, <1>2, <1>3, <1>4, SameMonitor, AloneT DEF TInv

LEMMA IndexSnapT ==
  ASSUME TInv, NEW t \in Threads, IndexSnap(t)
  PROVE  TInv'
<1>0. SUFFICES ASSUME NEW o, o = job[t].snap, NEW d, d = Diff(Desired, o) PROVE TInv'
  OBVIOUS
<1>1. /\ o \in Observations /\ d \subseteq DOMAIN Desired
      /\ UNCHANGED <<window, ewma, ref, hits, run>> /\ UNCHANGED <<alerts, drift, clusters, drafts>>
  BY <1>0 DEF IndexSnap, monitor, TInv, ThreadsOK, ThreadOK, Diff
<1>2. CASE Finish(t) /\ UNCHANGED <<indexed, now>>
  BY <1>1, <1>2, SettlesT
<1>3. CASE /\ indexed' = indexed \cup {o} /\ now' = now + 1 /\ pc' = [pc EXCEPT ![t] = "write"]
           /\ job' = [job EXCEPT ![t] = [ev |-> None, snap |-> o, at |-> now', todo |-> d]]
  <2>0. SUFFICES ASSUME NEW n, n = now + 1 PROVE TInv'
    OBVIOUS
  <2>1. n \in Nat /\ now \in Nat /\ now' = n /\ now <= n /\ n <= n
    BY <1>3, <2>0 DEF TInv, TablesOK
  <2>2. Alone(t) /\ pc'[t] = "write" /\ job'[t] = [ev |-> None, snap |-> o, at |-> n, todo |-> d]
    BY <1>3, <2>1, Moves DEF TInv
  <2>3. ThreadOK(t)'
    BY <1>1, <2>1, <2>2 DEF ThreadOK
  <2>4. \A i \in 1..Len(alerts) : RowOK(alerts[i])'
    <3>1. ASSUME NEW i \in 1..Len(alerts) PROVE alerts[i].at \in Nat
      <4>1. alerts[i] \in AlertRow
        BY DEF TInv, TablesOK
      <4> QED BY <4>1 DEF AlertRow
    <3> QED BY <1>1, <2>1, <3>1 DEF TInv, TablesOK, RowOK
  <2>5. \A i \in 1..Len(drift) : drift[i].at <= n
    <3>1. ASSUME NEW i \in 1..Len(drift) PROVE drift[i].at \in Nat
      <4>1. drift[i] \in DriftRow
        BY DEF TInv, TablesOK
      <4> QED BY <4>1 DEF DriftRow
    <3> QED BY <2>1, <3>1 DEF TInv, TablesOK
  <2>6. TablesOK'
    BY <1>1, <1>3, <2>1, <2>4, <2>5 DEF TInv, TablesOK
  <2>7. Longer
    BY <1>1, <2>1 DEF Longer, TInv, TablesOK
  <2> QED BY <1>1, <2>2, <2>3, <2>6, <2>7, SameMonitor, AloneT DEF TInv
<1> QED BY <1>0, <1>2, <1>3 DEF IndexSnap, NotIndexed, Taken, Goto

LEMMA DriftWritten ==
  ASSUME TInv, UNCHANGED <<alerts, clusters, indexed, drafts, now>>,
         NEW r \in DriftRow, r.at <= now, drift' = Append(drift, r)
  PROVE  /\ TablesOK' /\ Longer /\ Len(drift') = Len(drift) + 1 /\ drift'[Len(drift')] = r
         /\ \A i \in 1..Len(drift) : drift'[i] = drift[i]
<1>1. drift \in Seq(DriftRow) /\ now \in Nat /\ Len(clusters) \in Nat /\ Len(alerts) \in Nat
      /\ Len(drift) \in Nat
  BY DEF TInv, TablesOK
<1>2. /\ drift' \in Seq(DriftRow) /\ Len(drift') = Len(drift) + 1 /\ drift'[Len(drift')] = r
      /\ \A i \in 1..Len(drift) : drift'[i] = drift[i]
  BY <1>1, AppendProperties
<1>3. \A i \in 1..Len(drift') : i \in 1..Len(drift) \/ i = Len(drift')
  BY <1>1, <1>2
<1>4. \A i \in 1..Len(drift') : drift'[i].at <= now
  BY <1>2, <1>3 DEF TInv, TablesOK
<1>5. \A i \in 1..Len(alerts) : RowOK(alerts[i])'
  <2>1. 1..Len(drift) \subseteq 1..Len(drift')
    BY <1>1, <1>2
  <2> QED BY <2>1 DEF TInv, TablesOK, RowOK
<1>6. TablesOK'
  BY <1>2, <1>4, <1>5 DEF TInv, TablesOK
<1> QED BY <1>1, <1>2, <1>6 DEF Longer

LEMMA WriteDriftT ==
  ASSUME TInv, NEW t \in Threads, WriteDrift(t)
  PROVE  TInv'
<1>0. SUFFICES ASSUME NEW j, j = job[t], NEW x, x = CHOOSE y \in j.todo : TRUE, NEW left, left = j.todo \ {x},
                      NEW r, r = [tenant |-> DefaultTenant, key |-> x, snap |-> j.snap, at |-> j.at]
               PROVE  TInv'
  OBVIOUS
<1>1. /\ j \in [ev : {None}, snap : Observations, at : Nat, todo : SUBSET DOMAIN Desired] /\ j.at <= now
      /\ UNCHANGED <<window, ewma, ref, hits, run>> /\ UNCHANGED <<alerts, indexed, clusters, drafts, now>>
      /\ pc[t] = "write"
  BY <1>0 DEF WriteDrift, monitor, TInv, ThreadsOK, ThreadOK
<1>2. CASE Finish(t) /\ drift' = drift
  BY <1>1, <1>2, SettlesT
<1>3. CASE /\ j.todo # {} /\ drift' = Append(drift, r)
           /\ \/ Finish(t)
              \/ job' = [job EXCEPT ![t].todo = left] /\ pc' = pc
  <2>1. x \in DOMAIN Desired /\ left \subseteq DOMAIN Desired
    BY <1>0, <1>1, <1>3
  <2>2. r \in DriftRow /\ r.at <= now
    BY <1>0, <1>1, <2>1 DEF DriftRow
  <2>3. TablesOK' /\ Longer
    BY <1>1, <1>3, <2>2, DriftWritten
  <2>4. Alone(t) /\ ThreadOK(t)'
    <3>1. CASE Finish(t)
      BY <3>1, Settles DEF TInv
    <3>2. CASE job' = [job EXCEPT ![t].todo = left] /\ pc' = pc
      <4>0. SUFFICES ASSUME NEW y, y = [j EXCEPT !.todo = left] PROVE Alone(t) /\ ThreadOK(t)'
        OBVIOUS
      <4>1. job' = [job EXCEPT ![t] = y] /\ pc' = [pc EXCEPT ![t] = "write"]
        BY <1>0, <1>1, <3>2, <4>0 DEF TInv, ThreadsOK
      <4>2. Alone(t) /\ pc'[t] = "write" /\ job'[t] = y
        BY <4>1, Moves DEF TInv
      <4>3. y \in [ev : {None}, snap : Observations, at : Nat, todo : SUBSET DOMAIN Desired] /\ y.at = j.at
        BY <1>1, <2>1, <4>0
      <4> QED BY <1>1, <4>2, <4>3 DEF ThreadOK
    <3> QED BY <1>3, <3>1, <3>2
  <2> QED BY <1>1, <2>3, <2>4, SameMonitor, AloneT DEF TInv
<1> QED BY <1>0, <1>2, <1>3 DEF WriteDrift
-----------------------------------------------------------------------------
(***************************************************************************)
(* A process is restarted: its threads are idle, its monitor is new.       *)
(***************************************************************************)
LEMMA RestartT ==
  ASSUME TInv, NEW p \in Processes, Restart(p)
  PROVE  TInv'
<1>1. UNCHANGED <<alerts, drift, indexed, clusters, drafts, now>>
  BY DEF Restart, tables
<1>2. TablesOK' /\ Longer
  BY <1>1, SameTables DEF TInv, TablesOK
<1>3. MonitorOK'
  <2>1. /\ [k \in Keys |-> Fresh] \in [Keys -> Windows(Window - 1)]
        /\ [k \in Keys |-> None] \in [Keys -> 0..100 \cup {None}]
        /\ [k \in Keys |-> None] \in [Keys -> Reference \cup {None}]
        /\ [k \in Keys |-> 0] \in [Keys -> Nat]
    BY FreshOK
  <2> QED BY <2>1 DEF Restart, TInv, MonitorOK
<1>4. pc' = [u \in Threads |-> pc'[u]] /\ job' = [u \in Threads |-> job'[u]]
  BY DEF Restart
<1>5. ASSUME NEW u \in Threads PROVE ThreadOK(u)'
  <2>1. CASE Home[u] = p
    BY <2>1 DEF Restart, ThreadOK
  <2>2. CASE Home[u] # p
    <3>1. ThreadOK(u) /\ pc'[u] = pc[u] /\ job'[u] = job[u]
      BY <2>2 DEF Restart, TInv, ThreadsOK
    <3> QED BY <1>1, <3>1 DEF ThreadOK, RowOK
  <2> QED BY <2>1, <2>2
<1> QED BY <1>2, <1>3, <1>4, <1>5 DEF TInv, ThreadsOK

LEMMA StepT ==
  ASSUME TInv, NEW t \in Threads, Step(t)
  PROVE  TInv'
BY EvaluateT, CaptureT, JudgeT, CheckT, AlertT, DegradeT, CorrelateT, ExplainT, FindT, UpsertT,
   DraftT, MarkT, IndexSnapT, WriteDriftT DEF Step

LEMMA NextT == TInv /\ [Next]_vars => TInv'
<1> SUFFICES ASSUME TInv, [Next]_vars PROVE TInv'
  OBVIOUS
<1>1. CASE Next
  BY <1>1, RestartT, ObserveT, StartSuggestT, StartTickT, StepT DEF Next
<1>2. CASE UNCHANGED vars
  <2>1. UNCHANGED <<window, ewma, ref, hits, run>> /\ UNCHANGED <<alerts, drift, indexed, clusters, drafts, now>>
        /\ UNCHANGED <<pc, job>>
    BY <1>2 DEF vars, monitor, tables
  <2>2. TablesOK' /\ MonitorOK'
    BY <2>1, SameTables, SameMonitor DEF TInv, TablesOK
  <2>3. ThreadsOK'
    BY <2>1 DEF TInv, ThreadsOK, ThreadOK, RowOK
  <2> QED BY <2>2, <2>3 DEF TInv
<1> QED BY <1>1, <1>2

LEMMA TInvAlways == Spec => []TInv
BY InitT, NextT, PTL DEF Spec

\* Every variable holds a value of its kind: an open window is never full, the
\* mean that a reference or an alert is judged by is a confidence, no row of a
\* table precedes what it refers to, and a call in hand has what its step needs.
THEOREM DetectionTypeOK == Spec => []TypeOK
BY TInvAlways, TInvType, PTL
-----------------------------------------------------------------------------
(***************************************************************************)
(* Where each step leads                                                   *)
(***************************************************************************)
Ends == {"idle", "find"}
Turn(t, S) == Alone(t) /\ pc'[t] \in S

LEMMA TurnTo ==
  ASSUME ThreadsOK, NEW t \in Threads, NEW S, NEW x \in S, Goto(t, x),
         job' = job \/ \E y : job' = [job EXCEPT ![t] = y]
  PROVE  Turn(t, S)
<1>1. CASE job' = job
  BY <1>1, MovesOn DEF Goto, Turn
<1>2. ASSUME NEW y, job' = [job EXCEPT ![t] = y] PROVE Turn(t, S)
  BY <1>2, Moves DEF Goto, Turn
<1> QED BY <1>1, <1>2

LEMMA TurnEnds ==
  ASSUME ThreadsOK, NEW t \in Threads, NEW S
  PROVE  /\ Finish(t) /\ "idle" \in S => Turn(t, S)
         /\ Ends \subseteq S => \A e \in Events : Observed(t, e) => Turn(t, S)
<1>1. Finish(t) \/ (\E e \in Events : Observed(t, e)) => Alone(t) /\ Settled(t)
  BY Settles
<1>2. Finish(t) => pc'[t] = "idle"
  BY DEF Finish, Goto, ThreadsOK
<1> QED BY <1>1, <1>2 DEF Turn, Ends, Settled

\* The monitor's steps.
LEMMA MonitorTurns ==
  ASSUME TInv, NEW t \in Threads
  PROVE  /\ \A e \in Traffic[t] : Observe(t, e) => Turn(t, Ends \cup {"evaluate"})
         /\ Evaluate(t) => Turn(t, {"capture", "judge"})
         /\ Capture(t) => Turn(t, Ends)
         /\ Judge(t) => Turn(t, Ends \cup {"check"})
         /\ Check(t) => Turn(t, Ends \cup {"alert"})
<1>1. ThreadsOK /\ Traffic[t] \subseteq Events
  BY DetectionAssumption DEF TInv
<1>2. pc[t] \in Evaluating => Ev(t) \in Events
  BY DEF TInv, ThreadsOK, ThreadOK, Evaluating, Ev
<1>3. ASSUME NEW e \in Traffic[t], Observe(t, e) PROVE Turn(t, Ends \cup {"evaluate"})
  <2>1. \/ Observed(t, e)
        \/ Goto(t, "evaluate") /\ \E y : job' = [job EXCEPT ![t] = y]
    BY <1>3 DEF Observe
  <2> QED BY <1>1, <2>1, TurnTo, TurnEnds
<1>4. Evaluate(t) => Turn(t, {"capture", "judge"})
  BY <1>1, TurnTo DEF Evaluate
<1>5. Capture(t) => Turn(t, Ends)
  BY <1>1, <1>2, TurnEnds DEF Capture, Evaluating
<1>6. Judge(t) => Turn(t, Ends \cup {"check"})
  BY <1>1, <1>2, TurnTo, TurnEnds DEF Judge, Evaluating
<1>7. Check(t) => Turn(t, Ends \cup {"alert"})
  <2>1. Check(t) => \/ Observed(t, Ev(t))
                    \/ Goto(t, "alert") /\ \E y : job' = [job EXCEPT ![t] = y]
    BY DEF Check
  <2>2. Check(t) => Ev(t) \in Events
    BY <1>2 DEF Check, Evaluating
  <2> QED BY <1>1, <2>1, <2>2, TurnTo, TurnEnds
<1> QED BY <1>3, <1>4, <1>5, <1>6, <1>7

\* The steps of an alert.
LEMMA AlertTurns ==
  ASSUME TInv, NEW t \in Threads
  PROVE  /\ Alert(t) => Turn(t, Ends \cup {"degrade"})
         /\ Degrade(t) => Turn(t, Ends \cup {"correlate"})
         /\ Correlate(t) => Turn(t, Ends \cup {"explain"})
         /\ Explain(t) => Turn(t, Ends)
<1>1. ThreadsOK
  BY DEF TInv
<1>2. pc[t] \in {"alert", "degrade", "correlate", "explain"} => Ev(t) \in Events
  BY DEF TInv, ThreadsOK, ThreadOK, Ev
<1>3. Alert(t) => Turn(t, Ends \cup {"degrade"})
  BY <1>1, <1>2, TurnTo, TurnEnds DEF Alert
<1>4. Degrade(t) => Turn(t, Ends \cup {"correlate"})
  BY <1>1, <1>2, TurnTo, TurnEnds DEF Degrade
<1>5. Correlate(t) => Turn(t, Ends \cup {"explain"})
  <2>1. ASSUME NEW X, NEW n, job' = [job EXCEPT ![t].row.explained = X, ![t].row.asked = n]
        PROVE  \E y : job' = [job EXCEPT ![t] = y]
    BY <2>1
  <2>2. Correlate(t) => \/ Observed(t, Ev(t)) /\ Ev(t) \in Events
                        \/ Goto(t, "explain") /\ \E y : job' = [job EXCEPT ![t] = y]
    BY <1>2, <2>1 DEF Correlate
  <2> QED BY <1>1, <2>2, TurnTo, TurnEnds
<1>6. Explain(t) => Turn(t, Ends)
  BY <1>1, <1>2, TurnEnds DEF Explain
<1> QED BY <1>3, <1>4, <1>5, <1>6

\* The steps of the registry, of a suggestion and of a tick.
LEMMA TableTurns ==
  ASSUME TInv, NEW t \in Threads
  PROVE  /\ Find(t) => Turn(t, {"idle", "upsert"})
         /\ Upsert(t) => Turn(t, {"idle"})
         /\ \A c : StartSuggest(t, c) => Turn(t, {"draft"})
         /\ Draft(t) => Turn(t, {"idle", "mark"})
         /\ Mark(t) => Turn(t, {"idle"})
         /\ \A o : StartTick(t, o) => Turn(t, {"index"})
         /\ IndexSnap(t) => Turn(t, {"idle", "write"})
         /\ WriteDrift(t) => Turn(t, {"idle", "write"})
<1>1. ThreadsOK
  BY DEF TInv
<1>2. Find(t) => Turn(t, {"idle", "upsert"})
  <2>1. Find(t) => Finish(t) \/ (Goto(t, "upsert") /\ \E y : job' = [job EXCEPT ![t] = y])
    BY DEF Find
  <2> QED BY <1>1, <2>1, TurnTo, TurnEnds
<1>3. (Upsert(t) => Turn(t, {"idle"})) /\ (Mark(t) => Turn(t, {"idle"}))
  BY <1>1, TurnEnds DEF Upsert, Mark
<1>4. (\A c : StartSuggest(t, c) => Turn(t, {"draft"})) /\ (\A o : StartTick(t, o) => Turn(t, {"index"}))
  BY <1>1, TurnTo DEF StartSuggest, StartTick
<1>5. Draft(t) => Turn(t, {"idle", "mark"})
  BY <1>1, TurnTo, TurnEnds DEF Draft, DraftFails
<1>6. IndexSnap(t) => Turn(t, {"idle", "write"})
  BY <1>1, TurnTo, TurnEnds DEF IndexSnap, NotIndexed, Taken
<1>7. WriteDrift(t) => Turn(t, {"idle", "write"})
  <2>1. ASSUME NEW S, job' = [job EXCEPT ![t].todo = S]
        PROVE  \E y : job' = [job EXCEPT ![t] = y]
    BY <2>1
  <2>2. ASSUME WriteDrift(t), pc' = pc
        PROVE  Goto(t, "write")
    BY <2>2, <1>1 DEF WriteDrift, Goto, ThreadsOK
  <2>3. WriteDrift(t) => \/ Finish(t)
                         \/ pc' = pc /\ \E y : job' = [job EXCEPT ![t] = y]
    BY <2>1 DEF WriteDrift
  <2> QED BY <1>1, <2>2, <2>3, TurnTo, TurnEnds
<1> QED BY <1>2, <1>3, <1>4, <1>5, <1>6, <1>7
-----------------------------------------------------------------------------
(***************************************************************************)
(* Every resource drift event has its evidence                             *)
(*                                                                         *)
(* A tick that writes differences has its snapshot in the index, and those *)
(* it has still to write are differences of that snapshot.                 *)
(***************************************************************************)
Ticking ==
  \A t \in Threads : pc[t] = "write" =>
    job[t].snap \in indexed /\ job[t].todo \subseteq Diff(Desired, job[t].snap)

EvidenceInv == DriftEvidence /\ Ticking

LEMMA EvidenceStays ==
  ASSUME EvidenceInv, UNCHANGED <<drift, indexed>>,
         \A u \in Threads : pc'[u] = "write" => pc[u] = "write" /\ job'[u] = job[u]
  PROVE  EvidenceInv'
BY DEF EvidenceInv, DriftEvidence, Ticking, Diff

LEMMA IndexSnapE ==
  ASSUME TInv, EvidenceInv, NEW t \in Threads, IndexSnap(t)
  PROVE  EvidenceInv'
<1>0. SUFFICES ASSUME NEW o, o = job[t].snap, NEW d, d = Diff(Desired, o) PROVE EvidenceInv'
  OBVIOUS
<1>1. Alone(t) /\ pc'[t] \in {"idle", "write"}
  BY TableTurns DEF Turn
<1>2. CASE Finish(t) /\ UNCHANGED <<drift, indexed>>
  <2>1. pc'[t] = "idle"
    BY <1>2 DEF Finish, Goto, TInv, ThreadsOK
  <2> QED BY <1>1, <1>2, <2>1, EvidenceStays DEF Alone
<1>3. CASE /\ indexed' = indexed \cup {o} /\ UNCHANGED drift
           /\ job' = [job EXCEPT ![t] = [ev |-> None, snap |-> o, at |-> now', todo |-> d]]
  <2>1. job'[t].snap = o /\ job'[t].todo = d
    BY <1>3 DEF TInv, ThreadsOK
  <2>2. \A u \in Threads \ {t} : pc'[u] = pc[u] /\ job'[u] = job[u]
    BY <1>1 DEF Alone
  <2>3. Ticking'
    BY <1>0, <1>3, <2>1, <2>2 DEF EvidenceInv, Ticking, Diff
  <2>4. DriftEvidence'
    BY <1>3 DEF EvidenceInv, DriftEvidence, Diff
  <2> QED BY <2>3, <2>4 DEF EvidenceInv
<1> QED BY <1>0, <1>2, <1>3 DEF IndexSnap, NotIndexed, Taken

LEMMA WriteDriftE ==
  ASSUME TInv, EvidenceInv, NEW t \in Threads, WriteDrift(t)
  PROVE  EvidenceInv'
<1>0. SUFFICES ASSUME NEW j, j = job[t], NEW x, x = CHOOSE y \in j.todo : TRUE, NEW left, left = j.todo \ {x},
                      NEW r, r = [tenant |-> DefaultTenant, key |-> x, snap |-> j.snap, at |-> j.at]
               PROVE  EvidenceInv'
  OBVIOUS
<1>1. Alone(t) /\ indexed' = indexed /\ j.snap \in indexed /\ j.todo \subseteq Diff(Desired, j.snap)
  BY <1>0, TableTurns DEF Turn, WriteDrift, EvidenceInv, Ticking
<1>2. CASE drift' = drift /\ Finish(t)
  <2>1. pc'[t] = "idle"
    BY <1>2 DEF Finish, Goto, TInv, ThreadsOK
  <2> QED BY <1>1, <1>2, <2>1, EvidenceStays DEF Alone
<1>3. CASE /\ j.todo # {} /\ drift' = Append(drift, r)
           /\ Finish(t) \/ job' = [job EXCEPT ![t].todo = left]
  <2>1. x \in Diff(Desired, j.snap) /\ left \subseteq Diff(Desired, j.snap)
    BY <1>0, <1>1, <1>3
  <2>2. DriftEvidence'
    <3>1. /\ Len(drift') = Len(drift) + 1 /\ drift'[Len(drift) + 1] = r /\ Len(drift) \in Nat
          /\ DOMAIN drift = 1..Len(drift) /\ DOMAIN drift' = 1..Len(drift')
          /\ \A i \in 1..Len(drift) : drift'[i] = drift[i]
      BY <1>3, AppendProperties DEF TInv, TablesOK
    <3>2. ASSUME NEW i \in DOMAIN drift'
          PROVE  drift'[i].snap \in indexed' /\ drift'[i].key \in Diff(Desired, drift'[i].snap)
      <4>1. CASE i \in 1..Len(drift)
        BY <1>1, <3>1, <4>1 DEF EvidenceInv, DriftEvidence
      <4>2. CASE i = Len(drift) + 1
        <5>1. drift'[i] = r /\ r.snap = j.snap /\ r.key = x
          BY <1>0, <3>1, <4>2
        <5> QED BY <1>1, <2>1, <5>1
      <4> QED BY <3>1, <4>1, <4>2
    <3> QED BY <3>2 DEF DriftEvidence, Diff
  <2>3. Ticking'
    <3>1. pc'[t] = "write" => job'[t].snap = j.snap /\ job'[t].todo = left
      <4>1. CASE Finish(t)
        BY <4>1 DEF Finish, Goto, TInv, ThreadsOK
      <4>2. CASE job' = [job EXCEPT ![t].todo = left]
        <5>1. pc[t] = "write"
          BY DEF WriteDrift
        <5>2. j \in [ev : {None}, snap : Observations, at : Nat, todo : SUBSET DOMAIN Desired]
          BY <1>0, <5>1 DEF TInv, ThreadsOK, ThreadOK
        <5>3. job'[t] = [j EXCEPT !.todo = left]
          BY <1>0, <4>2 DEF TInv, ThreadsOK
        <5> QED BY <5>2, <5>3
      <4> QED BY <1>3, <4>1, <4>2
    <3>2. \A u \in Threads \ {t} : pc'[u] = pc[u] /\ job'[u] = job[u]
      BY <1>1 DEF Alone
    <3> QED BY <1>1, <2>1, <3>1, <3>2 DEF EvidenceInv, Ticking, Diff
  <2> QED BY <2>2, <2>3 DEF EvidenceInv
<1> QED BY <1>0, <1>2, <1>3 DEF WriteDrift

\* The other steps write no drift, and no tick writes after them that did not
\* before.
LEMMA StepE ==
  ASSUME TInv, EvidenceInv, NEW t \in Threads, Step(t)
  PROVE  EvidenceInv'
<1>1. CASE Evaluate(t) \/ Capture(t) \/ Judge(t) \/ Check(t)
  BY <1>1, MonitorTurns, EvidenceStays
     DEF Turn, Alone, Ends, Evaluate, Capture, Judge, Check, tables
<1>2. CASE Alert(t) \/ Degrade(t) \/ Correlate(t) \/ Explain(t)
  BY <1>2, AlertTurns, EvidenceStays DEF Turn, Alone, Ends, Alert, Degrade, Correlate, Explain, tables
<1>3. CASE Find(t) \/ Upsert(t) \/ Draft(t) \/ Mark(t)
  BY <1>3, TableTurns, EvidenceStays DEF Turn, Alone, Find, Upsert, Draft, Mark
<1> QED BY <1>1, <1>2, <1>3, IndexSnapE, WriteDriftE DEF Step

LEMMA NextE == TInv /\ EvidenceInv /\ [Next]_vars => EvidenceInv'
<1> SUFFICES ASSUME TInv, EvidenceInv, [Next]_vars PROVE EvidenceInv'
  OBVIOUS
<1>1. ASSUME NEW p \in Processes, Restart(p) PROVE EvidenceInv'
  BY <1>1, EvidenceStays DEF Restart, tables
<1>2. ASSUME NEW t \in Threads, NEW e \in Traffic[t], Observe(t, e) PROVE EvidenceInv'
  BY <1>2, MonitorTurns, EvidenceStays DEF Turn, Alone, Ends, Observe, tables
<1>3. ASSUME NEW t \in Threads, NEW c, StartSuggest(t, c) \/ StartTick(t, c) PROVE EvidenceInv'
  BY <1>3, TableTurns, EvidenceStays DEF Turn, Alone, StartSuggest, StartTick, tables
<1>4. CASE UNCHANGED vars
  BY <1>4, EvidenceStays DEF vars, tables
<1> QED BY <1>1, <1>2, <1>3, <1>4, StepE DEF Next

\* A drift event names a snapshot that can be looked up and that does differ in
\* the event's setting, wherever a tick is cut off.
THEOREM DriftHasEvidence == Spec => []DriftEvidence
<1>1. Init => EvidenceInv
  BY DEF Init, EvidenceInv, DriftEvidence, Ticking
<1>2. EvidenceInv => DriftEvidence
  BY DEF EvidenceInv
<1> QED BY <1>1, <1>2, TInvAlways, NextE, PTL DEF Spec
-----------------------------------------------------------------------------
(***************************************************************************)
(* A cluster that says "suggested" has a draft                             *)
(*                                                                         *)
(* So has a cluster that somebody is about to say it of, and a row that    *)
(* somebody read and is about to write back.                               *)
(***************************************************************************)
Suggesting ==
  \A t \in Threads :
    /\ pc[t] = "mark" => job[t].id \in drafts
    /\ pc[t] = "upsert" /\ job[t].row.status = "suggested" => job[t].id \in drafts

DraftInv == SuggestedHasDraft /\ Suggesting

LEMMA DraftStays ==
  ASSUME DraftInv, UNCHANGED clusters, drafts \subseteq drafts',
         \A u \in Threads : pc'[u] \in {"mark", "upsert"} => pc[u] = pc'[u] /\ job'[u] = job[u]
  PROVE  DraftInv'
BY DEF DraftInv, SuggestedHasDraft, Suggesting

LEMMA FindD ==
  ASSUME TInv, DraftInv, NEW t \in Threads, Find(t)
  PROVE  DraftInv'
<1>0. SUFFICES ASSUME NEW e, e = job[t].ev PROVE DraftInv'
  OBVIOUS
<1>1. Alone(t) /\ UNCHANGED <<clusters, drafts>>
  BY TableTurns DEF Turn, Find
<1>2. ASSUME NEW i, NEW row, row.status = "suggested" => i \in drafts,
             pc' = [pc EXCEPT ![t] = "upsert"], job' = [job EXCEPT ![t] = [ev |-> e, id |-> i, row |-> row]]
      PROVE  DraftInv'
  <2>1. pc'[t] = "upsert" /\ job'[t].id = i /\ job'[t].row = row
    BY <1>2 DEF TInv, ThreadsOK
  <2> QED BY <1>1, <1>2, <2>1 DEF Alone, DraftInv, SuggestedHasDraft, Suggesting
<1>3. CASE Finish(t)
  <2>1. pc'[t] = "idle"
    BY <1>3 DEF Finish, Goto, TInv, ThreadsOK
  <2> QED BY <1>1, <2>1, DraftStays DEF Alone
<1>4. \A i \in DOMAIN clusters : clusters[i].status = "suggested" => i \in drafts
  BY DEF DraftInv, SuggestedHasDraft
<1>5. [tenant |-> e.tenant, source |-> e.source, family |-> e.family,
       count |-> 0, status |-> "open", templates |-> {}].status # "suggested"
  OBVIOUS
<1> QED BY <1>0, <1>2, <1>3, <1>4, <1>5 DEF Find, Ev, Goto

LEMMA UpsertD ==
  ASSUME TInv, DraftInv, NEW t \in Threads, Upsert(t)
  PROVE  DraftInv'
<1>0. SUFFICES ASSUME NEW j, j = job[t], NEW r, r = Joined(j.row, j.ev) PROVE DraftInv'
  OBVIOUS
<1>1. /\ j \in [ev : Events, id : Nat \cup {None}, row : ClusterRow]
      /\ j.id # None => j.id \in 1..Len(clusters)
      /\ j.row.status = "suggested" => j.id \in drafts
      /\ Alone(t) /\ pc'[t] = "idle" /\ drafts' = drafts
  BY <1>0, TableTurns DEF Upsert, Turn, TInv, ThreadsOK, ThreadOK, DraftInv, Suggesting
<1>2. CASE clusters' = clusters
  BY <1>1, <1>2, DraftStays DEF Alone
<1>3. ASSUME NEW i, Writes(clusters, clusters', r, i), j.id \in drafts => i = j.id
      PROVE  DraftInv'
  <2>1. r.status = j.row.status /\ r \in ClusterRow
    BY <1>0, <1>1, JoinedOK
  <2>2. /\ DOMAIN clusters' = 1..Len(clusters') /\ clusters'[i] = r
        /\ \A k \in 1..Len(clusters') : k # i => k \in 1..Len(clusters) /\ clusters'[k] = clusters[k]
    BY <1>3, <2>1, WriteRow DEF TInv, TablesOK
  <2>3. SuggestedHasDraft'
    BY <1>1, <1>3, <2>1, <2>2 DEF DraftInv, SuggestedHasDraft, TInv, TablesOK
  <2>4. Suggesting'
    BY <1>1 DEF Alone, DraftInv, Suggesting
  <2> QED BY <2>3, <2>4 DEF DraftInv
<1>4. CASE clusters' = Append(clusters, r) /\ j.id = None
  <2>1. j.id \notin drafts
    <3>1. drafts \subseteq 1..Len(clusters) /\ Len(clusters) \in Nat
      BY DEF TInv, TablesOK
    <3>2. drafts \subseteq Nat
      BY <3>1
    <3> QED BY <1>4, <3>2, DetectionAssumption
  <2>2. Writes(clusters, clusters', r, Len(clusters) + 1)
    BY <1>4 DEF Writes
  <2> QED BY <1>3, <2>1, <2>2
<1>5. CASE clusters' = [clusters EXCEPT ![j.id] = r] /\ j.id # None
  <2>1. Writes(clusters, clusters', r, j.id)
    BY <1>1, <1>5 DEF Writes
  <2> QED BY <1>3, <2>1
<1> QED BY <1>0, <1>2, <1>4, <1>5 DEF Upsert, Ev

LEMMA DraftD ==
  ASSUME TInv, DraftInv, NEW t \in Threads, Draft(t)
  PROVE  DraftInv'
<1>1. Alone(t) /\ pc'[t] \in {"idle", "mark"} /\ UNCHANGED clusters /\ drafts \subseteq drafts'
  BY TableTurns DEF Draft, DraftFails, Turn
<1>2. pc'[t] = "mark" => job'[t].id \in drafts'
  BY DEF Draft, DraftFails, Goto, Finish, TInv, ThreadsOK
<1> QED BY <1>1, <1>2 DEF Alone, DraftInv, SuggestedHasDraft, Suggesting

LEMMA MarkD ==
  ASSUME TInv, DraftInv, NEW t \in Threads, Mark(t)
  PROVE  DraftInv'
<1>1. Alone(t) /\ pc'[t] = "idle" /\ drafts' = drafts /\ job[t].id \in drafts
  BY TableTurns DEF Mark, Turn, DraftInv, Suggesting
<1>2. DOMAIN clusters' = DOMAIN clusters /\ \A i \in DOMAIN clusters : i # job[t].id => clusters'[i] = clusters[i]
  BY DEF Mark
<1>3. SuggestedHasDraft'
  BY <1>1, <1>2 DEF DraftInv, SuggestedHasDraft
<1> QED BY <1>1, <1>3 DEF Alone, DraftInv, Suggesting

LEMMA StepD ==
  ASSUME TInv, DraftInv, NEW t \in Threads, Step(t)
  PROVE  DraftInv'
<1>1. CASE Evaluate(t) \/ Capture(t) \/ Judge(t) \/ Check(t)
  BY <1>1, MonitorTurns, DraftStays
     DEF Turn, Alone, Ends, Evaluate, Capture, Judge, Check, tables
<1>2. CASE Alert(t) \/ Degrade(t) \/ Correlate(t) \/ Explain(t)
  BY <1>2, AlertTurns, DraftStays DEF Turn, Alone, Ends, Alert, Degrade, Correlate, Explain, tables
<1>3. CASE IndexSnap(t) \/ WriteDrift(t)
  BY <1>3, TableTurns, DraftStays DEF Turn, Alone, IndexSnap, WriteDrift
<1> QED BY <1>1, <1>2, <1>3, FindD, UpsertD, DraftD, MarkD DEF Step

LEMMA NextD == TInv /\ DraftInv /\ [Next]_vars => DraftInv'
<1> SUFFICES ASSUME TInv, DraftInv, [Next]_vars PROVE DraftInv'
  OBVIOUS
<1>1. ASSUME NEW p \in Processes, Restart(p) PROVE DraftInv'
  BY <1>1, DraftStays DEF Restart, tables
<1>2. ASSUME NEW t \in Threads, NEW e \in Traffic[t], Observe(t, e) PROVE DraftInv'
  BY <1>2, MonitorTurns, DraftStays DEF Turn, Alone, Ends, Observe, tables
<1>3. ASSUME NEW t \in Threads, NEW c, StartSuggest(t, c) \/ StartTick(t, c) PROVE DraftInv'
  BY <1>3, TableTurns, DraftStays DEF Turn, Alone, StartSuggest, StartTick, tables
<1>4. CASE UNCHANGED vars
  BY <1>4, DraftStays DEF vars, tables
<1> QED BY <1>1, <1>2, <1>3, <1>4, StepD DEF Next

\* No cluster says "suggested" without a draft, although a registry may write
\* back a row that it read before the cluster was marked, and a failing call may
\* end any suggestion.
THEOREM SuggestedIsDrafted == Spec => []SuggestedHasDraft
<1>1. Init => DraftInv
  BY DEF Init, DraftInv, SuggestedHasDraft, Suggesting
<1>2. DraftInv => SuggestedHasDraft
  BY DEF DraftInv
<1> QED BY <1>1, <1>2, TInvAlways, NextD, PTL DEF Spec
-----------------------------------------------------------------------------
(***************************************************************************)
(* A window is evaluated alone, or it raced                                *)
(*                                                                         *)
(* Of a key that did not race, one thread at most evaluates a window; the  *)
(* reference it captures was not captured yet; and the run is short of the *)
(* alert unless that thread is about to look at it.                        *)
(***************************************************************************)
At(t, p, k, S) == Home[t] = p /\ pc[t] \in S /\ \E e \in Events : job[t].ev = e /\ Key(e) = k

SlotOK(p, k) ==
  /\ hits[p][k] = run[p][k]
  /\ \/ <<p, k>> \in raced
     \/ /\ \A t, u \in Threads : At(t, p, k, Evaluating) /\ At(u, p, k, Evaluating) => t = u
        /\ \A t \in Threads : At(t, p, k, {"capture"}) => ref[p][k] = None
        /\ \/ run[p][k] < Required
           \/ run[p][k] = Required /\ \E t \in Threads : At(t, p, k, {"check"})

EvalInv == \A p \in Processes, k \in Keys : SlotOK(p, k)

\* The steps of an alert, and an alert that had its windows in a row.
Alerting == {"alert", "degrade", "correlate", "explain"}
Sustained(a) == a.raced \/ a.run = Required

LEMMA AtAlone ==
  ASSUME NEW t \in Threads, Alone(t), NEW u \in Threads \ {t}, NEW p, NEW k, NEW S
  PROVE  At(u, p, k, S)' <=> At(u, p, k, S)
BY DEF Alone, At

LEMMA AtOwn ==
  ASSUME TInv, NEW t \in Threads, pc[t] \in Evaluating, NEW e, e = job[t].ev
  PROVE  /\ e \in Events /\ Home[t] \in Processes /\ Key(e) \in Keys
         /\ \A q, l, S : At(t, q, l, S) <=> q = Home[t] /\ l = Key(e) /\ pc[t] \in S
<1>1. e \in Events
  BY DEF TInv, ThreadsOK, ThreadOK, Evaluating
<1> QED BY <1>1, DetectionAssumption DEF At, Keys

LEMMA SlotStays ==
  ASSUME NEW p, NEW k, SlotOK(p, k),
         ref'[p][k] = ref[p][k], hits'[p][k] = hits[p][k], run'[p][k] = run[p][k],
         <<p, k>> \in raced => <<p, k>> \in raced',
         \A u \in Threads : At(u, p, k, Evaluating)' => At(u, p, k, Evaluating),
         \A u \in Threads : At(u, p, k, {"capture"})' => At(u, p, k, {"capture"}),
         \A u \in Threads : At(u, p, k, {"check"}) => At(u, p, k, {"check"})'
  PROVE  SlotOK(p, k)'
BY DEF SlotOK

\* A thread that evaluates a window alone.
LEMMA Sole ==
  ASSUME NEW p, NEW k, SlotOK(p, k), <<p, k>> \notin raced, NEW t \in Threads, At(t, p, k, Evaluating)
  PROVE  /\ \A u \in Threads \ {t} : ~At(u, p, k, Evaluating)
         /\ run[p][k] < Required \/ (run[p][k] = Required /\ pc[t] = "check")
<1>1. \A u \in Threads \ {t} : ~At(u, p, k, Evaluating)
  BY DEF SlotOK
<1>2. \A u \in Threads : At(u, p, k, {"check"}) => At(u, p, k, Evaluating) /\ pc[u] = "check"
  BY DEF At, Evaluating
<1> QED BY <1>1, <1>2 DEF SlotOK

\* A step of a thread that evaluates nothing.
LEMMA OthersStay ==
  ASSUME EvalInv, NEW t \in Threads, Alone(t), pc[t] \notin Evaluating, pc'[t] \notin Evaluating,
         UNCHANGED <<ref, hits, run, raced>>
  PROVE  EvalInv'
<1> SUFFICES ASSUME NEW p \in Processes, NEW k \in Keys PROVE SlotOK(p, k)'
  BY DEF EvalInv
<1>1. ASSUME NEW u \in Threads, NEW S \in SUBSET Evaluating PROVE At(u, p, k, S)' <=> At(u, p, k, S)
  <2>1. CASE u = t
    BY <2>1 DEF At
  <2>2. CASE u # t
    BY <2>2, AtAlone
  <2> QED BY <2>1, <2>2
<1>2. {"capture"} \in SUBSET Evaluating /\ {"check"} \in SUBSET Evaluating /\ Evaluating \in SUBSET Evaluating
  BY DEF Evaluating
<1>3. SlotOK(p, k)
  BY DEF EvalInv
<1> QED BY <1>1, <1>2, <1>3, SlotStays

\* A step of a thread that does: of the other keys nothing changes.
Elsewhere(p, k) ==
  \A q \in Processes, l \in Keys : q # p \/ l # k =>
    ref'[q][l] = ref[q][l] /\ hits'[q][l] = hits[q][l] /\ run'[q][l] = run[q][l]

LEMMA OwnSlot ==
  ASSUME TInv, EvalInv, NEW t \in Threads, Alone(t), raced' = raced, pc[t] \in Evaluating,
         NEW p, p = Home[t], NEW e, e = job[t].ev, NEW k, k = Key(e),
         pc'[t] \in Evaluating => job'[t].ev = e, Elsewhere(p, k),
         hits'[p][k] = run'[p][k],
         <<p, k>> \notin raced /\ pc'[t] = "capture" => ref'[p][k] = None,
         <<p, k>> \notin raced => \/ run'[p][k] < Required
                                  \/ run'[p][k] = Required /\ pc'[t] = "check"
  PROVE  EvalInv'
<1>1. /\ e \in Events /\ p \in Processes /\ k \in Keys
      /\ \A q, l, S : At(t, q, l, S) <=> q = p /\ l = k /\ pc[t] \in S
  BY AtOwn
<1>2. ASSUME NEW q, NEW l, NEW S \in SUBSET Evaluating PROVE At(t, q, l, S)' <=> q = p /\ l = k /\ pc'[t] \in S
  BY <1>1 DEF At
<1>3. {"capture"} \in SUBSET Evaluating /\ {"check"} \in SUBSET Evaluating /\ Evaluating \in SUBSET Evaluating
  BY DEF Evaluating
<1>4. ASSUME NEW q \in Processes, NEW l \in Keys, q # p \/ l # k PROVE SlotOK(q, l)'
  <2>1. SlotOK(q, l)
    BY DEF EvalInv
  <2>2. ASSUME NEW u \in Threads, NEW S \in SUBSET Evaluating PROVE At(u, q, l, S)' <=> At(u, q, l, S)
    <3>1. CASE u = t
      BY <1>1, <1>2, <1>4, <3>1
    <3>2. CASE u # t
      BY <3>2, AtAlone
    <3> QED BY <3>1, <3>2
  <2>3. ref'[q][l] = ref[q][l] /\ hits'[q][l] = hits[q][l] /\ run'[q][l] = run[q][l]
    BY <1>4 DEF Elsewhere
  <2> QED BY <1>3, <2>1, <2>2, <2>3, SlotStays
<1>5. SlotOK(p, k)'
  <2>1. CASE <<p, k>> \in raced
    BY <2>1 DEF SlotOK
  <2>2. CASE <<p, k>> \notin raced
    <3>1. SlotOK(p, k) /\ At(t, p, k, Evaluating)
      BY <1>1 DEF EvalInv
    <3>2. \A u \in Threads \ {t} : ~At(u, p, k, Evaluating)
      BY <2>2, <3>1, Sole
    <3>3. \A u \in Threads \ {t} : ~At(u, p, k, Evaluating)'
      BY <3>2, AtAlone
    <3>4. \A u \in Threads \ {t} : ~At(u, p, k, {"capture"})'
      BY <3>3 DEF At, Evaluating
    <3>5. At(t, p, k, {"capture"})' => ref'[p][k] = None
      BY <1>2, <1>3, <2>2
    <3>6. run'[p][k] < Required \/ (run'[p][k] = Required /\ At(t, p, k, {"check"})')
      BY <1>2, <1>3, <2>2
    <3> QED BY <3>3, <3>4, <3>5, <3>6 DEF SlotOK
  <2> QED BY <2>1, <2>2
<1> QED BY <1>4, <1>5 DEF EvalInv

LEMMA ObserveV ==
  ASSUME TInv, EvalInv, NEW t \in Threads, NEW e \in Traffic[t], Observe(t, e)
  PROVE  EvalInv'
<1> SUFFICES ASSUME NEW p, p = Home[t], NEW k, k = Key(e), NEW w, w = Counted(window[p][k], e)
             PROVE  EvalInv'
  OBVIOUS
<1>1. e \in Events /\ p \in Processes /\ k \in Keys /\ Alone(t) /\ pc[t] = "idle"
      /\ pc'[t] \in Ends \cup {"evaluate"} /\ UNCHANGED <<ref, hits, run>>
  BY DetectionAssumption, MonitorTurns DEF Keys, Turn, Observe, monitor
<1>2. CASE Observed(t, e) /\ UNCHANGED raced
  <2>1. pc'[t] \notin Evaluating
    BY <1>1, <1>2, Settles DEF TInv, Settled, Evaluating
  <2> QED BY <1>1, <1>2, <2>1, OthersStay DEF Evaluating
<1>3. CASE /\ Goto(t, "evaluate") /\ job' = [job EXCEPT ![t] = [ev |-> e, win |-> w]]
           /\ raced' = IF \E u \in Threads : Home[u] = p /\ pc[u] \in Evaluating /\ Key(Ev(u)) = k
                       THEN raced \cup {<<p, k>>} ELSE raced
  <2>1. pc'[t] = "evaluate" /\ job'[t].ev = e
    BY <1>3 DEF Goto, TInv, ThreadsOK
  <2>2. ASSUME NEW q, NEW l, NEW S PROVE /\ At(t, q, l, S)' <=> q = p /\ l = k /\ "evaluate" \in S
                                         /\ "idle" \notin S => ~At(t, q, l, S)
    BY <1>1, <2>1 DEF At
  <2>3. (\E u \in Threads : At(u, p, k, Evaluating)) => <<p, k>> \in raced'
    BY <1>3 DEF At, Ev
  <2>4. raced \subseteq raced'
    BY <1>3
  <2>5. ASSUME NEW q \in Processes, NEW l \in Keys, q # p \/ l # k PROVE SlotOK(q, l)'
    <3>1. SlotOK(q, l)
      BY DEF EvalInv
    <3>2. \A u \in Threads, S \in SUBSET Evaluating : At(u, q, l, S)' <=> At(u, q, l, S)
      BY <1>1, <2>2, <2>5, AtAlone DEF Evaluating
    <3>3. {"capture"} \in SUBSET Evaluating /\ {"check"} \in SUBSET Evaluating /\ Evaluating \in SUBSET Evaluating
      BY DEF Evaluating
    <3> QED BY <1>1, <2>4, <3>1, <3>2, <3>3, SlotStays
  <2>6. SlotOK(p, k)'
    <3>1. SlotOK(p, k)
      BY <1>1 DEF EvalInv
    <3>2. CASE <<p, k>> \in raced'
      BY <1>1, <3>1, <3>2 DEF SlotOK
    <3>3. CASE <<p, k>> \notin raced'
      <4>1. \A u \in Threads : ~At(u, p, k, Evaluating)
        BY <2>3, <3>3
      <4>2. \A u \in Threads : ~At(u, p, k, {"check"})
        BY <4>1 DEF At, Evaluating
      <4>3. run[p][k] < Required
        BY <2>4, <3>1, <3>3, <4>2 DEF SlotOK
      <4>4. \A u \in Threads : At(u, p, k, Evaluating)' => u = t
        BY <1>1, <4>1, AtAlone
      <4>5. \A u \in Threads : ~At(u, p, k, {"capture"})'
        BY <2>1, <4>4 DEF At, Evaluating
      <4> QED BY <1>1, <3>1, <4>3, <4>4, <4>5 DEF SlotOK
    <3> QED BY <3>2, <3>3
  <2> QED BY <2>5, <2>6 DEF EvalInv
<1> QED BY <1>2, <1>3 DEF Observe, monitor

LEMMA EvaluateV ==
  ASSUME TInv, EvalInv, NEW t \in Threads, Evaluate(t)
  PROVE  EvalInv'
<1>0. SUFFICES ASSUME NEW p, p = Home[t], NEW e, e = job[t].ev, NEW k, k = Key(e) PROVE EvalInv'
  OBVIOUS
<1>1. pc[t] = "evaluate" /\ pc[t] \in Evaluating /\ UNCHANGED <<ref, hits, run, raced>> /\ Alone(t)
  BY MonitorTurns DEF Evaluate, Evaluating, monitor, Turn
<1>2. /\ e \in Events /\ p \in Processes /\ k \in Keys /\ At(t, p, k, Evaluating)
  BY <1>0, <1>1, AtOwn
<1>3. pc'[t] \in {"capture", "judge"} /\ job'[t].ev = e /\ (pc'[t] = "capture" => ref[p][k] = None)
  BY <1>0 DEF Evaluate, Ev, Goto, TInv, ThreadsOK
<1>4. SlotOK(p, k)
  BY <1>2 DEF EvalInv
<1>5. <<p, k>> \notin raced => run[p][k] < Required
  BY <1>1, <1>2, <1>4, Sole
<1>6. hits'[p][k] = run'[p][k]
  BY <1>1, <1>4 DEF SlotOK
<1>7. Elsewhere(p, k)
  BY <1>1 DEF Elsewhere
<1>8. <<p, k>> \notin raced => run'[p][k] < Required
  BY <1>1, <1>5
<1>9. pc'[t] = "capture" => ref'[p][k] = None
  BY <1>1, <1>3
<1> QED BY <1>0, <1>1, <1>3, <1>6, <1>7, <1>8, <1>9, OwnSlot

LEMMA CaptureV ==
  ASSUME TInv, EvalInv, NEW t \in Threads, Capture(t)
  PROVE  /\ EvalInv'
         /\ \A p \in Processes, k \in Keys :
              ref[p][k] \notin {None, ref'[p][k]} => <<p, k>> \in raced
<1>0. SUFFICES ASSUME NEW p, p = Home[t], NEW e, e = job[t].ev, NEW k, k = Key(e),
                      NEW r, r = [hist |-> job[t].win.hist, mean |-> Mean(job[t].win)]
               PROVE  /\ EvalInv'
                      /\ \A q \in Processes, l \in Keys :
                           ref[q][l] \notin {None, ref'[q][l]} => <<q, l>> \in raced
  OBVIOUS
<1>1. pc[t] = "capture" /\ pc[t] \in Evaluating /\ UNCHANGED <<hits, run, raced>> /\ Alone(t)
      /\ pc'[t] \in Ends
  BY MonitorTurns DEF Capture, Evaluating, Turn
<1>2. /\ e \in Events /\ p \in Processes /\ k \in Keys
      /\ At(t, p, k, Evaluating) /\ At(t, p, k, {"capture"})
  BY <1>0, <1>1, AtOwn
<1>3. ref' = [ref EXCEPT ![p][k] = r]
  BY <1>0 DEF Capture, Ev
<1>4. \A q \in Processes, l \in Keys : q # p \/ l # k => ref'[q][l] = ref[q][l]
  BY <1>2, <1>3 DEF TInv, MonitorOK
<1>5. SlotOK(p, k)
  BY <1>2 DEF EvalInv
<1>6. <<p, k>> \notin raced => run[p][k] < Required /\ ref[p][k] = None
  BY <1>1, <1>2, <1>5, Sole DEF SlotOK
<1>7. pc'[t] \notin Evaluating
  BY <1>1 DEF Ends, Evaluating
<1>8. EvalInv'
  <2>1. Elsewhere(p, k)
    BY <1>1, <1>4 DEF Elsewhere
  <2>2. hits'[p][k] = run'[p][k] /\ (<<p, k>> \notin raced => run'[p][k] < Required)
    BY <1>1, <1>5, <1>6 DEF SlotOK
  <2>3. pc'[t] # "capture"
    BY <1>7 DEF Evaluating
  <2> QED BY <1>0, <1>1, <1>7, <2>1, <2>2, <2>3, OwnSlot
<1> QED BY <1>4, <1>6, <1>8

LEMMA JudgeV ==
  ASSUME TInv, EvalInv, NEW t \in Threads, Judge(t)
  PROVE  EvalInv'
<1>0. SUFFICES ASSUME NEW p, p = Home[t], NEW e, e = job[t].ev, NEW k, k = Key(e) PROVE EvalInv'
  OBVIOUS
<1>1. pc[t] = "judge" /\ pc[t] \in Evaluating /\ UNCHANGED <<ref, raced>> /\ Alone(t)
      /\ pc'[t] \in Ends \cup {"check"}
  BY MonitorTurns DEF Judge, Evaluating, Turn
<1>2. e \in Events /\ p \in Processes /\ k \in Keys /\ At(t, p, k, Evaluating)
  BY <1>0, <1>1, AtOwn
<1>3. SlotOK(p, k) /\ run[p][k] \in Nat /\ hits[p][k] = run[p][k] /\ Required \in Nat \ {0}
  BY <1>2, DetectionAssumption DEF EvalInv, SlotOK, TInv, MonitorOK
<1>4. <<p, k>> \notin raced => run[p][k] < Required
  BY <1>1, <1>2, <1>3, Sole
<1>5. CASE /\ hits' = [hits EXCEPT ![p][k] = @ + 1] /\ run' = [run EXCEPT ![p][k] = @ + 1]
           /\ Goto(t, "check") /\ UNCHANGED job
  <2>1. pc'[t] = "check" /\ job'[t].ev = e
    BY <1>0, <1>5 DEF Goto, TInv, ThreadsOK
  <2>2. /\ hits'[p][k] = run'[p][k] /\ run'[p][k] = run[p][k] + 1 /\ Elsewhere(p, k)
    BY <1>1, <1>2, <1>3, <1>5 DEF TInv, MonitorOK, Elsewhere
  <2>3. <<p, k>> \notin raced => run'[p][k] < Required \/ run'[p][k] = Required
    BY <1>3, <1>4, <2>2
  <2> QED BY <1>0, <1>1, <2>1, <2>2, <2>3, OwnSlot
<1>6. CASE EndRun(p, k) /\ Observed(t, e)
  <2>1. pc'[t] \notin Evaluating
    BY <1>2, <1>6, Settles DEF TInv, Settled, Evaluating
  <2>2. hits'[p][k] = run'[p][k] /\ run'[p][k] < Required /\ Elsewhere(p, k)
    BY <1>1, <1>2, <1>3, <1>6 DEF EndRun, TInv, MonitorOK, Elsewhere
  <2>3. pc'[t] # "capture"
    BY <2>1 DEF Evaluating
  <2> QED BY <1>0, <1>1, <2>1, <2>2, <2>3, OwnSlot
<1> QED BY <1>0, <1>5, <1>6 DEF Judge, Ev

LEMMA CheckV ==
  ASSUME TInv, EvalInv, NEW t \in Threads, Check(t)
  PROVE  EvalInv' /\ (pc'[t] \in Alerting => Sustained(job[t].row)')
<1>0. SUFFICES ASSUME NEW p, p = Home[t], NEW e, e = job[t].ev, NEW k, k = Key(e)
               PROVE  EvalInv' /\ (pc'[t] \in Alerting => Sustained(job[t].row)')
  OBVIOUS
<1>1. pc[t] = "check" /\ pc[t] \in Evaluating /\ UNCHANGED <<ref, raced>> /\ Alone(t)
      /\ pc'[t] \in Ends \cup {"alert"}
  BY MonitorTurns DEF Check, Evaluating, Turn
<1>2. e \in Events /\ p \in Processes /\ k \in Keys /\ At(t, p, k, Evaluating)
  BY <1>0, <1>1, AtOwn
<1>3. SlotOK(p, k) /\ run[p][k] \in Nat /\ hits[p][k] = run[p][k] /\ Required \in Nat \ {0}
  BY <1>2, DetectionAssumption DEF EvalInv, SlotOK, TInv, MonitorOK
<1>4. pc'[t] \notin Evaluating /\ pc'[t] # "capture"
  BY <1>1 DEF Ends, Evaluating
<1>5. CASE hits[p][k] < Required
  <2>1. Observed(t, e) /\ UNCHANGED <<hits, run>>
    BY <1>0, <1>5 DEF Check, Ev
  <2>2. pc'[t] \notin Alerting
    BY <1>2, <2>1, Settles DEF TInv, Settled, Alerting
  <2>3. hits'[p][k] = run'[p][k] /\ run'[p][k] < Required /\ Elsewhere(p, k)
    BY <1>1, <1>3, <1>5, <2>1 DEF Elsewhere
  <2>4. EvalInv'
    BY <1>0, <1>1, <1>4, <2>3, OwnSlot
  <2> QED BY <2>2, <2>4
<1>6. CASE ~(hits[p][k] < Required)
  <2>1. /\ EndRun(p, k) /\ Goto(t, "alert")
        /\ \E row : row.run = run[p][k] /\ (row.raced <=> <<p, k>> \in raced)
                    /\ job' = [job EXCEPT ![t] = [ev |-> e, row |-> row]]
    BY <1>0, <1>6 DEF Check, Ev
  <2>2. job'[t].row.run = run[p][k] /\ (job'[t].row.raced <=> <<p, k>> \in raced)
    BY <2>1 DEF TInv, ThreadsOK
  <2>3. <<p, k>> \in raced \/ run[p][k] = Required
    <3>1. <<p, k>> \notin raced => run[p][k] < Required \/ run[p][k] = Required
      BY <1>2, <1>3, Sole
    <3> QED BY <1>3, <1>6, <3>1
  <2>4. Sustained(job[t].row)'
    BY <2>2, <2>3 DEF Sustained
  <2>5. hits'[p][k] = run'[p][k] /\ run'[p][k] < Required /\ Elsewhere(p, k)
    BY <1>1, <1>2, <1>3, <2>1 DEF EndRun, TInv, MonitorOK, Elsewhere
  <2>6. EvalInv'
    BY <1>0, <1>1, <1>4, <2>5, OwnSlot
  <2> QED BY <2>4, <2>6
<1> QED BY <1>5, <1>6

LEMMA RestartV ==
  ASSUME TInv, EvalInv, NEW x \in Processes, Restart(x)
  PROVE  EvalInv'
<1> SUFFICES ASSUME NEW p \in Processes, NEW k \in Keys PROVE SlotOK(p, k)'
  BY DEF EvalInv
<1>1. SlotOK(p, k) /\ Required \in Nat \ {0}
  BY DetectionAssumption DEF EvalInv
<1>2. CASE p = x
  <2>1. hits'[p][k] = 0 /\ run'[p][k] = 0
    BY <1>2 DEF Restart, TInv, MonitorOK
  <2>2. \A u \in Threads : ~At(u, p, k, Evaluating)' /\ ~At(u, p, k, {"capture"})'
    BY <1>2 DEF Restart, At, Evaluating
  <2> QED BY <1>1, <2>1, <2>2 DEF SlotOK
<1>3. CASE p # x
  <2>1. /\ ref'[p][k] = ref[p][k] /\ hits'[p][k] = hits[p][k] /\ run'[p][k] = run[p][k]
        /\ <<p, k>> \in raced => <<p, k>> \in raced'
    BY <1>3 DEF Restart, TInv, MonitorOK
  <2>2. ASSUME NEW u \in Threads, NEW S PROVE At(u, p, k, S)' <=> At(u, p, k, S)
    BY <1>3 DEF Restart, At
  <2> QED BY <1>1, <2>1, <2>2, SlotStays
<1> QED BY <1>2, <1>3

LEMMA StepV ==
  ASSUME TInv, EvalInv, NEW t \in Threads, Step(t)
  PROVE  EvalInv'
<1>1. CASE Alert(t) \/ Degrade(t) \/ Correlate(t) \/ Explain(t)
  <2>1. pc[t] \notin Evaluating /\ pc'[t] \notin Evaluating /\ Alone(t)
    BY <1>1, AlertTurns DEF Turn, Ends, Evaluating, Alert, Degrade, Correlate, Explain
  <2> QED BY <1>1, <2>1, OthersStay DEF Alert, Degrade, Correlate, Explain, monitor
<1>2. CASE Find(t) \/ Upsert(t) \/ Draft(t) \/ Mark(t) \/ IndexSnap(t) \/ WriteDrift(t)
  <2>1. pc[t] \notin Evaluating /\ pc'[t] \notin Evaluating /\ Alone(t)
    BY <1>2, TableTurns DEF Turn, Evaluating, Find, Upsert, Draft, Mark, IndexSnap, WriteDrift
  <2> QED BY <1>2, <2>1, OthersStay DEF Find, Upsert, Draft, Mark, IndexSnap, WriteDrift, monitor
<1> QED BY <1>1, <1>2, EvaluateV, CaptureV, JudgeV, CheckV DEF Step

LEMMA NextV == TInv /\ EvalInv /\ [Next]_vars => EvalInv'
<1> SUFFICES ASSUME TInv, EvalInv, [Next]_vars PROVE EvalInv'
  OBVIOUS
<1>1. ASSUME NEW t \in Threads, NEW c, StartSuggest(t, c) \/ StartTick(t, c) PROVE EvalInv'
  <2>1. pc[t] \notin Evaluating /\ pc'[t] \notin Evaluating /\ Alone(t)
    BY <1>1, TableTurns DEF Turn, Evaluating, StartSuggest, StartTick
  <2> QED BY <1>1, <2>1, OthersStay DEF StartSuggest, StartTick, monitor
<1>2. CASE UNCHANGED vars
  <2>1. ASSUME NEW p \in Processes, NEW k \in Keys PROVE SlotOK(p, k)'
    <3>1. UNCHANGED <<ref, hits, run, raced, pc, job>> /\ SlotOK(p, k)
      BY <1>2 DEF vars, monitor, EvalInv
    <3>2. ASSUME NEW u \in Threads, NEW S PROVE At(u, p, k, S)' <=> At(u, p, k, S)
      BY <3>1 DEF At
    <3> QED BY <3>1, <3>2, SlotStays
  <2> QED BY <2>1 DEF EvalInv
<1> QED BY <1>1, <1>2, ObserveV, StepV, RestartV DEF Next

LEMMA InitV == Init => EvalInv
<1> SUFFICES ASSUME Init, NEW p \in Processes, NEW k \in Keys PROVE SlotOK(p, k)
  BY DEF EvalInv
<1>1. \A u \in Threads, S \in SUBSET Evaluating : ~At(u, p, k, S)
  BY DEF Init, At, Evaluating
<1>2. hits[p][k] = 0 /\ run[p][k] = 0 /\ Required \in Nat \ {0}
  BY DetectionAssumption DEF Init, ForAll
<1> QED BY <1>1, <1>2 DEF SlotOK, Evaluating

LEMMA EvalAlways == Spec => []EvalInv
BY InitV, NextV, TInvAlways, PTL DEF Spec

\* A reference that was captured is replaced, while its process lives, only by
\* a window that found none, when several such windows of the key raced.
THEOREM ReferenceStays == Spec => FrozenReference
<1> DEFINE Late(p, k) == \E t \in Threads : Home[t] = p /\ pc[t] = "capture" /\ Key(Ev(t)) = k
           Kept(p, k) == ref[p][k] \notin {None, ref'[p][k]} =>
                           Restart(p) \/ (<<p, k>> \in raced /\ Late(p, k))
<1>1. ASSUME TInv, EvalInv, [Next]_vars, NEW p \in Processes, NEW k \in Keys PROVE Kept(p, k)
  <2>1. ASSUME NEW x \in Processes, Restart(x) PROVE Kept(p, k)
    <3>1. CASE x = p
      BY <2>1, <3>1
    <3>2. CASE x # p
      BY <1>1, <2>1, <3>2 DEF Restart, TInv, MonitorOK
    <3> QED BY <3>1, <3>2
  <2>2. ASSUME UNCHANGED ref PROVE Kept(p, k)
    BY <2>2
  <2>3. ASSUME NEW t \in Threads, Step(t), ~Capture(t) PROVE UNCHANGED ref
    <3>1. CASE Evaluate(t) \/ Judge(t) \/ Check(t)
      BY <3>1 DEF Evaluate, Judge, Check, monitor
    <3>2. CASE Alert(t) \/ Degrade(t) \/ Correlate(t) \/ Explain(t)
      BY <3>2 DEF Alert, Degrade, Correlate, Explain, monitor
    <3>3. CASE Find(t) \/ Upsert(t) \/ Draft(t) \/ Mark(t) \/ IndexSnap(t) \/ WriteDrift(t)
      BY <3>3 DEF Find, Upsert, Draft, Mark, IndexSnap, WriteDrift, monitor
    <3> QED BY <2>3, <3>1, <3>2, <3>3 DEF Step
  <2>4. ASSUME NEW t \in Threads, Capture(t) PROVE Kept(p, k)
    <3>1. /\ ref' = [ref EXCEPT ![Home[t]][Key(Ev(t))] = ref'[Home[t]][Key(Ev(t))]]
          /\ pc[t] = "capture"
      BY <1>1, <2>4 DEF Capture, TInv, MonitorOK
    <3>2. ref[p][k] # ref'[p][k] => Home[t] = p /\ Key(Ev(t)) = k
      BY <1>1, <3>1 DEF TInv, MonitorOK
    <3>3. ref[p][k] \notin {None, ref'[p][k]} => <<p, k>> \in raced
      BY <1>1, <2>4, CaptureV
    <3> QED BY <3>1, <3>2, <3>3
  <2>5. ASSUME NEW t \in Threads, NEW e \in Traffic[t], Observe(t, e) PROVE UNCHANGED ref
    BY <2>5 DEF Observe, monitor
  <2>6. ASSUME NEW t \in Threads, NEW c, StartSuggest(t, c) \/ StartTick(t, c) PROVE UNCHANGED ref
    BY <2>6 DEF StartSuggest, StartTick, monitor
  <2>7. CASE UNCHANGED vars
    BY <2>2, <2>7 DEF vars, monitor
  <2> QED BY <1>1, <2>1, <2>2, <2>3, <2>4, <2>5, <2>6, <2>7 DEF Next
<1>2. TInv /\ EvalInv /\ [Next]_vars =>
        [\A p \in Processes, k \in Keys :
           ref[p][k] \notin {None, ref'[p][k]} =>
             \/ Restart(p)
             \/ /\ <<p, k>> \in raced
                /\ \E t \in Threads : Home[t] = p /\ pc[t] = "capture" /\ Key(Ev(t)) = k]_vars
  BY <1>1
<1> QED BY <1>2, TInvAlways, EvalAlways, PTL DEF Spec, FrozenReference
-----------------------------------------------------------------------------
(***************************************************************************)
(* The alerts, and the nearest drift                                       *)
(*                                                                         *)
(* An alert names the nearest of the rows there were when it asked: rows   *)
(* are only ever added behind them, so that stays true of it.              *)
(***************************************************************************)
Before(a, i) == drift[i].tenant = a.tenant /\ drift[i].at \in a.at - LookBack..a.at
Newer(a) == {i \in 1..a.asked : drift[i].tenant = a.tenant /\ drift[i].at > a.at}
Near(a) ==
  /\ a.asked \in 0..Len(drift) /\ a.explained \subseteq 1..a.asked
  /\ \A i \in a.explained : Before(a, i)
  /\ Cardinality(a.explained) <= MaxExplained
  /\ \A j \in 1..a.asked \ a.explained : Before(a, j) =>
       \/ Cardinality(Newer(a)) + Cardinality(a.explained) >= ListLimit
       \/ /\ Cardinality(a.explained) = MaxExplained
          /\ \A i \in a.explained : drift[j].at <= drift[i].at

RowInv ==
  /\ \A i \in 1..Len(alerts) : Sustained(alerts[i]) /\ Near(alerts[i])
  /\ \A t \in Threads : pc[t] \in Alerting => Sustained(job[t].row) /\ Near(job[t].row)

\* Of a finite set all or exactly n elements are the latest.
LEMMA LatestSize ==
  ASSUME NEW S, IsFiniteSet(S), NEW n \in Nat, NEW X \in Latest(S, n)
  PROVE  /\ X \subseteq S /\ Cardinality(X) \in Nat /\ Cardinality(X) <= n
         /\ X = S \/ Cardinality(X) = n
         /\ Cardinality(X) = n \/ Cardinality(X) = Cardinality(S)
         /\ \A i \in X, j \in S \ X : drift[j].at <= drift[i].at
<1>1. /\ X \in SUBSET S /\ Cardinality(X) = IF Cardinality(S) < n THEN Cardinality(S) ELSE n
      /\ \A i \in X, j \in S \ X : drift[j].at <= drift[i].at
  BY DEF Latest
<1>2. Cardinality(S) \in Nat /\ IsFiniteSet(X) /\ (Cardinality(S) = Cardinality(X) => S = X)
  BY <1>1, FS_CardinalityType, FS_Subset
<1> QED BY <1>1, <1>2

\* What Explains returns, for an alert that asks now: a row that could be named
\* and is not is older than those that are, or the list was full without it.
LEMMA ExplainsNear ==
  ASSUME TablesOK, NEW a \in AlertRow, NEW X \in Explains(a),
         NEW b, b = [a EXCEPT !.explained = X, !.asked = Len(drift)]
  PROVE  Near(b)
<1>1. /\ b.tenant = a.tenant /\ b.at = a.at /\ b.explained = X /\ b.asked = Len(drift)
      /\ a.at \in Nat /\ Len(drift) \in Nat /\ DOMAIN drift = 1..Len(drift)
  BY DEF AlertRow, TablesOK
<1>2. ASSUME NEW i \in 1..Len(drift) PROVE drift[i].at \in Nat
  <2>1. drift[i] \in DriftRow
    BY DEF TablesOK
  <2> QED BY <2>1 DEF DriftRow
<1>3. LookBack \in Nat /\ ListLimit \in Nat /\ MaxExplained \in Nat
  BY DetectionAssumption
<1> DEFINE S == {i \in DOMAIN drift : drift[i].tenant = a.tenant /\ drift[i].at >= a.at - LookBack}
<1>4. PICK L \in Latest(S, ListLimit) : X \in Latest({i \in L : drift[i].at <= a.at}, MaxExplained)
  BY DEF Explains, Listed
<1> DEFINE C == {i \in L : drift[i].at <= a.at}
           N == Newer(b)
<1>5. S \subseteq 1..Len(drift) /\ N \subseteq 1..Len(drift)
  BY <1>1 DEF Newer
<1>6. \A i \in S : drift[i].tenant = a.tenant /\ drift[i].at >= a.at - LookBack
  OBVIOUS
<1>7. \A i \in 1..Len(drift) : drift[i].tenant = a.tenant /\ drift[i].at >= a.at - LookBack => i \in S
  BY <1>1
<1>8. \A i \in 1..Len(drift) : drift[i].tenant = a.tenant /\ drift[i].at > a.at => i \in N
  BY <1>1 DEF Newer
<1>9. \A i : i \in C <=> i \in L /\ drift[i].at <= a.at
  OBVIOUS
<1>10. X \in Latest(C, MaxExplained)
  BY <1>4
<1> HIDE DEF S, C, N
<1>11. IsFiniteSet(1..Len(drift))
  <2>1. 1 \in Int /\ Len(drift) \in Int
    BY <1>1
  <2> QED BY <2>1, FS_Interval
<1>12. IsFiniteSet(S) /\ IsFiniteSet(N)
  BY <1>5, <1>11, FS_Subset
<1>13. /\ L \subseteq S /\ (L = S \/ Cardinality(L) = ListLimit)
       /\ \A i \in L, j \in S \ L : drift[j].at <= drift[i].at
  BY <1>3, <1>12, LatestSize
<1>14. L \subseteq S /\ (L = S \/ Cardinality(L) = ListLimit)
  BY <1>3, <1>12, LatestSize
<1>15. C \subseteq L /\ IsFiniteSet(L) /\ IsFiniteSet(C)
  BY <1>9, <1>12, <1>14, FS_Subset
<1>16. /\ X \subseteq C /\ Cardinality(X) \in Nat /\ Cardinality(X) <= MaxExplained
       /\ \A i \in X, j \in C \ X : drift[j].at <= drift[i].at
  BY <1>3, <1>10, <1>15, LatestSize
<1>17. (X = C \/ Cardinality(X) = MaxExplained) /\ (Cardinality(X) = MaxExplained \/ Cardinality(X) = Cardinality(C))
  BY <1>3, <1>10, <1>15, LatestSize
<1>18. ASSUME NEW i \in X PROVE Before(b, i) /\ i \in 1..Len(drift)
  <2>1. i \in S /\ i \in 1..Len(drift) /\ drift[i].at <= a.at
    BY <1>5, <1>9, <1>14, <1>16
  <2>2. drift[i].tenant = a.tenant /\ drift[i].at >= a.at - LookBack /\ drift[i].at \in Nat
    BY <1>2, <1>6, <2>1
  <2> QED BY <1>1, <1>3, <2>1, <2>2 DEF Before
<1>19. Cardinality(L) <= Cardinality(C) + Cardinality(N)
  <2>1. L \subseteq C \cup N
    <3> SUFFICES ASSUME NEW i \in L, i \notin C PROVE i \in N
      OBVIOUS
    <3>1. i \in S /\ i \in 1..Len(drift) /\ drift[i].at \in Nat
      BY <1>2, <1>5, <1>14
    <3>2. drift[i].tenant = a.tenant /\ ~(drift[i].at <= a.at)
      BY <1>6, <1>9, <3>1
    <3>3. drift[i].at > a.at
      BY <1>1, <3>1, <3>2
    <3> QED BY <1>8, <3>1, <3>2, <3>3
  <2>2. /\ IsFiniteSet(C \cup N) /\ Cardinality(C) \in Nat /\ Cardinality(N) \in Nat
        /\ Cardinality(C \cup N) = Cardinality(C) + Cardinality(N) - Cardinality(C \cap N)
        /\ IsFiniteSet(C \cap N)
    BY <1>12, <1>15, FS_Union, FS_CardinalityType, FS_Subset
  <2>3. Cardinality(L) <= Cardinality(C \cup N) /\ Cardinality(C \cap N) \in Nat /\ Cardinality(L) \in Nat
    BY <1>15, <2>1, <2>2, FS_Subset, FS_CardinalityType
  <2>4. Cardinality(C \cup N) \in Nat
    BY <2>2, FS_CardinalityType
  <2> QED BY <2>2, <2>3, <2>4
<1>20. ASSUME NEW j \in 1..Len(drift) \ X, Before(b, j)
       PROVE  \/ Cardinality(N) + Cardinality(X) >= ListLimit
              \/ Cardinality(X) = MaxExplained /\ \A i \in X : drift[j].at <= drift[i].at
  <2>1. j \in S /\ drift[j].at <= a.at /\ drift[j].at \in Nat
    BY <1>1, <1>2, <1>3, <1>7, <1>20 DEF Before
  <2>2. CASE j \in L
    <3>1. j \in C \ X
      BY <1>9, <1>20, <2>1, <2>2
    <3> QED BY <1>16, <1>17, <3>1
  <2>3. CASE j \notin L
    <3>1. Cardinality(L) = ListLimit
      BY <1>14, <2>1, <2>3
    <3>2. \A i \in X : drift[j].at <= drift[i].at
      BY <1>13, <1>15, <1>16, <2>1, <2>3
    <3>3. CASE Cardinality(X) = Cardinality(C)
      <4>1. Cardinality(N) \in Nat
        BY <1>12, FS_CardinalityType
      <4> QED BY <1>3, <1>16, <1>19, <3>1, <3>3, <4>1
    <3> QED BY <1>17, <3>2, <3>3
  <2> QED BY <2>2, <2>3
<1> QED BY <1>1, <1>16, <1>18, <1>20 DEF Near, N

\* An alert that has not asked names nothing.
LEMMA FreshNear ==
  ASSUME TablesOK, NEW a, a.explained = {}, a.asked = 0
  PROVE  Near(a)
BY FS_EmptySet, DetectionAssumption DEF Near, TablesOK

Appended ==
  Len(drift') \in Nat /\ Len(drift) <= Len(drift') /\ \A i \in 1..Len(drift) : drift'[i] = drift[i]

LEMMA NearStays ==
  ASSUME TablesOK, Appended, NEW a, Near(a)
  PROVE  Near(a)'
<1>1. a.asked \in 0..Len(drift) /\ a.explained \subseteq 1..a.asked /\ Len(drift) \in Nat
  BY DEF Near, TablesOK
<1>2. \A i \in 1..a.asked : drift'[i] = drift[i]
  BY <1>1 DEF Appended
<1>3. Newer(a)' = Newer(a)
  BY <1>2 DEF Newer
<1>4. ASSUME NEW i \in 1..a.asked PROVE Before(a, i)' <=> Before(a, i)
  BY <1>2 DEF Before
<1>5. a.asked \in 0..Len(drift')
  BY <1>1 DEF Appended
<1>6. ASSUME NEW j \in 1..a.asked \ a.explained, Before(a, j)'
      PROVE  \/ Cardinality(Newer(a))' + Cardinality(a.explained) >= ListLimit
             \/ /\ Cardinality(a.explained) = MaxExplained
                /\ \A i \in a.explained : drift'[j].at <= drift'[i].at
  BY <1>1, <1>2, <1>3, <1>4, <1>6 DEF Near
<1> QED BY <1>1, <1>4, <1>5, <1>6 DEF Near

LEMMA RowsStay ==
  ASSUME TablesOK, RowInv, Appended, UNCHANGED alerts,
         \A u \in Threads : pc'[u] \in Alerting => pc[u] \in Alerting /\ job'[u].row = job[u].row
  PROVE  RowInv'
<1>1. ASSUME NEW i \in 1..Len(alerts) PROVE Sustained(alerts[i]) /\ Near(alerts[i])'
  <2>0. SUFFICES ASSUME NEW a, a = alerts[i] PROVE Sustained(alerts[i]) /\ Near(alerts[i])'
    OBVIOUS
  <2>1. Sustained(a) /\ Near(a)
    BY <2>0 DEF RowInv
  <2>2. Near(a)'
    BY <2>1, NearStays
  <2>3. alerts'[i] = a
    BY <2>0
  <2> QED BY <2>0, <2>1, <2>2, <2>3, SMTT(30) DEF Near, Before, Newer
<1>2. ASSUME NEW u \in Threads, pc'[u] \in Alerting PROVE Sustained(job[u].row)' /\ Near(job[u].row)'
  <2>0. SUFFICES ASSUME NEW a, a = job[u].row PROVE Sustained(job[u].row)' /\ Near(job[u].row)'
    OBVIOUS
  <2>1. Sustained(a) /\ Near(a) /\ job'[u].row = a
    BY <1>2, <2>0 DEF RowInv
  <2>2. Near(a)'
    BY <2>1, NearStays
  <2> QED BY <2>1, <2>2 DEF Sustained, Near, Before, Newer
<1> QED BY <1>1, <1>2 DEF RowInv, Sustained

\* One alert is written, or the row that thread t has in hand is another.
LEMMA RowWritten ==
  ASSUME TInv, RowInv, UNCHANGED drift, NEW t \in Threads, Alone(t),
         NEW a \in AlertRow, Sustained(a), Near(a), pc'[t] \in Alerting => job'[t].row = a,
         UNCHANGED alerts \/ \E i : Writes(alerts, alerts', a, i)
  PROVE  RowInv'
<1>1. ASSUME NEW i \in 1..Len(alerts') PROVE \E b : b = alerts'[i] /\ Sustained(b) /\ Near(b)
  <2>1. alerts \in Seq(AlertRow) /\ \A k \in 1..Len(alerts) : Sustained(alerts[k]) /\ Near(alerts[k])
    BY DEF TInv, TablesOK, RowInv
  <2>2. CASE UNCHANGED alerts
    BY <2>1, <2>2
  <2>3. ASSUME NEW n, Writes(alerts, alerts', a, n) PROVE \E b : b = alerts'[i] /\ Sustained(b) /\ Near(b)
    <3>1. alerts'[n] = a /\ \A k \in 1..Len(alerts') : k # n => k \in 1..Len(alerts) /\ alerts'[k] = alerts[k]
      BY <2>1, <2>3, WriteRow
    <3>2. CASE i = n
      BY <3>1, <3>2
    <3>3. CASE i # n
      BY <2>1, <3>1, <3>3
    <3> QED BY <3>2, <3>3
  <2> QED BY <2>2, <2>3
<1>2. ASSUME NEW u \in Threads, pc'[u] \in Alerting PROVE \E b : b = job'[u].row /\ Sustained(b) /\ Near(b)
  <2>1. CASE u = t
    BY <1>2, <2>1
  <2>2. CASE u # t
    BY <1>2, <2>2 DEF Alone, RowInv
  <2> QED BY <2>1, <2>2
<1>3. ASSUME NEW i \in 1..Len(alerts') PROVE Sustained(alerts[i])' /\ Near(alerts[i])'
  <2>1. PICK b : b = alerts'[i] /\ Sustained(b) /\ Near(b)
    BY <1>1
  <2>2. Near(b)'
    BY <2>1 DEF Near, Before, Newer
  <2> QED BY <2>1, <2>2 DEF Sustained, Near, Before, Newer
<1>4. \A u \in Threads : pc'[u] \in Alerting => Sustained(job[u].row)' /\ Near(job[u].row)'
  BY <1>2, ZenonT(40) DEF Sustained, Near, Before, Newer
<1> QED BY <1>3, <1>4 DEF RowInv

LEMMA CheckA ==
  ASSUME TInv, EvalInv, RowInv, NEW t \in Threads, Check(t)
  PROVE  RowInv'
<1>1. UNCHANGED <<alerts, drift>> /\ Appended /\ Alone(t) /\ pc'[t] \in Ends \cup {"alert"} /\ TablesOK
  <2>1. UNCHANGED <<alerts, drift>>
    BY DEF Check, tables
  <2>2. Alone(t) /\ pc'[t] \in Ends \cup {"alert"}
    BY MonitorTurns DEF Turn
  <2>3. TablesOK
    BY DEF TInv
  <2>4. Len(drift) \in Nat
    BY <2>3 DEF TablesOK
  <2>5. Appended
    BY <2>1, <2>4 DEF Appended
  <2> QED BY <2>1, <2>2, <2>3, <2>5
<1>2. CASE pc'[t] \notin Alerting
  BY <1>1, <1>2, RowsStay DEF Alone
<1>3. CASE pc'[t] \in Alerting
  <2>1. \E a : a.explained = {} /\ a.asked = 0 /\ job'[t].row = a
    <3>1. CASE Observed(t, Ev(t))
      <4>1. Ev(t) \in Events
        BY DEF Check, Ev, TInv, ThreadsOK, ThreadOK
      <4> QED BY <1>3, <3>1, <4>1, Settles DEF TInv, Settled, Alerting
    <3>2. CASE ~Observed(t, Ev(t))
      <4>1. \E a, e : a.explained = {} /\ a.asked = 0 /\ job' = [job EXCEPT ![t] = [ev |-> e, row |-> a]]
        BY <3>2 DEF Check
      <4> QED BY <4>1 DEF TInv, ThreadsOK
    <3> QED BY <3>1, <3>2
  <2>2. PICK a : job'[t].row = a /\ a.explained = {} /\ a.asked = 0
    BY <2>1
  <2>3. Sustained(a)
    <3>1. Sustained(job[t].row)'
      BY <1>3, CheckV
    <3> QED BY <2>2, <3>1 DEF Sustained
  <2>4. Near(a)
    BY <1>1, <2>2, FreshNear
  <2>5. a \in AlertRow
    <3>1. TInv'
      BY CheckT
    <3>2. pc'[t] = "alert"
      BY <1>1, <1>3 DEF Ends, Alerting
    <3>3. job'[t] \in [ev : Events, row : AlertRow]
      BY <3>1, <3>2 DEF TInv, ThreadsOK, ThreadOK
    <3> QED BY <2>2, <3>3
  <2> QED BY <1>1, <2>2, <2>3, <2>4, <2>5, RowWritten
<1> QED BY <1>2, <1>3

LEMMA AlertA ==
  ASSUME TInv, RowInv, NEW t \in Threads, Alert(t) \/ Explain(t)
  PROVE  RowInv'
<1>0. SUFFICES ASSUME NEW a, a = job[t].row PROVE RowInv'
  OBVIOUS
<1>1. pc[t] \in Alerting /\ a \in AlertRow /\ (pc[t] = "explain" => job[t].id \in 1..Len(alerts))
  BY <1>0 DEF Alert, Explain, Alerting, TInv, ThreadsOK, ThreadOK
<1>2. Sustained(a) /\ Near(a)
  BY <1>0, <1>1 DEF RowInv
<1>3. Alone(t) /\ UNCHANGED drift /\ pc'[t] \in Ends \cup {"degrade"}
  BY AlertTurns DEF Alert, Explain, Turn
<1>4. UNCHANGED alerts \/ \E i : Writes(alerts, alerts', a, i)
  BY <1>0, <1>1 DEF Alert, Explain, Writes
<1>5. pc'[t] \in Alerting => job'[t].row = a
  <2>1. CASE Alert(t)
    <3>1. CASE Observed(t, Ev(t))
      <4>1. Ev(t) \in Events
        BY <2>1 DEF Alert, Ev, TInv, ThreadsOK, ThreadOK
      <4> QED BY <3>1, <4>1, Settles DEF TInv, Settled, Alerting
    <3>2. CASE ~Observed(t, Ev(t))
      <4>1. \E e, i : job' = [job EXCEPT ![t] = [ev |-> e, id |-> i, row |-> a]]
        BY <1>0, <2>1, <3>2 DEF Alert
      <4> QED BY <4>1 DEF TInv, ThreadsOK
    <3> QED BY <3>1, <3>2
  <2>2. CASE Explain(t)
    BY <2>2, AlertTurns DEF Turn, Ends, Alerting
  <2> QED BY <2>1, <2>2
<1> QED BY <1>1, <1>2, <1>3, <1>4, <1>5, RowWritten

LEMMA DegradeA ==
  ASSUME TInv, RowInv, NEW t \in Threads, Degrade(t)
  PROVE  RowInv'
<1>1. Alone(t) /\ UNCHANGED <<alerts, drift>> /\ pc[t] \in Alerting
  BY AlertTurns DEF Degrade, Turn, tables, Alerting
<1>2. pc'[t] \in Alerting => job'[t] = job[t]
  <2>1. Ev(t) \in Events
    BY DEF Degrade, Ev, TInv, ThreadsOK, ThreadOK
  <2>2. Observed(t, Ev(t)) => pc'[t] \notin Alerting
    BY <2>1, Settles DEF TInv, Settled, Alerting
  <2> QED BY <2>2 DEF Degrade
<1>3. Appended /\ TablesOK
  BY <1>1 DEF Appended, TInv, TablesOK
<1> QED BY <1>1, <1>2, <1>3, RowsStay DEF Alone

LEMMA CorrelateA ==
  ASSUME TInv, RowInv, NEW t \in Threads, Correlate(t)
  PROVE  RowInv'
<1>0. SUFFICES ASSUME NEW j, j = job[t] PROVE RowInv'
  OBVIOUS
<1>1. /\ j \in [ev : Events, id : Nat, row : AlertRow] /\ pc[t] \in Alerting /\ TablesOK
      /\ Alone(t) /\ UNCHANGED <<alerts, drift>> /\ Sustained(j.row)
  BY <1>0, AlertTurns DEF Correlate, Turn, Alerting, tables, TInv, ThreadsOK, ThreadOK, RowInv
<1>2. CASE Observed(t, j.ev)
  <2>1. pc'[t] \notin Alerting
    BY <1>1, <1>2, Settles DEF TInv, Settled, Alerting
  <2>2. Appended
    BY <1>1 DEF Appended, TInv, TablesOK
  <2> QED BY <1>1, <2>1, <2>2, RowsStay DEF Alone
<1>3. ASSUME NEW X \in Explains(j.row),
             job' = [job EXCEPT ![t].row.explained = X, ![t].row.asked = Len(drift)]
      PROVE  RowInv'
  <2>0. SUFFICES ASSUME NEW a, a = j.row, NEW row, row = [a EXCEPT !.explained = X, !.asked = Len(drift)]
                 PROVE  RowInv'
    OBVIOUS
  <2>1. a \in AlertRow /\ X \in Explains(a)
    BY <1>1, <1>3, <2>0
  <2>2. Near(row)
    BY <1>1, <2>0, <2>1, ExplainsNear
  <2>3. Len(drift) \in Nat /\ X \in SUBSET Nat
    BY <1>1, <2>1, ExplainsType DEF TablesOK
  <2>4. row \in AlertRow /\ row.run = a.run /\ row.raced = a.raced
    BY <2>0, <2>1, <2>3 DEF AlertRow
  <2>5. Sustained(row)
    BY <1>1, <2>0, <2>4 DEF Sustained
  <2>6. job'[t].row = row
    <3>1. job'[t] = [j EXCEPT !.row = row]
      BY <1>0, <1>3, <2>0 DEF TInv, ThreadsOK
    <3> QED BY <1>1, <3>1
  <2> QED BY <1>1, <2>2, <2>4, <2>5, <2>6, RowWritten
<1> QED BY <1>0, <1>2, <1>3 DEF Correlate, Ev

\* The other steps leave the alerts alone, and add to drift at most.
LEMMA StepA ==
  ASSUME TInv, EvalInv, RowInv, NEW t \in Threads, Step(t)
  PROVE  RowInv'
<1>1. TablesOK /\ Len(drift) \in Nat
  BY DEF TInv, TablesOK
<1>2. CASE Evaluate(t) \/ Capture(t) \/ Judge(t)
  <2>1. Appended /\ UNCHANGED alerts
    BY <1>1, <1>2 DEF Appended, Evaluate, Capture, Judge, tables
  <2> QED BY <1>1, <1>2, <2>1, MonitorTurns, RowsStay DEF Turn, Alone, Ends, Alerting
<1>3. CASE Find(t) \/ Upsert(t) \/ Draft(t) \/ Mark(t) \/ IndexSnap(t)
  <2>1. Appended /\ UNCHANGED alerts
    BY <1>1, <1>3 DEF Appended, Find, Upsert, Draft, Mark, IndexSnap
  <2> QED BY <1>1, <1>3, <2>1, TableTurns, RowsStay DEF Turn, Alone, Alerting
<1>4. CASE WriteDrift(t)
  <2>1. UNCHANGED alerts /\ (drift' = drift \/ \E r : drift' = Append(drift, r))
    BY <1>4 DEF WriteDrift
  <2>2. ASSUME NEW r, drift' = Append(drift, r) PROVE Appended
    <3>1. drift \in Seq(DriftRow \cup {r}) /\ r \in DriftRow \cup {r}
      BY DEF TInv, TablesOK
    <3> QED BY <2>2, <3>1, AppendProperties DEF Appended
  <2>3. Appended
    BY <1>1, <2>1, <2>2 DEF Appended
  <2> QED BY <1>1, <1>4, <2>1, <2>3, TableTurns, RowsStay DEF Turn, Alone, Alerting
<1> QED BY <1>2, <1>3, <1>4, CheckA, AlertA, DegradeA, CorrelateA DEF Step

LEMMA NextA == TInv /\ EvalInv /\ RowInv /\ [Next]_vars => RowInv'
<1> SUFFICES ASSUME TInv, EvalInv, RowInv, [Next]_vars PROVE RowInv'
  OBVIOUS
<1>1. TablesOK /\ Len(drift) \in Nat
  BY DEF TInv, TablesOK
<1>2. ASSUME UNCHANGED drift PROVE Appended
  BY <1>1, <1>2 DEF Appended
<1>3. ASSUME NEW p \in Processes, Restart(p) PROVE RowInv'
  <2>1. \A u \in Threads : pc'[u] \in Alerting => pc[u] \in Alerting /\ job'[u].row = job[u].row
    BY <1>3 DEF Restart, Alerting
  <2> QED BY <1>1, <1>2, <1>3, <2>1, RowsStay DEF Restart, tables
<1>4. ASSUME NEW t \in Threads, NEW e \in Traffic[t], Observe(t, e) PROVE RowInv'
  <2>1. Alone(t) /\ pc'[t] \notin Alerting
    BY <1>4, MonitorTurns DEF Turn, Ends, Alerting
  <2> QED BY <1>1, <1>2, <1>4, <2>1, RowsStay DEF Alone, Observe, tables
<1>5. ASSUME NEW t \in Threads, NEW c, StartSuggest(t, c) \/ StartTick(t, c) PROVE RowInv'
  <2>1. Alone(t) /\ pc'[t] \notin Alerting
    BY <1>5, TableTurns DEF Turn, Alerting
  <2> QED BY <1>1, <1>2, <1>5, <2>1, RowsStay DEF Alone, StartSuggest, StartTick, tables
<1>6. CASE UNCHANGED vars
  BY <1>1, <1>2, <1>6, RowsStay DEF vars, tables
<1> QED BY <1>3, <1>4, <1>5, <1>6, StepA DEF Next

LEMMA RowAlways == Spec => []RowInv
<1>1. Init => RowInv
  BY DEF Init, RowInv, Alerting
<1> QED BY <1>1, NextA, TInvAlways, EvalAlways, PTL DEF Spec

\* Unless two windows of a key were evaluated at once, an alert has the required
\* number of drifted windows in a row behind it, all since the alert before, and
\* a row of as many never passes without one.
THEOREM AlertsAreSustained == Spec => []AlertsSustained
<1>1. TInv /\ EvalInv /\ RowInv => AlertsSustained
  <2> SUFFICES ASSUME TInv, EvalInv, RowInv PROVE AlertsSustained
    OBVIOUS
  <2>1. ASSUME NEW i \in DOMAIN alerts PROVE alerts[i].raced \/ alerts[i].run = Required
    BY DEF RowInv, Sustained, TInv, TablesOK
  <2>2. ASSUME NEW p \in Processes, NEW k \in Keys
        PROVE  \/ <<p, k>> \in raced
               \/ \E t \in Threads : Home[t] = p /\ pc[t] \in Evaluating /\ Key(Ev(t)) = k
               \/ run[p][k] < Required
    <3>1. SlotOK(p, k)
      BY DEF EvalInv
    <3>2. \A t \in Threads : At(t, p, k, {"check"}) => Home[t] = p /\ pc[t] \in Evaluating /\ Key(Ev(t)) = k
      BY DEF At, Evaluating, Ev
    <3> QED BY <3>1, <3>2 DEF SlotOK
  <2> QED BY <2>1, <2>2 DEF AlertsSustained
<1> QED BY <1>1, TInvAlways, EvalAlways, RowAlways, PTL

\* An alert is explained by drift of its own tenant detected before it and within
\* the look-back, and by the nearest there was when it asked.
THEOREM ExplainedByNearest == Spec => []NearestExplained
<1>1. TInv /\ RowInv => NearestExplained
  <2> SUFFICES ASSUME TInv, RowInv, NEW i \in DOMAIN alerts, NEW a, a = alerts[i]
               PROVE  /\ \A k \in a.explained : Before(a, k)
                      /\ Cardinality(a.explained) <= MaxExplained
                      /\ \A j \in 1..a.asked \ a.explained : Before(a, j) =>
                           \/ Cardinality(Newer(a)) + Cardinality(a.explained) >= ListLimit
                           \/ /\ Cardinality(a.explained) = MaxExplained
                              /\ \A k \in a.explained : drift[j].at <= drift[k].at
    BY DEF NearestExplained, Before, Newer
  <2>1. Near(a)
    BY DEF RowInv, TInv, TablesOK
  <2> QED BY <2>1 DEF Near
<1> QED BY <1>1, TInvAlways, RowAlways, PTL
-----------------------------------------------------------------------------
(***************************************************************************)
(* The clusters of a family count its events                               *)
(*                                                                         *)
(* As long as no two threads recorded a family at once, one thread at a    *)
(* time has a row of it in hand, and it found all there is.                *)
(***************************************************************************)
Upserting(t) == pc[t] = "upsert"

\* The row in hand is of the event's family: the cluster's, or a new one.
Carries(t) ==
  /\ Family(job[t].row) = Family(Ev(t))
  /\ job[t].id # None => Family(clusters[job[t].id]) = Family(Ev(t))
  /\ job[t].id = None =>
       /\ job[t].row.count = 0
       /\ \A i \in 1..Len(clusters) : Family(clusters[i]) = Family(Ev(t)) => Family(Ev(t)) \in shared

OneWriter ==
  \A t, u \in Threads :
    Upserting(t) /\ Upserting(u) /\ Family(Ev(t)) = Family(Ev(u)) => t = u \/ Family(Ev(t)) \in shared

OneCluster ==
  \A i, j \in 1..Len(clusters) :
    Family(clusters[i]) = Family(clusters[j]) => i = j \/ Family(clusters[i]) \in shared

WriterInv == (\A t \in Threads : Upserting(t) => Carries(t)) /\ OneWriter /\ OneCluster

LEMMA JoinedFamily == ASSUME NEW r \in ClusterRow, NEW e \in Events PROVE Family(Joined(r, e)) = Family(r)
BY DEF Joined, Family, ClusterRow

LEMMA WriterStays ==
  ASSUME WriterInv, UNCHANGED <<clusters, shared>>,
         \A u \in Threads : pc'[u] = "upsert" => pc[u] = "upsert" /\ job'[u] = job[u]
  PROVE  WriterInv'
BY DEF WriterInv, OneWriter, OneCluster, Upserting, Carries, Ev

\* What a lookup reads, whatever it finds.
LEMMA FindReads ==
  ASSUME TInv, NEW t \in Threads, Find(t), NEW e, e = Ev(t)
  PROVE  /\ Alone(t) /\ UNCHANGED <<clusters, recorded>> /\ e \in Events /\ pc[t] = "find"
         /\ shared \subseteq shared'
         /\ Family(e) \notin shared' => \A u \in Threads : ~(pc[u] = "upsert" /\ Family(Ev(u)) = Family(e))
         /\ \/ pc'[t] = "idle"
            \/ /\ pc'[t] = "upsert" /\ job'[t].ev = e /\ Family(job'[t].row) = Family(e)
               /\ \/ /\ job'[t].id = None /\ job'[t].row.count = 0
                     /\ \A i \in 1..Len(clusters) : Family(clusters[i]) # Family(e)
                  \/ /\ job'[t].id \in 1..Len(clusters) /\ job'[t].row = clusters[job'[t].id]
                     /\ job'[t].id # None
<1> DEFINE new == [tenant |-> e.tenant, source |-> e.source, family |-> e.family,
                   count |-> 0, status |-> "open", templates |-> {}]
           none == {i \in DOMAIN clusters : Matches(clusters[i], e)} = {}
<1>1. /\ pc[t] = "find" /\ e \in Events /\ DOMAIN clusters = 1..Len(clusters)
      /\ \A i \in 1..Len(clusters) : i # None
  <2>1. pc[t] = "find" /\ e \in Events
    BY DEF Find, Ev, TInv, ThreadsOK, ThreadOK
  <2>2. DOMAIN clusters = 1..Len(clusters) /\ Len(clusters) \in Nat
    BY DEF TInv, TablesOK
  <2>3. \A i \in 1..Len(clusters) : i \in Nat
    BY <2>2
  <2> QED BY <2>1, <2>2, <2>3, DetectionAssumption
<1>2. Alone(t) /\ UNCHANGED <<clusters, recorded>>
  BY TableTurns DEF Turn, Find
<1>3. /\ shared \subseteq shared'
      /\ Family(e) \notin shared' => \A u \in Threads : ~(pc[u] = "upsert" /\ Family(Ev(u)) = Family(e))
  BY DEF Find
<1>4. ASSUME NEW i, NEW row, Goto(t, "upsert"), job' = [job EXCEPT ![t] = [ev |-> e, id |-> i, row |-> row]]
      PROVE  pc'[t] = "upsert" /\ job'[t].ev = e /\ job'[t].id = i /\ job'[t].row = row
  BY <1>4 DEF TInv, ThreadsOK, Goto
<1>5. Finish(t) => pc'[t] = "idle"
  BY DEF Finish, Goto, TInv, ThreadsOK
<1>6. Family(new) = Family(e) /\ new.count = 0
  BY DEF Family
<1>7. \A i \in DOMAIN clusters : Matches(clusters[i], e) <=> Family(clusters[i]) = Family(e)
  BY DEF Matches, Family
<1> HIDE DEF new
<1>8. none => \A i \in 1..Len(clusters) : Family(clusters[i]) # Family(e)
  BY <1>1, <1>7
<1> HIDE DEF none
<1>9. \/ Finish(t)
      \/ none /\ Goto(t, "upsert") /\ job' = [job EXCEPT ![t] = [ev |-> e, id |-> None, row |-> new]]
      \/ \E i \in DOMAIN clusters : Family(clusters[i]) = Family(e) /\ Goto(t, "upsert") /\
           job' = [job EXCEPT ![t] = [ev |-> e, id |-> i, row |-> clusters[i]]]
  BY <1>7 DEF Find, new, none
<1>10. CASE none /\ Goto(t, "upsert") /\ job' = [job EXCEPT ![t] = [ev |-> e, id |-> None, row |-> new]]
  BY <1>1, <1>2, <1>3, <1>4, <1>6, <1>8, <1>10
<1>11. ASSUME NEW i \in DOMAIN clusters, Family(clusters[i]) = Family(e), Goto(t, "upsert"),
              job' = [job EXCEPT ![t] = [ev |-> e, id |-> i, row |-> clusters[i]]]
       PROVE  /\ pc'[t] = "upsert" /\ job'[t].ev = e /\ Family(job'[t].row) = Family(e)
              /\ job'[t].id \in 1..Len(clusters) /\ job'[t].row = clusters[job'[t].id]
              /\ job'[t].id # None
  BY <1>1, <1>4, <1>11
<1> QED BY <1>1, <1>2, <1>3, <1>5, <1>9, <1>10, <1>11

LEMMA FindW ==
  ASSUME TInv, WriterInv, NEW t \in Threads, Find(t)
  PROVE  WriterInv'
<1>0. SUFFICES ASSUME NEW e, e = Ev(t) PROVE WriterInv'
  OBVIOUS
<1>1. CASE pc'[t] = "upsert"
  <2>1. /\ Alone(t) /\ UNCHANGED clusters /\ shared \subseteq shared' /\ job'[t].ev = e
        /\ Family(e) \notin shared' => \A u \in Threads : ~(pc[u] = "upsert" /\ Family(Ev(u)) = Family(e))
        /\ Family(job'[t].row) = Family(e)
        /\ \/ /\ job'[t].id = None /\ job'[t].row.count = 0
              /\ \A i \in 1..Len(clusters) : Family(clusters[i]) # Family(e)
           \/ /\ job'[t].id \in 1..Len(clusters) /\ job'[t].row = clusters[job'[t].id]
              /\ job'[t].id # None
    BY <1>0, <1>1, FindReads
  <2>2. Carries(t)'
    BY <2>1 DEF Carries, Ev
  <2>3. ASSUME NEW u \in Threads, u # t, Upserting(u)' PROVE Carries(u)' /\ Upserting(u) /\ Ev(u)' = Ev(u)
    <3>1. Upserting(u) /\ job'[u] = job[u]
      BY <2>1, <2>3 DEF Upserting, Alone
    <3>2. Carries(u)
      BY <3>1 DEF WriterInv
    <3> QED BY <2>1, <3>1, <3>2 DEF Carries, Ev
  <2>4. OneCluster'
    BY <2>1 DEF WriterInv, OneCluster
  <2>5. Ev(t)' = e
    BY <2>1 DEF Ev
  <2>6. ASSUME NEW u \in Threads, u # t, Upserting(u)', Family(Ev(u)') = Family(e) PROVE Family(e) \in shared'
    <3>1. Upserting(u) /\ Family(Ev(u)) = Family(e)
      BY <2>3, <2>6
    <3> QED BY <2>1, <3>1 DEF Upserting
  <2>7. OneWriter'
    <3> SUFFICES ASSUME NEW u \in Threads, NEW v \in Threads, Upserting(u)', Upserting(v)', u # v,
                        Family(Ev(u)') = Family(Ev(v)')
                 PROVE  Family(Ev(u)') \in shared'
      BY DEF OneWriter
    <3>1. CASE u = t
      BY <3>1, <2>5, <2>6
    <3>2. CASE v = t
      BY <3>2, <2>5, <2>6
    <3>3. CASE u # t /\ v # t
      <4>1. Upserting(u) /\ Upserting(v) /\ Ev(u)' = Ev(u) /\ Ev(v)' = Ev(v)
        BY <3>3, <2>3
      <4> QED BY <4>1, <2>1 DEF WriterInv, OneWriter
    <3> QED BY <3>1, <3>2, <3>3
  <2> QED BY <2>2, <2>3, <2>4, <2>7 DEF WriterInv
<1>2. CASE pc'[t] # "upsert"
  <2>1. Alone(t) /\ UNCHANGED clusters /\ shared \subseteq shared'
    BY <1>0, FindReads
  <2>2. \A u \in Threads : Upserting(u)' => Upserting(u) /\ job'[u] = job[u]
    BY <1>2, <2>1 DEF Upserting, Alone
  <2>3. \A u \in Threads : Upserting(u)' => Carries(u)'
    BY <2>1, <2>2 DEF WriterInv, Carries, Ev
  <2>4. OneWriter'
    BY <2>1, <2>2 DEF WriterInv, OneWriter, Ev
  <2>5. OneCluster'
    BY <2>1 DEF WriterInv, OneCluster
  <2> QED BY <2>3, <2>4, <2>5 DEF WriterInv
<1> QED BY <1>1, <1>2

\* What a write leaves: the row is behind the others, or over the one it was
\* read from, and of the family it had.
LEMMA UpsertWrites ==
  ASSUME TInv, WriterInv, NEW t \in Threads, Upsert(t), NEW j, j = job[t], NEW e, e = Ev(t),
         NEW r, r = Joined(j.row, e)
  PROVE  /\ Alone(t) /\ pc'[t] = "idle" /\ Upserting(t) /\ shared' = shared /\ e \in Events
         /\ Family(r) = Family(e) /\ r.count = j.row.count + 1 /\ j.row.count \in Nat /\ r \in ClusterRow
         /\ \/ UNCHANGED <<clusters, recorded>>
            \/ /\ recorded' = [recorded EXCEPT ![Family(e)] = @ + 1]
               /\ clusters' = Append(clusters, r) /\ j.id = None /\ j.row.count = 0
               /\ \A i \in 1..Len(clusters) : Family(clusters[i]) = Family(e) => Family(e) \in shared
            \/ /\ recorded' = [recorded EXCEPT ![Family(e)] = @ + 1]
               /\ clusters' = [clusters EXCEPT ![j.id] = r] /\ j.id # None
               /\ j.id \in 1..Len(clusters) /\ Family(clusters[j.id]) = Family(e)
<1>1. /\ e \in Events /\ j.row \in ClusterRow /\ j.row.count \in Nat
      /\ j.id # None => j.id \in 1..Len(clusters)
      /\ Upserting(t) /\ shared' = shared
  BY DEF Upsert, Upserting, TInv, ThreadsOK, ThreadOK, Ev, ClusterRow
<1>2. Alone(t) /\ pc'[t] = "idle"
  BY TableTurns DEF Turn, Upsert
<1>3. Carries(t)
  BY <1>1 DEF WriterInv
<1>4. Family(r) = Family(e) /\ r.count = j.row.count + 1 /\ r \in ClusterRow
  BY <1>1, <1>3, JoinedFamily, JoinedOK DEF Carries
<1>5. \/ UNCHANGED <<clusters, recorded>>
      \/ /\ recorded' = [recorded EXCEPT ![Family(e)] = @ + 1]
         /\ clusters' = IF j.id = None THEN Append(clusters, r) ELSE [clusters EXCEPT ![j.id] = r]
  BY DEF Upsert
<1> QED BY <1>1, <1>2, <1>3, <1>4, <1>5 DEF Carries

\* A thread that has written has no row in hand any more.
LEMMA WritersLeft ==
  ASSUME NEW t \in Threads, Alone(t), pc'[t] = "idle"
  PROVE  \A u \in Threads : Upserting(u)' => u # t /\ Upserting(u) /\ job'[u] = job[u] /\ Ev(u)' = Ev(u)
BY DEF Alone, Upserting, Ev

\* Nothing changes if every cluster keeps its family.
LEMMA SameFamilies ==
  ASSUME TInv, WriterInv, NEW t \in Threads, Alone(t), pc'[t] = "idle", shared' = shared,
         Len(clusters') = Len(clusters),
         \A i \in 1..Len(clusters) : Family(clusters'[i]) = Family(clusters[i])
  PROVE  WriterInv'
<1>1. ASSUME NEW u \in Threads, Upserting(u)' PROVE Carries(u)'
  <2>1. Upserting(u) /\ job'[u] = job[u] /\ Ev(u)' = Ev(u)
    BY <1>1, WritersLeft
  <2>2. Carries(u)
    BY <2>1 DEF WriterInv
  <2>3. job[u].id # None => job[u].id \in 1..Len(clusters)
    BY <2>1 DEF TInv, ThreadsOK, ThreadOK, Upserting
  <2> QED BY <2>1, <2>2, <2>3 DEF Carries
<1>2. OneWriter'
  BY WritersLeft DEF WriterInv, OneWriter
<1>3. OneCluster'
  BY DEF WriterInv, OneCluster
<1> QED BY <1>1, <1>2, <1>3 DEF WriterInv

LEMMA UpsertW ==
  ASSUME TInv, WriterInv, NEW t \in Threads, Upsert(t)
  PROVE  WriterInv'
<1>0. SUFFICES ASSUME NEW j, j = job[t], NEW e, e = Ev(t), NEW r, r = Joined(j.row, e) PROVE WriterInv'
  OBVIOUS
<1>1. /\ Alone(t) /\ pc'[t] = "idle" /\ Upserting(t) /\ shared' = shared /\ e \in Events
      /\ Family(r) = Family(e)
      /\ \/ clusters' = clusters
         \/ /\ clusters' = Append(clusters, r)
            /\ \A i \in 1..Len(clusters) : Family(clusters[i]) = Family(e) => Family(e) \in shared
         \/ /\ clusters' = [clusters EXCEPT ![j.id] = r] /\ j.id \in 1..Len(clusters)
            /\ Family(clusters[j.id]) = Family(e)
  BY <1>0, UpsertWrites
<1>2. DOMAIN clusters = 1..Len(clusters) /\ Len(clusters) \in Nat /\ clusters \in Seq(ClusterRow)
  BY DEF TInv, TablesOK
<1>3. CASE clusters' = clusters
  BY <1>1, <1>3, SameFamilies
<1>4. CASE clusters' = [clusters EXCEPT ![j.id] = r] /\ j.id \in 1..Len(clusters)
           /\ Family(clusters[j.id]) = Family(e)
  <2>1. Len(clusters') = Len(clusters) /\ \A i \in 1..Len(clusters) : Family(clusters'[i]) = Family(clusters[i])
    <3>1. Len(clusters') = Len(clusters)
      BY <1>2, <1>4
    <3>2. \A i \in 1..Len(clusters) : clusters'[i] = IF i = j.id THEN r ELSE clusters[i]
      BY <1>2, <1>4
    <3> QED BY <1>1, <1>4, <3>1, <3>2
  <2> QED BY <1>1, <2>1, SameFamilies
<1>5. CASE clusters' = Append(clusters, r)
           /\ \A i \in 1..Len(clusters) : Family(clusters[i]) = Family(e) => Family(e) \in shared
  <2>1. /\ Len(clusters') = Len(clusters) + 1 /\ clusters'[Len(clusters) + 1] = r
        /\ \A i \in 1..Len(clusters) : clusters'[i] = clusters[i]
        /\ \A i \in 1..Len(clusters') : i = Len(clusters) + 1 \/ i \in 1..Len(clusters)
    BY <1>2, <1>5
  <2>2. ASSUME NEW u \in Threads, Upserting(u)' PROVE Carries(u)'
    <3>1. u # t /\ Upserting(u) /\ job'[u] = job[u] /\ Ev(u)' = Ev(u)
      BY <1>1, <2>2, WritersLeft
    <3>2. Carries(u)
      BY <3>1 DEF WriterInv
    <3>3. job[u].id # None => job[u].id \in 1..Len(clusters)
      BY <3>1 DEF TInv, ThreadsOK, ThreadOK, Upserting
    <3>4. Family(Ev(u)) = Family(e) => Family(Ev(u)) \in shared
      BY <1>0, <1>1, <3>1 DEF WriterInv, OneWriter
    <3>5. \A i \in 1..Len(clusters') : Family(clusters'[i]) = Family(Ev(u)) =>
            Family(Ev(u)) \in shared \/ (i \in 1..Len(clusters) /\ clusters'[i] = clusters[i])
      BY <1>1, <2>1, <3>4
    <3>6. job[u].id = None => \A i \in 1..Len(clusters') : Family(clusters'[i]) = Family(Ev(u)) => Family(Ev(u)) \in shared
      BY <3>2, <3>5 DEF Carries
    <3>7. job[u].id # None => Family(clusters'[job[u].id]) = Family(Ev(u))
      BY <2>1, <3>2, <3>3 DEF Carries
    <3> QED BY <1>1, <3>1, <3>2, <3>6, <3>7 DEF Carries
  <2>3. OneWriter'
    BY <1>1, WritersLeft DEF WriterInv, OneWriter
  <2>4. OneCluster'
    BY <1>1, <1>5, <2>1 DEF WriterInv, OneCluster
  <2> QED BY <2>2, <2>3, <2>4 DEF WriterInv
<1> QED BY <1>1, <1>3, <1>4, <1>5

\* A mark changes no count and no family.
LEMMA Marked ==
  ASSUME TInv, NEW t \in Threads, Mark(t)
  PROVE  /\ Alone(t) /\ pc'[t] = "idle" /\ UNCHANGED <<shared, recorded>> /\ Len(clusters') = Len(clusters)
         /\ \A i \in 1..Len(clusters) : /\ Family(clusters'[i]) = Family(clusters[i])
                                        /\ clusters'[i].count = clusters[i].count
<1>1. Alone(t) /\ pc'[t] = "idle" /\ UNCHANGED <<shared, recorded>>
  BY TableTurns DEF Turn, Mark
<1>2. clusters \in Seq(ClusterRow)
  BY DEF TInv, TablesOK
<1>3. ASSUME NEW k, clusters' = [clusters EXCEPT ![k].status = "suggested"]
      PROVE  /\ Len(clusters') = Len(clusters)
             /\ \A i \in 1..Len(clusters) :
                  clusters'[i] = clusters[i] \/ clusters'[i] = [clusters[i] EXCEPT !.status = "suggested"]
  BY <1>2, <1>3
<1>4. \A i \in 1..Len(clusters) : clusters[i] \in ClusterRow
  BY <1>2
<1>5. \A r \in ClusterRow : LET m == [r EXCEPT !.status = "suggested"] IN Family(m) = Family(r) /\ m.count = r.count
  BY DEF Family, ClusterRow
<1> QED BY <1>1, <1>3, <1>4, <1>5 DEF Mark

LEMMA StepW ==
  ASSUME TInv, WriterInv, NEW t \in Threads, Step(t)
  PROVE  WriterInv'
<1>1. CASE Evaluate(t) \/ Capture(t) \/ Judge(t) \/ Check(t)
  BY <1>1, MonitorTurns, WriterStays
     DEF Turn, Alone, Ends, Evaluate, Capture, Judge, Check, tables
<1>2. CASE Alert(t) \/ Degrade(t) \/ Correlate(t) \/ Explain(t)
  BY <1>2, AlertTurns, WriterStays DEF Turn, Alone, Ends, Alert, Degrade, Correlate, Explain, tables
<1>3. CASE Draft(t) \/ IndexSnap(t) \/ WriteDrift(t)
  BY <1>3, TableTurns, WriterStays DEF Turn, Alone, Draft, IndexSnap, WriteDrift
<1>4. CASE Mark(t)
  BY <1>4, Marked, SameFamilies
<1> QED BY <1>1, <1>2, <1>3, <1>4, FindW, UpsertW DEF Step

LEMMA NextW == TInv /\ WriterInv /\ [Next]_vars => WriterInv'
<1> SUFFICES ASSUME TInv, WriterInv, [Next]_vars PROVE WriterInv'
  OBVIOUS
<1>1. ASSUME NEW p \in Processes, Restart(p) PROVE WriterInv'
  BY <1>1, WriterStays DEF Restart, tables
<1>2. ASSUME NEW t \in Threads, NEW e \in Traffic[t], Observe(t, e) PROVE WriterInv'
  BY <1>2, MonitorTurns, WriterStays DEF Turn, Alone, Ends, Observe, tables
<1>3. ASSUME NEW t \in Threads, NEW c, StartSuggest(t, c) \/ StartTick(t, c) PROVE WriterInv'
  BY <1>3, TableTurns, WriterStays DEF Turn, Alone, StartSuggest, StartTick, tables
<1>4. CASE UNCHANGED vars
  BY <1>4, WriterStays DEF vars, tables
<1> QED BY <1>1, <1>2, <1>3, <1>4, StepW DEF Next

LEMMA WriterAlways == Spec => []WriterInv
<1>1. Init => WriterInv
  BY DEF Init, WriterInv, OneWriter, OneCluster, Upserting
<1> QED BY <1>1, TInvAlways, NextW, PTL DEF Spec

\* The sum of what full has at the places of the family f is m.
Total(fam, full, n, f, m) ==
  \E s : Adds(s, [i \in 1..n |-> IF fam[i] = f THEN full[i] ELSE 0], n) /\ s[n] = m

Fam == [i \in 1..Len(clusters) |-> Family(clusters[i])]

\* What a row says of a cluster of the family f that was written full times, if
\* the families in sh were recorded by two threads at once.
CountOK(count, full, f, sh) == count <= full /\ (count = full \/ f \in sh)

\* Every cluster was written full[i] times, once for each event of its family:
\* a row read from it says as much, or less if somebody overwrote the count.
Written(full) ==
  /\ \A f \in Families : Total(Fam, full, Len(clusters), f, recorded[f])
  /\ \A i \in 1..Len(clusters) : CountOK(clusters[i].count, full[i], Family(clusters[i]), shared)
  /\ \A t \in Threads : Upserting(t) /\ job[t].id # None =>
       CountOK(job[t].row.count, full[job[t].id], Family(Ev(t)), shared)

CountInv ==
  /\ recorded \in [Families -> Nat]
  /\ \E full \in [1..Len(clusters) -> Nat] : Written(full)

LEMMA TotalPut ==
  ASSUME NEW n \in Nat, NEW fam, NEW full \in [1..n -> Nat], NEW i \in 1..n, NEW g, NEW m,
         Total(fam, full, n, g, m), NEW new, new = [full EXCEPT ![i] = @ + 1]
  PROVE  Total(fam, new, n, g, IF g = fam[i] THEN m + 1 ELSE m)
<1> DEFINE a == [k \in 1..n |-> IF fam[k] = g THEN full[k] ELSE 0]
           b == [k \in 1..n |-> IF fam[k] = g THEN new[k] ELSE 0]
<1>1. PICK s : Adds(s, a, n) /\ s[n] = m
  BY DEF Total
<1>2. a \in [1..n -> Nat] /\ b \in [1..n -> Nat] /\ full[i] \in Nat
      /\ new[i] = full[i] + 1 /\ \A k \in 1..n : k # i => new[k] = full[k]
  OBVIOUS
<1>3. CASE g = fam[i]
  <2>1. b[i] = a[i] + 1 /\ \A k \in 1..n : k # i => b[k] = a[k]
    BY <1>2, <1>3
  <2>2. a \in [1..n -> Nat] /\ b \in [1..n -> Nat] /\ Adds(s, a, n)
    BY <1>1, <1>2
  <2>3. \E r : Adds(r, b, n) /\ r[n] = s[n] + 1
    <3> HIDE DEF a, b
    <3> QED BY <2>1, <2>2, SumPut
  <2> QED BY <1>1, <1>3, <2>3 DEF Total
<1>4. CASE g # fam[i]
  <2>1. \A k \in 1..n : b[k] = a[k]
    BY <1>2, <1>4
  <2>2. Adds(s, b, n)
    <3> HIDE DEF a, b
    <3> QED BY <1>1, <2>1 DEF Adds
  <2> QED BY <1>1, <1>4, <2>2 DEF Total
<1> QED BY <1>3, <1>4

LEMMA TotalAppend ==
  ASSUME NEW n \in Nat, NEW fam, NEW full \in [1..n -> Nat], NEW g, NEW m, Total(fam, full, n, g, m),
         NEW new, new = [k \in 1..n + 1 |-> IF k = n + 1 THEN 1 ELSE full[k]]
  PROVE  Total(fam, new, n + 1, g, IF g = fam[n + 1] THEN m + 1 ELSE m)
<1> DEFINE a == [k \in 1..n |-> IF fam[k] = g THEN full[k] ELSE 0]
           b == [k \in 1..n + 1 |-> IF fam[k] = g THEN new[k] ELSE 0]
<1>1. PICK s : Adds(s, a, n) /\ s[n] = m
  BY DEF Total
<1>2. /\ \A k \in 1..n : k \in 1..n + 1 /\ k # n + 1
      /\ n + 1 \in 1..n + 1 /\ n + 1 \in Nat
      /\ \A k \in 1..n + 1 : k = n + 1 \/ k \in 1..n
  OBVIOUS
<1>3. /\ \A k \in 1..n : new[k] = full[k] /\ full[k] \in Nat
      /\ new[n + 1] = 1
  BY <1>2
<1>4. a \in [1..n -> Nat] /\ b \in [1..n + 1 -> Nat]
  BY <1>2, <1>3
<1>5. (\A k \in 1..n : b[k] = a[k]) /\ b[n + 1] = IF g = fam[n + 1] THEN 1 ELSE 0
  BY <1>2, <1>3
<1>6. PICK r : Adds(r, b, n + 1)
  <2> HIDE DEF b
  <2> QED BY <1>2, SumOf
<1>7. r[n + 1] = s[n] + b[n + 1] /\ s[n] \in Nat
  <2> HIDE DEF a, b
  <2>1. n \in 0..n
    OBVIOUS
  <2>2. s[n] \in Nat
    BY <1>1, <1>4, <2>1, SumIsNat
  <2> QED BY <1>1, <1>4, <1>5, <1>6, <2>2, SumAppend
<1>8. r[n + 1] = IF g = fam[n + 1] THEN m + 1 ELSE m
  <2> HIDE DEF a, b
  <2> QED BY <1>1, <1>5, <1>7
<1> QED BY <1>6, <1>8 DEF Total

\* Of the families, only those of the places matter.
LEMMA TotalSame ==
  ASSUME NEW n, NEW fam, NEW more, \A k \in 1..n : more[k] = fam[k], NEW full, NEW g, NEW m
  PROVE  Total(fam, full, n, g, m) <=> Total(more, full, n, g, m)
<1>1. [i \in 1..n |-> IF fam[i] = g THEN full[i] ELSE 0] = [i \in 1..n |-> IF more[i] = g THEN full[i] ELSE 0]
  OBVIOUS
<1> QED BY <1>1 DEF Total

LEMMA CountStays ==
  ASSUME CountInv, UNCHANGED <<clusters, recorded>>, shared \subseteq shared',
         \A u \in Threads : Upserting(u)' /\ job'[u].id # None =>
           \/ Upserting(u) /\ job'[u] = job[u]
           \/ /\ job'[u].id \in 1..Len(clusters) /\ job'[u].row = clusters[job'[u].id]
              /\ Family(Ev(u)') = Family(clusters[job'[u].id])
  PROVE  CountInv'
<1>1. PICK full \in [1..Len(clusters) -> Nat] : Written(full)
  BY DEF CountInv
<1>2. \A f \in Families : Total(Fam, full, Len(clusters), f, recorded[f])'
  BY <1>1 DEF Written, Fam
<1>3. \A i \in 1..Len(clusters) : CountOK(clusters[i].count, full[i], Family(clusters[i]), shared')
  BY <1>1 DEF Written, CountOK
<1>4. ASSUME NEW u \in Threads, Upserting(u)', job'[u].id # None
      PROVE  CountOK(job'[u].row.count, full[job'[u].id], Family(Ev(u)'), shared')
  <2>1. CASE Upserting(u) /\ job'[u] = job[u]
    <3>1. CountOK(job[u].row.count, full[job[u].id], Family(Ev(u)), shared)
      BY <1>1, <1>4, <2>1 DEF Written
    <3> QED BY <2>1, <3>1 DEF CountOK, Ev
  <2>2. CASE /\ job'[u].id \in 1..Len(clusters) /\ job'[u].row = clusters[job'[u].id]
             /\ Family(Ev(u)') = Family(clusters[job'[u].id])
    BY <1>3, <2>2
  <2> QED BY <1>4, <2>1, <2>2
<1>5. Written(full)'
  BY <1>2, <1>3, <1>4 DEF Written
<1> QED BY <1>5 DEF CountInv

LEMMA FindC ==
  ASSUME TInv, WriterInv, CountInv, NEW t \in Threads, Find(t)
  PROVE  CountInv'
<1>0. SUFFICES ASSUME NEW e, e = Ev(t) PROVE CountInv'
  OBVIOUS
<1>1. /\ Alone(t) /\ UNCHANGED <<clusters, recorded>> /\ shared \subseteq shared'
      /\ \/ pc'[t] = "idle"
         \/ /\ pc'[t] = "upsert" /\ job'[t].ev = e /\ Family(job'[t].row) = Family(e)
            /\ \/ job'[t].id = None
               \/ job'[t].id \in 1..Len(clusters) /\ job'[t].row = clusters[job'[t].id]
  BY <1>0, FindReads
<1>2. ASSUME NEW u \in Threads, Upserting(u)', job'[u].id # None
      PROVE  \/ Upserting(u) /\ job'[u] = job[u]
             \/ /\ job'[u].id \in 1..Len(clusters) /\ job'[u].row = clusters[job'[u].id]
                /\ Family(Ev(u)') = Family(clusters[job'[u].id])
  <2>1. CASE u = t
    BY <1>1, <1>2, <2>1 DEF Upserting, Ev
  <2>2. CASE u # t
    BY <1>1, <1>2, <2>2 DEF Upserting, Alone
  <2> QED BY <2>1, <2>2
<1> QED BY <1>1, <1>2, CountStays

LEMMA MarkC ==
  ASSUME TInv, CountInv, NEW t \in Threads, Mark(t)
  PROVE  CountInv'
<1>1. PICK full \in [1..Len(clusters) -> Nat] : Written(full)
  BY DEF CountInv
<1>2. /\ Alone(t) /\ pc'[t] = "idle" /\ UNCHANGED <<shared, recorded>> /\ Len(clusters') = Len(clusters)
      /\ \A i \in 1..Len(clusters) : /\ Family(clusters'[i]) = Family(clusters[i])
                                     /\ clusters'[i].count = clusters[i].count
  BY Marked
<1>3. Fam' = Fam
  BY <1>2 DEF Fam
<1>4. Written(full)'
  <2>1. \A f \in Families : Total(Fam', full, Len(clusters'), f, recorded'[f])
    BY <1>1, <1>2, <1>3 DEF Written
  <2>2. \A i \in 1..Len(clusters') : CountOK(clusters'[i].count, full[i], Family(clusters'[i]), shared')
    BY <1>1, <1>2 DEF Written
  <2>3. ASSUME NEW u \in Threads, Upserting(u)', job'[u].id # None
        PROVE  CountOK(job'[u].row.count, full[job'[u].id], Family(Ev(u)'), shared')
    <3>1. Upserting(u) /\ job'[u] = job[u] /\ Ev(u)' = Ev(u)
      BY <1>2, <2>3, WritersLeft
    <3> QED BY <1>1, <1>2, <2>3, <3>1 DEF Written
  <2> QED BY <2>1, <2>2, <2>3 DEF Written
<1> QED BY <1>2, <1>4 DEF CountInv

\* The count of one family goes up by one, those of the others stay.
LEMMA RecordedOnce ==
  ASSUME recorded \in [Families -> Nat], NEW e \in Events,
         recorded' = [recorded EXCEPT ![Family(e)] = @ + 1]
  PROVE  /\ recorded' \in [Families -> Nat]
         /\ \A g \in Families : recorded'[g] = IF g = Family(e) THEN recorded[g] + 1 ELSE recorded[g]
<1>1. Family(e) \in Families
  BY DEF Families
<1> QED BY <1>1

\* What the others have in hand is still no more than their clusters' events.
LEMMA OthersInHand ==
  ASSUME TInv, WriterInv, NEW t \in Threads, Upserting(t), Alone(t), pc'[t] = "idle", shared' = shared,
         NEW full \in [1..Len(clusters) -> Nat], Written(full), NEW new,
         \A i \in 1..Len(clusters) :
           \/ new[i] = full[i]
           \/ new[i] = full[i] + 1 /\ Family(clusters[i]) = Family(Ev(t)),
         NEW u \in Threads, Upserting(u)', job'[u].id # None
  PROVE  CountOK(job'[u].row.count, new[job'[u].id], Family(Ev(u)'), shared')
<1>0. SUFFICES ASSUME NEW i, i = job[u].id, NEW c, c = job[u].row.count, NEW f, f = Family(Ev(u))
               PROVE  CountOK(c, new[i], f, shared)
  BY WritersLeft
<1>1. u # t /\ Upserting(u) /\ job'[u] = job[u]
  BY WritersLeft
<1>2. i # None /\ i \in 1..Len(clusters) /\ c \in Nat
  BY <1>0, <1>1 DEF TInv, ThreadsOK, ThreadOK, Upserting, ClusterRow
<1>3. CountOK(c, full[i], f, shared) /\ full[i] \in Nat
  BY <1>0, <1>1, <1>2 DEF Written
<1>4. Family(clusters[i]) = f
  BY <1>0, <1>1, <1>2 DEF WriterInv, Carries
<1>5. CASE new[i] = full[i]
  BY <1>3, <1>5
<1>6. CASE new[i] = full[i] + 1 /\ Family(clusters[i]) = Family(Ev(t))
  <2>1. f \in shared
    BY <1>0, <1>1, <1>4, <1>6 DEF WriterInv, OneWriter
  <2> QED BY <1>2, <1>3, <1>6, <2>1 DEF CountOK
<1> QED BY <1>2, <1>5, <1>6

\* Thread t has written the row r for its event, one more than it had in hand.
Recorded(t, r) ==
  /\ Upserting(t) /\ Alone(t) /\ pc'[t] = "idle" /\ shared' = shared /\ Ev(t) \in Events
  /\ recorded' = [recorded EXCEPT ![Family(Ev(t))] = @ + 1]
  /\ Family(r) = Family(Ev(t)) /\ job[t].row.count \in Nat /\ r.count = job[t].row.count + 1

\* A cluster that is written over: it was written once more.
LEMMA OverwrittenC ==
  ASSUME TInv, WriterInv, CountInv, NEW t \in Threads, NEW r, Recorded(t, r),
         job[t].id # None, job[t].id \in 1..Len(clusters), clusters' = [clusters EXCEPT ![job[t].id] = r],
         Family(clusters[job[t].id]) = Family(Ev(t))
  PROVE  CountInv'
<1> SUFFICES ASSUME NEW e \in Events, e = Ev(t), NEW i \in 1..Len(clusters), i = job[t].id, i # None,
                    NEW c \in Nat, c = job[t].row.count, r.count = c + 1, Family(r) = Family(e),
                    Upserting(t), Alone(t), pc'[t] = "idle", shared' = shared,
                    recorded' = [recorded EXCEPT ![Family(e)] = @ + 1],
                    clusters' = [clusters EXCEPT ![i] = r], Family(clusters[i]) = Family(e)
             PROVE  CountInv'
  BY DEF Recorded
<1>1. PICK full \in [1..Len(clusters) -> Nat] : Written(full)
  BY DEF CountInv
<1>0. Len(clusters) \in Nat
  BY DEF TInv, TablesOK
<1>2. SUFFICES ASSUME NEW n \in Nat, n = Len(clusters), NEW new, new = [full EXCEPT ![i] = @ + 1]
               PROVE  CountInv'
  BY <1>0
<1>3. /\ new \in [1..n -> Nat] /\ new[i] = full[i] + 1 /\ full[i] \in Nat
      /\ \A k \in 1..n : k # i => new[k] = full[k]
  BY <1>2
<1>4. /\ Len(clusters') = n /\ clusters'[i] = r
      /\ \A k \in 1..n : k # i => clusters'[k] = clusters[k]
  BY <1>2 DEF TInv, TablesOK
<1>5. Fam' = Fam /\ Fam[i] = Family(e)
  <2>1. \A k \in 1..n : Family(clusters'[k]) = Family(clusters[k])
    BY <1>2, <1>4
  <2> QED BY <1>2, <1>4, <2>1 DEF Fam
<1>6. /\ recorded' \in [Families -> Nat]
      /\ \A g \in Families : recorded'[g] = IF g = Family(e) THEN recorded[g] + 1 ELSE recorded[g]
  BY RecordedOnce DEF CountInv
<1>7. ASSUME NEW g \in Families PROVE Total(Fam', new, n, g, recorded'[g])
  <2>1. Total(Fam, full, n, g, recorded[g])
    BY <1>1, <1>2 DEF Written
  <2>2. i \in 1..n /\ full \in [1..n -> Nat]
    BY <1>2
  <2>3. Total(Fam, new, n, g, IF g = Fam[i] THEN recorded[g] + 1 ELSE recorded[g])
    <3>1. SUFFICES ASSUME NEW fam, fam = Fam, NEW m, m = recorded[g]
                   PROVE  Total(fam, new, n, g, IF g = fam[i] THEN m + 1 ELSE m)
      OBVIOUS
    <3>2. Total(fam, full, n, g, m)
      BY <2>1, <3>1
    <3> QED BY <1>2, <2>2, <3>2, TotalPut, ZenonT(40)
  <2> QED BY <1>5, <1>6, <2>3
<1>8. ASSUME NEW k \in 1..n PROVE CountOK(clusters'[k].count, new[k], Family(clusters'[k]), shared')
  <2>1. CASE k = i
    <3>1. CountOK(c, full[i], Family(e), shared)
      BY <1>1 DEF Written
    <3>2. CountOK(c + 1, full[i] + 1, Family(e), shared)
      BY <1>3, <3>1, SMTT(30) DEF CountOK
    <3> QED BY <1>3, <1>4, <2>1, <3>2
  <2>2. CASE k # i
    BY <1>1, <1>2, <1>3, <1>4, <2>2 DEF Written
  <2> QED BY <2>1, <2>2
<1>9. \A k \in 1..Len(clusters) : \/ new[k] = full[k]
                                  \/ new[k] = full[k] + 1 /\ Family(clusters[k]) = Family(Ev(t))
  BY <1>2, <1>3
<1>10. ASSUME NEW u \in Threads, Upserting(u)', job'[u].id # None
       PROVE  CountOK(job'[u].row.count, new[job'[u].id], Family(Ev(u)'), shared')
  BY <1>1, <1>9, <1>10, OthersInHand
<1>11. Written(new)'
  BY <1>4, <1>7, <1>8, <1>10 DEF Written
<1> QED BY <1>3, <1>4, <1>6, <1>11 DEF CountInv

\* A new cluster: it was written once.
LEMMA AppendedC ==
  ASSUME TInv, WriterInv, CountInv, NEW t \in Threads, NEW r, Recorded(t, r), job[t].row.count = 0,
         clusters' = Append(clusters, r)
  PROVE  CountInv'
<1>13. /\ Family(r) = Family(Ev(t)) /\ r.count = 1 /\ Ev(t) \in Events
       /\ Upserting(t) /\ Alone(t) /\ pc'[t] = "idle" /\ shared' = shared
       /\ recorded' = [recorded EXCEPT ![Family(Ev(t))] = @ + 1]
  BY DEF Recorded
<1> SUFFICES ASSUME NEW e \in Events, e = Ev(t), Family(r) = Family(e), r.count = 1,
                    Upserting(t), Alone(t), pc'[t] = "idle", shared' = shared,
                    recorded' = [recorded EXCEPT ![Family(e)] = @ + 1]
             PROVE  CountInv'
  BY <1>13
<1>1. PICK full \in [1..Len(clusters) -> Nat] : Written(full)
  BY DEF CountInv
<1>0. Len(clusters) \in Nat
  BY DEF TInv, TablesOK
<1>2. SUFFICES ASSUME NEW n \in Nat, n = Len(clusters),
                      NEW new, new = [k \in 1..n + 1 |-> IF k = n + 1 THEN 1 ELSE full[k]]
               PROVE  CountInv'
  BY <1>0
<1>3. /\ \A k \in 1..n : k \in 1..n + 1 /\ k # n + 1
      /\ n + 1 \in 1..n + 1 /\ n + 1 \in Nat
      /\ \A k \in 1..n + 1 : k = n + 1 \/ k \in 1..n
  OBVIOUS
<1>4. /\ new \in [1..n + 1 -> Nat] /\ new[n + 1] = 1
      /\ \A k \in 1..n : new[k] = full[k]
  BY <1>2, <1>3
<1>5. /\ Len(clusters') = n + 1 /\ clusters'[n + 1] = r
      /\ \A k \in 1..n : clusters'[k] = clusters[k]
  BY <1>2 DEF TInv, TablesOK
<1>6. (\A k \in 1..n : Fam'[k] = Fam[k]) /\ Fam'[n + 1] = Family(e)
  BY <1>2, <1>3, <1>5 DEF Fam
<1>7. /\ recorded' \in [Families -> Nat]
      /\ \A g \in Families : recorded'[g] = IF g = Family(e) THEN recorded[g] + 1 ELSE recorded[g]
  BY RecordedOnce DEF CountInv
<1>8. ASSUME NEW g \in Families PROVE Total(Fam', new, n + 1, g, recorded'[g])
  <2>1. Total(Fam, full, n, g, recorded[g]) /\ full \in [1..n -> Nat]
    BY <1>1, <1>2 DEF Written
  <2>2. Total(Fam', new, n + 1, g, IF g = Fam'[n + 1] THEN recorded[g] + 1 ELSE recorded[g])
    <3>1. SUFFICES ASSUME NEW fam, fam = Fam, NEW more, more = Fam', NEW m, m = recorded[g]
                   PROVE  Total(more, new, n + 1, g, IF g = more[n + 1] THEN m + 1 ELSE m)
      OBVIOUS
    <3>2. Total(fam, full, n, g, m) /\ \A k \in 1..n : more[k] = fam[k]
      BY <1>6, <2>1, <3>1
    <3>3. Total(more, full, n, g, m)
      BY <3>2, TotalSame
    <3> QED BY <1>2, <2>1, <3>3, TotalAppend
  <2> QED BY <1>6, <1>7, <2>2
<1>9. ASSUME NEW k \in 1..n + 1 PROVE CountOK(clusters'[k].count, new[k], Family(clusters'[k]), shared')
  <2>1. CASE k = n + 1
    BY <1>4, <1>5, <2>1 DEF CountOK
  <2>2. CASE k \in 1..n
    BY <1>1, <1>2, <1>4, <1>5, <2>2 DEF Written
  <2> QED BY <1>3, <2>1, <2>2
<1>10. \A k \in 1..Len(clusters) : \/ new[k] = full[k]
                                   \/ new[k] = full[k] + 1 /\ Family(clusters[k]) = Family(Ev(t))
  BY <1>2, <1>4
<1>11. ASSUME NEW u \in Threads, Upserting(u)', job'[u].id # None
       PROVE  CountOK(job'[u].row.count, new[job'[u].id], Family(Ev(u)'), shared')
  BY <1>1, <1>10, <1>11, OthersInHand
<1>12. Written(new)'
  BY <1>5, <1>8, <1>9, <1>11 DEF Written
<1> QED BY <1>4, <1>5, <1>7, <1>12 DEF CountInv

LEMMA UpsertC ==
  ASSUME TInv, WriterInv, CountInv, NEW t \in Threads, Upsert(t)
  PROVE  CountInv'
<1>0. SUFFICES ASSUME NEW j, j = job[t], NEW e, e = Ev(t), NEW r, r = Joined(j.row, e) PROVE CountInv'
  OBVIOUS
<1>1. /\ Alone(t) /\ pc'[t] = "idle" /\ Upserting(t) /\ shared' = shared /\ e \in Events
      /\ Family(r) = Family(e) /\ r.count = j.row.count + 1 /\ j.row.count \in Nat
      /\ \/ UNCHANGED <<clusters, recorded>>
         \/ /\ recorded' = [recorded EXCEPT ![Family(e)] = @ + 1]
            /\ clusters' = Append(clusters, r) /\ j.row.count = 0
         \/ /\ recorded' = [recorded EXCEPT ![Family(e)] = @ + 1]
            /\ clusters' = [clusters EXCEPT ![j.id] = r] /\ j.id # None
            /\ j.id \in 1..Len(clusters) /\ Family(clusters[j.id]) = Family(e)
  BY <1>0, UpsertWrites
<1>2. CASE UNCHANGED <<clusters, recorded>>
  BY <1>1, <1>2, WritersLeft, CountStays
<1>3. CASE recorded' = [recorded EXCEPT ![Family(e)] = @ + 1]
  <2>1. Recorded(t, r)
    BY <1>0, <1>1, <1>3 DEF Recorded
  <2> QED BY <1>0, <1>1, <1>2, <2>1, OverwrittenC, AppendedC
<1> QED BY <1>1, <1>2, <1>3

LEMMA StepC ==
  ASSUME TInv, WriterInv, CountInv, NEW t \in Threads, Step(t)
  PROVE  CountInv'
<1>1. CASE Evaluate(t) \/ Capture(t) \/ Judge(t) \/ Check(t)
  BY <1>1, MonitorTurns, CountStays
     DEF Turn, Alone, Ends, Evaluate, Capture, Judge, Check, tables, Upserting
<1>2. CASE Alert(t) \/ Degrade(t) \/ Correlate(t) \/ Explain(t)
  BY <1>2, AlertTurns, CountStays DEF Turn, Alone, Ends, Alert, Degrade, Correlate, Explain, tables, Upserting
<1>3. CASE Draft(t) \/ IndexSnap(t) \/ WriteDrift(t)
  BY <1>3, TableTurns, CountStays DEF Turn, Alone, Draft, IndexSnap, WriteDrift, Upserting
<1> QED BY <1>1, <1>2, <1>3, FindC, UpsertC, MarkC DEF Step

LEMMA NextC == TInv /\ WriterInv /\ CountInv /\ [Next]_vars => CountInv'
<1> SUFFICES ASSUME TInv, WriterInv, CountInv, [Next]_vars PROVE CountInv'
  OBVIOUS
<1>1. ASSUME NEW p \in Processes, Restart(p) PROVE CountInv'
  BY <1>1, CountStays DEF Restart, tables, Upserting
<1>2. ASSUME NEW t \in Threads, NEW e \in Traffic[t], Observe(t, e) PROVE CountInv'
  BY <1>2, MonitorTurns, CountStays DEF Turn, Alone, Ends, Observe, tables, Upserting
<1>3. ASSUME NEW t \in Threads, NEW c, StartSuggest(t, c) \/ StartTick(t, c) PROVE CountInv'
  BY <1>3, TableTurns, CountStays DEF Turn, Alone, StartSuggest, StartTick, tables, Upserting
<1>4. CASE UNCHANGED vars
  BY <1>4, CountStays DEF vars, tables, Upserting
<1> QED BY <1>1, <1>2, <1>3, <1>4, StepC DEF Next

LEMMA InitC == Init => CountInv
<1> SUFFICES ASSUME Init PROVE CountInv
  OBVIOUS
<1> DEFINE none == [i \in 1..0 |-> 0]
<1>1. clusters = <<>> /\ Len(clusters) = 0 /\ recorded = [f \in Families |-> 0]
      /\ \A t \in Threads : ~Upserting(t)
  BY DEF Init, Upserting
<1>2. 0 \in Nat /\ none \in [1..Len(clusters) -> Nat] /\ \A i : i \notin 1..Len(clusters)
  BY <1>1
<1>3. ASSUME NEW f \in Families PROVE Total(Fam, none, Len(clusters), f, recorded[f])
  <2>1. PICK s : Adds(s, [i \in 1..0 |-> IF Fam[i] = f THEN none[i] ELSE 0], 0)
    BY <1>2, SumOf
  <2>2. s[0] = 0
    BY <2>1 DEF Adds
  <2> QED BY <1>1, <2>1, <2>2 DEF Total
<1>4. Written(none)
  <2> HIDE DEF none
  <2> QED BY <1>1, <1>2, <1>3 DEF Written
<1> QED BY <1>1, <1>2, <1>4 DEF CountInv

LEMMA CountAlways == Spec => []CountInv
BY InitC, NextC, TInvAlways, WriterAlways, PTL DEF Spec

\* Count(f) is a sum over the table.
LEMMA CountIsSum ==
  ASSUME NEW f, Len(clusters) \in Nat
  PROVE  \E s : /\ Adds(s, [i \in 1..Len(clusters) |-> IF Family(clusters[i]) = f THEN clusters[i].count ELSE 0],
                        Len(clusters))
                /\ Count(f) = s[Len(clusters)]
<1> DEFINE a == [n \in Nat |-> IF Family(clusters[n]) = f THEN clusters[n].count ELSE 0]
           P(s) == s = [n \in Nat |-> IF n = 0 THEN 0
                          ELSE s[n - 1] + IF Family(clusters[n]) = f THEN clusters[n].count ELSE 0]
           upto == CHOOSE s : P(s)
<1>1. PICK g : g = [n \in Nat |-> IF n = 0 THEN 0 ELSE g[n - 1] + a[n]]
  <2> HIDE DEF a
  <2> QED BY SumsExist
<1>2. P(g)
  <2>1. \A n \in Nat : g[n] = IF n = 0 THEN 0
                              ELSE g[n - 1] + IF Family(clusters[n]) = f THEN clusters[n].count ELSE 0
    BY <1>1
  <2>2. g = [n \in Nat |-> g[n]]
    BY <1>1
  <2> QED BY <2>1, <2>2
<1>3. P(upto)
  <2> HIDE DEF P
  <2> QED BY <1>2
<1>4. Count(f) = upto[Len(clusters)]
  BY DEF Count
<1>5. Adds(upto, [i \in 1..Len(clusters) |-> IF Family(clusters[i]) = f THEN clusters[i].count ELSE 0],
           Len(clusters))
  <2> HIDE DEF upto
  <2>1. \A n \in 1..Len(clusters) : n \in Nat /\ n # 0
    OBVIOUS
  <2> QED BY <1>3, <2>1 DEF Adds
<1> QED BY <1>4, <1>5

\* The clusters of a family never count more events than were recorded for it,
\* whichever threads write which counts back and whichever writes fail; unless
\* two threads recorded the family at once, one cluster counts them all.
THEOREM UnknownIsCounted == Spec => []UnknownCounted
<1>1. TInv /\ WriterInv /\ CountInv => UnknownCounted
  <2> SUFFICES ASSUME TInv, WriterInv, CountInv, NEW f \in Families
               PROVE  /\ Count(f) <= recorded[f]
                      /\ f \in shared
                         \/ /\ Count(f) = recorded[f]
                            /\ Cardinality({i \in DOMAIN clusters : Family(clusters[i]) = f}) <= 1
    BY DEF UnknownCounted
  <2>1. PICK full \in [1..Len(clusters) -> Nat] : Written(full)
    BY DEF CountInv
  <2>2. Len(clusters) \in Nat /\ DOMAIN clusters = 1..Len(clusters)
        /\ \A i \in 1..Len(clusters) : clusters[i].count \in Nat
    <3>1. clusters \in Seq(ClusterRow)
      BY DEF TInv, TablesOK
    <3>2. \A i \in 1..Len(clusters) : clusters[i] \in ClusterRow
      BY <3>1
    <3>3. \A i \in 1..Len(clusters) : clusters[i].count \in Nat
      BY <3>2 DEF ClusterRow
    <3> QED BY <3>1, <3>3
  <2> DEFINE n == Len(clusters)
             a == [i \in 1..n |-> IF Family(clusters[i]) = f THEN clusters[i].count ELSE 0]
             b == [i \in 1..n |-> IF Fam[i] = f THEN full[i] ELSE 0]
  <2>3. PICK s : Adds(s, a, n) /\ Count(f) = s[n]
    BY <2>2, CountIsSum
  <2>4. PICK r : Adds(r, b, n) /\ r[n] = recorded[f]
    BY <2>1 DEF Written, Total
  <2>5. a \in [1..n -> Nat] /\ b \in [1..n -> Nat]
    BY <2>2
  <2>6. \A i \in 1..n : CountOK(clusters[i].count, full[i], Family(clusters[i]), shared) /\ Fam[i] = Family(clusters[i])
    BY <2>1 DEF Written, Fam
  <2>7. \A i \in 1..n : a[i] <= b[i] /\ (f \notin shared => a[i] = b[i])
    BY <2>2, <2>6 DEF CountOK
  <2> HIDE DEF a, b, n
  <2>8. n \in Nat
    BY <2>2 DEF n
  <2>9. s[n] <= r[n]
    BY <2>3, <2>4, <2>5, <2>7, <2>8, SumGrows
  <2>10. f \notin shared => s[n] = r[n]
    <3> SUFFICES ASSUME f \notin shared PROVE s[n] = r[n]
      OBVIOUS
    <3>1. \A i \in 1..n : a[i] = b[i]
      BY <2>7
    <3>2. Adds(s, a, n) /\ Adds(r, b, n)
      BY <2>3, <2>4
    <3> QED BY <2>5, <2>8, <3>1, <3>2, SumAgrees
  <2>11. ASSUME f \notin shared PROVE Cardinality({i \in DOMAIN clusters : Family(clusters[i]) = f}) <= 1
    <3> DEFINE C == {i \in DOMAIN clusters : Family(clusters[i]) = f}
    <3>1. \A i, j \in C : i = j
      BY <2>2, <2>11 DEF WriterInv, OneCluster
    <3>2. C = {} \/ \E i : C = {i}
      BY <3>1
    <3>3. Cardinality(C) = 0 \/ Cardinality(C) = 1
      <4> HIDE DEF C
      <4> QED BY <3>2, FS_EmptySet, FS_Singleton
    <3> QED BY <3>3
  <2> QED BY <2>3, <2>4, <2>9, <2>10, <2>11
<1> QED BY <1>1, TInvAlways, WriterAlways, CountAlways, PTL
-----------------------------------------------------------------------------
(***************************************************************************)
(* The table of an alignment: recursion and induction over its cells       *)
(***************************************************************************)
Grid(n, m) == (0..n) \X (0..m)

\* What holds of a cell when it holds of those before it holds of all.
LEMMA GridClimb ==
  ASSUME NEW n \in Nat, NEW m \in Nat, NEW G,
         \A p \in Grid(n, m) : (\A q \in Grid(n, m) : q[1] + q[2] < p[1] + p[2] => q \in G) => p \in G
  PROVE  \A p \in Grid(n, m) : p \in G
<1> DEFINE H == {k \in Nat : \A p \in Grid(n, m) : p[1] + p[2] <= k => p \in G}
<1>1. \A p \in Grid(n, m) : p[1] \in Nat /\ p[2] \in Nat /\ p[1] + p[2] \in Nat /\ p[1] + p[2] <= n + m
  BY DEF Grid
<1>2. 0 \in H
  <2> SUFFICES ASSUME NEW p \in Grid(n, m), p[1] + p[2] <= 0 PROVE p \in G
    OBVIOUS
  <2>1. \A q \in Grid(n, m) : ~(q[1] + q[2] < p[1] + p[2])
    BY <1>1
  <2> QED BY <2>1
<1>3. ASSUME NEW k \in 1 .. n + m, k - 1 \in H PROVE k \in H
  <2> SUFFICES ASSUME NEW p \in Grid(n, m), p[1] + p[2] <= k PROVE p \in G
    OBVIOUS
  <2>1. \A q \in Grid(n, m) : q[1] + q[2] < p[1] + p[2] => q[1] + q[2] <= k - 1
    BY <1>1
  <2>2. \A q \in Grid(n, m) : q[1] + q[2] < p[1] + p[2] => q \in G
    BY <1>3, <2>1
  <2> QED BY <2>2
<1>4. n + m \in H
  <2>1. n + m \in Nat /\ n + m \in 0 .. n + m
    OBVIOUS
  <2> HIDE DEF H
  <2> QED BY <1>2, <1>3, <2>1, Climb
<1> QED BY <1>1, <1>4

\* The cells next to p, and what a function has there, z at the border.
Corner(p) == <<p[1] - 1, p[2] - 1>>
Above(p)  == <<p[1] - 1, p[2]>>
Beside(p) == <<p[1], p[2] - 1>>
Around(f, p, z) == << IF p[1] > 0 /\ p[2] > 0 THEN f[Corner(p)] ELSE z,
                    IF p[1] > 0 THEN f[Above(p)] ELSE z,
                    IF p[2] > 0 THEN f[Beside(p)] ELSE z >>

LEMMA Neighbours ==
  ASSUME NEW n \in Nat, NEW m \in Nat, NEW p \in Grid(n, m)
  PROVE  /\ p[1] \in 0..n /\ p[2] \in 0..m /\ p = <<p[1], p[2]>> /\ p[1] + p[2] \in Nat
         /\ p[1] > 0 /\ p[2] > 0 => Corner(p) \in Grid(n, m) /\ Corner(p)[1] + Corner(p)[2] < p[1] + p[2]
         /\ p[1] > 0 => Above(p) \in Grid(n, m) /\ Above(p)[1] + Above(p)[2] < p[1] + p[2]
         /\ p[2] > 0 => Beside(p) \in Grid(n, m) /\ Beside(p)[1] + Beside(p)[2] < p[1] + p[2]
BY DEF Grid, Corner, Above, Beside

\* F says what each cell has, from what is next to it: it can be filled in.
Solvable(F, n, m, V, z) ==
  \E f \in [Grid(n, m) -> V] : \A p \in Grid(n, m) : f[p] = F[<<p, Around(f, p, z)>>]

LEMMA GridExists ==
  ASSUME NEW n \in Nat, NEW m \in Nat, NEW V, NEW z \in V,
         NEW F \in [Grid(n, m) \X (V \X V \X V) -> V]
  PROVE  Solvable(F, n, m, V, z)
<1> DEFINE D == Grid(n, m)
           Upto(k, h) == h \in [D -> V] /\ \A p \in D : p[1] + p[2] <= k => h[p] = F[<<p, Around(h, p, z)>>]
           G == {k \in Nat : \E h : Upto(k, h)}
<1>1. \A h \in [D -> V] : \A p \in D : Around(h, p, z) \in V \X V \X V /\ F[<<p, Around(h, p, z)>>] \in V
  BY Neighbours DEF Around
<1>2. 0 \in G
  <2> DEFINE h == [p \in D |-> F[<<p, <<z, z, z>>>>]]
  <2>1. h \in [D -> V]
    OBVIOUS
  <2>2. ASSUME NEW p \in D, p[1] + p[2] <= 0 PROVE h[p] = F[<<p, Around(h, p, z)>>]
    <3>1. p[1] \in Nat /\ p[2] \in Nat
      BY Neighbours
    <3>2. ~(p[1] > 0) /\ ~(p[2] > 0)
      BY <2>2, <3>1
    <3>3. Around(h, p, z) = <<z, z, z>>
      BY <3>2 DEF Around
    <3> QED BY <3>3
  <2>3. Upto(0, h)
    BY <2>1, <2>2
  <2> QED BY <2>3
<1>3. ASSUME NEW k \in 1 .. n + m, k - 1 \in G PROVE k \in G
  <2>1. PICK h : Upto(k - 1, h)
    BY <1>3
  <2> DEFINE g(p) == F[<<p, Around(h, p, z)>>]
             j == [p \in D |-> IF p[1] + p[2] = k THEN g(p) ELSE h[p]]
  <2>2. j \in [D -> V] /\ \A p \in D : j[p] = IF p[1] + p[2] = k THEN g(p) ELSE h[p]
    <3>1. \A p \in D : g(p) \in V /\ h[p] \in V
      BY <1>1, <2>1
    <3> HIDE DEF g
    <3> QED BY <3>1
  <2> HIDE DEF j, D
  <2>3. ASSUME NEW p \in D, p[1] + p[2] <= k PROVE Around(j, p, z) = Around(h, p, z) /\ j[p] = g(p)
    <3>1. \A q \in D : q[1] + q[2] < p[1] + p[2] => q[1] + q[2] # k
      BY <2>3, Neighbours DEF D
    <3>2. \A q \in D : q[1] + q[2] < p[1] + p[2] => j[q] = h[q]
      BY <2>2, <3>1
    <3>3. Around(j, p, z) = Around(h, p, z)
      BY <3>2, Neighbours DEF Around, D
    <3>4. CASE p[1] + p[2] = k
      BY <2>2, <3>3, <3>4
    <3>5. CASE p[1] + p[2] # k
      <4>2. p[1] + p[2] \in Nat /\ k \in Nat
        BY Neighbours DEF D
      <4>1. p[1] + p[2] <= k - 1
        BY <2>3, <3>5, <4>2
      <4> QED BY <2>1, <2>2, <3>3, <3>5, <4>1
    <3> QED BY <3>3, <3>4, <3>5
  <2>4. Upto(k, j)
    BY <2>2, <2>3
  <2>5. k \in Nat
    OBVIOUS
  <2> HIDE DEF Upto
  <2> QED BY <2>4, <2>5
<1>4. n + m \in G
  <2>1. n + m \in Nat /\ n + m \in 0 .. n + m
    OBVIOUS
  <2> HIDE DEF G
  <2> QED BY <1>2, <1>3, <2>1, Climb
<1>5. PICK f : Upto(n + m, f)
  BY <1>4
<1>6. \A p \in D : p[1] + p[2] <= n + m
  BY DEF Grid
<1> QED BY <1>5, <1>6 DEF Solvable
-----------------------------------------------------------------------------
(***************************************************************************)
(* The table                                                               *)
(***************************************************************************)
LEMMA CostIs ==
  ASSUME NEW x, NEW y
  PROVE  Cost(x, y) \in {2, 1, -2} /\ Cost(x, y) \in Int /\ (x = y => Cost(x, y) = 2)
<1>1. CASE x = y
  <2>1. <<x, y>> \notin Compat
    BY <1>1 DEF Compat
  <2> HIDE DEF Compat
  <2>2. Cost(x, y) = 2
    BY <1>1, <2>1 DEF Cost
  <2> QED BY <2>2
<1>2. CASE x # y /\ <<x, y>> \in Compat
  <2> HIDE DEF Compat
  <2>1. Cost(x, y) = 1
    BY <1>2 DEF Cost
  <2> QED BY <1>2, <2>1
<1>3. CASE x # y /\ <<x, y>> \notin Compat
  <2> HIDE DEF Compat
  <2>1. Cost(x, y) = -2
    BY <1>3 DEF Cost
  <2> QED BY <1>3, <2>1
<1> QED BY <1>1, <1>2, <1>3

LEMMA CellIs ==
  ASSUME NEW x \in Int, NEW y \in Int, NEW z \in Int
  PROVE  Cell(x, y, z) \in {x, y, z} /\ x <= Cell(x, y, z) /\ y <= Cell(x, y, z) /\ z <= Cell(x, y, z)
<1> DEFINE S == {x, y, z}
           P(v) == v \in S /\ \A u \in S : v >= u
<1>1. \E v : P(v)
  <2>1. CASE x >= y /\ x >= z
    <3>1. P(x)
      BY <2>1
    <3> QED BY <3>1
  <2>2. CASE y >= x /\ y >= z
    <3>1. P(y)
      BY <2>2
    <3> QED BY <3>1
  <2>3. CASE z >= x /\ z >= y
    <3>1. P(z)
      BY <2>3
    <3> QED BY <3>1
  <2> QED BY <2>1, <2>2, <2>3
<1>2. P(CHOOSE v : P(v))
  <2> HIDE DEF P
  <2> QED BY <1>1
<1>3. Cell(x, y, z) = CHOOSE v : P(v)
  BY DEF Cell, Max
<1>4. P(Cell(x, y, z))
  BY <1>2, <1>3
<1> QED BY <1>4

\* What the table of two templates has in a cell.
Best(dp, a, b, p) ==
  IF 0 \in {p[1], p[2]} THEN (p[1] + p[2]) * Gap
  ELSE Cell(dp[Corner(p)] + Cost(a[p[1]], b[p[2]]), dp[Above(p)] + Gap, dp[Beside(p)] + Gap)

LEMMA TableIs ==
  ASSUME NEW S, NEW a \in Seq(S), NEW b \in Seq(S)
  PROVE  /\ Cells(a, b) = Grid(Len(a), Len(b))
         /\ Table(a, b) \in [Cells(a, b) -> Int]
         /\ \A p \in Cells(a, b) : Table(a, b)[p] = Best(Table(a, b), a, b, p)
<1> DEFINE n == Len(a)
           m == Len(b)
           D == Grid(n, m)
           F == [x \in D \X (Int \X Int \X Int) |->
                   IF 0 \in {x[1][1], x[1][2]} THEN (x[1][1] + x[1][2]) * Gap
                   ELSE Cell(x[2][1] + Cost(a[x[1][1]], b[x[1][2]]), x[2][2] + Gap, x[2][3] + Gap)]
<1>1. n \in Nat /\ m \in Nat /\ Cells(a, b) = D
  BY DEF Cells, Grid
<1>2. F \in [D \X (Int \X Int \X Int) -> Int]
  <2> SUFFICES ASSUME NEW p \in D, NEW d \in Int, NEW u \in Int, NEW l \in Int
               PROVE  (IF 0 \in {p[1], p[2]} THEN (p[1] + p[2]) * Gap
                       ELSE Cell(d + Cost(a[p[1]], b[p[2]]), u + Gap, l + Gap)) \in Int
    OBVIOUS
  <2>1. (p[1] + p[2]) * Gap \in Int
    BY <1>1 DEF Grid, Gap
  <2>2. d + Cost(a[p[1]], b[p[2]]) \in Int /\ u + Gap \in Int /\ l + Gap \in Int
    BY CostIs DEF Gap
  <2>3. Cell(d + Cost(a[p[1]], b[p[2]]), u + Gap, l + Gap) \in Int
    BY <2>2, CellIs
  <2> QED BY <2>1, <2>3
<1>3. PICK f \in [D -> Int] : \A p \in D : f[p] = F[<<p, Around(f, p, 0)>>]
  <2>1. 0 \in Int
    OBVIOUS
  <2> HIDE DEF F, n, m
  <2>2. Solvable(F, n, m, Int, 0)
    BY <1>1, <1>2, <2>1, GridExists
  <2> QED BY <2>2 DEF Solvable
<1>4. \A p \in D : f[p] = Best(f, a, b, p)
  <2> SUFFICES ASSUME NEW p \in D PROVE f[p] = Best(f, a, b, p)
    OBVIOUS
  <2>1. Around(f, p, 0) \in Int \X Int \X Int
    BY <1>1, <1>3, Neighbours DEF Around
  <2>2. f[p] = IF 0 \in {p[1], p[2]} THEN (p[1] + p[2]) * Gap
               ELSE Cell(Around(f, p, 0)[1] + Cost(a[p[1]], b[p[2]]), Around(f, p, 0)[2] + Gap, Around(f, p, 0)[3] + Gap)
    BY <1>3, <2>1
  <2>3. 0 \notin {p[1], p[2]} => Around(f, p, 0) = <<f[Corner(p)], f[Above(p)], f[Beside(p)]>>
    BY <1>1, Neighbours DEF Around
  <2> QED BY <2>2, <2>3 DEF Best
<1> DEFINE Fills(dp) == dp = [p \in Cells(a, b) |-> Best(dp, a, b, p)]
<1>5. Fills(f)
  BY <1>1, <1>3, <1>4
<1>6. Table(a, b) = CHOOSE dp : Fills(dp)
  BY DEF Table, Best, Corner, Above, Beside
<1>7. Fills(Table(a, b))
  <2> HIDE DEF Fills
  <2> QED BY <1>5, <1>6
<1> DEFINE dp == Table(a, b)
<1> HIDE DEF dp
<1>8. dp = [p \in D |-> dp[p]] /\ \A p \in D : dp[p] = Best(dp, a, b, p)
  BY <1>1, <1>7 DEF dp
<1>9. \A p \in D : dp[p] \in Int
  <2> DEFINE G == {p \in D : dp[p] \in Int}
  <2>1. ASSUME NEW p \in D, \A q \in D : q[1] + q[2] < p[1] + p[2] => q \in G PROVE p \in G
    <3>1. CASE 0 \in {p[1], p[2]}
      <4>1. (p[1] + p[2]) * Gap \in Int
        BY <1>1 DEF Grid, Gap
      <4> QED BY <1>8, <3>1, <4>1 DEF Best
    <3>2. CASE 0 \notin {p[1], p[2]}
      <4>1. dp[Corner(p)] \in Int /\ dp[Above(p)] \in Int /\ dp[Beside(p)] \in Int
        <5>1. p[1] > 0 /\ p[2] > 0
          BY <1>1, <3>2 DEF Grid
        <5>2. /\ Corner(p) \in D /\ Corner(p)[1] + Corner(p)[2] < p[1] + p[2]
              /\ Above(p) \in D /\ Above(p)[1] + Above(p)[2] < p[1] + p[2]
              /\ Beside(p) \in D /\ Beside(p)[1] + Beside(p)[2] < p[1] + p[2]
          BY <1>1, <5>1, Neighbours
        <5> HIDE DEF dp
        <5> QED BY <2>1, <5>2
      <4>2. Cell(dp[Corner(p)] + Cost(a[p[1]], b[p[2]]), dp[Above(p)] + Gap, dp[Beside(p)] + Gap) \in Int
        <5>1. /\ dp[Corner(p)] + Cost(a[p[1]], b[p[2]]) \in Int
              /\ dp[Above(p)] + Gap \in Int /\ dp[Beside(p)] + Gap \in Int
          BY <4>1, CostIs DEF Gap
        <5> QED BY <5>1, CellIs
      <4> QED BY <1>8, <3>2, <4>2 DEF Best
    <3> QED BY <3>1, <3>2
  <2>2. \A p \in D : p \in G
    <3> HIDE DEF G
    <3> QED BY <1>1, <2>1, GridClimb
  <2> QED BY <2>2
<1> QED BY <1>1, <1>8, <1>9 DEF dp
-----------------------------------------------------------------------------
(***************************************************************************)
(* Gains                                                                   *)
(***************************************************************************)
\* The gain of the pairs P of s positions in all.
Costing(a, b, P, c) == {p \in P : Cost(a[p[1]], b[p[2]]) = c}
Amount(a, b, P, c) == Cardinality(Costing(a, b, P, c))
GainOf(a, b, s, P) ==
  2 * Amount(a, b, P, 2) + Amount(a, b, P, 1) - 2 * Amount(a, b, P, -2) + Gap * (s - 2 * Cardinality(P))

LEMMA AmountIs ==
  ASSUME NEW a, NEW b, NEW P, IsFiniteSet(P), NEW c
  PROVE  Amount(a, b, P, c) \in Nat
<1>1. IsFiniteSet(Costing(a, b, P, c))
  BY FS_Subset DEF Costing
<1> QED BY <1>1, FS_CardinalityType DEF Amount

LEMMA AmountAdd ==
  ASSUME NEW a, NEW b, NEW P, IsFiniteSet(P), NEW x, x \notin P, NEW c
  PROVE  Amount(a, b, P \cup {x}, c) = Amount(a, b, P, c) + IF Cost(a[x[1]], b[x[2]]) = c THEN 1 ELSE 0
<1> DEFINE C == Costing(a, b, P, c)
<1>1. IsFiniteSet(C) /\ x \notin C
  BY FS_Subset DEF Costing
<1>2. Cardinality(C) \in Nat
  BY <1>1, FS_CardinalityType
<1>3. CASE Cost(a[x[1]], b[x[2]]) = c
  <2>1. Costing(a, b, P \cup {x}, c) = C \cup {x}
    BY <1>3 DEF Costing
  <2> HIDE DEF C
  <2>2. Cardinality(C \cup {x}) = Cardinality(C) + 1
    BY <1>1, FS_AddElement
  <2> QED BY <1>3, <2>1, <2>2 DEF Amount, C
<1>4. CASE Cost(a[x[1]], b[x[2]]) # c
  <2>1. Costing(a, b, P \cup {x}, c) = C
    BY <1>4 DEF Costing
  <2> HIDE DEF C
  <2>2. Cardinality(C) + 0 = Cardinality(C)
    BY <1>2
  <2> QED BY <1>4, <2>1, <2>2 DEF Amount, C
<1> QED BY <1>3, <1>4

LEMMA GainWhole ==
  ASSUME NEW a, Len(a) \in Nat, NEW b, Len(b) \in Nat, NEW P, IsFiniteSet(P)
  PROVE  Gain(a, b, P) = GainOf(a, b, Len(a) + Len(b), P)
<1> DEFINE of(c) == Cardinality({p \in P : Cost(a[p[1]], b[p[2]]) = c})
           k == Cardinality(P)
           s == Len(a) + Len(b)
<1>1. Gain(a, b, P) = 2 * of(2) + of(1) - 2 * of(-2) + Gap * (Len(a) + Len(b) - 2 * k)
  BY DEF Gain
<1>2. \A c : Amount(a, b, P, c) = of(c)
  BY DEF Amount, Costing
<1>6. \A c : of(c) \in Nat
  <2>1. \A c : Amount(a, b, P, c) \in Nat
    BY AmountIs
  <2> QED BY <1>2, <2>1
<1>3. k \in Nat
  BY FS_CardinalityType
<1>4. GainOf(a, b, s, P) = 2 * Amount(a, b, P, 2) + Amount(a, b, P, 1) - 2 * Amount(a, b, P, -2) + Gap * (s - 2 * k)
  BY DEF GainOf
<1> HIDE DEF of, k
<1>5. GainOf(a, b, s, P) = 2 * of(2) + of(1) - 2 * of(-2) + Gap * (s - 2 * k)
  BY <1>2, <1>4
<1> QED BY <1>1, <1>5, <1>6, <1>3

LEMMA GainIs ==
  ASSUME NEW a, NEW b, NEW s \in Nat, NEW P, IsFiniteSet(P)
  PROVE  /\ GainOf(a, b, s, P) \in Int
         /\ \A t \in Nat : t = s + 1 => GainOf(a, b, t, P) = GainOf(a, b, s, P) + Gap
<1> DEFINE u == Amount(a, b, P, 2)
           v == Amount(a, b, P, 1)
           w == Amount(a, b, P, -2)
           k == Cardinality(P)
<1>1. u \in Nat /\ v \in Nat /\ w \in Nat /\ k \in Nat
  BY AmountIs, FS_CardinalityType
<1>2. \A t : GainOf(a, b, t, P) = 2 * u + v - 2 * w + (-1) * (t - 2 * k)
  BY DEF GainOf, Gap
<1> HIDE DEF u, v, w, k
<1>3. GainOf(a, b, s, P) \in Int
  BY <1>1, <1>2
<1>4. ASSUME NEW t \in Nat, t = s + 1 PROVE GainOf(a, b, t, P) = GainOf(a, b, s, P) + Gap
  BY <1>1, <1>2, <1>4 DEF Gap
<1> QED BY <1>3, <1>4

LEMMA GainPair ==
  ASSUME NEW a, NEW b, NEW s \in Nat, NEW t \in Nat, t = s + 2,
         NEW P, IsFiniteSet(P), NEW x, x \notin P, NEW Q, Q = P \cup {x}
  PROVE  IsFiniteSet(Q) /\ GainOf(a, b, t, Q) = GainOf(a, b, s, P) + Cost(a[x[1]], b[x[2]])
<1> DEFINE u == Amount(a, b, P, 2)
           v == Amount(a, b, P, 1)
           w == Amount(a, b, P, -2)
           k == Cardinality(P)
           c == Cost(a[x[1]], b[x[2]])
<1>1. u \in Nat /\ v \in Nat /\ w \in Nat /\ k \in Nat /\ c \in {2, 1, -2}
  BY AmountIs, FS_CardinalityType, CostIs
<1>2. GainOf(a, b, s, P) = 2 * u + v - 2 * w + (-1) * (s - 2 * k)
  BY DEF GainOf, Gap
<1>3. /\ Amount(a, b, Q, 2) = u + IF c = 2 THEN 1 ELSE 0
      /\ Amount(a, b, Q, 1) = v + IF c = 1 THEN 1 ELSE 0
      /\ Amount(a, b, Q, -2) = w + IF c = -2 THEN 1 ELSE 0
  BY AmountAdd
<1>4. IsFiniteSet(Q) /\ Cardinality(Q) = k + 1
  BY FS_AddElement
<1>5. GainOf(a, b, t, Q) = 2 * Amount(a, b, Q, 2) + Amount(a, b, Q, 1) - 2 * Amount(a, b, Q, -2)
                           + (-1) * (t - 2 * Cardinality(Q))
  BY DEF GainOf, Gap
<1> HIDE DEF u, v, w, k, c
<1>6. CASE c = 2
  <2>1. Amount(a, b, Q, 2) = u + 1 /\ Amount(a, b, Q, 1) = v + 0 /\ Amount(a, b, Q, -2) = w + 0
    BY <1>3, <1>6
  <2>2. 2 * (u + 1) + (v + 0) - 2 * (w + 0) + (-1) * (t - 2 * (k + 1)) = 2 * u + v - 2 * w + (-1) * (s - 2 * k) + 2
    BY <1>1
  <2> QED BY <1>2, <1>4, <1>5, <1>6, <2>1, <2>2 DEF c
<1>7. CASE c = 1
  <2>1. Amount(a, b, Q, 2) = u + 0 /\ Amount(a, b, Q, 1) = v + 1 /\ Amount(a, b, Q, -2) = w + 0
    BY <1>3, <1>7
  <2>2. 2 * (u + 0) + (v + 1) - 2 * (w + 0) + (-1) * (t - 2 * (k + 1)) = 2 * u + v - 2 * w + (-1) * (s - 2 * k) + 1
    BY <1>1
  <2> QED BY <1>2, <1>4, <1>5, <1>7, <2>1, <2>2 DEF c
<1>8. CASE c = -2
  <2>1. Amount(a, b, Q, 2) = u + 0 /\ Amount(a, b, Q, 1) = v + 0 /\ Amount(a, b, Q, -2) = w + 1
    BY <1>3, <1>8
  <2>2. 2 * (u + 0) + (v + 0) - 2 * (w + 1) + (-1) * (t - 2 * (k + 1)) = 2 * u + v - 2 * w + (-1) * (s - 2 * k) + -2
    BY <1>1
  <2> QED BY <1>2, <1>4, <1>5, <1>8, <2>1, <2>2 DEF c
<1> QED BY <1>1, <1>6, <1>7, <1>8

LEMMA GainNone ==
  ASSUME NEW a, NEW b, NEW s \in Nat
  PROVE  GainOf(a, b, s, {}) = s * Gap
<1>1. \A c : Costing(a, b, {}, c) = {}
  BY DEF Costing
<1>2. Cardinality({}) = 0
  BY FS_EmptySet
<1>3. GainOf(a, b, s, {}) = 2 * 0 + 0 - 2 * 0 + (-1) * (s - 2 * 0)
  BY <1>1, <1>2 DEF GainOf, Amount, Gap
<1> QED BY <1>3 DEF Gap
-----------------------------------------------------------------------------
(***************************************************************************)
(* No pairs in order gain more than the table says                         *)
(***************************************************************************)
Pairs(p) == (1 .. p[1]) \X (1 .. p[2])

LEMMA PairsFinite ==
  ASSUME NEW n \in Nat, NEW m \in Nat, NEW p \in Grid(n, m), NEW P \in SUBSET Pairs(p)
  PROVE  IsFiniteSet(P)
<1>1. IsFiniteSet(1 .. p[1]) /\ IsFiniteSet(1 .. p[2])
  BY FS_Interval DEF Grid
<1>2. IsFiniteSet(Pairs(p))
  BY <1>1, FS_Product DEF Pairs
<1> QED BY <1>2, FS_Subset

LEMMA NoneBetter ==
  ASSUME NEW S, NEW a \in Seq(S), NEW b \in Seq(S), NEW p \in Cells(a, b),
         NEW P \in SUBSET Pairs(p), InOrder(P)
  PROVE  GainOf(a, b, p[1] + p[2], P) <= Table(a, b)[p]
<1> DEFINE n == Len(a)
           m == Len(b)
           D == Grid(n, m)
           dp == Table(a, b)
           g(s, Q) == GainOf(a, b, s, Q)
           G == {q \in D : \A Q \in SUBSET Pairs(q) : InOrder(Q) => g(q[1] + q[2], Q) <= dp[q]}
<1>1. n \in Nat /\ m \in Nat
  OBVIOUS
<1>2. p \in D /\ dp \in [D -> Int] /\ \A q \in D : dp[q] = Best(dp, a, b, q)
  BY TableIs
<1> HIDE DEF n, m, dp
<1>3. ASSUME NEW q \in D, \A r \in D : r[1] + r[2] < q[1] + q[2] => r \in G
      PROVE  q \in G
  <2> SUFFICES ASSUME NEW Q \in SUBSET Pairs(q), InOrder(Q) PROVE g(q[1] + q[2], Q) <= dp[q]
    OBVIOUS
  <2> DEFINE i == q[1]
             j == q[2]
             c == Cost(a[i], b[j])
  <2>1. /\ i \in 0..n /\ j \in 0..m /\ q = <<i, j>> /\ i + j \in Nat /\ i \in Nat /\ j \in Nat
        /\ IsFiniteSet(Q)
    BY <1>1, Neighbours, PairsFinite
  <2>2. CASE 0 \in {i, j}
    <3>1. Q = {}
      BY <2>1, <2>2 DEF Pairs
    <3>2. g(i + j, Q) = (i + j) * Gap
      BY <2>1, <3>1, GainNone
    <3>3. dp[q] = (i + j) * Gap
      BY <1>2, <2>2 DEF Best
    <3>4. (i + j) * Gap \in Int
      BY <2>1 DEF Gap
    <3> QED BY <3>2, <3>3, <3>4
  <2>3. CASE 0 \notin {i, j}
    <3>1. /\ Corner(q) \in D /\ Above(q) \in D /\ Beside(q) \in D
          /\ Corner(q) \in G /\ Above(q) \in G /\ Beside(q) \in G
      BY <1>1, <1>3, <2>1, <2>3, Neighbours
    <3>2. /\ i - 1 + (j - 1) \in Nat /\ i - 1 + (j - 1) + 2 = i + j
          /\ i - 1 + j \in Nat /\ i - 1 + j + 1 = i + j
          /\ i + (j - 1) \in Nat /\ i + (j - 1) + 1 = i + j
      BY <2>1, <2>3
    <3>3. c \in Int /\ Gap \in Int /\ dp[Corner(q)] \in Int /\ dp[Above(q)] \in Int /\ dp[Beside(q)] \in Int
      BY <1>2, <3>1, CostIs DEF Gap
    <3>4. dp[Corner(q)] + c <= dp[q] /\ dp[Above(q)] + Gap <= dp[q] /\ dp[Beside(q)] + Gap <= dp[q] /\ dp[q] \in Int
      <4>1. dp[q] = Cell(dp[Corner(q)] + c, dp[Above(q)] + Gap, dp[Beside(q)] + Gap)
        BY <1>2, <2>3 DEF Best
      <4>2. dp[Corner(q)] + c \in Int /\ dp[Above(q)] + Gap \in Int /\ dp[Beside(q)] + Gap \in Int
        BY <3>3
      <4> QED BY <1>2, <4>1, <4>2, CellIs
    <3> HIDE DEF c, D, G
    <3>5. CASE q \in Q
      <4> DEFINE R == Q \ {q}
      <4>1. R \in SUBSET Pairs(Corner(q)) /\ InOrder(R)
        <5>1. ASSUME NEW r \in R PROVE r \in (1 .. i - 1) \X (1 .. j - 1)
          <6>1. r \in (1..i) \X (1..j) /\ r # q
            BY DEF Pairs
          <6>2. (r[1] < i <=> r[2] < j)
            BY <3>5, <6>1 DEF InOrder
          <6> QED BY <2>1, <6>1, <6>2
        <5> QED BY <5>1 DEF Pairs, Corner, InOrder
      <4>2. g(i - 1 + (j - 1), R) <= dp[Corner(q)]
        BY <3>1, <4>1 DEF G, Corner
      <4>3. IsFiniteSet(R) /\ q \notin R /\ R \cup {q} = Q
        BY <2>1, <3>5, FS_Subset
      <4> HIDE DEF R
      <4>4. g(i + j, Q) = g(i - 1 + (j - 1), R) + c
        <5> DEFINE s == i - 1 + (j - 1)
                   t == i + j
        <5>1. s \in Nat /\ t \in Nat /\ t = s + 2
          BY <2>1, <3>2
        <5>2. Q = R \cup {q} /\ IsFiniteSet(R) /\ q \notin R
          BY <4>3
        <5> HIDE DEF s, t, i, j
        <5>3. GainOf(a, b, t, Q) = GainOf(a, b, s, R) + Cost(a[q[1]], b[q[2]])
          BY <5>1, <5>2, GainPair
        <5> QED BY <5>3 DEF s, t, c, i, j
      <4>5. g(i - 1 + (j - 1), R) \in Int
        BY <3>2, <4>3, GainIs
      <4> HIDE DEF g
      <4> QED BY <3>3, <3>4, <4>2, <4>4, <4>5
    <3>6. CASE q \notin Q /\ \A r \in Q : r[1] # i
      <4>1. Q \in SUBSET Pairs(Above(q))
        <5>1. ASSUME NEW r \in Q PROVE r \in (1 .. i - 1) \X (1..j)
          <6>1. r \in (1..i) \X (1..j) /\ r[1] # i
            BY <3>6 DEF Pairs
          <6> QED BY <2>1, <6>1
        <5> QED BY <5>1 DEF Pairs, Above
      <4>2. g(i - 1 + j, Q) <= dp[Above(q)]
        BY <3>1, <4>1 DEF G, Above
      <4>3. g(i + j, Q) = g(i - 1 + j, Q) + Gap /\ g(i - 1 + j, Q) \in Int
        <5> DEFINE s == i - 1 + j
                   t == i + j
        <5>1. s \in Nat /\ t \in Nat /\ t = s + 1
          BY <2>1, <3>2
        <5>3. IsFiniteSet(Q)
          BY <2>1
        <5> HIDE DEF s, t, i, j
        <5>2. GainOf(a, b, t, Q) = GainOf(a, b, s, Q) + Gap /\ GainOf(a, b, s, Q) \in Int
          BY <5>1, <5>3, GainIs
        <5> QED BY <5>2 DEF s, t
      <4> HIDE DEF g
      <4> QED BY <3>3, <3>4, <4>2, <4>3
    <3>7. CASE q \notin Q /\ \E r \in Q : r[1] = i
      <4>0. PICK t \in Q : t[1] = i
        BY <3>7
      <4>1. Q \in SUBSET Pairs(Beside(q))
        <5>1. ASSUME NEW r \in Q PROVE r \in (1..i) \X (1 .. j - 1)
          <6>1. r \in (1..i) \X (1..j) /\ r # q /\ t \in (1..i) \X (1..j) /\ t # q
            BY <3>7 DEF Pairs
          <6>2. (t[1] < r[1] <=> t[2] < r[2])
            BY DEF InOrder
          <6> QED BY <2>1, <4>0, <6>1, <6>2
        <5> QED BY <5>1 DEF Pairs, Beside
      <4>2. g(i + (j - 1), Q) <= dp[Beside(q)]
        BY <3>1, <4>1 DEF G, Beside
      <4>3. g(i + j, Q) = g(i + (j - 1), Q) + Gap /\ g(i + (j - 1), Q) \in Int
        <5> DEFINE s == i + (j - 1)
                   u == i + j
        <5>1. s \in Nat /\ u \in Nat /\ u = s + 1
          BY <2>1, <3>2
        <5>3. IsFiniteSet(Q)
          BY <2>1
        <5> HIDE DEF s, u, i, j
        <5>2. GainOf(a, b, u, Q) = GainOf(a, b, s, Q) + Gap /\ GainOf(a, b, s, Q) \in Int
          BY <5>1, <5>3, GainIs
        <5> QED BY <5>2 DEF s, u
      <4> HIDE DEF g
      <4> QED BY <3>3, <3>4, <4>2, <4>3
    <3> QED BY <3>5, <3>6, <3>7
  <2> QED BY <2>2, <2>3
<1>4. \A q \in D : q \in G
  <2> HIDE DEF G
  <2> QED BY <1>1, <1>3, GridClimb
<1> QED BY <1>2, <1>4 DEF dp
-----------------------------------------------------------------------------
(***************************************************************************)
(* The way back through the table gains what the table says                *)
(***************************************************************************)
Matched(al) == {p \in Range(al) : 0 \notin {p[1], p[2]}}

\* al has every position up to p once and in order.
Walk(p, al) ==
  /\ al \in Seq(Nat \X Nat)
  /\ {q[1] : q \in Range(al)} \ {0} = 1 .. p[1] /\ {q[2] : q \in Range(al)} \ {0} = 1 .. p[2]
  /\ \A k, l \in DOMAIN al : k < l => \A c \in {1, 2} : 0 \in {al[k][c], al[l][c]} \/ al[k][c] < al[l][c]
  /\ <<0, 0>> \notin Range(al)

\* The next position of one template, or the next of each.
Next2(p, x, q) == \A c \in {1, 2} : (x[c] = 0 /\ q[c] = p[c]) \/ (x[c] = p[c] + 1 /\ q[c] = p[c] + 1)

LEMMA MatchedIs ==
  ASSUME NEW p \in Nat \X Nat, NEW al, Walk(p, al)
  PROVE  Matched(al) \in SUBSET Pairs(p) /\ IsFiniteSet(Matched(al)) /\ InOrder(Matched(al))
<1>1. Range(al) \subseteq Nat \X Nat /\ DOMAIN al = 1 .. Len(al) /\ Len(al) \in Nat
  <2>1. DOMAIN al = 1 .. Len(al) /\ Len(al) \in Nat /\ \A k \in 1 .. Len(al) : al[k] \in Nat \X Nat
    BY LenProperties, ElementOfSeq DEF Walk
  <2> QED BY <2>1 DEF Range
<1>2. Matched(al) \subseteq Pairs(p)
  <2> SUFFICES ASSUME NEW q \in Range(al), q[1] # 0, q[2] # 0 PROVE q \in Pairs(p)
    BY DEF Matched
  <2>1. q[1] \in 1 .. p[1] /\ q[2] \in 1 .. p[2]
    BY DEF Walk
  <2> QED BY <1>1, <2>1 DEF Pairs
<1>3. IsFiniteSet(Matched(al))
  <2>1. p \in Grid(p[1], p[2]) /\ p[1] \in Nat /\ p[2] \in Nat
    BY DEF Grid
  <2> QED BY <1>2, <2>1, PairsFinite
<1>4. InOrder(Matched(al))
  <2> SUFFICES ASSUME NEW q \in Matched(al), NEW r \in Matched(al) PROVE q[1] < r[1] <=> q[2] < r[2]
    BY DEF InOrder
  <2>1. PICK k \in DOMAIN al, l \in DOMAIN al : q = al[k] /\ r = al[l]
    BY DEF Matched, Range
  <2>2. /\ q[1] \in Nat \ {0} /\ q[2] \in Nat \ {0} /\ r[1] \in Nat \ {0} /\ r[2] \in Nat \ {0}
        /\ k \in Nat /\ l \in Nat
    BY <1>1, <2>1 DEF Matched
  <2>3. /\ k < l => q[1] < r[1] /\ q[2] < r[2]
        /\ l < k => r[1] < q[1] /\ r[2] < q[2]
    BY <2>1, <2>2 DEF Walk
  <2>4. k = l => q = r
    BY <2>1
  <2> QED BY <2>2, <2>3, <2>4
<1> QED BY <1>2, <1>3, <1>4

LEMMA RangeAppend ==
  ASSUME NEW S, NEW q \in Seq(S), NEW x \in S
  PROVE  Range(Append(q, x)) = Range(q) \cup {x}
<1>1. /\ Len(q) \in Nat /\ DOMAIN q = 1 .. Len(q)
      /\ Append(q, x) \in Seq(S) /\ Len(Append(q, x)) = Len(q) + 1 /\ Append(q, x)[Len(q) + 1] = x
      /\ \A k \in 1 .. Len(q) : Append(q, x)[k] = q[k]
  BY LenProperties, AppendProperties
<1>2. DOMAIN Append(q, x) = 1 .. Len(q) + 1
  BY <1>1, LenProperties
<1>3. \A k : k \in 1 .. Len(q) + 1 <=> k \in 1 .. Len(q) \/ k = Len(q) + 1
  BY <1>1
<1> QED BY <1>1, <1>2, <1>3 DEF Range

LEMMA WalkOn ==
  ASSUME NEW p \in Nat \X Nat, NEW al, Walk(p, al), NEW q \in Nat \X Nat,
         NEW x \in Nat \X Nat, x # <<0, 0>>, Next2(p, x, q)
  PROVE  /\ Walk(q, Append(al, x))
         /\ x \notin Matched(al)
         /\ Matched(Append(al, x)) = IF 0 \in {x[1], x[2]} THEN Matched(al) ELSE Matched(al) \cup {x}
<1> DEFINE r == Append(al, x)
           l == Len(al)
<1>1. /\ l \in Nat /\ DOMAIN al = 1..l /\ \A k \in 1..l : al[k] \in Nat \X Nat
      /\ r \in Seq(Nat \X Nat) /\ Len(r) = l + 1 /\ r[l + 1] = x /\ \A k \in 1..l : r[k] = al[k]
  BY LenProperties, ElementOfSeq, AppendProperties DEF Walk
<1>2. DOMAIN r = 1..l + 1
  BY <1>1, LenProperties
<1> HIDE DEF r, l
<1>3. Range(r) = Range(al) \cup {x}
  <2> DEFINE T == Nat \X Nat
  <2>1. al \in Seq(T) /\ x \in T
    BY DEF Walk
  <2> HIDE DEF T
  <2>2. Range(Append(al, x)) = Range(al) \cup {x}
    BY <2>1, RangeAppend
  <2> QED BY <2>2 DEF r
<1>4. ASSUME NEW c \in {1, 2}
      PROVE  {t[c] : t \in Range(r)} \ {0} = 1 .. q[c]
  <2>1. {t[c] : t \in Range(r)} = {t[c] : t \in Range(al)} \cup {x[c]}
    BY <1>3
  <2>2. {t[c] : t \in Range(al)} \ {0} = 1 .. p[c]
    BY DEF Walk
  <2>3. (x[c] = 0 /\ q[c] = p[c]) \/ (x[c] = p[c] + 1 /\ q[c] = p[c] + 1)
    BY DEF Next2
  <2>4. p[c] \in Nat
    OBVIOUS
  <2>5. 1 .. p[c] + 1 = (1 .. p[c]) \cup {p[c] + 1} /\ p[c] + 1 # 0
    BY <2>4
  <2> QED BY <2>1, <2>2, <2>3, <2>5
<1>5. ASSUME NEW k \in 1..l + 1, NEW j \in 1..l + 1, k < j, NEW c \in {1, 2}
      PROVE  0 \in {r[k][c], r[j][c]} \/ r[k][c] < r[j][c]
  <2>1. k \in 1..l
    BY <1>1, <1>5
  <2>2. CASE j \in 1..l
    BY <1>1, <1>5, <2>1, <2>2 DEF Walk
  <2>3. CASE j = l + 1
    <3>1. r[j] = x /\ r[k] = al[k] /\ al[k] \in Range(al)
      BY <1>1, <2>1, <2>3 DEF Range
    <3>2. al[k][c] = 0 \/ al[k][c] \in 1 .. p[c]
      BY <3>1 DEF Walk
    <3>3. x[c] = 0 \/ x[c] = p[c] + 1
      BY DEF Next2
    <3>4. p[c] \in Nat
      OBVIOUS
    <3> QED BY <3>1, <3>2, <3>3, <3>4
  <2> QED BY <1>1, <2>2, <2>3
<1>6. Walk(q, r)
  <2>1. <<0, 0>> \notin Range(r)
    BY <1>3 DEF Walk
  <2> QED BY <1>1, <1>2, <1>4, <1>5, <2>1 DEF Walk
<1>7. x \notin Matched(al)
  <2> SUFFICES ASSUME x \in Matched(al) PROVE FALSE
    OBVIOUS
  <2>3. x \in Pairs(p)
    BY MatchedIs
  <2>1. x[1] \in 1 .. p[1] /\ x[1] # 0
    <3>1. x[1] # 0
      BY DEF Matched
    <3> QED BY <2>3, <3>1 DEF Pairs
  <2>2. x[1] = p[1] + 1 /\ p[1] \in Nat
    BY <2>1 DEF Next2
  <2> QED BY <2>1, <2>2
<1>8. Matched(r) = IF 0 \in {x[1], x[2]} THEN Matched(al) ELSE Matched(al) \cup {x}
  BY <1>3 DEF Matched
<1> QED BY <1>6, <1>7, <1>8 DEF r

\* What the way back has in a cell.
Pair(dp, a, b, p) == p[1] > 0 /\ p[2] > 0 /\ dp[p] = dp[Corner(p)] + Cost(a[p[1]], b[p[2]])
Up(dp, p) == p[1] > 0 /\ dp[p] = dp[Above(p)] + Gap
Back(dp, a, b, back, p) ==
  IF p = <<0, 0>> THEN <<>>
  ELSE IF Pair(dp, a, b, p) THEN Append(back[Corner(p)], p)
  ELSE IF Up(dp, p) THEN Append(back[Above(p)], <<p[1], 0>>)
  ELSE Append(back[Beside(p)], <<0, p[2]>>)

\* Where there is neither a pair nor a gap in b, there is one in a.
LEMMA OneOfThree ==
  ASSUME NEW S, NEW a \in Seq(S), NEW b \in Seq(S), NEW p \in Cells(a, b), p # <<0, 0>>,
         ~Pair(Table(a, b), a, b, p), ~Up(Table(a, b), p)
  PROVE  p[2] > 0 /\ Table(a, b)[p] = Table(a, b)[Beside(p)] + Gap
<1> DEFINE n == Len(a)
           m == Len(b)
           D == Grid(n, m)
           dp == Table(a, b)
           i == p[1]
           j == p[2]
<1>1. n \in Nat /\ m \in Nat
  OBVIOUS
<1>2. p \in D /\ dp \in [D -> Int] /\ \A q \in D : dp[q] = Best(dp, a, b, q)
  BY TableIs
<1> HIDE DEF n, m, dp
<1>3. i \in Nat /\ j \in Nat /\ p = <<i, j>>
  BY <1>1, <1>2, Neighbours
<1>4. CASE 0 \notin {i, j}
  <2>1. Corner(p) \in D /\ Above(p) \in D /\ Beside(p) \in D /\ i > 0 /\ j > 0
    BY <1>1, <1>2, <1>3, <1>4, Neighbours
  <2>2. /\ dp[Corner(p)] + Cost(a[i], b[j]) \in Int
        /\ dp[Above(p)] + Gap \in Int /\ dp[Beside(p)] + Gap \in Int
    <3>1. /\ dp[Corner(p)] \in Int /\ dp[Above(p)] \in Int /\ dp[Beside(p)] \in Int
          /\ Cost(a[i], b[j]) \in Int /\ Gap \in Int
      BY <1>2, <2>1, CostIs DEF Gap
    <3> QED BY <3>1
  <2>3. dp[p] = Cell(dp[Corner(p)] + Cost(a[i], b[j]), dp[Above(p)] + Gap, dp[Beside(p)] + Gap)
    BY <1>2, <1>4 DEF Best
  <2>4. dp[p] \in {dp[Corner(p)] + Cost(a[i], b[j]), dp[Above(p)] + Gap, dp[Beside(p)] + Gap}
    BY <2>2, <2>3, CellIs
  <2> QED BY <2>1, <2>4 DEF Pair, Up, dp
<1>5. CASE i = 0
  <2>1. j > 0 /\ Beside(p) \in D /\ Beside(p) = <<0, j - 1>>
    BY <1>1, <1>2, <1>3, <1>5, Neighbours DEF Beside
  <2>2. dp[p] = (0 + j) * Gap /\ dp[Beside(p)] = (0 + (j - 1)) * Gap
    BY <1>2, <1>5, <2>1 DEF Best
  <2>3. (0 + j) * Gap = (0 + (j - 1)) * Gap + Gap
    BY <1>3 DEF Gap
  <2> QED BY <2>1, <2>2, <2>3 DEF dp
<1>6. CASE i # 0 /\ j = 0
  <2>1. i > 0 /\ Above(p) \in D /\ Above(p) = <<i - 1, 0>>
    BY <1>1, <1>2, <1>3, <1>6, Neighbours DEF Above
  <2>2. dp[p] = (i + 0) * Gap /\ dp[Above(p)] = (i - 1 + 0) * Gap
    BY <1>2, <1>6, <2>1 DEF Best
  <2>3. (i + 0) * Gap = (i - 1 + 0) * Gap + Gap
    BY <1>3 DEF Gap
  <2> QED BY <2>1, <2>2, <2>3 DEF Up, dp
<1> QED BY <1>4, <1>5, <1>6

LEMMA AlignIs ==
  ASSUME NEW S, NEW a \in Seq(S), NEW b \in Seq(S)
  PROVE  \E back : /\ \A p \in Cells(a, b) : back[p] = Back(Table(a, b), a, b, back, p)
                   /\ align(a, b) = back[<<Len(a), Len(b)>>]
<1> DEFINE n == Len(a)
           m == Len(b)
           D == Grid(n, m)
           dp == Table(a, b)
           V == Seq(Nat \X Nat)
           F == [x \in D \X (V \X V \X V) |->
                   IF x[1] = <<0, 0>> THEN <<>>
                   ELSE IF Pair(dp, a, b, x[1]) THEN Append(x[2][1], x[1])
                   ELSE IF Up(dp, x[1]) THEN Append(x[2][2], <<x[1][1], 0>>)
                   ELSE Append(x[2][3], <<0, x[1][2]>>)]
<1>1. n \in Nat /\ m \in Nat /\ Cells(a, b) = D
  BY DEF Cells, Grid
<1> HIDE DEF dp
<1>2. F \in [D \X (V \X V \X V) -> V]
  <2> SUFFICES ASSUME NEW p \in D, NEW d \in V, NEW u \in V, NEW l \in V
               PROVE  (IF p = <<0, 0>> THEN <<>>
                       ELSE IF Pair(dp, a, b, p) THEN Append(d, p)
                       ELSE IF Up(dp, p) THEN Append(u, <<p[1], 0>>)
                       ELSE Append(l, <<0, p[2]>>)) \in V
    OBVIOUS
  <2>1. p \in Nat \X Nat /\ <<p[1], 0>> \in Nat \X Nat /\ <<0, p[2]>> \in Nat \X Nat
    BY <1>1 DEF Grid
  <2>2. <<>> \in V /\ Append(d, p) \in V /\ Append(u, <<p[1], 0>>) \in V /\ Append(l, <<0, p[2]>>) \in V
    BY <2>1, AppendProperties
  <2> QED BY <2>2
<1>3. PICK f \in [D -> V] : \A p \in D : f[p] = F[<<p, Around(f, p, <<>>)>>]
  <2>1. <<>> \in V
    OBVIOUS
  <2> HIDE DEF F, n, m, V
  <2>2. Solvable(F, n, m, V, <<>>)
    BY <1>1, <1>2, <2>1, GridExists
  <2> QED BY <2>2 DEF Solvable
<1>4. \A p \in D : f[p] = Back(dp, a, b, f, p)
  <2> SUFFICES ASSUME NEW p \in D PROVE f[p] = Back(dp, a, b, f, p)
    OBVIOUS
  <2> DEFINE d == Around(f, p, <<>>)
  <2>1. d \in V \X V \X V
    <3>1. <<>> \in V
      OBVIOUS
    <3>2. /\ p[1] > 0 /\ p[2] > 0 => f[Corner(p)] \in V
          /\ p[1] > 0 => f[Above(p)] \in V
          /\ p[2] > 0 => f[Beside(p)] \in V
      <4> HIDE DEF V, F
      <4> QED BY <1>1, <1>3, Neighbours
    <3> HIDE DEF V
    <3> QED BY <3>1, <3>2 DEF Around
  <2>2. f[p] = F[<<p, d>>]
    BY <1>3
  <2> HIDE DEF d
  <2>3. f[p] = IF p = <<0, 0>> THEN <<>>
               ELSE IF Pair(dp, a, b, p) THEN Append(d[1], p)
               ELSE IF Up(dp, p) THEN Append(d[2], <<p[1], 0>>)
               ELSE Append(d[3], <<0, p[2]>>)
    BY <2>1, <2>2
  <2>4. /\ p[1] > 0 /\ p[2] > 0 => d[1] = f[Corner(p)]
        /\ p[1] > 0 => d[2] = f[Above(p)]
        /\ p[2] > 0 => d[3] = f[Beside(p)]
    BY <1>1 DEF d, Around
  <2>5. p # <<0, 0>> /\ ~Pair(dp, a, b, p) /\ ~Up(dp, p) => p[2] > 0
    BY <1>1, OneOfThree DEF dp
  <2>6. (Pair(dp, a, b, p) => p[1] > 0 /\ p[2] > 0) /\ (Up(dp, p) => p[1] > 0)
    BY DEF Pair, Up
  <2> QED BY <2>3, <2>4, <2>5, <2>6 DEF Back
<1> DEFINE Goes(back) == back = [p \in Cells(a, b) |-> Back(dp, a, b, back, p)]
           back == CHOOSE g : Goes(g)
<1>5. Goes(f)
  BY <1>1, <1>3, <1>4
<1>6. align(a, b) = back[<<Len(a), Len(b)>>]
  BY DEF align, Back, Pair, Up, Corner, Above, Beside, dp
<1>7. Goes(back)
  <2> HIDE DEF Goes
  <2> QED BY <1>5
<1> HIDE DEF back
<1>8. \A p \in Cells(a, b) : back[p] = Back(dp, a, b, back, p)
  BY <1>7
<1> QED BY <1>6, <1>8 DEF dp

\* The walk to a cell gains what the table has there.
Route(a, b, p, al) == Walk(p, al) /\ GainOf(a, b, p[1] + p[2], Matched(al)) = Table(a, b)[p]

LEMMA BackIsRoute ==
  ASSUME NEW S, NEW a \in Seq(S), NEW b \in Seq(S), NEW back,
         \A p \in Cells(a, b) : back[p] = Back(Table(a, b), a, b, back, p)
  PROVE  \A p \in Cells(a, b) : Route(a, b, p, back[p])
<1> DEFINE n == Len(a)
           m == Len(b)
           D == Grid(n, m)
           dp == Table(a, b)
           g(s, Q) == GainOf(a, b, s, Q)
           G == {q \in D : Route(a, b, q, back[q])}
<1>1. n \in Nat /\ m \in Nat /\ Cells(a, b) = D
  BY TableIs
<1>2. dp \in [D -> Int] /\ \A q \in D : dp[q] = Best(dp, a, b, q) /\ back[q] = Back(dp, a, b, back, q)
  BY TableIs
<1> HIDE DEF n, m, dp
<1>3. ASSUME NEW p \in D, \A r \in D : r[1] + r[2] < p[1] + p[2] => r \in G
      PROVE  Route(a, b, p, back[p])
  <2>1. p \in Nat \X Nat /\ p[1] \in Nat /\ p[2] \in Nat /\ p[1] + p[2] \in Nat /\ p = <<p[1], p[2]>>
    BY <1>1 DEF Grid
  <2>2. CASE p = <<0, 0>>
    <3>1. back[p] = <<>> /\ p[1] = 0 /\ p[2] = 0
      BY <1>2, <2>2 DEF Back
    <3>2. Range(<<>>) = {} /\ <<>> \in Seq(Nat \X Nat) /\ DOMAIN <<>> = {}
      BY DEF Range
    <3>3. Walk(p, <<>>)
      BY <3>1, <3>2 DEF Walk
    <3>4. Matched(<<>>) = {}
      BY <3>2 DEF Matched
    <3>5. 0 + 0 = 0 /\ 0 \in Nat
      OBVIOUS
    <3>6. g(0, {}) = 0 * Gap
      BY <3>5, GainNone
    <3>7. dp[p] = 0 * Gap
      BY <1>2, <3>1, <3>5 DEF Best
    <3> QED BY <3>1, <3>3, <3>4, <3>5, <3>6, <3>7 DEF Route, dp
  <2>3. CASE p # <<0, 0>> /\ Pair(dp, a, b, p)
    <3> DEFINE q == Corner(p)
               al == back[q]
    <3>1. p[1] > 0 /\ p[2] > 0 /\ dp[p] = dp[q] + Cost(a[p[1]], b[p[2]])
      BY <2>3 DEF Pair
    <3>2. q \in G /\ q \in Nat \X Nat
      <4>1. q \in D /\ q[1] + q[2] < p[1] + p[2]
        BY <1>1, <3>1, Neighbours
      <4> QED BY <1>1, <1>3, <4>1 DEF Grid
    <3>3. q[1] = p[1] - 1 /\ q[2] = p[2] - 1
      BY DEF Corner
    <3>4. back[p] = Append(al, p)
      BY <1>2, <2>3 DEF Back
    <3>5. Walk(q, al) /\ g(q[1] + q[2], Matched(al)) = dp[q]
      BY <3>2 DEF Route, dp
    <3> HIDE DEF q, al
    <3>6. Next2(q, p, p)
      BY <2>1, <3>1, <3>3 DEF Next2
    <3>7. /\ Walk(p, Append(al, p)) /\ p \notin Matched(al) /\ IsFiniteSet(Matched(al))
          /\ Matched(Append(al, p)) = Matched(al) \cup {p}
      <4>1. 0 \notin {p[1], p[2]}
        BY <2>1, <3>1
      <4>2. IsFiniteSet(Matched(al))
        BY <3>2, <3>5, MatchedIs
      <4>3. /\ Walk(p, Append(al, p)) /\ p \notin Matched(al)
            /\ Matched(Append(al, p)) = IF 0 \in {p[1], p[2]} THEN Matched(al) ELSE Matched(al) \cup {p}
        BY <2>1, <2>3, <3>2, <3>5, <3>6, WalkOn
      <4> QED BY <4>1, <4>2, <4>3
    <3>8. q[1] + q[2] \in Nat /\ p[1] + p[2] = q[1] + q[2] + 2
      BY <2>1, <3>1, <3>3
    <3> DEFINE s == q[1] + q[2]
               t == p[1] + p[2]
               Q == Matched(Append(al, p))
    <3>9. s \in Nat /\ t \in Nat /\ t = s + 2
      BY <2>1, <3>8
    <3> HIDE DEF s, t, Q
    <3>10. g(t, Q) = g(s, Matched(al)) + Cost(a[p[1]], b[p[2]])
      <4>1. Q = Matched(al) \cup {p}
        BY <3>7 DEF Q
      <4> QED BY <3>7, <3>9, <4>1, GainPair
    <3> QED BY <3>1, <3>4, <3>5, <3>7, <3>10 DEF Route, dp, s, t, Q
  <2>4. CASE p # <<0, 0>> /\ ~Pair(dp, a, b, p) /\ Up(dp, p)
    <3> DEFINE q == Above(p)
               al == back[q]
               x == <<p[1], 0>>
    <3>1. p[1] > 0 /\ dp[p] = dp[q] + Gap
      BY <2>4 DEF Up
    <3>2. q \in G /\ q \in Nat \X Nat
      <4>1. q \in D /\ q[1] + q[2] < p[1] + p[2]
        BY <1>1, <3>1, Neighbours
      <4> QED BY <1>1, <1>3, <4>1 DEF Grid
    <3>3. q[1] = p[1] - 1 /\ q[2] = p[2]
      BY DEF Above
    <3>4. back[p] = Append(al, x)
      BY <1>2, <2>4 DEF Back
    <3>5. Walk(q, al) /\ g(q[1] + q[2], Matched(al)) = dp[q]
      BY <3>2 DEF Route, dp
    <3>6. Next2(q, x, p) /\ x \in Nat \X Nat /\ x # <<0, 0>> /\ 0 \in {x[1], x[2]}
      <4>1. x[1] = p[1] /\ x[2] = 0 /\ q[1] + 1 = p[1]
        BY <2>1, <3>3
      <4> QED BY <2>1, <3>1, <3>3, <4>1 DEF Next2
    <3> HIDE DEF q, al, x
    <3>7. Walk(p, Append(al, x)) /\ IsFiniteSet(Matched(al)) /\ Matched(Append(al, x)) = Matched(al)
      BY <2>1, <3>2, <3>5, <3>6, WalkOn, MatchedIs
    <3> DEFINE s == q[1] + q[2]
               t == p[1] + p[2]
    <3>9. s \in Nat /\ t \in Nat /\ t = s + 1
      BY <2>1, <3>1, <3>3
    <3> HIDE DEF s, t
    <3>10. g(t, Matched(al)) = g(s, Matched(al)) + Gap
      BY <3>7, <3>9, GainIs
    <3> QED BY <3>1, <3>4, <3>5, <3>7, <3>10 DEF Route, dp, s, t
  <2>5. CASE p # <<0, 0>> /\ ~Pair(dp, a, b, p) /\ ~Up(dp, p)
    <3> DEFINE q == Beside(p)
               al == back[q]
               x == <<0, p[2]>>
    <3>1. p[2] > 0 /\ dp[p] = dp[q] + Gap
      BY <1>1, <2>5, OneOfThree DEF dp
    <3>2. q \in G /\ q \in Nat \X Nat
      <4>1. q \in D /\ q[1] + q[2] < p[1] + p[2]
        BY <1>1, <3>1, Neighbours
      <4> QED BY <1>1, <1>3, <4>1 DEF Grid
    <3>3. q[1] = p[1] /\ q[2] = p[2] - 1
      BY DEF Beside
    <3>4. back[p] = Append(al, x)
      BY <1>2, <2>5 DEF Back
    <3>5. Walk(q, al) /\ g(q[1] + q[2], Matched(al)) = dp[q]
      BY <3>2 DEF Route, dp
    <3>6. Next2(q, x, p) /\ x \in Nat \X Nat /\ x # <<0, 0>> /\ 0 \in {x[1], x[2]}
      <4>1. x[1] = 0 /\ x[2] = p[2] /\ q[2] + 1 = p[2]
        BY <2>1, <3>3
      <4> QED BY <2>1, <3>1, <3>3, <4>1 DEF Next2
    <3> HIDE DEF q, al, x
    <3>7. Walk(p, Append(al, x)) /\ IsFiniteSet(Matched(al)) /\ Matched(Append(al, x)) = Matched(al)
      BY <2>1, <3>2, <3>5, <3>6, WalkOn, MatchedIs
    <3> DEFINE s == q[1] + q[2]
               t == p[1] + p[2]
    <3>9. s \in Nat /\ t \in Nat /\ t = s + 1
      BY <2>1, <3>1, <3>3
    <3> HIDE DEF s, t
    <3>10. g(t, Matched(al)) = g(s, Matched(al)) + Gap
      BY <3>7, <3>9, GainIs
    <3> QED BY <3>1, <3>4, <3>5, <3>7, <3>10 DEF Route, dp, s, t
  <2> QED BY <2>2, <2>3, <2>4, <2>5
<1>4. \A p \in D : p \in G
  <2>1. ASSUME NEW p \in D, \A r \in D : r[1] + r[2] < p[1] + p[2] => r \in G PROVE p \in G
    BY <1>3, <2>1
  <2> HIDE DEF G
  <2> QED BY <1>1, <2>1, GridClimb
<1> QED BY <1>1, <1>4
-----------------------------------------------------------------------------
(***************************************************************************)
(* A template and itself                                                   *)
(***************************************************************************)
\* A pair gains at most one for each of its positions.
LEMMA TableBound ==
  ASSUME NEW S, NEW a \in Seq(S), NEW b \in Seq(S)
  PROVE  \A p \in Cells(a, b) : Table(a, b)[p] <= p[1] + p[2]
<1> DEFINE n == Len(a)
           m == Len(b)
           D == Grid(n, m)
           dp == Table(a, b)
           G == {q \in D : dp[q] <= q[1] + q[2]}
<1>1. n \in Nat /\ m \in Nat /\ Cells(a, b) = D
  BY TableIs
<1>2. dp \in [D -> Int] /\ \A q \in D : dp[q] = Best(dp, a, b, q)
  BY TableIs
<1> HIDE DEF n, m, dp
<1>3. ASSUME NEW p \in D, \A r \in D : r[1] + r[2] < p[1] + p[2] => r \in G
      PROVE  dp[p] <= p[1] + p[2]
  <2>1. p[1] \in Nat /\ p[2] \in Nat
    BY <1>1, Neighbours
  <2>2. CASE 0 \in {p[1], p[2]}
    <3>1. dp[p] = (p[1] + p[2]) * Gap
      BY <1>2, <2>2 DEF Best
    <3>2. \A x \in Nat : x * Gap <= x
      BY DEF Gap
    <3> QED BY <2>1, <3>1, <3>2
  <2>3. CASE 0 \notin {p[1], p[2]}
    <3> DEFINE c == Cost(a[p[1]], b[p[2]])
    <3>1. Corner(p) \in G /\ Above(p) \in G /\ Beside(p) \in G
      BY <1>1, <1>3, <2>1, <2>3, Neighbours
    <3>2. /\ dp[Corner(p)] \in Int /\ dp[Above(p)] \in Int /\ dp[Beside(p)] \in Int
          /\ dp[Corner(p)] <= p[1] - 1 + (p[2] - 1)
          /\ dp[Above(p)] <= p[1] - 1 + p[2]
          /\ dp[Beside(p)] <= p[1] + (p[2] - 1)
      BY <1>2, <3>1 DEF Corner, Above, Beside
    <3>3. c \in Int /\ c <= 2
      BY CostIs
    <3> HIDE DEF c
    <3>4. /\ dp[Corner(p)] + c \in Int /\ dp[Above(p)] + Gap \in Int /\ dp[Beside(p)] + Gap \in Int
          /\ dp[Corner(p)] + c <= p[1] + p[2]
          /\ dp[Above(p)] + Gap <= p[1] + p[2] /\ dp[Beside(p)] + Gap <= p[1] + p[2]
      <4>1. \A x, y \in Nat : \A d, u, l, e \in Int :
              d <= x - 1 + (y - 1) /\ u <= x - 1 + y /\ l <= x + (y - 1) /\ e <= 2 =>
                /\ d + e \in Int /\ u + -1 \in Int /\ l + -1 \in Int
                /\ d + e <= x + y /\ u + -1 <= x + y /\ l + -1 <= x + y
        OBVIOUS
      <4> QED BY <2>1, <3>2, <3>3, <4>1 DEF Gap
    <3>5. dp[p] = Cell(dp[Corner(p)] + c, dp[Above(p)] + Gap, dp[Beside(p)] + Gap)
      BY <1>2, <2>3 DEF Best, c
    <3>6. dp[p] \in {dp[Corner(p)] + c, dp[Above(p)] + Gap, dp[Beside(p)] + Gap}
      BY <3>4, <3>5, CellIs
    <3> QED BY <3>4, <3>6
  <2> QED BY <2>2, <2>3
<1>4. \A p \in D : p \in G
  <2>1. ASSUME NEW p \in D, \A r \in D : r[1] + r[2] < p[1] + p[2] => r \in G PROVE p \in G
    BY <1>3, <2>1
  <2> HIDE DEF G
  <2> QED BY <1>1, <2>1, GridClimb
<1> QED BY <1>1, <1>4 DEF dp

LEMMA Diagonal ==
  ASSUME NEW S, NEW a \in Seq(S), NEW back,
         \A p \in Cells(a, a) : back[p] = Back(Table(a, a), a, a, back, p)
  PROVE  \A i \in 1 .. Len(a) : <<i, i>> \in Range(back[<<Len(a), Len(a)>>])
<1> DEFINE n == Len(a)
           D == Grid(n, n)
           dp == Table(a, a)
           at(k) == <<k, k>>
<1>1. n \in Nat /\ Cells(a, a) = D
  BY TableIs
<1>2. dp \in [D -> Int] /\ \A q \in D : dp[q] = Best(dp, a, a, q) /\ dp[q] <= q[1] + q[2]
  BY TableIs, TableBound
<1>3. \A q \in D : back[q] = Back(dp, a, a, back, q) /\ back[q] \in Seq(Nat \X Nat)
  BY <1>1, BackIsRoute DEF Route, Walk
<1> HIDE DEF n, dp
<1>4. \A k \in 0..n : at(k) \in D /\ k + k \in Nat
  BY <1>1 DEF Grid
<1>5. ASSUME NEW k \in 1..n
      PROVE  /\ k - 1 \in 0..n /\ k \in 0..n /\ Corner(at(k)) = at(k - 1)
             /\ dp[at(k - 1)] + 2 <= dp[at(k)]
  <2>1. k - 1 \in 0..n /\ k \in 0..n /\ Corner(at(k)) = at(k - 1) /\ k > 0
    BY <1>1 DEF Corner
  <2>2. at(k) \in D /\ at(k - 1) \in D
    BY <1>4, <2>1
  <2>3. Above(at(k)) \in D /\ Beside(at(k)) \in D
    BY <1>1, <2>1, <2>2, Neighbours
  <2>4. dp[at(k)] = Cell(dp[at(k - 1)] + Cost(a[k], a[k]), dp[Above(at(k))] + Gap, dp[Beside(at(k))] + Gap)
    <3>1. at(k)[1] = k /\ at(k)[2] = k /\ 0 \notin {k, k}
      BY <2>1
    <3> QED BY <1>2, <2>1, <2>2, <3>1 DEF Best
  <2>5. Cost(a[k], a[k]) = 2
    BY CostIs
  <2> HIDE DEF at
  <2>6. dp[at(k - 1)] + 2 \in Int /\ dp[Above(at(k))] + Gap \in Int /\ dp[Beside(at(k))] + Gap \in Int
    <3>1. dp[at(k - 1)] \in Int /\ dp[Above(at(k))] \in Int /\ dp[Beside(at(k))] \in Int
      BY <1>2, <2>2, <2>3
    <3> QED BY <3>1 DEF Gap
  <2>7. dp[at(k - 1)] + 2 <= dp[at(k)]
    BY <2>4, <2>5, <2>6, CellIs
  <2> QED BY <2>1, <2>7 DEF at
<1>6. \A k \in 0..n : dp[at(k)] = k + k
  <2> DEFINE G == {k \in Nat : k <= n => dp[at(k)] = k + k}
  <2>1. 0 \in G
    <3>1. at(0) \in D /\ at(0)[1] = 0 /\ at(0)[2] = 0
      BY <1>1, <1>4
    <3>2. dp[at(0)] = (0 + 0) * Gap
      BY <1>2, <3>1 DEF Best
    <3>3. (0 + 0) * Gap = 0 + 0
      BY DEF Gap
    <3> QED BY <3>2, <3>3
  <2>2. ASSUME NEW k \in 1..n, k - 1 \in G PROVE k \in G
    <3>1. dp[at(k - 1)] = k - 1 + (k - 1)
      BY <1>1, <2>2
    <3>2. dp[at(k)] <= k + k /\ dp[at(k)] \in Int
      <4>1. at(k) \in D /\ at(k)[1] = k /\ at(k)[2] = k
        BY <1>4, <1>5
      <4> QED BY <1>2, <4>1
    <3>3. dp[at(k - 1)] + 2 <= dp[at(k)]
      BY <1>5
    <3>4. k \in Nat
      OBVIOUS
    <3> HIDE DEF at
    <3> QED BY <3>1, <3>2, <3>3, <3>4
  <2>3. \A k \in 0..n : k \in G
    <3> HIDE DEF G
    <3> QED BY <1>1, <2>1, <2>2, Climb
  <2>4. \A k \in 0..n : k <= n
    BY <1>1
  <2> QED BY <2>3, <2>4
<1>7. \A k \in 0..n : \A i \in 1..k : at(i) \in Range(back[at(k)])
  <2> DEFINE G == {k \in Nat : k <= n => \A i \in 1..k : at(i) \in Range(back[at(k)])}
  <2>1. 0 \in G
    OBVIOUS
  <2>2. ASSUME NEW k \in 1..n, k - 1 \in G PROVE k \in G
    <3>1. \A i \in 1 .. k - 1 : at(i) \in Range(back[at(k - 1)])
      <4>1. k - 1 <= n
        BY <1>1
      <4> HIDE DEF at
      <4> QED BY <2>2, <4>1
    <3>2. at(k) \in D /\ at(k - 1) \in D /\ Corner(at(k)) = at(k - 1) /\ at(k) # <<0, 0>>
      BY <1>4, <1>5
    <3>3. Pair(dp, a, a, at(k))
      <4>1. dp[at(k)] = dp[at(k - 1)] + 2
        <5>1. dp[at(k)] = k + k /\ dp[at(k - 1)] = k - 1 + (k - 1)
          BY <1>5, <1>6
        <5>2. k + k = k - 1 + (k - 1) + 2
          OBVIOUS
        <5> QED BY <5>1, <5>2
      <4>2. Cost(a[k], a[k]) = 2
        BY CostIs
      <4>3. at(k)[1] = k /\ at(k)[2] = k /\ k > 0
        OBVIOUS
      <4> HIDE DEF at
      <4> QED BY <3>2, <4>1, <4>2, <4>3 DEF Pair
    <3> HIDE DEF at
    <3>4. back[at(k)] = Append(back[at(k - 1)], at(k))
      BY <1>3, <3>2, <3>3 DEF Back
    <3>5. Range(back[at(k)]) = Range(back[at(k - 1)]) \cup {at(k)}
      <4>1. at(k) \in Nat \X Nat
        BY <1>1, <3>2 DEF Grid
      <4>2. back[at(k - 1)] \in Seq(Nat \X Nat)
        BY <1>3, <3>2
      <4> QED BY <3>4, <4>1, <4>2, RangeAppend
    <3>6. \A i \in 1..k : i \in 1 .. k - 1 \/ i = k
      OBVIOUS
    <3>7. k \in Nat
      OBVIOUS
    <3> QED BY <3>1, <3>5, <3>6, <3>7
  <2>3. \A k \in 0..n : k \in G
    <3> HIDE DEF G
    <3> QED BY <1>1, <2>1, <2>2, Climb
  <2>4. \A k \in 0..n : k <= n
    BY <1>1
  <2> QED BY <2>3, <2>4
<1>8. n \in 0..n
  BY <1>1
<1> QED BY <1>7, <1>8 DEF n
-----------------------------------------------------------------------------
(***************************************************************************)
(* Label transfer                                                          *)
(***************************************************************************)
Named(a) == [i \in DOMAIN a |-> i]

LEMMA TransferIs ==
  ASSUME NEW S, NEW a \in Seq(S), NEW b \in Seq(S), Walk(<<Len(a), Len(b)>>, align(a, b)),
         a = b => \A i \in 1 .. Len(a) : <<i, i>> \in Range(align(a, b))
  PROVE  LET carried == transfer_labels(a, Named(a), b)
         IN /\ IsInjective(carried) /\ \A j \in DOMAIN carried : Cost(a[carried[j]], b[j]) > 0
            /\ a = b => carried = Named(a)
<1> DEFINE n == Len(a)
           m == Len(b)
           al == align(a, b)
           labels == Named(a)
           M == {p \in Range(al) : p[1] \in DOMAIN labels /\ p[2] # 0 /\ Cost(a[p[1]], b[p[2]]) > 0}
           J == {p[2] : p \in M}
           carried == transfer_labels(a, labels, b)
<1>1. n \in Nat /\ m \in Nat /\ DOMAIN a = 1..n /\ DOMAIN b = 1..m /\ <<n, m>> \in Nat \X Nat
  OBVIOUS
<1>2. DOMAIN labels = 1..n /\ \A i \in 1..n : labels[i] = i
  BY <1>1 DEF Named
<1>3. carried = [j \in J |-> labels[(CHOOSE p \in M : p[2] = j)[1]]]
  BY DEF transfer_labels
<1>4. Matched(al) \in SUBSET Pairs(<<n, m>>) /\ InOrder(Matched(al))
  BY <1>1, MatchedIs
<1> HIDE DEF labels, n, m, al
<1>5. M \subseteq Matched(al) /\ \A p \in M : p[1] \in 1..n /\ p[2] \in 1..m /\ Cost(a[p[1]], b[p[2]]) > 0
  <2>1. M \subseteq Matched(al)
    BY <1>1, <1>2 DEF Matched
  <2>2. \A p \in Matched(al) : p[1] \in 1..n /\ p[2] \in 1..m
    BY <1>4 DEF Pairs
  <2> QED BY <2>1, <2>2
<1> DEFINE at(j) == CHOOSE p \in M : p[2] = j
<1>6. \A j \in J : at(j) \in M /\ at(j)[2] = j
  OBVIOUS
<1>7. \A j \in J : carried[j] = at(j)[1]
  <2> HIDE DEF M
  <2>1. \A j \in J : carried[j] = labels[at(j)[1]]
    BY <1>3
  <2> HIDE DEF at, J, carried
  <2> QED BY <1>2, <1>5, <1>6, <2>1
<1>8. DOMAIN carried = J
  BY <1>3
<1> HIDE DEF carried, at
<1>9. \A p, q \in M : p[1] = q[1] => p[2] = q[2]
  <2> SUFFICES ASSUME NEW p \in M, NEW q \in M, p[1] = q[1] PROVE p[2] = q[2]
    OBVIOUS
  <2>1. (p[1] < q[1] <=> p[2] < q[2]) /\ (q[1] < p[1] <=> q[2] < p[2])
    BY <1>4, <1>5 DEF InOrder
  <2>2. p[1] \in Nat /\ q[1] \in Nat /\ p[2] \in Nat /\ q[2] \in Nat
    BY <1>5
  <2> QED BY <2>1, <2>2
<1> HIDE DEF M
<1>10. IsInjective(carried)
  BY <1>6, <1>7, <1>8, <1>9 DEF IsInjective
<1>11. \A j \in J : Cost(a[carried[j]], b[j]) > 0
  BY <1>5, <1>6, <1>7
<1>12. ASSUME a = b PROVE carried = labels
  <2>1. ASSUME NEW i \in 1..n PROVE <<i, i>> \in M
    <3>1. <<i, i>> \in Range(al)
      BY <1>12 DEF n, al
    <3>2. <<i, i>>[1] = i /\ <<i, i>>[2] = i /\ i # 0 /\ Cost(a[i], b[i]) > 0
      BY <1>1, <1>12, CostIs
    <3> QED BY <1>2, <3>1, <3>2 DEF M
  <2>2. n = m
    BY <1>12 DEF n, m
  <2>3. J = 1..n
    <3>1. J \subseteq 1..n
      BY <1>5, <2>2
    <3>2. 1..n \subseteq J
      <4>1. \A i \in 1..n : <<i, i>>[2] = i
        OBVIOUS
      <4> QED BY <2>1, <4>1
    <3> QED BY <3>1, <3>2
  <2>4. \A j \in 1..n : carried[j] = j
    <3> SUFFICES ASSUME NEW j \in 1..n PROVE at(j)[1] = j
      BY <1>7, <2>3
    <3> DEFINE p == at(j)
    <3>1. p \in M /\ p[2] = j /\ <<j, j>> \in M
      BY <1>6, <2>1, <2>3
    <3> HIDE DEF p
    <3>2. (p[1] < <<j, j>>[1] <=> p[2] < <<j, j>>[2]) /\ (<<j, j>>[1] < p[1] <=> <<j, j>>[2] < p[2])
      BY <1>4, <1>5, <3>1 DEF InOrder
    <3>3. p[1] \in Nat /\ j \in Nat
      BY <1>5, <3>1
    <3>4. p[1] = j
      BY <3>1, <3>2, <3>3
    <3> QED BY <3>4 DEF p
  <2>5. carried = [j \in 1..n |-> carried[j]]
    BY <1>3, <2>3 DEF carried
  <2>6. labels = [j \in 1..n |-> labels[j]]
    BY <1>2 DEF labels, Named
  <2> QED BY <1>2, <2>4, <2>5, <2>6
<1> QED BY <1>8, <1>10, <1>11, <1>12 DEF carried, labels

\* Templates of any length, of any classes: the traceback has every position
\* once and in order, no pairs in order gain more, and names are carried one to
\* one between positions whose classes agree.
THEOREM AlignAlwaysOptimal == TemplateSpec => []AlignOptimal
<1> DEFINE TemplateInv == oldTpl \in Seq(Classes) /\ newTpl \in Seq(Classes)
<1>1. InitTemplates => TemplateInv
  BY DEF InitTemplates
<1>2. TemplateInv /\ [Extend]_<<oldTpl, newTpl>> => TemplateInv'
  <2> SUFFICES ASSUME TemplateInv, [Extend]_<<oldTpl, newTpl>> PROVE TemplateInv'
    OBVIOUS
  <2>1. CASE UNCHANGED <<oldTpl, newTpl>>
    BY <2>1
  <2>2. ASSUME NEW c \in Classes, oldTpl' = Append(oldTpl, c), newTpl' = newTpl PROVE TemplateInv'
    BY <2>2, AppendProperties
  <2>3. ASSUME NEW c \in Classes, newTpl' = Append(newTpl, c), oldTpl' = oldTpl PROVE TemplateInv'
    BY <2>3, AppendProperties
  <2> QED BY <2>1, <2>2, <2>3 DEF Extend
<1>3. TemplateInv => AlignOptimal
  <2> SUFFICES ASSUME TemplateInv PROVE AlignOptimal
    OBVIOUS
  <2> DEFINE a == oldTpl
             b == newTpl
             al == align(a, b)
             at == <<Len(a), Len(b)>>
  <2>1. a \in Seq(Classes) /\ b \in Seq(Classes)
    OBVIOUS
  <2>2. Len(a) \in Nat /\ Len(b) \in Nat /\ DOMAIN a = 1 .. Len(a) /\ DOMAIN b = 1 .. Len(b)
    BY <2>1
  <2> HIDE DEF a, b
  <2>3. at \in Cells(a, b) /\ at \in Nat \X Nat /\ at[1] = Len(a) /\ at[2] = Len(b)
    BY <2>2 DEF Cells
  <2>4. PICK back : /\ \A p \in Cells(a, b) : back[p] = Back(Table(a, b), a, b, back, p)
                    /\ al = back[at]
    BY <2>1, AlignIs
  <2> HIDE DEF al, at
  <2>5. Route(a, b, at, al)
    BY <2>1, <2>3, <2>4, BackIsRoute
  <2>6. ASSUME NEW P \in SUBSET ((DOMAIN a) \X (DOMAIN b)), InOrder(P)
        PROVE  Gain(a, b, P) <= Gain(a, b, Matched(al))
    <3>1. /\ Gain(a, b, P) = GainOf(a, b, Len(a) + Len(b), P)
          /\ Gain(a, b, Matched(al)) = GainOf(a, b, Len(a) + Len(b), Matched(al))
      <4>1. IsFiniteSet(P)
        <5>1. IsFiniteSet(1 .. Len(a)) /\ IsFiniteSet(1 .. Len(b))
          BY <2>2, FS_Interval
        <5>2. IsFiniteSet((1 .. Len(a)) \X (1 .. Len(b)))
          BY <5>1, FS_Product
        <5>3. P \in SUBSET ((1 .. Len(a)) \X (1 .. Len(b)))
          BY <2>2, <2>6
        <5> QED BY <5>2, <5>3, FS_Subset
      <4>2. IsFiniteSet(Matched(al))
        BY <2>3, <2>5, MatchedIs DEF Route
      <4> QED BY <2>2, <4>1, <4>2, GainWhole
    <3>2. P \in SUBSET Pairs(at)
      BY <2>2, <2>3 DEF Pairs
    <3>3. GainOf(a, b, Len(a) + Len(b), P) <= Table(a, b)[at]
      BY <2>1, <2>3, <2>6, <3>2, NoneBetter
    <3> QED BY <2>3, <2>5, <3>1, <3>3 DEF Route
  <2>7. a = b => \A i \in 1 .. Len(a) : <<i, i>> \in Range(al)
    BY <2>1, <2>4, Diagonal DEF at
  <2>8. /\ IsInjective(transfer_labels(a, Named(a), b))
        /\ \A j \in DOMAIN transfer_labels(a, Named(a), b) : Cost(a[transfer_labels(a, Named(a), b)[j]], b[j]) > 0
        /\ a = b => transfer_labels(a, Named(a), b) = Named(a)
    BY <2>1, <2>5, <2>7, TransferIs DEF Route, al, at
  <2> QED BY <2>2, <2>3, <2>5, <2>6, <2>8 DEF AlignOptimal, Route, Walk, Matched, Named, a, b, al
<1> QED BY <1>1, <1>2, <1>3, PTL DEF TemplateSpec
=============================================================================
