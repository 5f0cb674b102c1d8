--------------------------- MODULE RegistryProofs ---------------------------
(***************************************************************************)
(* Theorems about Registry for any number of processes, threads, packs and *)
(* shapes, and any scores: type correctness; that no event is parsed by a  *)
(* pack version retired or replaced before its call began; that the        *)
(* routing cache holds the parsers that scoring all of them would choose;  *)
(* and, for one process, that the parsers table says what it serves.       *)
(***************************************************************************)
EXTENDS Registry, TLAPS

-----------------------------------------------------------------------------
(***************************************************************************)
(* The inductive invariant                                                 *)
(*                                                                         *)
(* A call's locals are those of the step it is about to take.  A route has *)
(* seen every pack its engine has loaded now, so that whatever it chooses  *)
(* from them it has seen.  While an engine loads its files, no call runs   *)
(* in it.                                                                  *)
(***************************************************************************)
RouteSteps == {"pick", "store", "fallback", "tier5"}

JobOK(t) ==
  /\ pc[t] = "idle" => job[t] = Idle
  /\ pc[t] \in {"set", "clear", "mark", "stamp"} => job[t] \in RegisterJob
  /\ pc[t] = "prune" => IsRetireJob(job[t])
  /\ pc[t] = "row" => job[t] \in RegisterJob \/ IsRetireJob(job[t])
  /\ pc[t] = "mark" => job[t].sug # None
  /\ pc[t] \in RouteSteps => job[t] \in RouteJob
  /\ pc[t] = "store" => job[t].pick # None

Chosen(j) == j.pick = None \/ j.pick.id = Structural \/ j.pick \in j.seen

SeenOK(t) ==
  job[t].call = "route" => Registered(Home[t]) \subseteq job[t].seen /\ Chosen(job[t])

BootOK(t) == pc[t] = "idle" \/ boot[Home[t]] = {}

IInv == \A t \in Threads : JobOK(t) /\ SeenOK(t) /\ BootOK(t)
-----------------------------------------------------------------------------
\* What is loaded are pack versions.
LEMMA RegisteredType == ASSUME TypeOK, NEW e \in Engines PROVE Registered(e) \subseteq Pack
BY DEF TypeOK, Registered, IsPartial, Pack

\* The empty map is a map from a part of any set to any set.
LEMMA NoFnType == \A S, T : IsPartial(NoFn, S, T) /\ DOMAIN NoFn = {}
BY DEF NoFn, IsPartial

\* A map stays one when a value of its range is put in, or keys are dropped.
LEMMA PutDropType ==
  ASSUME NEW S, NEW T, NEW f, IsPartial(f, S, T)
  PROVE  /\ \A x \in S, v \in T : IsPartial(Put(f, x, v), S, T)
         /\ \A X : IsPartial(Drop(f, X), S, T)
BY DEF IsPartial, Put, Drop

\* The row an upsert starts from is a row, apart from a version it may lack.
LEMMA RowOfType == ASSUME TypeOK, NEW id \in Packs PROVE RowOf(id) \in Row
BY DEF TypeOK, RowOf, Row, IsPartial

\* An upsert leaves a table.
LEMMA UpsertType ==
  ASSUME TypeOK, NEW id \in Packs, NEW row \in Row
  PROVE  IsPartial(Upsert(id, row), Packs, Row)
BY PutDropType DEF TypeOK, Upsert

\* Every job is one of the four kinds, by the call it serves.
LEMMA JobKinds ==
  ASSUME TypeOK, NEW t \in Threads
  PROVE  /\ job[t].call = "route" => job[t] \in RouteJob
         /\ job[t] \in RouteJob => job[t].call = "route"
         /\ job[t] \in RegisterJob => job[t].call = "register"
         /\ IsRetireJob(job[t]) => job[t].call = "retire"
         /\ job[t] = Idle => job[t].call = "none"
BY DEF TypeOK, RouteJob, RegisterJob, IsRetireJob, Idle
-----------------------------------------------------------------------------
(***************************************************************************)
(* A step that only one thread takes part in                               *)
(***************************************************************************)
\* The other threads keep their locals, and their engines what they loaded.
Frame(t) ==
  /\ \A u \in Threads \ {t} : pc'[u] = pc[u] /\ job'[u] = job[u]
  /\ boot' = boot
  /\ \A e \in Engines : Registered(e)' \subseteq Registered(e)

\* Such a step preserves the invariant if it does so for that thread.
LEMMA ThreadStep ==
  ASSUME IInv, NEW t \in Threads, Frame(t), JobOK(t)', SeenOK(t)', BootOK(t)'
  PROVE  IInv'
<1>1. ASSUME NEW u \in Threads \ {t} PROVE JobOK(u)' /\ SeenOK(u)' /\ BootOK(u)'
  <2>1. JobOK(u) /\ SeenOK(u) /\ BootOK(u)
    BY DEF IInv
  <2>2. JobOK(u)'
    BY <2>1 DEF Frame, JobOK, RouteSteps
  <2>3. SeenOK(u)'
    <3>1. Home[u] \in Engines
      BY RegistryAssumption
    <3>2. Registered(Home[u])' \subseteq Registered(Home[u])
      BY <3>1 DEF Frame
    <3> QED BY <2>1, <3>2 DEF Frame, SeenOK, Chosen
  <2>4. BootOK(u)'
    BY <2>1 DEF Frame, BootOK
  <2> QED BY <2>2, <2>3, <2>4
<1> QED BY <1>1 DEF IInv

\* The jobs are jobs of one of the kinds.
JobsOK ==
  /\ job = [u \in Threads |-> job[u]]
  /\ \A u \in Threads : job[u] \in RegisterJob \cup RouteJob \cup {Idle} \/ IsRetireJob(job[u])

\* They still are when one of them is replaced by another.
LEMMA JobsStep ==
  ASSUME TypeOK, NEW t \in Threads, NEW j, job' = [job EXCEPT ![t] = j],
         j \in RegisterJob \cup RouteJob \cup {Idle} \/ IsRetireJob(j)
  PROVE  JobsOK' /\ job'[t] = j /\ \A u \in Threads \ {t} : job'[u] = job[u]
BY DEF TypeOK, JobsOK

\* A call that returns leaves nothing to keep.
LEMMA FinishOK ==
  ASSUME TypeOK, IInv, NEW t \in Threads, Finish(t), UNCHANGED <<boot, packs>>
  PROVE  IInv' /\ JobsOK' /\ pc' \in [Threads -> Steps]
<1>1. job'[t] = Idle /\ pc'[t] = "idle"
  BY DEF Finish, Goto, TypeOK
<1>2. Frame(t)
  BY DEF Finish, Goto, Frame, TypeOK, Registered
<1>3. JobOK(t)' /\ SeenOK(t)' /\ BootOK(t)'
  BY <1>1 DEF JobOK, SeenOK, BootOK, RouteSteps, Idle
<1>4. IInv'
  BY <1>2, <1>3, ThreadStep
<1>5. JobsOK' /\ pc' \in [Threads -> Steps]
  BY JobsStep DEF Finish, Goto, TypeOK, Steps
<1> QED BY <1>4, <1>5
-----------------------------------------------------------------------------
\* The invariant holds in the initial states: no call is in progress.
LEMMA InitOK == Init => TypeOK /\ IInv
<1> SUFFICES ASSUME Init PROVE TypeOK /\ IInv
  OBVIOUS
<1>1. TypeOK
  BY NoFnType, RegistryAssumption DEF Init, TypeOK, Steps
<1>2. IInv
  BY DEF Init, IInv, JobOK, SeenOK, BootOK, RouteSteps, Idle
<1> QED BY <1>1, <1>2

\* Loading a file changes what is registered only while no call is running.
LEMMA LoadFileOK ==
  ASSUME TypeOK, IInv, NEW e \in Engines, NEW id \in Packs, LoadFile(e, id)
  PROVE  TypeOK' /\ IInv'
<1>1. id \in Packs /\ Vendor[id] \in Versions
  BY RegistryAssumption DEF LoadFile, TypeOK
<1>2. [RowOf(id) EXCEPT !.ver = Vendor[id], !.status = "active"] \in Row
  BY <1>1, RowOfType DEF Row
<1>3. IsPartial(table', Packs, Row) /\ faults' \in Nat /\ torn' \subseteq Packs
  <2>1. IsPartial(table', Packs, Row)
    BY <1>1, <1>2, UpsertType DEF LoadFile, TypeOK
  <2>2. faults' \in Nat
    BY DEF LoadFile, Fault, TypeOK
  <2>3. torn' \subseteq Packs
    BY DEF LoadFile, TypeOK
  <2> QED BY <2>1, <2>2, <2>3
<1>4. TypeOK'
  BY <1>1, <1>3, PutDropType DEF LoadFile, TypeOK
<1>5. ASSUME NEW t \in Threads PROVE JobOK(t)' /\ SeenOK(t)' /\ BootOK(t)'
  <2>1. JobOK(t) /\ SeenOK(t) /\ BootOK(t) /\ Home[t] \in Engines
    BY RegistryAssumption DEF IInv
  <2>2. JobOK(t)'
    BY <2>1 DEF LoadFile, JobOK, RouteSteps
  <2>3. BootOK(t)'
    BY <2>1 DEF LoadFile, BootOK, TypeOK
  <2>4. CASE Home[t] = e
    <3>1. job'[t] = Idle
      BY <2>1, <2>4 DEF LoadFile, BootOK, JobOK
    <3> QED BY <3>1, <2>2, <2>3 DEF SeenOK, Idle
  <2>5. CASE Home[t] # e
    <3>1. Registered(Home[t])' = Registered(Home[t])
      BY <2>1, <2>5 DEF LoadFile, Registered, TypeOK
    <3>2. SeenOK(t)'
      BY <2>1, <3>1 DEF LoadFile, SeenOK, Chosen
    <3> QED BY <3>2, <2>2, <2>3
  <2> QED BY <2>4, <2>5
<1> QED BY <1>4, <1>5 DEF IInv

\* A registration starts with nothing to have seen.
LEMMA StartRegisterOK ==
  ASSUME TypeOK, IInv, NEW t \in Threads, NEW p \in Pack, NEW g \in Suggestions \cup {None},
         StartRegister(t, p, g)
  PROVE  TypeOK' /\ IInv'
<1>1. job'[t] = [call |-> "register", pack |-> p, sug |-> g] /\ pc'[t] = "set"
      /\ job'[t] \in RegisterJob
  BY DEF StartRegister, Goto, TypeOK, RegisterJob
<1>2. Frame(t)
  BY DEF StartRegister, Goto, Frame, TypeOK, Registered
<1>3. JobsOK'
  BY <1>1, JobsStep DEF StartRegister
<1>4. TypeOK'
  <2>1. writes' \in Nat
    BY DEF StartRegister, Admin, TypeOK
  <2>2. pc' \in [Threads -> Steps]
    BY DEF StartRegister, Goto, TypeOK, Steps
  <2> QED BY <1>3, <2>1, <2>2 DEF StartRegister, TypeOK, JobsOK
<1>5. JobOK(t)' /\ SeenOK(t)' /\ BootOK(t)'
  BY <1>1 DEF StartRegister, Admin, Up, JobOK, SeenOK, BootOK, RouteSteps
<1> QED BY <1>2, <1>4, <1>5, ThreadStep

\* The routes in progress in the engine are shown the pack it registers.
LEMMA SetPackOK ==
  ASSUME TypeOK, IInv, NEW t \in Threads, SetPack(t)
  PROVE  TypeOK' /\ IInv'
<1> DEFINE e == Home[t]
           p == job[t].pack
<1>1. e \in Engines /\ pc[t] = "set" /\ job[t] \in RegisterJob /\ p \in Pack
      /\ p.id \in Packs /\ p.ver \in Versions /\ p = [id |-> p.id, ver |-> p.ver]
  BY RegistryAssumption DEF SetPack, IInv, JobOK, RegisterJob, Pack
<1>2. packs' = [packs EXCEPT ![e] = Put(@, p.id, p.ver)] /\ job' = SeenBy(e, p)
      /\ pc' = [pc EXCEPT ![t] = "clear"] /\ boot' = boot
  BY DEF SetPack, Goto
<1>3. ASSUME NEW u \in Threads
      PROVE  /\ job[u].call # "route" => job'[u] = job[u]
             /\ job[u].call = "route" =>
                  /\ job'[u] \in RouteJob
                  /\ job'[u].pick = job[u].pick
                  /\ job'[u].seen = IF Home[u] = e THEN job[u].seen \cup {p} ELSE job[u].seen
  <2>1. job[u].call = "route" => job[u] \in RouteJob
    BY JobKinds
  <2> QED BY <1>1, <1>2, <2>1 DEF SeenBy, RouteJob
<1>4. JobsOK'
  <2>1. job' = [u \in Threads |-> job'[u]]
    BY <1>2 DEF SeenBy
  <2> QED BY <2>1, <1>3 DEF TypeOK, JobsOK
<1>5. TypeOK'
  <2>1. packs' = [x \in Engines |-> packs'[x]]
        /\ \A x \in Engines : IsPartial(packs'[x], Packs, Versions)
    BY <1>1, <1>2, PutDropType DEF TypeOK
  <2>2. pc' \in [Threads -> Steps]
    BY <1>2 DEF TypeOK, Steps
  <2>3. lock' \in [Engines -> Threads \cup {None}] /\ torn' \subseteq Packs
    BY <1>1 DEF SetPack, Take, TypeOK
  <2> QED BY <1>4, <2>1, <2>2, <2>3 DEF SetPack, TypeOK, JobsOK, bounds
<1>6. ASSUME NEW u \in Threads PROVE JobOK(u)' /\ SeenOK(u)' /\ BootOK(u)'
  <2>1. JobOK(u) /\ SeenOK(u) /\ BootOK(u) /\ Home[u] \in Engines
    BY RegistryAssumption DEF IInv
  <2>2. BootOK(u)'
    <3>1. u = t => boot[e] = {}
      BY <1>1, <2>1 DEF BootOK
    <3> QED BY <1>1, <1>2, <2>1, <3>1 DEF BootOK, TypeOK
  <2>3. JobOK(u)'
    <3>1. CASE u = t
      BY <1>1, <1>2, <1>3, <3>1, JobKinds DEF JobOK, TypeOK, RouteSteps
    <3>2. CASE u # t /\ job[u].call # "route"
      BY <1>2, <1>3, <2>1, <3>2, JobKinds DEF JobOK, TypeOK, RouteSteps
    <3>3. CASE u # t /\ job[u].call = "route"
      <4>1. pc'[u] = pc[u] /\ pc[u] \in RouteSteps
        BY <1>2, <2>1, <3>3, JobKinds DEF JobOK, TypeOK, RouteSteps, Steps
      <4> QED BY <1>3, <2>1, <3>3, <4>1 DEF JobOK, RouteSteps
    <3> QED BY <3>1, <3>2, <3>3
  <2>4. SeenOK(u)'
    <3>1. CASE job[u].call # "route"
      BY <1>3, <3>1 DEF SeenOK
    <3>2. CASE job[u].call = "route" /\ Home[u] = e
      <4>1. Registered(e)' \subseteq Registered(e) \cup {p}
        BY <1>1, <1>2 DEF Registered, TypeOK, Put
      <4> QED BY <1>3, <2>1, <3>2, <4>1 DEF SeenOK, Chosen
    <3>3. CASE job[u].call = "route" /\ Home[u] # e
      <4>1. Registered(Home[u])' = Registered(Home[u])
        BY <1>2, <2>1, <3>3 DEF Registered, TypeOK
      <4> QED BY <1>3, <2>1, <3>3, <4>1 DEF SeenOK, Chosen
    <3> QED BY <3>1, <3>2, <3>3
  <2> QED BY <2>2, <2>3, <2>4
<1> QED BY <1>5, <1>6 DEF IInv

\* Clearing the cache tells the routes in progress, and changes no choice.
LEMMA ClearCacheOK ==
  ASSUME TypeOK, IInv, NEW t \in Threads, ClearCache(t)
  PROVE  TypeOK' /\ IInv'
<1> DEFINE e == Home[t]
<1>1. e \in Engines /\ pc[t] = "clear" /\ job[t] \in RegisterJob /\ boot[e] = {}
  BY RegistryAssumption DEF ClearCache, IInv, JobOK, BootOK
<1>2. job' = Overtaken(e) /\ pc' = [pc EXCEPT ![t] = "row"] /\ boot' = boot /\ packs' = packs
  BY DEF ClearCache, Goto
<1>3. ASSUME NEW u \in Threads
      PROVE  /\ job[u].call # "route" => job'[u] = job[u]
             /\ job[u].call = "route" =>
                  job'[u] \in RouteJob /\ job'[u].pick = job[u].pick /\ job'[u].seen = job[u].seen
  <2>1. job[u].call = "route" => job[u] \in RouteJob
    BY JobKinds
  <2> QED BY <1>2, <2>1 DEF Overtaken, RouteJob
<1>4. JobsOK'
  <2>1. job' = [u \in Threads |-> job'[u]]
    BY <1>2 DEF Overtaken
  <2> QED BY <2>1, <1>3 DEF TypeOK, JobsOK
<1>5. TypeOK'
  <2>1. cache' = [x \in Engines |-> cache'[x]]
        /\ \A x \in Engines : IsPartial(cache'[x], Shapes, Packs \cup {Structural})
    BY <1>1, NoFnType DEF ClearCache, TypeOK
  <2>2. pc' \in [Threads -> Steps]
    BY <1>2 DEF TypeOK, Steps
  <2>3. lock' \in [Engines -> Threads \cup {None}] /\ late' \in [Engines -> BOOLEAN]
    BY <1>1 DEF ClearCache, Release, TypeOK
  <2> QED BY <1>4, <2>1, <2>2, <2>3 DEF ClearCache, TypeOK, JobsOK, bounds
<1>6. ASSUME NEW u \in Threads PROVE JobOK(u)' /\ SeenOK(u)' /\ BootOK(u)'
  <2>1. JobOK(u) /\ SeenOK(u) /\ BootOK(u)
    BY DEF IInv
  <2>2. BootOK(u)'
    BY <1>1, <1>2, <2>1 DEF BootOK, TypeOK
  <2>3. SeenOK(u)'
    <3>1. Registered(Home[u])' = Registered(Home[u])
      BY <1>2 DEF Registered
    <3>2. CASE job[u].call # "route"
      BY <1>3, <3>2 DEF SeenOK
    <3>3. CASE job[u].call = "route"
      BY <1>3, <2>1, <3>1, <3>3 DEF SeenOK, Chosen
    <3> QED BY <3>2, <3>3
  <2>4. JobOK(u)'
    <3>1. CASE u = t
      BY <1>1, <1>2, <1>3, <3>1, JobKinds DEF JobOK, TypeOK, RouteSteps
    <3>2. CASE u # t /\ job[u].call # "route"
      BY <1>2, <1>3, <2>1, <3>2, JobKinds DEF JobOK, TypeOK, RouteSteps
    <3>3. CASE u # t /\ job[u].call = "route"
      <4>1. pc'[u] = pc[u] /\ pc[u] \in RouteSteps
        BY <1>2, <2>1, <3>3, JobKinds DEF JobOK, TypeOK, RouteSteps, Steps
      <4> QED BY <1>3, <2>1, <3>3, <4>1 DEF JobOK, RouteSteps
    <3> QED BY <3>1, <3>2, <3>3
  <2> QED BY <2>2, <2>3, <2>4
<1> QED BY <1>5, <1>6 DEF IInv

\* The row of a call is written, or the write raises and the call is over.
LEMMA WriteRowOK ==
  ASSUME TypeOK, IInv, NEW t \in Threads, WriteRow(t)
  PROVE  TypeOK' /\ IInv'
<1>1. pc[t] = "row" /\ job[t].pack.id \in Packs
      /\ (job[t].call = "register" => job[t] \in RegisterJob /\ job[t].pack.ver \in Versions)
  BY JobKinds DEF WriteRow, IInv, JobOK, RegisterJob, IsRetireJob, Pack
<1>2. IsPartial(table', Packs, Row)
  <2>1. \A v \in Versions :
          [RowOf(job[t].pack.id) EXCEPT !.ver = v, !.status = "active"] \in Row
    BY <1>1, RowOfType, ZenonT(40) DEF Row
  <2>2. [RowOf(job[t].pack.id) EXCEPT !.status = "retired"] \in Row
    BY <1>1, RowOfType DEF Row
  <2> QED BY <1>1, <2>1, <2>2, UpsertType DEF WriteRow, TypeOK
<1>3. faults' \in Nat /\ torn' \subseteq Packs
  BY <1>1 DEF WriteRow, Fault, TypeOK
<1>4. UNCHANGED <<boot, packs, cache, similar, lock, promoted, writes, late>>
  BY DEF WriteRow
<1>5. CASE Finish(t)
  BY <1>2, <1>3, <1>4, <1>5, FinishOK DEF TypeOK, JobsOK
<1>6. CASE job[t].call = "register" /\ job[t].sug # None /\ Goto(t, "mark") /\ UNCHANGED job
  <2>1. TypeOK'
    BY <1>2, <1>3, <1>4, <1>6 DEF Goto, TypeOK, Steps
  <2>2. Frame(t)
    BY <1>4, <1>6 DEF Goto, Frame, TypeOK, Registered
  <2>3. JobOK(t)' /\ SeenOK(t)' /\ BootOK(t)'
    BY <1>1, <1>4, <1>6 DEF Goto, TypeOK, IInv, JobOK, SeenOK, BootOK, RouteSteps
  <2> QED BY <2>1, <2>2, <2>3, ThreadStep
<1> QED BY <1>5, <1>6 DEF WriteRow

\* A suggestion is marked, or the update raises and the call is over.
LEMMA MarkSuggestionOK ==
  ASSUME TypeOK, IInv, NEW t \in Threads, MarkSuggestion(t)
  PROVE  TypeOK' /\ IInv'
<1>1. pc[t] = "mark" /\ job[t] \in RegisterJob /\ job[t].sug \in Suggestions
  BY DEF MarkSuggestion, IInv, JobOK, RegisterJob
<1>2. promoted' \subseteq Suggestions /\ faults' \in Nat
  BY <1>1 DEF MarkSuggestion, Fault, TypeOK
<1>3. UNCHANGED <<boot, packs, cache, similar, lock, table, writes, late, torn>>
  BY DEF MarkSuggestion
<1>4. CASE Finish(t)
  BY <1>2, <1>3, <1>4, FinishOK DEF TypeOK, JobsOK
<1>5. CASE Goto(t, "stamp") /\ UNCHANGED job
  <2>1. TypeOK'
    BY <1>2, <1>3, <1>5 DEF Goto, TypeOK, Steps
  <2>2. Frame(t)
    BY <1>3, <1>5 DEF Goto, Frame, TypeOK, Registered
  <2>3. JobOK(t)' /\ SeenOK(t)' /\ BootOK(t)'
    BY <1>1, <1>3, <1>5, JobKinds DEF Goto, TypeOK, IInv, JobOK, SeenOK, BootOK, RouteSteps
  <2> QED BY <2>1, <2>2, <2>3, ThreadStep
<1> QED BY <1>4, <1>5 DEF MarkSuggestion

\* The last step of a promotion.
LEMMA StampRowOK ==
  ASSUME TypeOK, IInv, NEW t \in Threads, StampRow(t)
  PROVE  TypeOK' /\ IInv'
<1>1. job[t].pack.id \in Packs
  BY DEF StampRow, IInv, JobOK, RegisterJob, Pack
<1>2. [RowOf(job[t].pack.id) EXCEPT !.promoted = TRUE] \in Row
  BY <1>1, RowOfType DEF Row
<1>3. IsPartial(table', Packs, Row) /\ faults' \in Nat
  <2>1. IsPartial(table', Packs, Row)
    BY <1>1, <1>2, UpsertType DEF StampRow, TypeOK
  <2>2. faults' \in Nat
    BY DEF StampRow, Fault, TypeOK
  <2> QED BY <2>1, <2>2
<1>4. Finish(t) /\ UNCHANGED <<boot, packs, cache, similar, lock, promoted, writes, late, torn>>
  BY DEF StampRow
<1> QED BY <1>3, <1>4, FinishOK DEF TypeOK, JobsOK

\* A retirement only takes a pack away.
LEMMA StartRetireOK ==
  ASSUME TypeOK, IInv, NEW t \in Threads, NEW id \in Packs, StartRetire(t, id)
  PROVE  TypeOK' /\ IInv'
<1> DEFINE e == Home[t]
           j == [call |-> "retire", pack |-> [id |-> id, ver |-> None],
                 existed |-> id \in DOMAIN packs[e], copy |-> cache[e]]
<1>1. e \in Engines /\ pc[t] = "idle" /\ boot[e] = {}
  BY RegistryAssumption DEF StartRetire, Admin, Up
<1>2. IsRetireJob(j) /\ j.call = "retire"
  <2>1. IsPartial(cache[e], Shapes, Packs \cup {Structural})
    BY <1>1 DEF TypeOK
  <2>2. j.call = "retire" /\ j.existed \in BOOLEAN /\ j.copy = cache[e]
        /\ j.pack \in [id : Packs, ver : {None}]
    OBVIOUS
  <2>3. DOMAIN j = {"call", "pack", "existed", "copy"}
    OBVIOUS
  <2> QED BY <2>1, <2>2, <2>3 DEF IsRetireJob
<1>3. job' = [job EXCEPT ![t] = j] /\ pc' = [pc EXCEPT ![t] = "prune"] /\ boot' = boot
      /\ packs' = [packs EXCEPT ![e] = Drop(@, {id})]
  BY DEF StartRetire, Goto
<1>4. JobsOK' /\ job'[t] = j /\ \A u \in Threads \ {t} : job'[u] = job[u]
  BY <1>2, <1>3, JobsStep
<1>5. TypeOK'
  <2>1. packs' = [x \in Engines |-> packs'[x]]
        /\ \A x \in Engines : IsPartial(packs'[x], Packs, Versions)
    BY <1>1, <1>3, PutDropType DEF TypeOK
  <2>2. pc' \in [Threads -> Steps]
    BY <1>3 DEF TypeOK, Steps
  <2>3. lock' \in [Engines -> Threads \cup {None}] /\ torn' \subseteq Packs
    BY <1>1 DEF StartRetire, Take, TypeOK
  <2>4. writes' \in Nat
    BY DEF StartRetire, Admin, TypeOK
  <2> QED BY <1>4, <2>1, <2>2, <2>3, <2>4 DEF StartRetire, TypeOK, JobsOK
<1>6. Frame(t)
  <2>1. \A x \in Engines : Registered(x)' \subseteq Registered(x)
    BY <1>1, <1>3 DEF TypeOK, Registered, Drop
  <2> QED BY <1>3, <1>4, <2>1 DEF Frame, TypeOK
<1>7. JobOK(t)' /\ SeenOK(t)' /\ BootOK(t)'
  BY <1>1, <1>2, <1>3, <1>4 DEF TypeOK, JobOK, SeenOK, BootOK, RouteSteps
<1> QED BY <1>5, <1>6, <1>7, ThreadStep

\* A retirement that raises while it rebuilds the cache is over.
LEMMA PruneRaiseOK ==
  ASSUME TypeOK, IInv, NEW t \in Threads, PruneRaise(t)
  PROVE  TypeOK' /\ IInv'
<1>1. job[t].pack.id \in Packs /\ Home[t] \in Engines
  BY RegistryAssumption DEF PruneRaise, IInv, JobOK, IsRetireJob
<1>2. lock' \in [Engines -> Threads \cup {None}] /\ torn' \subseteq Packs
  BY <1>1 DEF PruneRaise, Release, TypeOK
<1>3. Finish(t) /\ UNCHANGED <<boot, packs, cache, similar, table, promoted, bounds, late>>
  BY DEF PruneRaise
<1> QED BY <1>2, <1>3, FinishOK DEF TypeOK, JobsOK, bounds

\* The rebuilt cache is a cache; the row is next if there was a pack to retire.
LEMMA PruneOK ==
  ASSUME TypeOK, IInv, NEW t \in Threads, Prune(t)
  PROVE  TypeOK' /\ IInv'
<1> DEFINE e    == Home[t]
           now  == cache[e]
           was  == job[t].copy
           read(new) == [s \in DOMAIN was |-> IF s \in new THEN now[s] ELSE was[s]]
<1>1. e \in Engines /\ pc[t] = "prune" /\ IsRetireJob(job[t])
  BY RegistryAssumption DEF Prune, IInv, JobOK
<1>2. PICK new \in SUBSET (DOMAIN now \cap DOMAIN was) :
        cache' = [cache EXCEPT ![e] = Drop(read(new), {s \in DOMAIN read(new) : read(new)[s] = job[t].pack.id})]
  BY DEF Prune
<1>3. IsPartial(Drop(read(new), {s \in DOMAIN read(new) : read(new)[s] = job[t].pack.id}),
                Shapes, Packs \cup {Structural})
  <2>1. IsPartial(was, Shapes, Packs \cup {Structural}) /\ IsPartial(now, Shapes, Packs \cup {Structural})
    BY <1>1 DEF IsRetireJob, TypeOK
  <2>2. IsPartial(read(new), Shapes, Packs \cup {Structural})
    BY <2>1 DEF IsPartial
  <2> QED BY <2>2, PutDropType
<1>4. cache' = [x \in Engines |-> cache'[x]]
      /\ \A x \in Engines : IsPartial(cache'[x], Shapes, Packs \cup {Structural})
  BY <1>1, <1>2, <1>3 DEF TypeOK
<1>5. lock' \in [Engines -> Threads \cup {None}]
  BY <1>1 DEF Prune, Release, TypeOK
<1>6. UNCHANGED <<boot, packs, similar, table, promoted, bounds, late, torn>>
  BY DEF Prune
<1>7. CASE Finish(t)
  BY <1>4, <1>5, <1>6, <1>7, FinishOK DEF TypeOK, JobsOK, bounds
<1>8. CASE Goto(t, "row") /\ job' = [job EXCEPT ![t].copy = NoFn]
  <2> DEFINE j == [job[t] EXCEPT !.copy = NoFn]
  <2>1. IsRetireJob(j) /\ j.call = "retire"
    BY <1>1, NoFnType DEF IsRetireJob
  <2>2. job' = [job EXCEPT ![t] = j]
    BY <1>8
  <2>3. JobsOK' /\ job'[t] = j /\ \A u \in Threads \ {t} : job'[u] = job[u]
    BY <2>1, <2>2, JobsStep
  <2>4. TypeOK'
    BY <1>4, <1>5, <1>6, <1>8, <2>3 DEF Goto, TypeOK, Steps, JobsOK, bounds
  <2>5. Frame(t)
    BY <1>6, <1>8, <2>3 DEF Goto, Frame, TypeOK, Registered
  <2>6. JobOK(t)' /\ SeenOK(t)' /\ BootOK(t)'
    BY <1>1, <1>6, <1>8, <2>1, <2>3 DEF Goto, TypeOK, IInv, JobOK, SeenOK, BootOK, RouteSteps
  <2> QED BY <2>4, <2>5, <2>6, ThreadStep
<1> QED BY <1>7, <1>8 DEF Prune
-----------------------------------------------------------------------------
\* A route starts with all there is in sight.
LEMMA StartRouteOK ==
  ASSUME TypeOK, IInv, NEW t \in Threads, NEW s \in Shapes, StartRoute(t, s)
  PROVE  TypeOK' /\ IInv'
<1> DEFINE e == Home[t]
           j == [call |-> "route", shape |-> s, pick |-> None, old |-> FALSE,
                 seen |-> Registered(e),
                 cached |-> IF s \in DOMAIN cache[e] THEN cache[e][s] ELSE None]
<1>1. e \in Engines /\ pc[t] = "idle" /\ boot[e] = {}
  BY RegistryAssumption DEF StartRoute, Up
<1>2. j \in RouteJob /\ j.seen = Registered(e) /\ j.pick = None
  <2>1. j.cached \in Packs \cup {Structural, None}
    BY <1>1 DEF TypeOK, IsPartial
  <2> QED BY <1>1, <2>1, RegisteredType DEF RouteJob
<1>3. job' = [job EXCEPT ![t] = j] /\ pc' = [pc EXCEPT ![t] = "pick"]
      /\ UNCHANGED <<boot, packs, cache, similar, lock, table, promoted, bounds, late, torn>>
  BY DEF StartRoute, Goto
<1> HIDE DEF j
<1>4. JobsOK' /\ job'[t] = j /\ \A u \in Threads \ {t} : job'[u] = job[u]
  BY <1>2, <1>3, JobsStep
<1>5. TypeOK'
  BY <1>3, <1>4 DEF TypeOK, Steps, JobsOK, bounds
<1>6. Frame(t)
  BY <1>3, <1>4 DEF Frame, TypeOK, Registered
<1>7. JobOK(t)' /\ SeenOK(t)' /\ BootOK(t)'
  <2>1. Registered(e)' = Registered(e)
    BY <1>3 DEF Registered
  <2> QED BY <1>1, <1>2, <1>3, <1>4, <2>1 DEF TypeOK, JobOK, SeenOK, BootOK, Chosen, RouteSteps
<1> QED BY <1>5, <1>6, <1>7, ThreadStep

\* Choosing among what is registered chooses what the route has seen.
LEMMA ChooseOK ==
  ASSUME TypeOK, IInv, NEW t \in Threads, NEW c \in Candidates(Home[t]), NEW s \in RouteSteps,
         pc[t] \in RouteSteps, job' = [job EXCEPT ![t].pick = c], pc' = [pc EXCEPT ![t] = s],
         UNCHANGED <<boot, packs, cache, similar, lock, table, promoted, bounds, late, torn>>
  PROVE  TypeOK' /\ IInv'
<1> DEFINE j == [job[t] EXCEPT !.pick = c]
<1>1. job[t] \in RouteJob /\ job[t].call = "route" /\ SeenOK(t) /\ BootOK(t)
      /\ Home[t] \in Engines
  BY JobKinds, RegistryAssumption DEF IInv, JobOK
<1>2. c \in Candidate /\ c # None /\ (c.id = Structural \/ c \in job[t].seen)
  <2>1. c \in Pack \/ c.id = Structural
    BY <1>1, RegisteredType DEF Candidates
  <2>2. c \in Candidate
    BY <1>1, RegisteredType DEF Candidates, Candidate
  <2>3. c # None
    BY <2>2, RegistryAssumption
  <2>4. c.id = Structural \/ c \in job[t].seen
    BY <1>1 DEF Candidates, SeenOK
  <2> QED BY <2>2, <2>3, <2>4
<1>3. j \in RouteJob /\ j.pick = c /\ j.seen = job[t].seen
  BY <1>1, <1>2 DEF RouteJob
<1>4. JobsOK' /\ job'[t] = j /\ \A u \in Threads \ {t} : job'[u] = job[u]
  BY <1>3, JobsStep
<1>5. TypeOK'
  BY <1>4 DEF TypeOK, Steps, RouteSteps, JobsOK, bounds
<1>6. Frame(t)
  BY <1>4 DEF Frame, TypeOK, Registered
<1>7. JobOK(t)' /\ SeenOK(t)' /\ BootOK(t)'
  <2>1. Registered(Home[t])' = Registered(Home[t])
    BY DEF Registered
  <2>2. pc'[t] = s
    BY DEF TypeOK
  <2> QED BY <1>1, <1>2, <1>3, <1>4, <2>1, <2>2 DEF JobOK, SeenOK, BootOK, Chosen, RouteSteps
<1> QED BY <1>5, <1>6, <1>7, ThreadStep

\* What _route chooses from is registered, cached or not.
LEMMA OffersAreCandidates ==
  ASSUME NEW t \in Threads, NEW s PROVE Best(Offers(t), s) \subseteq Candidates(Home[t])
BY DEF Best, Offers

\* A route chooses nothing, or one of the candidates.
LEMMA PickOK ==
  ASSUME TypeOK, IInv, NEW t \in Threads, Pick(t)
  PROVE  TypeOK' /\ IInv'
<1>1. pc[t] = "pick" /\ pc[t] \in RouteSteps
      /\ UNCHANGED <<boot, packs, cache, similar, lock, table, promoted, bounds, late, torn>>
  BY DEF Pick, RouteSteps
<1>2. CASE Goto(t, "fallback") /\ UNCHANGED job
  <2>1. TypeOK'
    BY <1>1, <1>2 DEF Goto, TypeOK, Steps, bounds
  <2>2. Frame(t)
    BY <1>1, <1>2 DEF Goto, Frame, TypeOK, Registered
  <2>3. SeenOK(t)'
    <3>1. Registered(Home[t])' = Registered(Home[t])
      BY <1>1 DEF Registered
    <3> QED BY <1>2, <3>1 DEF IInv, SeenOK, Chosen
  <2>4. JobOK(t)' /\ BootOK(t)'
    BY <1>1, <1>2 DEF Goto, TypeOK, IInv, JobOK, BootOK, RouteSteps
  <2> QED BY <2>1, <2>2, <2>3, <2>4, ThreadStep
<1>3. ASSUME NEW c \in Best(Offers(t), job[t].shape), NEW s \in {"store", "fallback"},
             Goto(t, s) /\ job' = [job EXCEPT ![t].pick = c]
      PROVE  TypeOK' /\ IInv'
  <2>1. c \in Candidates(Home[t])
    BY OffersAreCandidates
  <2> QED BY <1>1, <1>3, <2>1, ChooseOK DEF Goto, RouteSteps
<1> QED BY <1>2, <1>3 DEF Pick

\* Caching the choice.
LEMMA StoreOK ==
  ASSUME TypeOK, IInv, NEW t \in Threads, Store(t)
  PROVE  TypeOK' /\ IInv'
<1> DEFINE e == Home[t]
           id == job[t].pick.id
<1>1. e \in Engines /\ job[t].shape \in Shapes /\ id \in Packs \cup {Structural}
      /\ job[t].old \in BOOLEAN
  <2>1. job[t] \in RouteJob /\ job[t].pick # None
    BY DEF Store, IInv, JobOK, RouteSteps
  <2>2. job[t].pick \in Candidate
    BY <2>1 DEF RouteJob
  <2> QED BY <2>1, <2>2, RegistryAssumption DEF RouteJob, Candidate, Pack
<1>2. cache' = [x \in Engines |-> cache'[x]]
      /\ \A x \in Engines : IsPartial(cache'[x], Shapes, Packs \cup {Structural})
  BY <1>1, PutDropType DEF Store, TypeOK
<1>3. late' \in [Engines -> BOOLEAN]
  BY <1>1 DEF Store, TypeOK
<1>4. similar' \in [Engines -> SUBSET (Packs \cup {Structural})]
  BY <1>1 DEF Store, TypeOK
<1>5. faults' \in Nat
  BY DEF Store, Fault, TypeOK
<1>6. Finish(t) /\ UNCHANGED <<boot, packs, lock, table, promoted, writes, torn>>
  BY DEF Store
<1> QED BY <1>2, <1>3, <1>4, <1>5, <1>6, FinishOK DEF TypeOK, JobsOK

\* The similarity index only names packs; the one that runs is registered.
LEMMA FallbackOK ==
  ASSUME TypeOK, IInv, NEW t \in Threads, Fallback(t)
  PROVE  TypeOK' /\ IInv'
<1>1. pc[t] = "fallback" /\ pc[t] \in RouteSteps
      /\ UNCHANGED <<boot, packs, cache, similar, lock, table, promoted, bounds, late, torn>>
  BY DEF Fallback, RouteSteps
<1>2. CASE Finish(t)
  BY <1>1, <1>2, FinishOK DEF TypeOK, JobsOK, bounds
<1>3. ASSUME NEW c \in Registered(Home[t]), job' = [job EXCEPT ![t].pick = c],
             Goto(t, "tier5")
      PROVE  TypeOK' /\ IInv'
  <2>1. pc' = [pc EXCEPT ![t] = "tier5"]
    BY <1>3 DEF Goto
  <2>2. c \in Candidates(Home[t])
    BY DEF Candidates
  <2> QED BY <1>1, <1>3, <2>1, <2>2, ChooseOK DEF RouteSteps
<1> QED BY <1>2, <1>3 DEF Fallback

\* Whatever tier 5 ran, the call ends.
LEMMA Tier5OK ==
  ASSUME TypeOK, IInv, NEW t \in Threads, Tier5Done(t)
  PROVE  TypeOK' /\ IInv'
<1>1. pc[t] = "tier5" /\ pc[t] \in RouteSteps
      /\ UNCHANGED <<boot, packs, cache, similar, lock, table, promoted, bounds, late, torn>>
  BY DEF Tier5Done, RouteSteps
<1> QED BY <1>1, FinishOK DEF Tier5Done, TypeOK, JobsOK, bounds

\* After a restart no call is in progress in the process.
LEMMA RestartOK ==
  ASSUME TypeOK, IInv, NEW e \in Engines, Restart(e)
  PROVE  TypeOK' /\ IInv'
<1>1. JobsOK'
  <2>1. job' = [t \in Threads |-> IF Home[t] = e THEN Idle ELSE job[t]]
    BY DEF Restart
  <2> QED BY <2>1 DEF TypeOK, JobsOK
<1>2. pc' = [t \in Threads |-> IF Home[t] = e THEN "idle" ELSE pc[t]]
  BY DEF Restart
<1>3. TypeOK'
  <2>1. packs' = [x \in Engines |-> packs'[x]] /\ cache' = [x \in Engines |-> cache'[x]]
        /\ \A x \in Engines : IsPartial(packs'[x], Packs, Versions)
                              /\ IsPartial(cache'[x], Shapes, Packs \cup {Structural})
    BY NoFnType DEF Restart, TypeOK
  <2>2. pc' \in [Threads -> Steps]
    BY <1>2 DEF TypeOK, Steps
  <2>3. boot' \in [Engines -> SUBSET DOMAIN Vendor] /\ similar' \in [Engines -> SUBSET (Packs \cup {Structural})]
        /\ lock' \in [Engines -> Threads \cup {None}] /\ late' \in [Engines -> BOOLEAN]
    BY DEF Restart, TypeOK
  <2>4. torn' \subseteq Packs
    BY DEF Restart, TypeOK, IsPartial
  <2>5. faults' \in Nat
    BY DEF Restart, Fault, TypeOK
  <2> QED BY <1>1, <2>1, <2>2, <2>3, <2>4, <2>5 DEF Restart, TypeOK, JobsOK
<1>4. ASSUME NEW t \in Threads PROVE JobOK(t)' /\ SeenOK(t)' /\ BootOK(t)'
  <2>1. CASE Home[t] = e
    <3>1. job'[t] = Idle /\ pc'[t] = "idle"
      BY <1>2, <2>1 DEF Restart
    <3> QED BY <3>1 DEF JobOK, SeenOK, BootOK, RouteSteps, Idle
  <2>2. CASE Home[t] # e
    <3>1. job'[t] = job[t] /\ pc'[t] = pc[t] /\ boot'[Home[t]] = boot[Home[t]]
          /\ packs'[Home[t]] = packs[Home[t]]
      BY <1>2, <2>2, RegistryAssumption DEF Restart, TypeOK
    <3>2. Registered(Home[t])' = Registered(Home[t])
      BY <3>1 DEF Registered
    <3> QED BY <3>1, <3>2 DEF IInv, JobOK, SeenOK, BootOK, Chosen, RouteSteps
  <2> QED BY <2>1, <2>2
<1> QED BY <1>3, <1>4 DEF IInv
-----------------------------------------------------------------------------
\* Every step preserves the invariant.
LEMMA NextOK == TypeOK /\ IInv /\ [Next]_vars => TypeOK' /\ IInv'
<1> SUFFICES ASSUME TypeOK, IInv, [Next]_vars PROVE TypeOK' /\ IInv'
  OBVIOUS
<1>1. CASE UNCHANGED vars
  <2>1. TypeOK'
    BY <1>1 DEF vars, bounds, TypeOK
  <2>2. IInv'
    BY <1>1 DEF vars, bounds, IInv, JobOK, SeenOK, BootOK, Chosen, Registered
  <2> QED BY <2>1, <2>2
<1>2. ASSUME NEW e \in Engines, Restart(e) \/ \E id \in Packs : LoadFile(e, id)
      PROVE  TypeOK' /\ IInv'
  BY <1>2, RestartOK, LoadFileOK
<1>3. ASSUME NEW t \in Threads,
             \/ \E p \in Pack : StartRegister(t, p, None)
             \/ \E g \in Suggestions : StartRegister(t, Draft[g], g)
             \/ \E id \in Packs : StartRetire(t, id)
             \/ \E s \in Shapes : StartRoute(t, s)
      PROVE  TypeOK' /\ IInv'
  <2>1. \A g \in Suggestions : Draft[g] \in Pack
    BY RegistryAssumption
  <2> QED BY <1>3, <2>1, StartRegisterOK, StartRetireOK, StartRouteOK
<1>4. ASSUME NEW t \in Threads, AdminStep(t) PROVE TypeOK' /\ IInv'
  BY <1>4, SetPackOK, ClearCacheOK, WriteRowOK, MarkSuggestionOK, StampRowOK, PruneRaiseOK, PruneOK
     DEF AdminStep
<1>5. ASSUME NEW t \in Threads, RouteStep(t) PROVE TypeOK' /\ IInv'
  BY <1>5, PickOK, StoreOK, FallbackOK, Tier5OK DEF RouteStep
<1> QED BY <1>1, <1>2, <1>3, <1>4, <1>5 DEF Next

\* Every variable of the registry always holds a value of its kind.
THEOREM TypeCorrect == Spec => []TypeOK
<1>1. Spec => [](TypeOK /\ IInv)
  BY InitOK, NextOK, PTL DEF Spec
<1> QED BY <1>1, PTL

\* No event is ever parsed by a pack version that was retired or replaced in
\* its process before the call began, whatever the routing cache and the
\* similarity index remember and whichever calls overlap, fail or are cut off.
THEOREM RetiredNeverParses == Spec => []NeverRetired
<1>1. TypeOK /\ IInv => NeverRetired
  <2> SUFFICES ASSUME TypeOK, IInv, NEW t \in Threads, job[t].call = "route", job[t].pick # None
               PROVE  job[t].pick.id = Structural \/ job[t].pick \in job[t].seen
    BY DEF NeverRetired
  <2> QED BY DEF IInv, SeenOK, Chosen
<1>2. Spec => [](TypeOK /\ IInv)
  BY InitOK, NextOK, PTL DEF Spec
<1> QED BY <1>1, <1>2, PTL
-----------------------------------------------------------------------------
(***************************************************************************)
(* The cache loses no accuracy                                             *)
(*                                                                         *)
(* The cache is filled from what a route has chosen, and rebuilt from a    *)
(* copy by a retirement, so both have to be as good as the cache: the      *)
(* choice of a route that no registration has overtaken, and the copy of   *)
(* the retirement that holds the lock.  Retiring a pack takes candidates   *)
(* away, which leaves the best of the others the best; registering one     *)
(* does not, and the cache is cleared before the lock is released.         *)
(***************************************************************************)
LockOK(t) == pc[t] \in {"clear", "prune"} => lock[Home[t]] = t

\* Every candidate of that id is one that scoring all of them would choose.
BestFor(e, s, id) == \A c \in Candidates(e) : c.id = id => c \in Best(Candidates(e), s)

Settled(e) == (\A t \in Threads : Home[t] = e => pc[t] # "clear") /\ ~late[e]

CacheOK(e) ==
  /\ boot[e] # {} => DOMAIN cache[e] = {}
  /\ Settled(e) => \A s \in DOMAIN cache[e] : BestFor(e, s, cache[e][s])

ChoiceOK(t) ==
  Settled(Home[t]) =>
    /\ pc[t] = "pick" /\ ~job[t].old /\ job[t].cached # None
         => BestFor(Home[t], job[t].shape, job[t].cached)
    /\ pc[t] = "store" /\ ~job[t].old => BestFor(Home[t], job[t].shape, job[t].pick.id)

CopyOK(t) ==
  pc[t] = "prune" /\ ~late[Home[t]] =>
    \A s \in DOMAIN job[t].copy : BestFor(Home[t], s, job[t].copy[s])

BInv == (\A e \in Engines : CacheOK(e)) /\ (\A t \in Threads : LockOK(t) /\ ChoiceOK(t) /\ CopyOK(t))
-----------------------------------------------------------------------------
\* The best of some candidates is the best of fewer of them.
LEMMA BestStays ==
  ASSUME NEW e, Candidates(e)' \subseteq Candidates(e)
  PROVE  \A s, id : BestFor(e, s, id) => BestFor(e, s, id)'
<1> SUFFICES ASSUME NEW s, NEW id, BestFor(e, s, id), NEW c \in Candidates(e)', c.id = id
             PROVE  (c \in Best(Candidates(e), s))'
  BY DEF BestFor
<1>1. c \in Best(Candidates(e), s)
  BY DEF BestFor
<1>2. ScoreOf(c, s) > 0 /\ \A d \in Candidates(e)' : ScoreOf(d, s) <= ScoreOf(c, s)
  BY <1>1 DEF Best
<1> QED BY <1>2 DEF Best, ScoreOf

\* What is loaded is loaded once, and never under the id of the structural parsers.
LEMMA OneOfAnId ==
  ASSUME TypeOK, NEW e \in Engines
  PROVE  \A c, d \in Candidates(e) : c.id = d.id => c = d
<1>1. \A c \in Registered(e) : c.id \in Packs
  BY DEF TypeOK, IsPartial, Registered
<1>2. Structural \notin Packs
  BY RegistryAssumption
<1>3. \A c, d \in Registered(e) : c.id = d.id => c = d
  BY DEF Registered
<1> QED BY <1>1, <1>2, <1>3 DEF Candidates

\* So a candidate that is best makes its id a good one to cache.
LEMMA BestIsGood ==
  ASSUME TypeOK, NEW e \in Engines, NEW s, NEW c \in Best(Candidates(e), s)
  PROVE  BestFor(e, s, c.id)
<1>1. c \in Candidates(e)
  BY DEF Best
<1> QED BY <1>1, OneOfAnId DEF BestFor

\* The candidates are what is registered, and the structural parsers.
LEMMA CandidatesFollow ==
  ASSUME NEW e, Registered(e)' \subseteq Registered(e)
  PROVE  Candidates(e)' \subseteq Candidates(e)
BY DEF Candidates

\* A cache nobody touches stays good.
LEMMA CacheStays ==
  ASSUME NEW e, CacheOK(e), Candidates(e)' \subseteq Candidates(e), Settled(e)' => Settled(e),
         cache'[e] = cache[e], boot'[e] = boot[e]
  PROVE  CacheOK(e)'
<1>1. \A s, id : BestFor(e, s, id) => BestFor(e, s, id)'
  BY BestStays
<1>2. ASSUME Settled(e)', NEW s \in DOMAIN cache[e], NEW id, id = cache[e][s] PROVE BestFor(e, s, id)'
  <2>1. BestFor(e, s, id)
    BY <1>2 DEF CacheOK
  <2> QED BY <1>1, <2>1
<1>3. ASSUME Settled(e)', NEW s \in DOMAIN cache'[e] PROVE BestFor(e, s, cache[e][s])'
  BY <1>2, <1>3 DEF BestFor
<1> QED BY <1>3 DEF CacheOK

\* The same choice and the same copy.
SameChoice(u) ==
  /\ pc'[u] = pc[u]
  /\ pc[u] \in {"pick", "store"} =>
       /\ job'[u].shape = job[u].shape /\ job'[u].cached = job[u].cached
       /\ job'[u].pick = job[u].pick /\ job'[u].old = job[u].old
  /\ pc[u] = "prune" => job'[u].copy = job[u].copy

ThreadOK(t) == LockOK(t) /\ ChoiceOK(t) /\ CopyOK(t)

\* A thread that takes no part in a step keeps its choice and its copy good.
LEMMA ThreadStays ==
  ASSUME NEW u \in Threads, ThreadOK(u), SameChoice(u),
         Candidates(Home[u])' \subseteq Candidates(Home[u]),
         Settled(Home[u])' => Settled(Home[u]),
         ~late'[Home[u]] => ~late[Home[u]],
         pc[u] \in {"clear", "prune"} => lock'[Home[u]] = lock[Home[u]]
  PROVE  ThreadOK(u)'
<1> DEFINE e == Home[u]
<1>1. \A s, id : BestFor(e, s, id) => BestFor(e, s, id)'
  BY BestStays
<1> HIDE DEF e
<1>2. e = Home[u]
  BY DEF e
<1>3. LockOK(u)'
  BY DEF ThreadOK, LockOK, SameChoice
<1>4. CopyOK(u)'
  BY <1>1, <1>2 DEF ThreadOK, CopyOK, SameChoice
<1>5. ChoiceOK(u)'
  BY <1>1, <1>2 DEF ThreadOK, ChoiceOK, SameChoice
<1> QED BY <1>3, <1>4, <1>5 DEF ThreadOK

\* A step of one thread that does not end a registration.
LEMMA OneThreadB ==
  ASSUME IInv, BInv, NEW t \in Threads, Frame(t), pc[t] # "clear",
         \A e \in Engines : late[e] => late'[e],
         \A u \in Threads \ {t} : pc[u] \in {"clear", "prune"} => lock'[Home[u]] = lock[Home[u]],
         \A e \in Engines : cache'[e] = cache[e] \/ CacheOK(e)',
         ThreadOK(t)'
  PROVE  BInv'
<1>1. ASSUME NEW e \in Engines
      PROVE  Candidates(e)' \subseteq Candidates(e) /\ (Settled(e)' => Settled(e))
  <2>1. Candidates(e)' \subseteq Candidates(e)
    BY CandidatesFollow DEF Frame
  <2>2. Settled(e)' => Settled(e)
    BY DEF Settled, Frame
  <2> QED BY <2>1, <2>2
<1>2. ASSUME NEW e \in Engines PROVE CacheOK(e)'
  <2>1. CacheOK(e)
    BY DEF BInv
  <2>2. CASE cache'[e] = cache[e]
    BY <1>1, <2>1, <2>2, CacheStays DEF Frame
  <2> QED BY <2>2
<1>3. ASSUME NEW u \in Threads \ {t} PROVE ThreadOK(u)'
  <2>1. ThreadOK(u) /\ Home[u] \in Engines
    BY RegistryAssumption DEF BInv, ThreadOK
  <2>2. SameChoice(u)
    BY DEF SameChoice, Frame
  <2>3. ~late'[Home[u]] => ~late[Home[u]]
    BY <2>1
  <2> QED BY <1>1, <2>1, <2>2, <2>3, ThreadStays
<1>4. \A u \in Threads : ThreadOK(u)'
  BY <1>3
<1> QED BY <1>2, <1>4 DEF BInv, ThreadOK

\* Two threads never hold the lock of one engine.
LEMMA OneHolder ==
  ASSUME BInv, NEW t \in Threads, pc[t] \in {"clear", "prune"}
  PROVE  /\ lock[Home[t]] = t
         /\ \A u \in Threads \ {t} : pc[u] \in {"clear", "prune"} => Home[u] # Home[t]
BY DEF BInv, LockOK

\* A thread that neither holds the lock nor has chosen has nothing to keep good.
LEMMA LightB ==
  ASSUME TypeOK, IInv, BInv, NEW t \in Threads, pc[t] # "clear",
         NEW s \in {"idle", "set", "row", "mark", "stamp", "fallback", "tier5"}, Goto(t, s),
         \A u \in Threads \ {t} : job'[u] = job[u],
         UNCHANGED <<boot, packs, cache, late>>,
         lock' = lock \/ (pc[t] = "prune" /\ Release(t))
  PROVE  BInv'
<1>1. pc' = [pc EXCEPT ![t] = s]
  BY DEF Goto
<1>2. Frame(t)
  BY <1>1 DEF Frame, TypeOK, Registered
<1>3. ThreadOK(t)'
  BY <1>1 DEF TypeOK, ThreadOK, LockOK, ChoiceOK, CopyOK
<1>4. ASSUME NEW u \in Threads \ {t}, pc[u] \in {"clear", "prune"}
      PROVE  lock'[Home[u]] = lock[Home[u]]
  <2>1. Home[u] \in Engines /\ Home[t] \in Engines
    BY RegistryAssumption
  <2>2. pc[t] = "prune" => Home[u] # Home[t]
    BY <1>4, OneHolder
  <2> QED BY <2>1, <2>2 DEF Release, TypeOK
<1> QED BY <1>2, <1>3, <1>4, OneThreadB

\* Replacing the job of a thread leaves those of the others.
LEMMA OtherJobs ==
  ASSUME TypeOK, NEW t \in Threads, NEW j, job' = [job EXCEPT ![t] = j]
  PROVE  job'[t] = j /\ \A u \in Threads \ {t} : job'[u] = job[u]
BY DEF TypeOK

LEMMA LightStepsB ==
  ASSUME TypeOK, IInv, BInv, NEW t \in Threads,
         \/ \E p \in Pack, g \in Suggestions \cup {None} : StartRegister(t, p, g)
         \/ WriteRow(t) \/ MarkSuggestion(t) \/ StampRow(t) \/ PruneRaise(t)
         \/ Fallback(t) \/ Tier5Done(t)
  PROVE  BInv'
<1>1. ASSUME NEW p, NEW g, StartRegister(t, p, g) PROVE BInv'
  BY <1>1, OtherJobs, LightB DEF StartRegister, Admin
<1>2. CASE WriteRow(t)
  <2>1. UNCHANGED <<boot, packs, cache, late, lock>> /\ pc[t] # "clear"
    BY <1>2 DEF WriteRow
  <2>2. Finish(t) \/ (Goto(t, "mark") /\ UNCHANGED job)
    BY <1>2 DEF WriteRow
  <2> QED BY <2>1, <2>2, OtherJobs, LightB DEF Finish
<1>3. CASE MarkSuggestion(t)
  <2>1. UNCHANGED <<boot, packs, cache, late, lock>> /\ pc[t] # "clear"
    BY <1>3 DEF MarkSuggestion
  <2>2. Finish(t) \/ (Goto(t, "stamp") /\ UNCHANGED job)
    BY <1>3 DEF MarkSuggestion
  <2> QED BY <2>1, <2>2, OtherJobs, LightB DEF Finish
<1>4. CASE StampRow(t)
  BY <1>4, OtherJobs, LightB DEF StampRow, Finish
<1>5. CASE PruneRaise(t)
  BY <1>5, OtherJobs, LightB DEF PruneRaise, Finish
<1>6. CASE Fallback(t)
  <2>1. UNCHANGED <<boot, packs, cache, late, lock>> /\ pc[t] # "clear"
    BY <1>6 DEF Fallback
  <2>2. \/ Finish(t)
        \/ \E c : Goto(t, "tier5") /\ job' = [job EXCEPT ![t].pick = c]
    BY <1>6 DEF Fallback
  <2> QED BY <2>1, <2>2, OtherJobs, LightB DEF Finish
<1>7. CASE Tier5Done(t)
  BY <1>7, OtherJobs, LightB DEF Tier5Done, Finish
<1> QED BY <1>1, <1>2, <1>3, <1>4, <1>5, <1>6, <1>7

\* While an engine loads its files, no call runs in it and nothing is cached.
LEMMA LoadFileB ==
  ASSUME TypeOK, IInv, BInv, NEW e \in Engines, NEW id \in Packs, LoadFile(e, id)
  PROVE  BInv'
<1>1. UNCHANGED <<cache, lock, pc, job, late>> /\ boot[e] # {}
      /\ packs' = [packs EXCEPT ![e] = Put(@, id, Vendor[id])] /\ boot' = [boot EXCEPT ![e] = @ \ {id}]
  BY DEF LoadFile
<1>2. ASSUME NEW x \in Engines, x # e
      PROVE  Candidates(x)' \subseteq Candidates(x) /\ (Settled(x)' => Settled(x))
             /\ boot'[x] = boot[x]
  <2>1. Registered(x)' = Registered(x)
    BY <1>1, <1>2 DEF Registered, TypeOK
  <2> QED BY <1>1, <1>2, <2>1, CandidatesFollow DEF Settled, TypeOK
<1>3. ASSUME NEW x \in Engines PROVE CacheOK(x)'
  <2>1. CacheOK(x)
    BY DEF BInv
  <2>2. CASE x # e
    BY <1>1, <1>2, <2>1, <2>2, CacheStays
  <2>3. CASE x = e
    BY <1>1, <2>1, <2>3 DEF CacheOK
  <2> QED BY <2>2, <2>3
<1>4. ASSUME NEW u \in Threads PROVE ThreadOK(u)'
  <2>1. ThreadOK(u) /\ BootOK(u) /\ Home[u] \in Engines
    BY RegistryAssumption DEF BInv, IInv, ThreadOK
  <2>2. CASE Home[u] = e
    <3>1. pc'[u] = "idle"
      BY <1>1, <2>1, <2>2 DEF BootOK
    <3> QED BY <3>1 DEF ThreadOK, LockOK, ChoiceOK, CopyOK
  <2>3. CASE Home[u] # e
    <3>1. SameChoice(u)
      BY <1>1 DEF SameChoice
    <3> QED BY <1>1, <1>2, <2>1, <2>3, <3>1, ThreadStays
  <2> QED BY <2>2, <2>3
<1> QED BY <1>3, <1>4 DEF BInv, ThreadOK

\* A registration holds the lock until it has cleared the cache: until then
\* nothing cached has to be good.
LEMMA SetPackB ==
  ASSUME TypeOK, IInv, BInv, NEW t \in Threads, SetPack(t)
  PROVE  BInv'
<1> DEFINE e == Home[t]
           p == job[t].pack
<1>1. e \in Engines /\ lock[e] = None /\ lock' = [lock EXCEPT ![e] = t]
      /\ packs' = [packs EXCEPT ![e] = Put(@, p.id, p.ver)] /\ job' = SeenBy(e, p)
      /\ pc' = [pc EXCEPT ![t] = "clear"] /\ UNCHANGED <<boot, cache, late>> /\ pc[t] = "set"
  BY RegistryAssumption DEF SetPack, Free, Take, Goto
<1>2. ~Settled(e)'
  BY <1>1 DEF Settled, TypeOK
<1>3. ASSUME NEW x \in Engines, x # e
      PROVE  Candidates(x)' \subseteq Candidates(x) /\ (Settled(x)' => Settled(x))
  <2>1. Registered(x)' = Registered(x)
    BY <1>1, <1>3, SMTT(30) DEF Registered, TypeOK
  <2>2. Settled(x)' => Settled(x)
    BY <1>1, <1>3 DEF Settled, TypeOK
  <2> QED BY <2>1, <2>2, CandidatesFollow
<1>4. ASSUME NEW x \in Engines PROVE CacheOK(x)'
  <2>1. CacheOK(x)
    BY DEF BInv
  <2>2. CASE x # e
    BY <1>1, <1>3, <2>1, <2>2, CacheStays
  <2>3. CASE x = e
    BY <1>1, <1>2, <2>1, <2>3 DEF CacheOK
  <2> QED BY <2>2, <2>3
<1>5. ASSUME NEW u \in Threads \ {t} PROVE SameChoice(u)
  <2>1. \/ job'[u] = job[u]
        \/ job[u].call = "route" /\ job'[u] = [job[u] EXCEPT !.seen = @ \cup {p}]
    BY <1>1 DEF SeenBy
  <2>2. job[u].call = "route" => job[u] \in RouteJob
    BY JobKinds
  <2>3. pc'[u] = pc[u]
    BY <1>1 DEF TypeOK
  <2>4. job[u].call = "route" => pc[u] # "prune"
    <3>1. JobOK(u)
      BY DEF IInv
    <3> QED BY <3>1, JobKinds DEF JobOK
  <2> QED BY <2>1, <2>2, <2>3, <2>4 DEF SameChoice, RouteJob
<1>6. ASSUME NEW u \in Threads PROVE ThreadOK(u)'
  <2>1. ThreadOK(u) /\ Home[u] \in Engines
    BY RegistryAssumption DEF BInv, ThreadOK
  <2>2. CASE u = t
    <3>1. pc'[u] = "clear" /\ lock'[e] = t
      BY <1>1, <2>2 DEF TypeOK
    <3> QED BY <2>2, <3>1 DEF ThreadOK, LockOK, ChoiceOK, CopyOK
  <2>3. CASE u # t /\ Home[u] = e
    <3>1. pc[u] \notin {"clear", "prune"}
      BY <1>1, <2>1, <2>3, RegistryAssumption DEF ThreadOK, LockOK
    <3>2. pc'[u] = pc[u]
      BY <1>1, <2>3 DEF TypeOK
    <3> QED BY <1>2, <2>3, <3>1, <3>2 DEF ThreadOK, LockOK, ChoiceOK, CopyOK
  <2>4. CASE u # t /\ Home[u] # e
    <3>1. lock'[Home[u]] = lock[Home[u]] /\ late'[Home[u]] = late[Home[u]]
      BY <1>1, <2>1, <2>4 DEF TypeOK
    <3> QED BY <1>3, <1>5, <2>1, <2>4, <3>1, ThreadStays
  <2> QED BY <2>2, <2>3, <2>4
<1> QED BY <1>4, <1>6 DEF BInv, ThreadOK

\* Clearing the cache leaves nothing to be wrong, and marks the choices made
\* before it as overtaken.
LEMMA ClearCacheB ==
  ASSUME TypeOK, IInv, BInv, NEW t \in Threads, ClearCache(t)
  PROVE  BInv'
<1> DEFINE e == Home[t]
<1>1. e \in Engines /\ pc[t] = "clear" /\ cache' = [cache EXCEPT ![e] = NoFn]
      /\ late' = [late EXCEPT ![e] = FALSE] /\ job' = Overtaken(e)
      /\ lock' = [lock EXCEPT ![e] = None] /\ pc' = [pc EXCEPT ![t] = "row"]
      /\ UNCHANGED <<boot, packs>>
  BY RegistryAssumption DEF ClearCache, Release, Goto
<1>2. ASSUME NEW x \in Engines PROVE Candidates(x)' = Candidates(x)
  BY <1>1 DEF Candidates, Registered
<1>3. ASSUME NEW x \in Engines, x # e PROVE Settled(x)' => Settled(x)
  BY <1>1, <1>3 DEF Settled, TypeOK
<1>4. ASSUME NEW x \in Engines PROVE CacheOK(x)'
  <2>1. CacheOK(x)
    BY DEF BInv
  <2>2. CASE x # e
    <3>1. cache'[x] = cache[x]
      BY <1>1, <2>2 DEF TypeOK
    <3> QED BY <1>1, <1>2, <1>3, <2>1, <2>2, <3>1, CacheStays
  <2>3. CASE x = e
    <3>1. DOMAIN cache'[e] = {}
      BY <1>1, NoFnType DEF TypeOK
    <3> QED BY <2>3, <3>1 DEF CacheOK
  <2> QED BY <2>2, <2>3
<1>5. ASSUME NEW u \in Threads \ {t} PROVE pc'[u] = pc[u]
  BY <1>1 DEF TypeOK
<1>6. ASSUME NEW u \in Threads PROVE job[u].call = "route" => job[u] \in RouteJob
  BY JobKinds
<1>7. ASSUME NEW u \in Threads PROVE ThreadOK(u)'
  <2>1. ThreadOK(u) /\ Home[u] \in Engines /\ JobOK(u)
    BY RegistryAssumption DEF BInv, IInv, ThreadOK
  <2>2. CASE u = t
    <3>1. pc'[u] = "row"
      BY <1>1, <2>2 DEF TypeOK
    <3> QED BY <3>1 DEF ThreadOK, LockOK, ChoiceOK, CopyOK
  <2>3. CASE u # t /\ Home[u] = e
    <3>1. pc[u] \notin {"clear", "prune"}
      BY <1>1, <2>3, OneHolder
    <3>2. CASE pc'[u] \notin {"pick", "store"}
      BY <1>5, <2>3, <3>1, <3>2 DEF ThreadOK, LockOK, ChoiceOK, CopyOK
    <3>3. CASE pc'[u] \in {"pick", "store"}
      <4>1. job[u] \in RouteJob /\ job[u].call = "route"
        BY <1>5, <2>1, <2>3, <3>3, JobKinds DEF JobOK, RouteSteps
      <4>2. job'[u] = [job[u] EXCEPT !.old = (pc[u] = "store") \/ (job[u].cached # None)]
        BY <1>1, <2>3, <4>1 DEF Overtaken
      <4>3. job'[u].old = ((pc[u] = "store") \/ (job[u].cached # None))
            /\ job'[u].cached = job[u].cached
        BY <4>1, <4>2 DEF RouteJob
      <4> QED BY <1>5, <2>3, <3>3, <4>3 DEF ThreadOK, LockOK, ChoiceOK, CopyOK
    <3> QED BY <3>2, <3>3
  <2>4. CASE u # t /\ Home[u] # e
    <3>1. lock'[Home[u]] = lock[Home[u]] /\ late'[Home[u]] = late[Home[u]]
      BY <1>1, <2>1, <2>4 DEF TypeOK
    <3>2. job'[u] = job[u]
      BY <1>1, <2>4 DEF Overtaken
    <3>3. SameChoice(u)
      BY <1>5, <2>4, <3>2 DEF SameChoice
    <3> QED BY <1>2, <1>3, <2>1, <2>4, <3>1, <3>3, ThreadStays
  <2> QED BY <2>2, <2>3, <2>4
<1> QED BY <1>4, <1>7 DEF BInv, ThreadOK

\* A retirement copies a settled cache, and takes candidates away.
LEMMA StartRetireB ==
  ASSUME TypeOK, IInv, BInv, NEW t \in Threads, NEW id \in Packs, StartRetire(t, id)
  PROVE  BInv'
<1> DEFINE e == Home[t]
           j == [call |-> "retire", pack |-> [id |-> id, ver |-> None],
                 existed |-> id \in DOMAIN packs[e], copy |-> cache[e]]
<1>1. e \in Engines /\ pc[t] = "idle" /\ lock[e] = None /\ lock' = [lock EXCEPT ![e] = t]
      /\ packs' = [packs EXCEPT ![e] = Drop(@, {id})] /\ job' = [job EXCEPT ![t] = j]
      /\ pc' = [pc EXCEPT ![t] = "prune"] /\ UNCHANGED <<boot, cache, late>>
  BY RegistryAssumption DEF StartRetire, Admin, Free, Take, Goto
<1>2. \A x \in Engines : Registered(x)' \subseteq Registered(x)
  BY <1>1 DEF TypeOK, Registered, Drop
<1>3. job'[t] = j /\ \A u \in Threads \ {t} : job'[u] = job[u]
  BY <1>1, OtherJobs
<1>4. Frame(t)
  BY <1>1, <1>2, <1>3 DEF Frame, TypeOK
<1>5. \A u \in Threads : Home[u] = e => pc[u] \notin {"clear", "prune"}
  BY <1>1, RegistryAssumption DEF BInv, LockOK
<1>6. ThreadOK(t)'
  <2>1. pc'[t] = "prune" /\ lock'[e] = t /\ job'[t].copy = cache[e]
    BY <1>1, <1>3 DEF TypeOK
  <2>2. \A s, i : BestFor(e, s, i) => BestFor(e, s, i)'
    BY <1>1, <1>2, CandidatesFollow, BestStays
  <2>3. ASSUME ~late[e], NEW s \in DOMAIN cache[e], NEW i, i = cache[e][s] PROVE BestFor(e, s, i)'
    <3>1. Settled(e)
      BY <1>5, <2>3 DEF Settled
    <3>2. BestFor(e, s, i)
      BY <1>1, <2>3, <3>1 DEF BInv, CacheOK
    <3> QED BY <2>2, <3>2
  <2>4. CopyOK(t)'
    BY <1>1, <2>1, <2>3 DEF CopyOK, BestFor
  <2> QED BY <2>1, <2>4 DEF ThreadOK, LockOK, ChoiceOK
<1>7. \A u \in Threads \ {t} : pc[u] \in {"clear", "prune"} => lock'[Home[u]] = lock[Home[u]]
  BY <1>1, <1>5, RegistryAssumption DEF TypeOK
<1> QED BY <1>1, <1>4, <1>6, <1>7, OneThreadB

\* The rebuilt cache has entries of the copy and of the cache, both good.
LEMMA PruneB ==
  ASSUME TypeOK, IInv, BInv, NEW t \in Threads, Prune(t)
  PROVE  BInv'
<1> DEFINE e == Home[t]
           now == cache[e]
           was == job[t].copy
           read(new) == [s \in DOMAIN was |-> IF s \in new THEN now[s] ELSE was[s]]
<1>1. e \in Engines /\ pc[t] = "prune" /\ lock' = [lock EXCEPT ![e] = None]
      /\ UNCHANGED <<boot, packs, late>>
  BY RegistryAssumption DEF Prune, Release
<1>2. PICK new \in SUBSET (DOMAIN now \cap DOMAIN was) :
        cache' = [cache EXCEPT ![e] = Drop(read(new), {s \in DOMAIN read(new) : read(new)[s] = job[t].pack.id})]
  BY DEF Prune
<1>3. PICK st \in {"row", "idle"} : pc' = [pc EXCEPT ![t] = st]
  BY DEF Prune, Goto, Finish
<1>4. \A u \in Threads \ {t} : job'[u] = job[u]
  <2>1. job' = [job EXCEPT ![t].copy = NoFn] \/ job' = [job EXCEPT ![t] = Idle]
    BY DEF Prune, Finish
  <2> QED BY <2>1, OtherJobs
<1>5. Frame(t)
  BY <1>1, <1>3, <1>4 DEF Frame, TypeOK, Registered
<1>6. ThreadOK(t)'
  BY <1>3 DEF TypeOK, ThreadOK, LockOK, ChoiceOK, CopyOK
<1>7. Settled(e)' => Settled(e)
  <2>1. \A u \in Threads : pc[u] = "clear" => pc'[u] = "clear"
    BY <1>1, <1>3 DEF TypeOK
  <2> QED BY <1>1, <2>1 DEF Settled
<1>8. CacheOK(e)'
  <2>1. CopyOK(t) /\ CacheOK(e) /\ BootOK(t)
    BY <1>1 DEF BInv, IInv
  <2>2. \A s, i : BestFor(e, s, i) => BestFor(e, s, i)'
    BY <1>1, BestStays DEF Candidates, Registered
  <2>3. ASSUME NEW s \in DOMAIN cache'[e]
        PROVE  cache'[e][s] = read(new)[s] /\ s \in DOMAIN was
    BY <1>1, <1>2, <2>3 DEF Drop, TypeOK
  <2>4. ASSUME Settled(e)', NEW s \in DOMAIN cache'[e], NEW i, i = cache'[e][s]
        PROVE  BestFor(e, s, i)'
    <3>1. Settled(e) /\ ~late[e]
      BY <1>7, <2>4 DEF Settled
    <3>2. s \in DOMAIN was /\ \/ s \in DOMAIN now /\ i = now[s]
                              \/ i = was[s]
      BY <2>3, <2>4
    <3>3. BestFor(e, s, i)
      BY <1>1, <2>1, <3>1, <3>2 DEF CopyOK, CacheOK
    <3> QED BY <2>2, <3>3
  <2>5. boot'[e] = {}
    BY <1>1, <2>1 DEF BootOK
  <2> QED BY <2>4, <2>5 DEF CacheOK, BestFor
<1>9. \A x \in Engines : cache'[x] = cache[x] \/ CacheOK(x)'
  BY <1>1, <1>2, <1>8 DEF TypeOK
<1>10. \A u \in Threads \ {t} : pc[u] \in {"clear", "prune"} => lock'[Home[u]] = lock[Home[u]]
  BY <1>1, OneHolder, RegistryAssumption DEF TypeOK
<1> QED BY <1>1, <1>5, <1>6, <1>9, <1>10, OneThreadB

\* A route reads the cache: while that is good, so is what it read.
LEMMA StartRouteB ==
  ASSUME TypeOK, IInv, BInv, NEW t \in Threads, NEW s \in Shapes, StartRoute(t, s)
  PROVE  BInv'
<1> DEFINE e == Home[t]
           j == [call |-> "route", shape |-> s, pick |-> None, old |-> FALSE,
                 seen |-> Registered(e),
                 cached |-> IF s \in DOMAIN cache[e] THEN cache[e][s] ELSE None]
<1>1. e \in Engines /\ pc[t] = "idle" /\ job' = [job EXCEPT ![t] = j]
      /\ pc' = [pc EXCEPT ![t] = "pick"] /\ UNCHANGED <<boot, packs, cache, lock, late>>
  BY RegistryAssumption DEF StartRoute, Goto
<1>2. job'[t] = j /\ \A u \in Threads \ {t} : job'[u] = job[u]
  <2> HIDE DEF j
  <2> QED BY <1>1, OtherJobs
<1>3. Frame(t)
  BY <1>1, <1>2 DEF Frame, TypeOK, Registered
<1>4. ThreadOK(t)'
  <2>1. pc'[t] = "pick" /\ job'[t].shape = s /\ job'[t].cached = j.cached
    BY <1>1, <1>2 DEF TypeOK
  <2>2. \A sh, i : BestFor(e, sh, i) => BestFor(e, sh, i)'
    BY <1>1, BestStays DEF Candidates, Registered
  <2>3. Settled(e)' => Settled(e)
    BY <1>1 DEF Settled, TypeOK
  <2>4. ASSUME Settled(e)', NEW i, i = j.cached, i # None PROVE BestFor(e, s, i)'
    <3>1. s \in DOMAIN cache[e] /\ i = cache[e][s]
      BY <2>4
    <3>2. BestFor(e, s, i)
      BY <1>1, <2>3, <2>4, <3>1 DEF BInv, CacheOK
    <3> QED BY <2>2, <3>2
  <2>5. ChoiceOK(t)'
    BY <2>1, <2>4 DEF ChoiceOK, BestFor
  <2> QED BY <2>1, <2>5 DEF ThreadOK, LockOK, CopyOK
<1> QED BY <1>1, <1>3, <1>4, OneThreadB

\* What a route that nothing has overtaken chooses is the best of all, whether
\* it scored all of them or took the cached one.
LEMMA PickB ==
  ASSUME TypeOK, IInv, BInv, NEW t \in Threads, Pick(t)
  PROVE  BInv'
<1> DEFINE e == Home[t]
           sh == job[t].shape
<1>1. e \in Engines /\ pc[t] = "pick" /\ UNCHANGED <<boot, packs, cache, lock, late>>
  BY RegistryAssumption DEF Pick
<1>2. CASE Goto(t, "fallback") /\ UNCHANGED job
  BY <1>1, <1>2, LightB
<1>3. ASSUME NEW c \in Best(Offers(t), sh), Goto(t, "store") \/ Goto(t, "fallback"),
             job' = [job EXCEPT ![t].pick = c]
      PROVE  BInv'
  <2>1. CASE Goto(t, "fallback")
    BY <1>1, <1>3, <2>1, OtherJobs, LightB
  <2>2. CASE Goto(t, "store")
    <3>1. job[t] \in RouteJob
      BY <1>1 DEF IInv, JobOK, RouteSteps
    <3>2. job'[t] = [job[t] EXCEPT !.pick = c] /\ \A u \in Threads \ {t} : job'[u] = job[u]
      BY <1>3, OtherJobs
    <3>3. job'[t].pick = c /\ job'[t].shape = sh /\ job'[t].old = job[t].old
      BY <3>1, <3>2 DEF RouteJob
    <3>4. pc' = [pc EXCEPT ![t] = "store"]
      BY <2>2 DEF Goto
    <3>5. Frame(t)
      BY <1>1, <3>2, <3>4 DEF Frame, TypeOK, Registered
    <3>6. \A s, i : BestFor(e, s, i) => BestFor(e, s, i)'
      BY <1>1, BestStays DEF Candidates, Registered
    <3>7. Settled(e)' => Settled(e)
      BY <1>1, <3>4 DEF Settled, TypeOK
    <3>8. ASSUME Settled(e)', ~job[t].old, NEW i, i = c.id, NEW s, s = sh PROVE BestFor(e, s, i)'
      <4> DEFINE hit == {d \in Candidates(e) : d.id = job[t].cached}
      <4>1. CASE hit # {}
        <5>1. c \in hit
          BY <4>1 DEF Offers, Best
        <5>2. job[t].cached = i /\ i # None
          <6>1. c.id \in Packs \cup {Structural}
            BY <1>1, <5>1, RegisteredType DEF Candidates, Pack
          <6> QED BY <3>8, <5>1, <6>1, RegistryAssumption
        <5>3. BestFor(e, s, i)
          BY <1>1, <3>7, <3>8, <5>2 DEF BInv, ChoiceOK
        <5> QED BY <3>6, <5>3
      <4>2. CASE hit = {}
        <5>1. c \in Best(Candidates(e), sh)
          BY <4>2 DEF Offers
        <5>2. BestFor(e, s, i)
          BY <1>1, <3>8, <5>1, BestIsGood
        <5> QED BY <3>6, <5>2
      <4> QED BY <4>1, <4>2
    <3>9. ThreadOK(t)'
      <4>1. pc'[t] = "store"
        BY <3>4 DEF TypeOK
      <4>2. ChoiceOK(t)'
        BY <3>3, <3>8, <4>1 DEF ChoiceOK, BestFor
      <4> QED BY <4>1, <4>2 DEF ThreadOK, LockOK, CopyOK
    <3> QED BY <1>1, <3>5, <3>9, OneThreadB
  <2> QED BY <1>3, <2>1, <2>2
<1> QED BY <1>2, <1>3 DEF Pick

\* Storing a choice that was overtaken is remembered; any other is good.
LEMMA StoreB ==
  ASSUME TypeOK, IInv, BInv, NEW t \in Threads, Store(t)
  PROVE  BInv'
<1> DEFINE e == Home[t]
           sh == job[t].shape
           id == job[t].pick.id
<1>1. e \in Engines /\ pc[t] = "store" /\ cache' = [cache EXCEPT ![e] = Put(@, sh, id)]
      /\ late' = [late EXCEPT ![e] = @ \/ job[t].old] /\ UNCHANGED <<boot, packs, lock>>
  BY RegistryAssumption DEF Store
<1>2. pc' = [pc EXCEPT ![t] = "idle"] /\ job' = [job EXCEPT ![t] = Idle]
  BY DEF Store, Finish, Goto
<1>3. \A u \in Threads \ {t} : job'[u] = job[u]
  BY <1>2, OtherJobs
<1>4. Frame(t)
  BY <1>1, <1>2, <1>3 DEF Frame, TypeOK, Registered
<1>5. ThreadOK(t)'
  BY <1>2 DEF TypeOK, ThreadOK, LockOK, ChoiceOK, CopyOK
<1>6. late'[e] = (late[e] \/ job[t].old)
  BY <1>1 DEF TypeOK
<1>7. CacheOK(e)'
  <2>1. ChoiceOK(t) /\ CacheOK(e) /\ BootOK(t)
    BY <1>1 DEF BInv, IInv
  <2>2. \A s, i : BestFor(e, s, i) => BestFor(e, s, i)'
    BY <1>1, BestStays DEF Candidates, Registered
  <2>3. ASSUME NEW s \in DOMAIN cache'[e]
        PROVE  (s = sh /\ cache'[e][s] = id) \/ (s \in DOMAIN cache[e] /\ cache'[e][s] = cache[e][s])
    BY <1>1, <2>3 DEF Put, TypeOK
  <2>4. ASSUME Settled(e)', NEW s \in DOMAIN cache'[e], NEW i, i = cache'[e][s]
        PROVE  BestFor(e, s, i)'
    <3>1. Settled(e) /\ ~job[t].old
      BY <1>1, <1>2, <1>6, <2>4 DEF Settled, TypeOK
    <3>2. BestFor(e, s, i)
      BY <1>1, <2>1, <2>3, <2>4, <3>1 DEF ChoiceOK, CacheOK
    <3> QED BY <2>2, <3>2
  <2>5. boot'[e] = {}
    BY <1>1, <2>1 DEF BootOK
  <2> QED BY <2>4, <2>5 DEF CacheOK, BestFor
<1>8. \A x \in Engines : cache'[x] = cache[x] \/ CacheOK(x)'
  BY <1>1, <1>7 DEF TypeOK
<1>9. \A x \in Engines : late[x] => late'[x]
  BY <1>1, <1>6 DEF TypeOK
<1> QED BY <1>1, <1>4, <1>5, <1>8, <1>9, OneThreadB

\* A restarted process has an empty cache and no call in progress.
LEMMA RestartB ==
  ASSUME TypeOK, IInv, BInv, NEW e \in Engines, Restart(e)
  PROVE  BInv'
<1>1. pc' = [t \in Threads |-> IF Home[t] = e THEN "idle" ELSE pc[t]]
      /\ job' = [t \in Threads |-> IF Home[t] = e THEN Idle ELSE job[t]]
      /\ cache' = [cache EXCEPT ![e] = NoFn] /\ packs' = [packs EXCEPT ![e] = NoFn]
      /\ boot' = [boot EXCEPT ![e] = DOMAIN Vendor] /\ lock' = [lock EXCEPT ![e] = None]
      /\ late' = [late EXCEPT ![e] = FALSE]
  BY DEF Restart
<1>2. ASSUME NEW x \in Engines, x # e
      PROVE  Candidates(x)' \subseteq Candidates(x) /\ (Settled(x)' => Settled(x))
             /\ boot'[x] = boot[x] /\ cache'[x] = cache[x] /\ lock'[x] = lock[x] /\ late'[x] = late[x]
  <2>1. Registered(x)' = Registered(x)
    BY <1>1, <1>2 DEF Registered, TypeOK
  <2>2. Settled(x)' => Settled(x)
    BY <1>1, <1>2 DEF Settled, TypeOK
  <2> QED BY <1>1, <1>2, <2>1, <2>2, CandidatesFollow DEF TypeOK
<1>3. ASSUME NEW x \in Engines PROVE CacheOK(x)'
  <2>1. CASE x # e
    <3>1. CacheOK(x)
      BY DEF BInv
    <3> QED BY <1>2, <2>1, <3>1, CacheStays
  <2>2. CASE x = e
    <3>1. DOMAIN cache'[e] = {}
      BY <1>1, NoFnType DEF TypeOK
    <3> QED BY <2>2, <3>1 DEF CacheOK
  <2> QED BY <2>1, <2>2
<1>4. ASSUME NEW u \in Threads PROVE ThreadOK(u)'
  <2>1. ThreadOK(u) /\ Home[u] \in Engines
    BY RegistryAssumption DEF BInv, ThreadOK
  <2>2. CASE Home[u] = e
    <3>1. pc'[u] = "idle"
      BY <1>1, <2>2
    <3> QED BY <3>1 DEF ThreadOK, LockOK, ChoiceOK, CopyOK
  <2>3. CASE Home[u] # e
    <3>1. SameChoice(u)
      BY <1>1, <2>3 DEF SameChoice
    <3> QED BY <1>2, <2>1, <2>3, <3>1, ThreadStays
  <2> QED BY <2>2, <2>3
<1> QED BY <1>3, <1>4 DEF BInv, ThreadOK

\* Every step keeps the cache good.
LEMMA NextB == TypeOK /\ IInv /\ BInv /\ [Next]_vars => BInv'
<1> SUFFICES ASSUME TypeOK, IInv, BInv, [Next]_vars PROVE BInv'
  OBVIOUS
<1>1. CASE UNCHANGED vars
  <2>1. /\ Home' = Home /\ packs' = packs /\ cache' = cache /\ lock' = lock /\ late' = late
        /\ pc' = pc /\ job' = job /\ boot' = boot
    BY <1>1 DEF vars
  <2>2. \A e : Candidates(e)' = Candidates(e) /\ Settled(e)' = Settled(e)
    BY <2>1 DEF Candidates, Registered, Settled
  <2>3. \A e, s, id : BestFor(e, s, id)' = BestFor(e, s, id)
    BY <2>2 DEF BestFor
  <2>4. \A e \in Engines : CacheOK(e)'
    BY <2>1, <2>2, <2>3 DEF BInv, CacheOK
  <2>5. \A t \in Threads : LockOK(t)' /\ ChoiceOK(t)' /\ CopyOK(t)'
    BY <2>1, <2>2, <2>3 DEF BInv, LockOK, ChoiceOK, CopyOK
  <2> QED BY <2>4, <2>5 DEF BInv
<1>2. ASSUME NEW e \in Engines, Restart(e) \/ \E id \in Packs : LoadFile(e, id) PROVE BInv'
  BY <1>2, RestartB, LoadFileB
<1>3. ASSUME NEW t \in Threads, NEW p \in Pack, NEW g \in Suggestions \cup {None}, StartRegister(t, p, g)
      PROVE  BInv'
  BY <1>3, LightStepsB
<1>4. ASSUME NEW t \in Threads,
             (\E id \in Packs : StartRetire(t, id)) \/ (\E s \in Shapes : StartRoute(t, s))
      PROVE  BInv'
  BY <1>4, StartRetireB, StartRouteB
<1>5. ASSUME NEW t \in Threads, AdminStep(t) PROVE BInv'
  BY <1>5, LightStepsB, SetPackB, ClearCacheB, PruneB DEF AdminStep
<1>6. ASSUME NEW t \in Threads, RouteStep(t) PROVE BInv'
  BY <1>6, LightStepsB, PickB, StoreB DEF RouteStep
<1>7. \A g \in Suggestions : Draft[g] \in Pack
  BY RegistryAssumption
<1> QED BY <1>1, <1>2, <1>3, <1>4, <1>5, <1>6, <1>7 DEF Next

\* The cache loses no accuracy: for every shape it knows, and any scores, the
\* cached parser is one that scoring all of them would choose, outside a
\* registration and unless a route begun before the last one was cached after it.
THEOREM CacheAlwaysBest == Spec => []CacheIsBest
<1>1. Init => BInv
  BY NoFnType DEF Init, BInv, CacheOK, LockOK, ChoiceOK, CopyOK
<1>2. BInv => CacheIsBest
  BY DEF BInv, CacheOK, Settled, BestFor, CacheIsBest
<1> QED BY <1>1, <1>2, InitOK, NextOK, NextB, PTL DEF Spec
-----------------------------------------------------------------------------
(***************************************************************************)
(* The table says what the engine serves, in a deployment of one process   *)
(*                                                                         *)
(* A call that has written memory and not yet its row knows what memory    *)
(* holds, because any other call on the pack would have marked it torn; a  *)
(* retirement that found nothing to retire has no row to write.  A second  *)
(* process does not learn of what the first loads or retires, so there the *)
(* table cannot agree with both.                                           *)
(***************************************************************************)
OneProcess == \E e : Engines = {e}

Active(id) == id \in DOMAIN table /\ table[id].status = "active"

Agree(e, id) ==
  /\ id \in DOMAIN packs[e] <=> Active(id)
  /\ id \in DOMAIN packs[e] => table[id].ver = packs[e][id]

HalfOK(t, id) ==
  Halfway(t, id) =>
    /\ \A u \in Threads \ {t} : ~Halfway(u, id)
    /\ job[t].call = "register" =>
         id \in DOMAIN packs[Home[t]] /\ packs[Home[t]][id] = job[t].pack.ver
    /\ job[t].call = "retire" => id \notin DOMAIN packs[Home[t]]
    /\ pc[t] = "prune" /\ ~job[t].existed => ~Active(id)

IdOK(id) ==
  /\ (\A t \in Threads : ~Halfway(t, id)) => \A e \in Engines : Agree(e, id)
  /\ \A t \in Threads : HalfOK(t, id)

MarkOK(t) == pc[t] \in {"mark", "stamp"} => job[t].pack.id \in DOMAIN table

TabInv == (\A id \in Packs \ torn : IdOK(id)) /\ (\A t \in Threads : MarkOK(t))
-----------------------------------------------------------------------------
\* Memory and table say of a pack what they said.
SameId(id) ==
  /\ \A e \in Engines : /\ id \in DOMAIN packs'[e] <=> id \in DOMAIN packs[e]
                        /\ id \in DOMAIN packs[e] => packs'[e][id] = packs[e][id]
  /\ id \in DOMAIN table' <=> id \in DOMAIN table
  /\ id \in DOMAIN table => table'[id].status = table[id].status /\ table'[id].ver = table[id].ver

\* The calls on it that are halfway are the same, though perhaps further on.
SameCall(t, id) ==
  /\ Halfway(t, id)' <=> Halfway(t, id)
  /\ Halfway(t, id) =>
       /\ job'[t].call = job[t].call /\ job'[t].pack = job[t].pack
       /\ pc'[t] = "prune" => pc[t] = "prune" /\ job'[t].existed = job[t].existed

LEMMA IdStays ==
  ASSUME NEW id, IdOK(id), SameId(id), \A t \in Threads : SameCall(t, id)
  PROVE  IdOK(id)'
<1>1. Active(id)' <=> Active(id)
  BY DEF Active, SameId
<1>2. ASSUME NEW e \in Engines, Agree(e, id) PROVE Agree(e, id)'
  BY <1>1, <1>2 DEF Agree, SameId, Active
<1>3. ASSUME \A t \in Threads : ~Halfway(t, id)' PROVE \A e \in Engines : Agree(e, id)'
  BY <1>2, <1>3 DEF IdOK, SameCall
<1>4. ASSUME NEW t \in Threads, Halfway(t, id)'
      PROVE  /\ \A u \in Threads \ {t} : ~Halfway(u, id)'
             /\ job'[t].call = "register" =>
                  id \in DOMAIN packs'[Home[t]] /\ packs'[Home[t]][id] = job'[t].pack.ver
             /\ job'[t].call = "retire" => id \notin DOMAIN packs'[Home[t]]
             /\ pc'[t] = "prune" /\ ~job'[t].existed => ~Active(id)'
  <2>1. HalfOK(t, id) /\ Halfway(t, id) /\ SameCall(t, id) /\ Home[t] \in Engines
    BY <1>4, RegistryAssumption DEF IdOK, SameCall
  <2>2. \A u \in Threads \ {t} : ~Halfway(u, id)'
    BY <2>1 DEF HalfOK, SameCall
  <2> QED BY <1>1, <2>1, <2>2 DEF HalfOK, SameCall, SameId
<1>5. \A t \in Threads : HalfOK(t, id)'
  BY <1>4 DEF HalfOK
<1> QED BY <1>3, <1>5 DEF IdOK

\* A thread serves the same registration or retirement, at the same step.
SameAdmin(u) ==
  pc'[u] = pc[u] /\ (pc[u] \in {"clear", "prune", "row", "mark", "stamp"} => job'[u] = job[u])

LEMMA SameAdminCall ==
  ASSUME NEW u \in Threads, SameAdmin(u) PROVE \A id : SameCall(u, id)
BY DEF SameAdmin, SameCall, Halfway

\* A step of a thread that is not halfway in a call on the pack.
LEMMA OtherIds ==
  ASSUME NEW t \in Threads, \A u \in Threads \ {t} : SameAdmin(u), NEW id, IdOK(id), SameId(id),
         ~Halfway(t, id), ~Halfway(t, id)'
  PROVE  IdOK(id)'
<1>1. SameCall(t, id)
  BY DEF SameCall
<1>2. \A u \in Threads : SameCall(u, id)
  BY <1>1, SameAdminCall
<1> QED BY <1>2, IdStays

\* A step that writes nothing and neither enters nor leaves the middle of a call.
LEMMA QuietTab ==
  ASSUME TabInv, NEW t \in Threads, \A u \in Threads \ {t} : SameAdmin(u),
         UNCHANGED <<packs, table>>, torn \subseteq torn',
         pc[t] \notin {"clear", "prune", "row"}, pc'[t] \notin {"clear", "prune", "row"},
         MarkOK(t)'
  PROVE  TabInv'
<1>1. ASSUME NEW id \in Packs \ torn' PROVE IdOK(id)'
  <2>1. IdOK(id) /\ SameId(id)
    BY DEF TabInv, SameId
  <2> QED BY <2>1, OtherIds DEF Halfway
<1>2. ASSUME NEW u \in Threads PROVE MarkOK(u)'
  BY DEF TabInv, MarkOK, SameAdmin
<1> QED BY <1>1, <1>2 DEF TabInv

\* The threads other than the one that moves.
LEMMA OthersSame ==
  ASSUME TypeOK, NEW t \in Threads, NEW s, Goto(t, s),
         UNCHANGED job \/ \E j : job' = [job EXCEPT ![t] = j]
  PROVE  pc'[t] = s /\ \A u \in Threads \ {t} : SameAdmin(u)
<1>1. pc'[t] = s /\ \A u \in Threads \ {t} : pc'[u] = pc[u]
  BY DEF Goto, TypeOK
<1>2. \A u \in Threads \ {t} : job'[u] = job[u]
  BY OtherJobs
<1> QED BY <1>1, <1>2 DEF SameAdmin

LEMMA QuietStepsTab ==
  ASSUME TypeOK, IInv, TabInv, NEW t \in Threads,
         \/ \E p \in Pack, g \in Suggestions \cup {None} : StartRegister(t, p, g)
         \/ \E s \in Shapes : StartRoute(t, s)
         \/ MarkSuggestion(t) \/ RouteStep(t)
  PROVE  TabInv'
<1>1. ASSUME NEW s \in {"idle", "set", "pick", "store", "fallback", "tier5"}, Goto(t, s),
             UNCHANGED job \/ \E j : job' = [job EXCEPT ![t] = j],
             pc[t] \notin {"clear", "prune", "row"}, UNCHANGED <<packs, table, torn>>
      PROVE  TabInv'
  <2>1. pc'[t] = s /\ \A u \in Threads \ {t} : SameAdmin(u)
    BY <1>1, OthersSame
  <2>2. MarkOK(t)'
    BY <2>1 DEF MarkOK
  <2> QED BY <1>1, <2>1, <2>2, QuietTab
<1>2. ASSUME NEW p, NEW g, StartRegister(t, p, g) PROVE TabInv'
  BY <1>1, <1>2 DEF StartRegister, Admin
<1>3. ASSUME NEW s, StartRoute(t, s) PROVE TabInv'
  <2>1. UNCHANGED <<packs, table, torn>> /\ Goto(t, "pick") /\ pc[t] = "idle"
    BY <1>3 DEF StartRoute
  <2>2. \E j : job' = [job EXCEPT ![t] = j]
    BY <1>3 DEF StartRoute
  <2> QED BY <1>1, <2>1, <2>2
<1>4. CASE MarkSuggestion(t)
  <2>1. UNCHANGED <<packs, table, torn>> /\ pc[t] = "mark"
    BY <1>4 DEF MarkSuggestion
  <2>2. CASE Finish(t)
    BY <1>1, <2>1, <2>2 DEF Finish
  <2>3. CASE Goto(t, "stamp") /\ UNCHANGED job
    <3>1. pc'[t] = "stamp" /\ \A u \in Threads \ {t} : SameAdmin(u)
      BY <2>3, OthersSame
    <3>2. MarkOK(t)'
      BY <2>1, <2>3 DEF TabInv, MarkOK
    <3> QED BY <2>1, <3>1, <3>2, QuietTab
  <2> QED BY <1>4, <2>2, <2>3 DEF MarkSuggestion
<1>5. CASE Pick(t)
  <2>1. UNCHANGED <<packs, table, torn>> /\ pc[t] = "pick"
    BY <1>5 DEF Pick
  <2>2. \E s \in {"store", "fallback"} : Goto(t, s)
    BY <1>5 DEF Pick
  <2>3. UNCHANGED job \/ \E j : job' = [job EXCEPT ![t] = j]
    BY <1>5 DEF Pick
  <2> QED BY <1>1, <2>1, <2>2, <2>3
<1>6. CASE Store(t)
  BY <1>1, <1>6 DEF Store, Finish
<1>7. CASE Fallback(t)
  <2>1. UNCHANGED <<packs, table, torn>> /\ pc[t] = "fallback"
    BY <1>7 DEF Fallback
  <2>2. \/ Finish(t)
        \/ Goto(t, "tier5") /\ \E j : job' = [job EXCEPT ![t] = j]
    BY <1>7 DEF Fallback
  <2> QED BY <1>1, <2>1, <2>2 DEF Finish
<1>8. CASE Tier5Done(t)
  BY <1>1, <1>8 DEF Tier5Done, Finish
<1> QED BY <1>2, <1>3, <1>4, <1>5, <1>6, <1>7, <1>8 DEF RouteStep

\* The stamp is on a row that is there, and changes nothing else in it.
LEMMA StampRowTab ==
  ASSUME TypeOK, IInv, TabInv, NEW t \in Threads, StampRow(t)
  PROVE  TabInv'
<1> DEFINE p == job[t].pack.id
           row == [table[p] EXCEPT !.promoted = TRUE]
<1>1. pc[t] = "stamp" /\ p \in DOMAIN table /\ UNCHANGED <<packs, torn>> /\ table[p] \in Row
  BY DEF StampRow, TabInv, MarkOK, TypeOK, IsPartial
<1>2. table' = table \/ table' = Upsert(p, row)
  BY <1>1 DEF StampRow, RowOf
<1>3. row.status = table[p].status /\ row.ver = table[p].ver
  BY <1>1 DEF Row
<1>4. pc'[t] = "idle" /\ \A u \in Threads \ {t} : SameAdmin(u)
  <2>1. Goto(t, "idle") /\ \E j : job' = [job EXCEPT ![t] = j]
    BY DEF StampRow, Finish
  <2> QED BY <2>1, OthersSame
<1> HIDE DEF row
<1>8. /\ DOMAIN Upsert(p, row) = DOMAIN table
      /\ Upsert(p, row)[p] = row
      /\ \A x \in DOMAIN table \ {p} : Upsert(p, row)[x] = table[x]
  BY <1>1 DEF Upsert, Put
<1>5. ASSUME NEW id \in Packs PROVE SameId(id)
  <2>1. CASE table' = table
    BY <1>1, <2>1 DEF SameId
  <2>2. CASE table' = Upsert(p, row)
    <3>1. id \in DOMAIN table' <=> id \in DOMAIN table
      BY <1>8, <2>2
    <3>2. id \in DOMAIN table =>
            table'[id].status = table[id].status /\ table'[id].ver = table[id].ver
      BY <1>3, <1>8, <2>2
    <3> QED BY <1>1, <3>1, <3>2 DEF SameId
  <2> QED BY <1>2, <2>1, <2>2
<1>6. ASSUME NEW id \in Packs \ torn' PROVE IdOK(id)'
  <2>1. IdOK(id) /\ ~Halfway(t, id) /\ ~Halfway(t, id)'
    BY <1>1, <1>4 DEF TabInv, Halfway
  <2> QED BY <1>4, <1>5, <2>1, OtherIds
<1>7. ASSUME NEW u \in Threads PROVE MarkOK(u)'
  <2>1. DOMAIN table \subseteq DOMAIN table'
    BY <1>2, <1>8
  <2> QED BY <1>4, <2>1 DEF TabInv, MarkOK, SameAdmin
<1> QED BY <1>6, <1>7 DEF TabInv

\* Clearing the cache is the middle of a registration.
LEMMA ClearCacheTab ==
  ASSUME TypeOK, IInv, TabInv, NEW t \in Threads, ClearCache(t)
  PROVE  TabInv'
<1>1. pc[t] = "clear" /\ pc' = [pc EXCEPT ![t] = "row"] /\ job' = Overtaken(Home[t])
      /\ UNCHANGED <<packs, table, torn>> /\ JobOK(t)
  BY DEF ClearCache, Goto, IInv
<1>2. ASSUME NEW u \in Threads, pc[u] \in {"clear", "prune", "row", "mark", "stamp"}
      PROVE  job'[u] = job[u]
  <2>1. job[u].call # "route"
    BY <1>2, JobKinds DEF IInv, JobOK
  <2> QED BY <1>1, <2>1 DEF Overtaken
<1>3. \A u \in Threads \ {t} : SameAdmin(u)
  BY <1>1, <1>2 DEF SameAdmin, TypeOK
<1>4. pc'[t] = "row" /\ job'[t] = job[t]
  BY <1>1, <1>2 DEF TypeOK
<1>5. ASSUME NEW id \in Packs \ torn' PROVE IdOK(id)'
  <2>1. IdOK(id) /\ SameId(id)
    BY <1>1 DEF TabInv, SameId
  <2>2. SameCall(t, id)
    BY <1>1, <1>4 DEF SameCall, Halfway
  <2> QED BY <1>3, <2>1, <2>2, SameAdminCall, IdStays
<1>6. \A u \in Threads : MarkOK(u)'
  BY <1>1, <1>3, <1>4 DEF TabInv, MarkOK, SameAdmin
<1> QED BY <1>5, <1>6 DEF TabInv

\* A retirement that raises has taken the pack out of memory and not of the table.
LEMMA PruneRaiseTab ==
  ASSUME TypeOK, IInv, TabInv, NEW t \in Threads, PruneRaise(t)
  PROVE  TabInv'
<1>1. pc[t] = "prune" /\ torn' = torn \cup {job[t].pack.id} /\ UNCHANGED <<packs, table>>
  BY DEF PruneRaise
<1>2. pc'[t] = "idle" /\ \A u \in Threads \ {t} : SameAdmin(u)
  <2>1. Goto(t, "idle") /\ \E j : job' = [job EXCEPT ![t] = j]
    BY DEF PruneRaise, Finish
  <2> QED BY <2>1, OthersSame
<1>3. ASSUME NEW id \in Packs \ torn' PROVE IdOK(id)'
  <2>1. IdOK(id) /\ SameId(id) /\ ~Halfway(t, id) /\ ~Halfway(t, id)'
    BY <1>1, <1>2 DEF TabInv, SameId, Halfway
  <2> QED BY <1>2, <2>1, OtherIds
<1>4. \A u \in Threads : MarkOK(u)'
  BY <1>1, <1>2 DEF TabInv, MarkOK, SameAdmin
<1> QED BY <1>3, <1>4 DEF TabInv

\* A call that ends, or whose pack it was halfway through nobody else touched.
LEMMA LeaveTab ==
  ASSUME IInv, TabInv, OneProcess, NEW t \in Threads, \A u \in Threads \ {t} : SameAdmin(u),
         pc'[t] \notin {"clear", "prune", "row"}, NEW id \in Packs \ torn, Halfway(t, id),
         Agree(Home[t], id)'
  PROVE  IdOK(id)'
<1>1. \A e \in Engines : Agree(e, id)'
  BY RegistryAssumption DEF OneProcess
<1>2. \A u \in Threads \ {t} : ~Halfway(u, id)
  BY DEF TabInv, IdOK, HalfOK
<1>3. \A u \in Threads : ~Halfway(u, id)'
  BY <1>2, SameAdminCall DEF SameCall, Halfway
<1> QED BY <1>1, <1>3 DEF IdOK, HalfOK

\* A retirement of a pack that was loaded goes on to the row; one of a pack
\* that was not has nothing to write.
LEMMA PruneTab ==
  ASSUME TypeOK, IInv, TabInv, OneProcess, NEW t \in Threads, Prune(t)
  PROVE  TabInv'
<1> DEFINE p == job[t].pack.id
<1>1. pc[t] = "prune" /\ UNCHANGED <<packs, table, torn>> /\ IsRetireJob(job[t]) /\ Home[t] \in Engines
  BY RegistryAssumption DEF Prune, IInv, JobOK
<1>2. CASE Goto(t, "row") /\ job' = [job EXCEPT ![t].copy = NoFn]
  <2>1. pc'[t] = "row" /\ \A u \in Threads \ {t} : SameAdmin(u)
    BY <1>2, OthersSame
  <2>2. job'[t] = [job[t] EXCEPT !.copy = NoFn]
    BY <1>2, OtherJobs
  <2>3. job'[t].call = job[t].call /\ job'[t].pack = job[t].pack
    BY <1>1, <2>2 DEF IsRetireJob
  <2>4. ASSUME NEW id \in Packs \ torn' PROVE IdOK(id)'
    <3>1. IdOK(id) /\ SameId(id)
      BY <1>1 DEF TabInv, SameId
    <3>2. SameCall(t, id)
      BY <1>1, <2>1, <2>3 DEF SameCall, Halfway
    <3> QED BY <2>1, <3>1, <3>2, SameAdminCall, IdStays
  <2>5. \A u \in Threads : MarkOK(u)'
    BY <1>1, <2>1 DEF TabInv, MarkOK, SameAdmin
  <2> QED BY <2>4, <2>5 DEF TabInv
<1>3. CASE Finish(t) /\ ~job[t].existed
  <2>1. pc'[t] = "idle" /\ \A u \in Threads \ {t} : SameAdmin(u)
    <3>1. Goto(t, "idle") /\ \E j : job' = [job EXCEPT ![t] = j]
      BY <1>3 DEF Finish
    <3> QED BY <3>1, OthersSame
  <2>2. ASSUME NEW id \in Packs \ torn' PROVE IdOK(id)'
    <3>1. IdOK(id) /\ SameId(id) /\ ~Halfway(t, id)'
      BY <1>1, <2>1 DEF TabInv, SameId, Halfway
    <3>2. CASE ~Halfway(t, id)
      BY <2>1, <3>1, <3>2, OtherIds
    <3>3. CASE Halfway(t, id)
      <4>1. job[t].call = "retire"
        BY <1>1 DEF IsRetireJob
      <4>2. id \notin DOMAIN packs[Home[t]] /\ ~Active(id)
        BY <1>1, <1>3, <3>1, <3>3, <4>1 DEF IdOK, HalfOK
      <4>3. Agree(Home[t], id)'
        BY <1>1, <4>2 DEF Agree, Active
      <4> QED BY <1>1, <2>1, <3>3, <4>3, LeaveTab
    <3> QED BY <3>2, <3>3
  <2>3. \A u \in Threads : MarkOK(u)'
    BY <1>1, <2>1 DEF TabInv, MarkOK, SameAdmin
  <2> QED BY <2>2, <2>3 DEF TabInv
<1> QED BY <1>2, <1>3 DEF Prune

\* The row a call writes is what it left in memory.
LEMMA WriteRowTab ==
  ASSUME TypeOK, IInv, TabInv, OneProcess, NEW t \in Threads, WriteRow(t)
  PROVE  TabInv'
<1> DEFINE p   == job[t].pack
           reg == job[t].call = "register"
           row == IF reg THEN [RowOf(p.id) EXCEPT !.ver = p.ver, !.status = "active"]
                         ELSE [RowOf(p.id) EXCEPT !.status = "retired"]
<1>1. pc[t] = "row" /\ UNCHANGED packs /\ p.id \in Packs /\ Home[t] \in Engines
      /\ job[t].call \in {"register", "retire"}
  BY RegistryAssumption DEF WriteRow, IInv, JobOK, RegisterJob, IsRetireJob, Pack
<1>2. RowOf(p.id) \in Row
  BY <1>1, RowOfType
<1>3. (reg => row.status = "active" /\ row.ver = p.ver) /\ (~reg => row.status = "retired")
  BY <1>2 DEF Row
<1>4. \/ table' = Upsert(p.id, row) /\ torn' = torn
      \/ table' = table /\ torn' = torn \cup {p.id}
  BY DEF WriteRow
<1>5. \/ Finish(t)
      \/ table' = Upsert(p.id, row) /\ Goto(t, "mark") /\ UNCHANGED job
  BY DEF WriteRow
<1> HIDE DEF row
<1>6. /\ DOMAIN Upsert(p.id, row) = DOMAIN table \cup {p.id}
      /\ Upsert(p.id, row)[p.id] = row
      /\ \A x \in DOMAIN table \ {p.id} : Upsert(p.id, row)[x] = table[x]
  BY DEF Upsert, Put
<1>7. pc'[t] \in {"idle", "mark"} /\ \A u \in Threads \ {t} : SameAdmin(u)
  <2>1. CASE Finish(t)
    <3>1. Goto(t, "idle") /\ \E j : job' = [job EXCEPT ![t] = j]
      BY <2>1 DEF Finish
    <3> QED BY <3>1, OthersSame
  <2>2. CASE Goto(t, "mark") /\ UNCHANGED job
    BY <2>2, OthersSame
  <2> QED BY <1>5, <2>1, <2>2
<1>8. ASSUME NEW id \in Packs \ torn' PROVE IdOK(id)'
  <2>1. IdOK(id) /\ ~Halfway(t, id)'
    BY <1>4, <1>7, <1>8 DEF TabInv, Halfway
  <2>2. CASE id # p.id
    <3>1. SameId(id)
      BY <1>1, <1>4, <1>6, <2>2 DEF SameId
    <3>2. ~Halfway(t, id)
      BY <2>2 DEF Halfway
    <3> QED BY <1>7, <2>1, <3>1, <3>2, OtherIds
  <2>3. CASE id = p.id
    <3>1. Halfway(t, id)
      BY <1>1, <2>3 DEF Halfway
    <3>2. table' = Upsert(p.id, row) /\ id \in Packs \ torn
      BY <1>4, <1>8, <2>3
    <3>3. id \in DOMAIN table' /\ table'[id] = row
      BY <1>6, <2>3, <3>2
    <3>4. HalfOK(t, id)
      BY <2>1 DEF IdOK
    <3>5. Active(id)' <=> reg
      BY <1>3, <3>3 DEF Active
    <3>6. (id \in DOMAIN packs[Home[t]] <=> reg) /\ (reg => packs[Home[t]][id] = p.ver)
      BY <1>1, <3>1, <3>4 DEF HalfOK
    <3>7. Agree(Home[t], id)'
      BY <1>1, <1>3, <3>3, <3>5, <3>6 DEF Agree
    <3> QED BY <1>7, <3>1, <3>2, <3>7, LeaveTab
  <2> QED BY <2>2, <2>3
<1>9. ASSUME NEW u \in Threads PROVE MarkOK(u)'
  <2>1. DOMAIN table \subseteq DOMAIN table'
    BY <1>4, <1>6
  <2>2. CASE u # t
    BY <1>7, <2>1, <2>2 DEF TabInv, MarkOK, SameAdmin
  <2>3. CASE u = t
    <3>1. CASE Finish(t)
      BY <2>3, <3>1 DEF Finish, Goto, TypeOK, MarkOK
    <3>2. CASE table' = Upsert(p.id, row) /\ UNCHANGED job
      <4>1. p.id \in DOMAIN table' /\ job'[t].pack.id = p.id
        BY <1>6, <3>2
      <4> QED BY <2>3, <4>1 DEF MarkOK
    <3> QED BY <1>5, <3>1, <3>2
  <2> QED BY <2>2, <2>3
<1> QED BY <1>8, <1>9 DEF TabInv

\* A step that changes what memory holds of one pack, which is then halfway.
LEMMA EnterTab ==
  ASSUME TypeOK, TabInv, NEW t \in Threads, NEW p \in Packs,
         \A u \in Threads \ {t} : SameAdmin(u), UNCHANGED table,
         \A id \in Packs \ {p} : SameId(id),
         torn' = IF \E u \in Threads \ {t} : Halfway(u, p) THEN torn \cup {p} ELSE torn,
         pc[t] \notin {"clear", "prune", "row"}, pc'[t] \in {"clear", "prune"}, job'[t].pack.id = p,
         p \notin torn' => \E e \in Engines :
           /\ e = Home[t]
           /\ job'[t].call = "register" =>
                p \in DOMAIN packs'[e] /\ packs'[e][p] = job'[t].pack.ver
           /\ job'[t].call = "retire" => p \notin DOMAIN packs'[e]
           /\ pc'[t] = "prune" /\ ~job'[t].existed => ~Active(p)
  PROVE  TabInv'
<1>1. ASSUME NEW id \in Packs \ torn' PROVE IdOK(id)'
  <2>1. IdOK(id) /\ ~Halfway(t, id)
    BY DEF TabInv, Halfway
  <2>2. CASE id # p
    <3>1. ~Halfway(t, id)'
      BY <2>2 DEF Halfway
    <3> QED BY <2>1, <2>2, <3>1, OtherIds
  <2>3. CASE id = p
    <3>1. Halfway(t, id)'
      BY <2>3 DEF Halfway
    <3>2. \A u \in Threads \ {t} : ~Halfway(u, id)
      BY <1>1, <2>3
    <3>3. \A u \in Threads \ {t} : ~Halfway(u, id)'
      BY <3>2, SameAdminCall DEF SameCall
    <3>4. Active(p)' <=> Active(p)
      BY DEF Active
    <3>5. HalfOK(t, id)'
      BY <1>1, <2>3, <3>3, <3>4 DEF HalfOK
    <3> QED BY <3>1, <3>3, <3>5 DEF IdOK, HalfOK
  <2> QED BY <2>2, <2>3
<1>2. \A u \in Threads : MarkOK(u)'
  BY DEF TabInv, MarkOK, SameAdmin
<1> QED BY <1>1, <1>2 DEF TabInv

\* A registration is halfway as soon as the pack is in memory.
LEMMA SetPackTab ==
  ASSUME TypeOK, IInv, TabInv, NEW t \in Threads, SetPack(t)
  PROVE  TabInv'
<1> DEFINE e == Home[t]
           p == job[t].pack
<1>1. e \in Engines /\ pc[t] = "set" /\ job[t] \in RegisterJob /\ p.id \in Packs
      /\ packs' = [packs EXCEPT ![e] = Put(@, p.id, p.ver)] /\ job' = SeenBy(e, p)
      /\ pc' = [pc EXCEPT ![t] = "clear"] /\ UNCHANGED table
      /\ torn' = IF \E u \in Threads \ {t} : Halfway(u, p.id) THEN torn \cup {p.id} ELSE torn
  BY RegistryAssumption DEF SetPack, IInv, JobOK, RegisterJob, Pack, Goto
<1>2. ASSUME NEW u \in Threads, pc[u] \in {"set", "clear", "prune", "row", "mark", "stamp"}
      PROVE  job'[u] = job[u]
  <2>1. job[u].call # "route"
    BY <1>2, JobKinds DEF IInv, JobOK
  <2> QED BY <1>1, <2>1 DEF SeenBy
<1>3. \A u \in Threads \ {t} : SameAdmin(u)
  BY <1>1, <1>2 DEF SameAdmin, TypeOK
<1>4. pc'[t] = "clear" /\ job'[t] = job[t] /\ job[t].call = "register"
  BY <1>1, <1>2, JobKinds DEF TypeOK
<1>5. p.id \in DOMAIN packs'[e] /\ packs'[e][p.id] = p.ver
  BY <1>1 DEF Put, TypeOK
<1>6. ASSUME NEW id \in Packs, id # p.id PROVE SameId(id)
  BY <1>1, <1>6 DEF SameId, Put, TypeOK
<1>7. \E x \in Engines :
           /\ x = Home[t]
           /\ job'[t].call = "register" =>
                p.id \in DOMAIN packs'[x] /\ packs'[x][p.id] = job'[t].pack.ver
           /\ job'[t].call = "retire" => p.id \notin DOMAIN packs'[x]
           /\ pc'[t] = "prune" /\ ~job'[t].existed => ~Active(p.id)
  BY <1>1, <1>4, <1>5
<1>8. pc[t] \notin {"clear", "prune", "row"} /\ pc'[t] \in {"clear", "prune"} /\ job'[t].pack.id = p.id
  BY <1>1, <1>4
<1> HIDE DEF e
<1>9. PICK q \in Packs : q = p.id
  BY <1>1
<1> QED BY <1>1, <1>3, <1>6, <1>7, <1>8, <1>9, EnterTab

\* A retirement is halfway as soon as the pack is out of memory.
LEMMA StartRetireTab ==
  ASSUME TypeOK, IInv, TabInv, NEW t \in Threads, NEW id \in Packs, StartRetire(t, id)
  PROVE  TabInv'
<1> DEFINE e == Home[t]
           had == id \in DOMAIN packs[e]
           j == [call |-> "retire", pack |-> [id |-> id, ver |-> None],
                 existed |-> had, copy |-> cache[e]]
<1>1. e \in Engines /\ pc[t] = "idle" /\ UNCHANGED table
      /\ packs' = [packs EXCEPT ![e] = Drop(@, {id})] /\ job' = [job EXCEPT ![t] = j]
      /\ Goto(t, "prune")
      /\ torn' = IF \E u \in Threads \ {t} : Halfway(u, id) THEN torn \cup {id} ELSE torn
  BY RegistryAssumption DEF StartRetire, Admin
<1>2. job'[t].call = "retire" /\ job'[t].pack.id = id
      /\ job'[t].existed = had
  <2>1. job'[t] = j
    <3> HIDE DEF j
    <3> QED BY <1>1, OtherJobs
  <2>2. job'[t].existed = had
    <3> HIDE DEF had
    <3> QED BY <2>1
  <2>3. job'[t].call = "retire" /\ job'[t].pack.id = id
    BY <2>1
  <2> QED BY <2>2, <2>3
<1>3. pc'[t] = "prune" /\ \A u \in Threads \ {t} : SameAdmin(u)
  <2> HIDE DEF j
  <2> QED BY <1>1, OthersSame
<1>4. id \notin DOMAIN packs'[e]
  BY <1>1 DEF Drop, TypeOK
<1>5. ASSUME NEW x \in Packs, x # id PROVE SameId(x)
  BY <1>1, <1>5 DEF SameId, Drop, TypeOK
<1>6. ASSUME id \notin torn', ~job'[t].existed PROVE ~Active(id)
  <2>1. \A u \in Threads : ~Halfway(u, id)
    BY <1>1, <1>6 DEF Halfway
  <2>2. Agree(e, id)
    BY <1>1, <1>6, <2>1 DEF TabInv, IdOK
  <2> QED BY <1>2, <1>6, <2>2 DEF Agree
<1> QED BY <1>1, <1>2, <1>3, <1>4, <1>5, <1>6, EnterTab

\* While the process loads its files no call runs; the row is written with the pack.
LEMMA LoadFileTab ==
  ASSUME TypeOK, IInv, TabInv, OneProcess, NEW e \in Engines, NEW id \in Packs, LoadFile(e, id)
  PROVE  TabInv'
<1> DEFINE row == [RowOf(id) EXCEPT !.ver = Vendor[id], !.status = "active"]
<1>1. boot[e] # {} /\ packs' = [packs EXCEPT ![e] = Put(@, id, Vendor[id])] /\ UNCHANGED <<pc, job>>
  BY DEF LoadFile
<1>2. \A u \in Threads : pc[u] = "idle" /\ Home[u] = e
  BY <1>1, RegistryAssumption DEF OneProcess, IInv, BootOK
<1>3. \/ table' = Upsert(id, row) /\ torn' = torn
      \/ table' = table /\ torn' = torn \cup {id}
  BY <1>2 DEF LoadFile, Halfway
<1>4. row.status = "active" /\ row.ver = Vendor[id]
  BY RowOfType DEF Row
<1> HIDE DEF row
<1>5. /\ DOMAIN Upsert(id, row) = DOMAIN table \cup {id}
      /\ Upsert(id, row)[id] = row
      /\ \A x \in DOMAIN table \ {id} : Upsert(id, row)[x] = table[x]
  BY DEF Upsert, Put
<1>6. ASSUME NEW x \in Packs \ torn' PROVE IdOK(x)'
  <2>1. x \in Packs \ torn /\ IdOK(x)
    BY <1>3, <1>6 DEF TabInv
  <2>2. CASE x # id
    <3>1. SameId(x)
      BY <1>1, <1>3, <1>5, <2>2 DEF SameId, Put, TypeOK
    <3>2. \A u \in Threads : SameCall(u, x)
      BY <1>1, <1>2 DEF SameCall, Halfway
    <3> QED BY <2>1, <3>1, <3>2, IdStays
  <2>3. CASE x = id
    <3>1. x \in DOMAIN table' /\ table'[x] = row
      BY <1>3, <1>5, <1>6, <2>3
    <3>2. x \in DOMAIN packs'[e] /\ packs'[e][x] = Vendor[id]
      BY <1>1, <2>3 DEF Put, TypeOK
    <3>3. Agree(e, x)'
      BY <1>4, <3>1, <3>2 DEF Agree, Active
    <3>4. \A y \in Engines : Agree(y, x)'
      BY <3>3 DEF OneProcess
    <3>5. \A u \in Threads : ~Halfway(u, x)'
      BY <1>1, <1>2 DEF Halfway
    <3> QED BY <3>4, <3>5 DEF IdOK, HalfOK
  <2> QED BY <2>2, <2>3
<1>7. \A u \in Threads : MarkOK(u)'
  BY <1>1, <1>2 DEF MarkOK
<1> QED BY <1>6, <1>7 DEF TabInv

\* What a restart takes out of memory, or cuts off, is torn until its next call.
LEMMA RestartTab ==
  ASSUME TypeOK, IInv, TabInv, OneProcess, NEW e \in Engines, Restart(e)
  PROVE  TabInv'
<1>1. packs' = [packs EXCEPT ![e] = NoFn] /\ UNCHANGED table
      /\ pc' = [t \in Threads |-> IF Home[t] = e THEN "idle" ELSE pc[t]]
      /\ torn' = torn \cup DOMAIN packs[e]
                      \cup {id \in Packs : \E t \in Threads : Home[t] = e /\ Halfway(t, id)}
  BY DEF Restart
<1>2. \A u \in Threads : Home[u] = e
  BY RegistryAssumption DEF OneProcess
<1>3. \A u \in Threads : pc'[u] = "idle"
  BY <1>1, <1>2
<1>4. ASSUME NEW id \in Packs \ torn' PROVE IdOK(id)'
  <2>1. id \in Packs \ torn /\ id \notin DOMAIN packs[e] /\ \A u \in Threads : ~Halfway(u, id)
    BY <1>1, <1>2, <1>4
  <2>2. Agree(e, id)
    BY <2>1 DEF TabInv, IdOK
  <2>3. id \notin DOMAIN packs'[e]
    BY <1>1, NoFnType DEF TypeOK
  <2>4. Agree(e, id)'
    BY <1>1, <2>1, <2>2, <2>3 DEF Agree, Active
  <2>5. \A x \in Engines : Agree(x, id)'
    BY <2>4 DEF OneProcess
  <2>6. \A u \in Threads : ~Halfway(u, id)'
    BY <1>3 DEF Halfway
  <2> QED BY <2>5, <2>6 DEF IdOK, HalfOK
<1>5. \A u \in Threads : MarkOK(u)'
  BY <1>3 DEF MarkOK
<1> QED BY <1>4, <1>5 DEF TabInv

\* Every step of the one process keeps memory and table in agreement.
LEMMA NextTab == TypeOK /\ IInv /\ TabInv /\ OneProcess /\ [Next]_vars => TabInv'
<1> SUFFICES ASSUME TypeOK, IInv, TabInv, OneProcess, [Next]_vars PROVE TabInv'
  OBVIOUS
<1>1. CASE UNCHANGED vars
  BY <1>1 DEF vars, bounds, TabInv, IdOK, HalfOK, MarkOK, Agree, Active, Halfway
<1>2. ASSUME NEW e \in Engines, Restart(e) \/ \E id \in Packs : LoadFile(e, id) PROVE TabInv'
  BY <1>2, RestartTab, LoadFileTab
<1>3. ASSUME NEW t \in Threads, NEW p \in Pack, NEW g \in Suggestions \cup {None}, StartRegister(t, p, g)
      PROVE  TabInv'
  BY <1>3, QuietStepsTab
<1>4. ASSUME NEW t \in Threads,
             (\E id \in Packs : StartRetire(t, id)) \/ (\E s \in Shapes : StartRoute(t, s))
      PROVE  TabInv'
  BY <1>4, StartRetireTab, QuietStepsTab
<1>5. ASSUME NEW t \in Threads, AdminStep(t) PROVE TabInv'
  BY <1>5, QuietStepsTab, SetPackTab, ClearCacheTab, WriteRowTab, StampRowTab, PruneRaiseTab, PruneTab
     DEF AdminStep
<1>6. ASSUME NEW t \in Threads, RouteStep(t) PROVE TabInv'
  BY <1>6, QuietStepsTab
<1>7. \A g \in Suggestions : Draft[g] \in Pack
  BY RegistryAssumption
<1> QED BY <1>1, <1>2, <1>3, <1>4, <1>5, <1>6, <1>7 DEF Next

\* In a deployment of one process, the row of a pack is active exactly if the
\* engine serves the pack, with the version it serves, unless calls on the pack
\* overlapped, failed or were cut off.
THEOREM TableAlwaysAgrees ==
  ASSUME OneProcess PROVE Spec => []TableAgrees
<1>1. Init => TabInv
  BY NoFnType DEF Init, TabInv, IdOK, HalfOK, MarkOK, Agree, Active, Halfway
<1>2. TabInv => TableAgrees
  BY DEF TabInv, IdOK, Agree, Active, TableAgrees
<1>3. TypeOK /\ IInv /\ TabInv /\ [Next]_vars => TabInv'
  BY NextTab
<1> QED BY <1>1, <1>2, <1>3, InitOK, NextOK, PTL DEF Spec
=============================================================================
