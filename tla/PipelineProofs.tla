--------------------------- MODULE PipelineProofs ---------------------------
(***************************************************************************)
(* Theorems about Pipeline for any number of threads, arrivals, contents   *)
(* and failing calls: type correctness and provenance; that no arrival     *)
(* gets a second event or, with one failing call, none; that counts are    *)
(* exact without failures; and which events of a content are marked as     *)
(* duplicates.                                                             *)
(***************************************************************************)
EXTENDS Pipeline, SetLemmas, SequenceTheorems

-----------------------------------------------------------------------------
(***************************************************************************)
(* Maps from contents to locations                                         *)
(***************************************************************************)
\* Extend keeps resolving what both maps resolve.
LEMMA ExtendResolves ==
  ASSUME NEW r, NEW f, NEW g,
         \A c \in DOMAIN f : Resolves(r, f[c], c),
         \A c \in DOMAIN g : Resolves(r, g[c], c)
  PROVE  \A c \in DOMAIN Extend(f, g) : Resolves(r, Extend(f, g)[c], c)
BY DEF Extend

\* The empty map is a map from a part of any set to any set.
LEMMA NoFnType == \A S, T : IsPartial(NoFn, S, T) /\ DOMAIN NoFn = {}
BY DEF NoFn, IsPartial
-----------------------------------------------------------------------------
(***************************************************************************)
(* The inductive invariant                                                 *)
(*                                                                         *)
(* The locations a thread holds in its locals resolve, exactly as those of *)
(* the tables do; and the control of a call is such that a location has    *)
(* been found for an envelope before its event is built, whichever calls   *)
(* failed before.                                                          *)
(***************************************************************************)
Located == {"index", "compute", "write", "fallback", "sources", "upsert"}
Rescue  == {"em_append", "em_index", "em_write"}

\* The locations in the locals of t lead to the bytes they are held for.
LocalsResolve(t) ==
  /\ \A c \in DOMAIN known[t] : Resolves(raw, known[t][c], c)
  /\ \A e \in DOMAIN loc[t] : Resolves(raw, loc[t][e], Content[e])
  /\ pc[t] \in {"em_index", "em_write"} => Resolves(raw, at[t], Content[cur[t]])

\* Which envelopes of the batch have a location, a row, or are left to visit.
ControlOK(t) ==
  /\ new[t] \subseteq DOMAIN known[t]
  /\ rows[t] \subseteq DOMAIN loc[t]
  /\ pc[t] = "idle" => new[t] = {} /\ rows[t] = {}
  /\ pc[t] # "idle" => batch[t] # {}
  /\ pc[t] = "append" => batch[t] \ left[t] \subseteq DOMAIN loc[t]
  /\ pc[t] \in Located \/ (pc[t] \in Rescue /\ mode[t] = "batch")
       => batch[t] \subseteq DOMAIN loc[t]
  /\ pc[t] \in {"index", "compute"} \/ (pc[t] \in Rescue /\ mode[t] = "batch")
       => left[t] \subseteq batch[t]
  /\ pc[t] = "fallback" => left[t] \subseteq rows[t]
  /\ pc[t] \in Rescue => cur[t] \in Envs
  /\ pc[t] = "upsert" => mode[t] = "single"

IInv == /\ Traceable
        /\ \A t \in Threads : LocalsResolve(t) /\ ControlOK(t)

\* The raw store only grows.
RawGrows == raw' = raw \/ \E c \in Contents : raw' = Append(raw, c)

\* A location that resolves still does after the raw store has grown.
LEMMA ResolvesStable ==
  ASSUME TypeOK, RawGrows, NEW l, NEW c, Resolves(raw, l, c)
  PROVE  Resolves(raw', l, c)
<1>1. raw \in Seq(Contents)
  BY DEF TypeOK
<1>2. CASE raw' = raw
  BY <1>2 DEF Resolves
<1>3. ASSUME NEW d \in Contents, raw' = Append(raw, d) PROVE Resolves(raw', l, c)
  BY <1>1, <1>3, AppendProperties DEF Resolves
<1> QED BY <1>2, <1>3 DEF RawGrows

\* The location of the record being appended resolves to its content.
LEMMA NextLocResolves ==
  ASSUME TypeOK, NEW c \in Contents, raw' = Append(raw, c)
  PROVE  /\ NextLoc \in Locs /\ raw' \in Seq(Contents)
         /\ NextLoc \in DOMAIN raw' /\ raw'[NextLoc] = c
<1>1. raw \in Seq(Contents) /\ Len(raw) \in Nat
  BY LenProperties DEF TypeOK
<1>2. raw' \in Seq(Contents) /\ Len(raw') = Len(raw) + 1 /\ raw'[Len(raw) + 1] = c
  BY <1>1, AppendProperties
<1> QED BY <1>1, <1>2, LenProperties DEF NextLoc, Locs
-----------------------------------------------------------------------------
(***************************************************************************)
(* A step of one thread leaves the locals of the others alone.             *)
(***************************************************************************)
Frame(t) ==
  \A u \in Threads \ {t} :
    /\ pc'[u] = pc[u] /\ mode'[u] = mode[u] /\ batch'[u] = batch[u] /\ left'[u] = left[u]
    /\ known'[u] = known[u] /\ loc'[u] = loc[u] /\ new'[u] = new[u] /\ rows'[u] = rows[u]
    /\ cur'[u] = cur[u] /\ at'[u] = at[u]

\* A step of one thread preserves the invariant if it does so for the locals
\* of that thread and for the tables.
LEMMA ThreadStep ==
  ASSUME TypeOK, IInv, RawGrows, NEW t \in Threads, Frame(t),
         Traceable', LocalsResolve(t)', ControlOK(t)'
  PROVE  IInv'
<1>1. ASSUME NEW u \in Threads \ {t} PROVE LocalsResolve(u)' /\ ControlOK(u)'
  <2>1. LocalsResolve(u) /\ ControlOK(u)
    BY DEF IInv
  <2>2. LocalsResolve(u)'
    BY <2>1, ResolvesStable DEF LocalsResolve, Frame
  <2>3. ControlOK(u)'
    BY <2>1 DEF ControlOK, Frame
  <2> QED BY <2>2, <2>3
<1> QED BY <1>1 DEF IInv

\* The tables keep resolving when what a step adds to them resolves.
LEMMA TraceableStep ==
  ASSUME TypeOK, IInv, RawGrows,
         \A ev \in events' \ events : Resolves(raw', ev.loc, Content[ev.env]),
         \A c \in DOMAIN index' :
           \/ c \in DOMAIN index /\ index'[c] = index[c]
           \/ Resolves(raw', index'[c], c)
  PROVE  Traceable'
<1>1. \A ev \in events : Resolves(raw', ev.loc, Content[ev.env])
  BY ResolvesStable DEF IInv, Traceable
<1>2. \A c \in DOMAIN index : Resolves(raw', index[c], c)
  BY ResolvesStable DEF IInv, Traceable
<1>3. \A c \in DOMAIN index' : Resolves(raw', index'[c], c)
  BY <1>2
<1> QED BY <1>1, <1>3 DEF Traceable
-----------------------------------------------------------------------------
\* The invariant holds in the initial states.
LEMMA InitOK == Init => TypeOK /\ IInv
<1> SUFFICES ASSUME Init PROVE TypeOK /\ IInv
  OBVIOUS
<1>1. TypeOK
  BY NoFnType, EmptySeq, PipelineAssumption DEF Init, TypeOK, Locs, Steps, IsPartial
<1>2. IInv
  BY NoFnType DEF Init, IInv, Traceable, LocalsResolve, ControlOK, Located, Rescue
<1> QED BY <1>1, <1>2

\* What every return establishes, whatever is left in the tables.
LEMMA ReturnOK ==
  ASSUME TypeOK, IInv, RawGrows, NEW t \in Threads, Return(t), Traceable',
         raw' \in Seq(Contents), IsPartial(index', Contents, Locs), events' \subseteq Event,
         count' \in [Sources -> Nat], todo' \subseteq Envs, faults' \in Nat,
         past' = past, raised' \subseteq SUBSET Envs
  PROVE  TypeOK' /\ IInv'
<1>1. TypeOK'
  BY NoFnType DEF Return, Goto, TypeOK, Steps, Locs
<1>2. Frame(t)
  BY DEF Return, Goto, Frame, TypeOK
<1>3. LocalsResolve(t)' /\ ControlOK(t)'
  BY NoFnType DEF Return, Goto, TypeOK, LocalsResolve, ControlOK, Located, Rescue
<1> QED BY <1>1, <1>2, <1>3, ThreadStep

\* Taking a batch preserves the invariant: nothing is known of it yet.
LEMMA StartOK ==
  ASSUME TypeOK, IInv, NEW t \in Threads, NEW m \in {"batch", "single"}, NEW b \in SUBSET todo,
         Start(t, m, b)
  PROVE  TypeOK' /\ IInv'
<1> USE DEF db, locals
<1>1. TypeOK'
  <2>1. /\ b \in SUBSET Envs /\ todo' \subseteq Envs /\ past' \in [Envs -> SUBSET Envs]
        /\ UNCHANGED <<db, faults, known, loc, dup, new, rows, cur, at, seen>>
    BY DEF Start, TypeOK
  <2>2. {TenantOf[e] : e \in b} \in SUBSET (Envs \cup Tenants)
    BY <2>1, PipelineAssumption
  <2>3. /\ done' \subseteq Envs /\ raised' \in SUBSET (SUBSET Envs)
        /\ pc' \in [Threads -> Steps] /\ mode' \in [Threads -> {"batch", "single"}]
        /\ batch' \in [Threads -> SUBSET Envs]
    <3>1. /\ done' = done \/ done' = done \cup b
          /\ raised' = raised \/ raised' = raised \cup {b}
          /\ pc' = pc \/ pc' = [pc EXCEPT ![t] = "lookup"]
          /\ mode' = mode \/ mode' = [mode EXCEPT ![t] = m]
          /\ batch' = batch \/ batch' = [batch EXCEPT ![t] = b]
      BY DEF Start, Goto
    <3>2. done' \subseteq Envs
      BY <2>1, <3>1 DEF TypeOK
    <3>3. raised' \in SUBSET (SUBSET Envs)
      BY <2>1, <3>1 DEF TypeOK
    <3>4. pc' \in [Threads -> Steps]
      <4>1. "lookup" \in Steps /\ pc \in [Threads -> Steps]
        BY DEF Steps, TypeOK
      <4> QED BY <3>1, <4>1
    <3>6. mode' \in [Threads -> {"batch", "single"}]
      BY <3>1 DEF TypeOK
    <3>5. batch' \in [Threads -> SUBSET Envs]
      BY <2>1, <3>1 DEF TypeOK
    <3> QED BY <3>2, <3>3, <3>4, <3>5, <3>6
  <2>4. left' \in [Threads -> SUBSET (Envs \cup Tenants)]
    <3> DEFINE L == {TenantOf[e] : e \in b}
    <3>1. left' = left \/ left' = [left EXCEPT ![t] = L]
      BY DEF Start
    <3> HIDE DEF L
    <3> QED BY <2>2, <3>1 DEF TypeOK, L
  <2> QED BY <2>1, <2>3, <2>4 DEF TypeOK
<1>2. RawGrows /\ Frame(t)
  BY DEF Start, Goto, RawGrows, Frame, TypeOK
<1>3. Traceable'
  BY <1>2, TraceableStep DEF Start
<1>4. LocalsResolve(t)' /\ ControlOK(t)'
  <2>1. LocalsResolve(t)'
    BY DEF Start, Goto, TypeOK, IInv, LocalsResolve, Resolves
  <2>2. ControlOK(t)'
    BY DEF Start, Goto, TypeOK, IInv, ControlOK, Located, Rescue
  <2> QED BY <2>1, <2>2
<1> QED BY <1>1, <1>2, <1>3, <1>4, ThreadStep

\* A handler of process reached from outside _emergency_event.
LEMMA EmergencyControl ==
  ASSUME TypeOK, IInv, NEW t \in Threads, NEW e \in Envs, Emergency(t, e),
         UNCHANGED <<db, mode, batch, known, loc, dup, new, rows, at, seen, todo, past, raised, done>>,
         left' \in [Threads -> SUBSET (Envs \cup Tenants)],
         \A u \in Threads \ {t} : left'[u] = left[u],
         Single(t) \/ (pc[t] = "compute" /\ left'[t] \subseteq batch[t]),
         pc[t] # "idle", faults' \in Nat
  PROVE  TypeOK' /\ IInv'
<1> USE DEF db
<1>1. TypeOK'
  BY DEF Emergency, Goto, TypeOK, Steps
<1>2. RawGrows /\ Frame(t)
  BY DEF Emergency, Goto, RawGrows, Frame, TypeOK
<1>3. Traceable'
  BY <1>2, TraceableStep
<1>4. LocalsResolve(t)'
  BY DEF Emergency, Goto, TypeOK, IInv, LocalsResolve
<1>5. ControlOK(t)'
  BY DEF Emergency, Goto, TypeOK, IInv, ControlOK, Located, Rescue, Single
<1> QED BY <1>1, <1>2, <1>3, <1>4, <1>5, ThreadStep

\* A lookup takes over locations that raw_index holds; a failed one, none.
LEMMA LookupOK ==
  ASSUME TypeOK, IInv, NEW t \in Threads, NEW n \in Tenants, Lookup(t, n)
  PROVE  TypeOK' /\ IInv'
<1> DEFINE mine == {Content[e] : e \in {x \in batch[t] : TenantOf[x] = n}}
           hits == [c \in mine \cap DOMAIN index |-> index[c]]
           last == left[t] = {n}
           Onward == /\ left'  = [left EXCEPT ![t] = IF last THEN batch[t] ELSE @ \ {n}]
                     /\ Goto(t, IF last THEN "append" ELSE "lookup")
                     /\ cur' = cur
<1> USE DEF db
<1>1. pc[t] = "lookup" /\ n \in left[t]
  BY DEF Lookup
<1>2. UNCHANGED <<db, todo, past, raised, done, mode, batch, loc, dup, new, rows, at, seen>>
  BY DEF Lookup
<1>3. RawGrows
  BY <1>2 DEF RawGrows
<1>4. IsPartial(hits, Contents, Locs) /\ DOMAIN hits = mine \cap DOMAIN index
      /\ \A c \in DOMAIN hits : Resolves(raw, hits[c], c)
  <2>1. mine \subseteq Contents
    BY PipelineAssumption DEF TypeOK
  <2> QED BY <2>1 DEF TypeOK, IsPartial, IInv, Traceable
<1>5. ASSUME Onward, faults' \in Nat, NEW k, known' = [known EXCEPT ![t] = k],
             IsPartial(k, Contents, Locs), DOMAIN known[t] \subseteq DOMAIN k,
             \A c \in DOMAIN k : Resolves(raw, k[c], c)
      PROVE  TypeOK' /\ IInv'
  <2> HIDE DEF last
  <2>1. TypeOK'
    BY <1>1, <1>2, <1>5 DEF Goto, TypeOK, Steps
  <2>2. Frame(t)
    BY <1>2, <1>5 DEF Goto, Frame, TypeOK
  <2>3. Traceable'
    BY <1>2, <1>3, TraceableStep
  <2>4. LocalsResolve(t)'
    BY <1>2, <1>5 DEF Goto, TypeOK, IInv, LocalsResolve
  <2>5. ControlOK(t)'
    BY <1>1, <1>2, <1>5 DEF Goto, TypeOK, IInv, ControlOK, Located, Rescue
  <2> QED BY <1>3, <2>1, <2>2, <2>3, <2>4, <2>5, ThreadStep
<1>6. CASE known' = [known EXCEPT ![t] = Extend(@, hits)] /\ Onward /\ faults' = faults
  <2> HIDE DEF hits, Onward
  <2>1. IsPartial(known[t], Contents, Locs) /\ \A c \in DOMAIN known[t] : Resolves(raw, known[t][c], c)
    BY DEF TypeOK, IInv, LocalsResolve
  <2>0. IsPartial(hits, Contents, Locs) /\ \A c \in DOMAIN hits : Resolves(raw, hits[c], c)
    BY <1>4
  <2>2. /\ IsPartial(Extend(known[t], hits), Contents, Locs)
        /\ DOMAIN Extend(known[t], hits) = DOMAIN known[t] \cup DOMAIN hits
    BY <2>0, <2>1 DEF Extend, IsPartial
  <2>3. \A c \in DOMAIN Extend(known[t], hits) : Resolves(raw, Extend(known[t], hits)[c], c)
    BY <2>0, <2>1, ExtendResolves
  <2>4. known' = [known EXCEPT ![t] = Extend(known[t], hits)] /\ faults' \in Nat
    BY <1>6 DEF TypeOK
  <2> QED BY <1>5, <1>6, <2>2, <2>3, <2>4
<1>7. CASE Fault /\ ~Single(t) /\ known' = known /\ Onward
  <2>1. known' = [known EXCEPT ![t] = known[t]]
    BY <1>7 DEF TypeOK
  <2> HIDE DEF Onward
  <2>2. /\ faults' \in Nat /\ IsPartial(known[t], Contents, Locs)
        /\ \A c \in DOMAIN known[t] : Resolves(raw, known[t][c], c)
    BY <1>7 DEF TypeOK, IInv, LocalsResolve, Fault
  <2> QED BY <1>5, <1>7, <2>1, <2>2
<1>8. CASE /\ Fault /\ Single(t) /\ UNCHANGED <<known, left>>
           /\ \E e \in batch[t] : Emergency(t, e)
  <2>1. /\ left' \in [Threads -> SUBSET (Envs \cup Tenants)]
        /\ \A u \in Threads \ {t} : left'[u] = left[u]
        /\ faults' \in Nat
    BY <1>8 DEF Fault, TypeOK
  <2>2. PICK e \in Envs : Emergency(t, e)
    BY <1>8 DEF TypeOK
  <2>3. UNCHANGED <<db, mode, batch, known, loc, dup, new, rows, at, seen, todo, past, raised, done>>
    BY <1>2, <1>8
  <2> QED BY <1>1, <1>8, <2>1, <2>2, <2>3, EmergencyControl
<1> QED BY <1>6, <1>7, <1>8 DEF Lookup

\* An envelope gets the location of its content, or "unrecoverable".
LEMMA AppendRawOK ==
  ASSUME TypeOK, IInv, NEW t \in Threads, NEW e \in Envs, AppendRaw(t, e)
  PROVE  TypeOK' /\ IInv'
<1> DEFINE c == Content[e]
           Locate(l) == /\ loc'   = [loc EXCEPT ![t] = Put(@, e, l)]
                        /\ known' = [known EXCEPT ![t] = Put(@, c, l)]
                        /\ Goto(t, AfterAppend(t, e))
                        /\ cur' = cur
<1>1. /\ pc[t] = "append" /\ e \in left[t] /\ c \in Contents
      /\ left' = [left EXCEPT ![t] = IF left[t] = {e} THEN batch[t] ELSE @ \ {e}]
      /\ UNCHANGED <<index, events, count, todo, past, raised, done, mode, batch, rows, at, seen>>
  BY PipelineAssumption DEF AppendRaw
<1>2. ASSUME NEW l \in Locs, Locate(l), RawGrows, raw' \in Seq(Contents), Resolves(raw', l, c),
             NEW N, new' = [new EXCEPT ![t] = N], N \subseteq new[t] \cup {c},
             dup' \in [Threads -> SUBSET Envs], faults' \in Nat
      PROVE  TypeOK' /\ IInv'
  <2>1. /\ IsPartial(known[t], Contents, Locs) /\ IsPartial(loc[t], Envs, Locs)
        /\ LocalsResolve(t) /\ ControlOK(t)
    BY DEF TypeOK, IInv
  <2>2. /\ known'[t] = Put(known[t], c, l) /\ loc'[t] = Put(loc[t], e, l)
        /\ DOMAIN known'[t] = DOMAIN known[t] \cup {c}
        /\ DOMAIN loc'[t] = DOMAIN loc[t] \cup {e}
    BY <1>2 DEF TypeOK, Put
  <2>3. IsPartial(known'[t], Contents, Locs) /\ IsPartial(loc'[t], Envs, Locs)
    BY <1>1, <2>1, <2>2 DEF Put, IsPartial
  <2>4. pc' = [pc EXCEPT ![t] = AfterAppend(t, e)]
    BY <1>2 DEF Goto
  <2>5. AfterAppend(t, e) = IF left[t] # {e} THEN "append"
                            ELSE IF new[t] = {} /\ c \in DOMAIN known[t] THEN "compute" ELSE "index"
    BY DEF AfterAppend
  <2> HIDE DEF c
  <2>6. TypeOK'
    <3>1. pc' \in [Threads -> Steps] /\ new' \in [Threads -> SUBSET Contents]
          /\ left' \in [Threads -> SUBSET (Envs \cup Tenants)]
      BY <1>1, <1>2, <2>4, <2>5 DEF TypeOK, Steps
    <3>2. /\ known' = [u \in Threads |-> known'[u]] /\ loc' = [u \in Threads |-> loc'[u]]
          /\ \A u \in Threads : IsPartial(known'[u], Contents, Locs) /\ IsPartial(loc'[u], Envs, Locs)
      BY <1>2, <2>3 DEF TypeOK
    <3> QED BY <1>1, <1>2, <3>1, <3>2 DEF TypeOK
  <2>7. Frame(t)
    BY <1>1, <1>2, <2>4 DEF Frame, TypeOK
  <2>8. Traceable'
    BY <1>1, <1>2, TraceableStep
  <2>9. LocalsResolve(t)'
    <3>1. \A x \in DOMAIN known'[t] : Resolves(raw', known'[t][x], x)
      BY <1>2, <2>1, <2>2, ResolvesStable DEF LocalsResolve, Put
    <3>2. \A x \in DOMAIN loc'[t] : Resolves(raw', loc'[t][x], Content[x])
      BY <1>2, <2>1, <2>2, ResolvesStable DEF LocalsResolve, Put, c
    <3> QED BY <3>1, <3>2, <2>4, <2>5 DEF LocalsResolve, TypeOK
  <2>10. ControlOK(t)'
    BY <1>1, <1>2, <2>1, <2>2, <2>4, <2>5 DEF TypeOK, ControlOK, Located, Rescue
  <2> QED BY <1>2, <2>6, <2>7, <2>8, <2>9, <2>10, ThreadStep
<1>3. CASE c \in DOMAIN known[t] /\ Locate(known[t][c]) /\ UNCHANGED <<raw, new, faults>>
           /\ dup' = [dup EXCEPT ![t] = @ \cup {e}]
  <2>1. known[t][c] \in Locs /\ Resolves(raw', known[t][c], c)
    BY <1>3 DEF TypeOK, IsPartial, IInv, LocalsResolve
  <2>2. new' = [new EXCEPT ![t] = new[t]] /\ RawGrows /\ raw' \in Seq(Contents)
    BY <1>3 DEF TypeOK, RawGrows
  <2>3. dup' \in [Threads -> SUBSET Envs] /\ faults' \in Nat
    BY <1>3 DEF TypeOK
  <2> HIDE DEF Locate
  <2> QED BY <1>2, <1>3, <2>1, <2>2, <2>3
<1>4. CASE raw' = Append(raw, c) /\ Locate(NextLoc) /\ UNCHANGED <<dup, faults>>
           /\ new' = [new EXCEPT ![t] = @ \cup {c}]
  <2>1. NextLoc \in Locs /\ raw' \in Seq(Contents) /\ Resolves(raw', NextLoc, c)
    BY <1>1, <1>4, NextLocResolves DEF Resolves
  <2>2. RawGrows /\ dup' \in [Threads -> SUBSET Envs] /\ faults' \in Nat
        /\ new' = [new EXCEPT ![t] = new[t] \cup {c}]
    BY <1>1, <1>4 DEF TypeOK, RawGrows
  <2> HIDE DEF Locate
  <2> QED BY <1>2, <1>4, <2>1, <2>2
<1>5. CASE Fault /\ Locate(Unrec) /\ UNCHANGED <<raw, dup>>
           /\ new' = [new EXCEPT ![t] = @ \cup {c}]
  <2>1. Unrec \in Locs /\ Resolves(raw', Unrec, c)
    BY DEF Locs, Resolves
  <2>2. RawGrows /\ dup' \in [Threads -> SUBSET Envs] /\ faults' \in Nat /\ raw' \in Seq(Contents)
        /\ new' = [new EXCEPT ![t] = new[t] \cup {c}]
    BY <1>5 DEF TypeOK, RawGrows, Fault
  <2> HIDE DEF Locate
  <2> QED BY <1>2, <1>5, <2>1, <2>2
<1>6. CASE Fault /\ Single(t) /\ Emergency(t, e) /\ UNCHANGED <<raw, loc, known, dup, new>>
  <2>1. left' \in [Threads -> SUBSET (Envs \cup Tenants)]
        /\ \A u \in Threads \ {t} : left'[u] = left[u]
    BY <1>1 DEF TypeOK
  <2>2. UNCHANGED <<db, mode, batch, known, loc, dup, new, rows, at, seen, todo, past, raised, done>>
    BY <1>1, <1>6 DEF db
  <2>3. faults' \in Nat
    BY <1>6 DEF Fault, TypeOK
  <2>4. Single(t) /\ pc[t] # "idle" /\ Emergency(t, e)
    BY <1>1, <1>6
  <2> HIDE DEF Locate, c
  <2> QED BY <2>1, <2>2, <2>3, <2>4, EmergencyControl
<1> QED BY <1>3, <1>4, <1>5, <1>6 DEF AppendRaw

\* Only locations that resolve are indexed, and no row is overwritten.
LEMMA IndexRawOK ==
  ASSUME TypeOK, IInv, NEW t \in Threads, IndexRaw(t)
  PROVE  TypeOK' /\ IInv'
<1> USE DEF db
<1> DEFINE g == [c \in new[t] |-> known[t][c]]
<1>1. pc[t] = "index" /\ LocalsResolve(t) /\ ControlOK(t)
  BY DEF IndexRaw, IInv
<1>2. /\ UNCHANGED <<raw, events, count, todo, past, raised, done, mode, batch, left, known, loc, dup, new,
                     rows, at, seen>>
      /\ RawGrows
  BY DEF IndexRaw, RawGrows
<1>3. ASSUME Goto(t, "compute"), cur' = cur, faults' \in Nat, IsPartial(index', Contents, Locs),
             \A c \in DOMAIN index' :
               (c \in DOMAIN index /\ index'[c] = index[c]) \/ Resolves(raw', index'[c], c)
      PROVE  TypeOK' /\ IInv'
  <2>1. TypeOK'
    BY <1>2, <1>3 DEF Goto, TypeOK, Steps
  <2>2. Frame(t)
    BY <1>2, <1>3 DEF Goto, Frame, TypeOK
  <2>3. Traceable'
    BY <1>2, <1>3, TraceableStep
  <2>4. LocalsResolve(t)'
    BY <1>1, <1>2, <1>3 DEF Goto, TypeOK, LocalsResolve
  <2>5. ControlOK(t)'
    BY <1>1, <1>2, <1>3 DEF Goto, TypeOK, ControlOK, Located, Rescue
  <2> QED BY <1>2, <2>1, <2>2, <2>3, <2>4, <2>5, ThreadStep
<1>4. CASE index' = Extend(index, g) /\ Goto(t, "compute") /\ UNCHANGED <<faults, cur>>
  <2>1. new[t] \subseteq DOMAIN known[t] /\ IsPartial(known[t], Contents, Locs)
        /\ new[t] \subseteq Contents /\ IsPartial(index, Contents, Locs)
    BY <1>1 DEF ControlOK, TypeOK
  <2>2. IsPartial(index', Contents, Locs)
    BY <1>4, <2>1 DEF Extend, IsPartial
  <2>3. \A c \in DOMAIN index' :
          (c \in DOMAIN index /\ index'[c] = index[c]) \/ Resolves(raw', index'[c], c)
    BY <1>1, <1>2, <1>4, <2>1 DEF Extend, LocalsResolve
  <2> QED BY <1>3, <1>4, <2>2, <2>3 DEF TypeOK
<1>5. CASE Fault /\ Goto(t, "compute") /\ UNCHANGED <<index, cur>>
  BY <1>3, <1>5 DEF TypeOK, Fault
<1>6. CASE Fault /\ Single(t) /\ (\E e \in batch[t] : Emergency(t, e)) /\ index' = index
  <2>1. /\ left' \in [Threads -> SUBSET (Envs \cup Tenants)]
        /\ \A u \in Threads \ {t} : left'[u] = left[u]
        /\ faults' \in Nat
    BY <1>2, <1>6 DEF Fault, TypeOK
  <2>2. PICK e \in Envs : Emergency(t, e)
    BY <1>6 DEF TypeOK
  <2>3. UNCHANGED <<db, mode, batch, known, loc, dup, new, rows, at, seen, todo, past, raised, done>>
    BY <1>2, <1>6
  <2> QED BY <1>1, <1>6, <2>1, <2>2, <2>3, EmergencyControl
<1> QED BY <1>4, <1>5, <1>6 DEF IndexRaw

\* A computed event is queued for writing only when it has a location.
LEMMA ComputeOK ==
  ASSUME TypeOK, IInv, NEW t \in Threads, NEW e \in Envs, Compute(t, e)
  PROVE  TypeOK' /\ IInv'
<1> USE DEF db
<1>1. /\ pc[t] = "compute" /\ e \in left[t] /\ LocalsResolve(t) /\ ControlOK(t)
      /\ left' = [left EXCEPT ![t] = @ \ {e}]
      /\ UNCHANGED <<db, todo, past, raised, done, mode, batch, known, loc, dup, new, at, seen>>
  BY DEF Compute, IInv
<1>2. left[t] \subseteq batch[t] /\ batch[t] \subseteq DOMAIN loc[t]
  BY <1>1 DEF ControlOK, Located
<1>3. CASE /\ rows' = [rows EXCEPT ![t] = @ \cup {e}]
           /\ Goto(t, IF left[t] = {e} THEN "write" ELSE "compute")
           /\ UNCHANGED <<faults, cur>>
  <2>1. TypeOK'
    BY <1>1, <1>3 DEF Goto, TypeOK, Steps
  <2>2. RawGrows /\ Frame(t)
    BY <1>1, <1>3 DEF Goto, RawGrows, Frame, TypeOK
  <2>3. Traceable'
    BY <1>1, <2>2, TraceableStep
  <2>4. LocalsResolve(t)'
    BY <1>1, <1>3 DEF Goto, TypeOK, LocalsResolve
  <2>5. ControlOK(t)'
    BY <1>1, <1>2, <1>3 DEF Goto, TypeOK, ControlOK, Located, Rescue
  <2> QED BY <2>1, <2>2, <2>3, <2>4, <2>5, ThreadStep
<1>4. CASE Fault /\ Emergency(t, e) /\ rows' = rows
  <2>1. /\ left' \in [Threads -> SUBSET (Envs \cup Tenants)]
        /\ \A u \in Threads \ {t} : left'[u] = left[u]
        /\ left'[t] \subseteq batch[t]
    BY <1>1, <1>2 DEF TypeOK
  <2>2. UNCHANGED <<db, mode, batch, known, loc, dup, new, rows, at, seen, todo, past, raised, done>>
    BY <1>1, <1>4
  <2>3. faults' \in Nat
    BY <1>4 DEF Fault, TypeOK
  <2> QED BY <1>1, <1>4, <2>1, <2>2, <2>3, EmergencyControl
<1> QED BY <1>3, <1>4 DEF Compute

-----------------------------------------------------------------------------
(***************************************************************************)
(* _emergency_event                                                        *)
(***************************************************************************)
LEMMA EmergencyAppendOK ==
  ASSUME TypeOK, IInv, NEW t \in Threads, EmergencyAppend(t)
  PROVE  TypeOK' /\ IInv'
<1>1. /\ pc[t] = "em_append" /\ LocalsResolve(t) /\ ControlOK(t)
      /\ UNCHANGED <<index, events, count, todo, past, raised, done, mode, batch, left, known, loc, dup, new,
                     rows, cur, seen>>
  BY DEF EmergencyAppend, IInv
<1>2. cur[t] \in Envs /\ Content[cur[t]] \in Contents
  BY <1>1, PipelineAssumption DEF ControlOK, Rescue
<1>3. ASSUME RawGrows, raw' \in Seq(Contents), faults' \in Nat,
             NEW l \in Locs, at' = [at EXCEPT ![t] = l],
             NEW s \in {"em_index", "em_write"}, Goto(t, s),
             Resolves(raw', l, Content[cur[t]])
      PROVE  TypeOK' /\ IInv'
  <2>1. TypeOK'
    BY <1>1, <1>3 DEF Goto, TypeOK, Steps
  <2>2. Frame(t)
    BY <1>1, <1>3 DEF Goto, Frame, TypeOK
  <2>3. Traceable'
    BY <1>1, <1>3, TraceableStep
  <2>4. LocalsResolve(t)'
    <3>1. \A x \in DOMAIN known[t] : Resolves(raw', known[t][x], x)
      BY <1>1, <1>3, ResolvesStable DEF LocalsResolve
    <3>2. \A x \in DOMAIN loc[t] : Resolves(raw', loc[t][x], Content[x])
      BY <1>1, <1>3, ResolvesStable DEF LocalsResolve
    <3>3. at'[t] = l
      BY <1>3 DEF TypeOK
    <3> QED BY <1>1, <1>3, <3>1, <3>2, <3>3 DEF LocalsResolve
  <2>5. ControlOK(t)'
    BY <1>1, <1>3 DEF Goto, TypeOK, ControlOK, Located, Rescue
  <2> QED BY <1>3, <2>1, <2>2, <2>3, <2>4, <2>5, ThreadStep
<1>4. CASE /\ raw' = Append(raw, Content[cur[t]]) /\ at' = [at EXCEPT ![t] = NextLoc]
           /\ Goto(t, "em_index") /\ faults' = faults
  <2>1. NextLoc \in Locs /\ raw' \in Seq(Contents) /\ Resolves(raw', NextLoc, Content[cur[t]])
    BY <1>2, <1>4, NextLocResolves DEF Resolves
  <2>2. RawGrows /\ faults' \in Nat
    BY <1>2, <1>4 DEF RawGrows, TypeOK
  <2> QED BY <1>3, <1>4, <2>1, <2>2
<1>5. CASE Fault /\ at' = [at EXCEPT ![t] = Unrec] /\ Goto(t, "em_write") /\ raw' = raw
  <2>1. Unrec \in Locs /\ Resolves(raw', Unrec, Content[cur[t]])
    BY DEF Locs, Resolves
  <2>2. RawGrows /\ raw' \in Seq(Contents) /\ faults' \in Nat
    BY <1>5 DEF RawGrows, TypeOK, Fault
  <2> QED BY <1>3, <1>5, <2>1, <2>2
<1> QED BY <1>4, <1>5 DEF EmergencyAppend

\* _emergency_event indexes the location it has just got.
LEMMA EmergencyIndexOK ==
  ASSUME TypeOK, IInv, NEW t \in Threads, EmergencyIndex(t)
  PROVE  TypeOK' /\ IInv'
<1> DEFINE c == Content[cur[t]]
<1>1. /\ pc[t] = "em_index" /\ LocalsResolve(t) /\ ControlOK(t) /\ Goto(t, "em_write")
      /\ UNCHANGED <<raw, events, count, todo, past, raised, done, mode, batch, left, known, loc, dup, new,
                     rows, cur, seen>>
      /\ RawGrows
  BY DEF EmergencyIndex, IInv, RawGrows
<1>2. c \in Contents /\ at[t] \in Locs /\ Resolves(raw, at[t], c)
  BY <1>1, PipelineAssumption DEF ControlOK, Rescue, LocalsResolve, TypeOK
<1>3. ASSUME NEW l \in Locs, at' = [at EXCEPT ![t] = l], Resolves(raw, l, c), faults' \in Nat,
             IsPartial(index', Contents, Locs), Traceable'
      PROVE  TypeOK' /\ IInv'
  <2>1. TypeOK'
    BY <1>1, <1>3 DEF Goto, TypeOK, Steps
  <2>2. Frame(t)
    BY <1>1, <1>3 DEF Goto, Frame, TypeOK
  <2>3. LocalsResolve(t)'
    BY <1>1, <1>3 DEF Goto, TypeOK, LocalsResolve
  <2>4. ControlOK(t)'
    BY <1>1, <1>3 DEF Goto, TypeOK, ControlOK, Located, Rescue
  <2> QED BY <1>1, <1>3, <2>1, <2>2, <2>3, <2>4, ThreadStep
<1>4. CASE index' = Extend(index, Put(NoFn, c, at[t])) /\ UNCHANGED <<faults, at>>
  <2>1. IsPartial(index, Contents, Locs)
    BY DEF TypeOK
  <2>2. IsPartial(index', Contents, Locs)
    BY <1>2, <1>4, <2>1 DEF Extend, Put, NoFn, IsPartial
  <2>3. \A x \in DOMAIN index' :
          (x \in DOMAIN index /\ index'[x] = index[x]) \/ Resolves(raw', index'[x], x)
    BY <1>1, <1>2, <1>4 DEF Extend, Put, NoFn
  <2>4. Traceable'
    BY <1>1, <2>3, TraceableStep
  <2>5. at' = [at EXCEPT ![t] = at[t]] /\ faults' \in Nat
    BY <1>4 DEF TypeOK
  <2> QED BY <1>2, <1>3, <2>2, <2>4, <2>5
<1>5. CASE Fault /\ at' = [at EXCEPT ![t] = Unrec] /\ index' = index
  <2>1. Traceable'
    BY <1>1, <1>5, TraceableStep
  <2>2. IsPartial(index', Contents, Locs) /\ faults' \in Nat
    BY <1>5 DEF TypeOK, Fault
  <2> QED BY <1>3, <1>5, <2>1, <2>2 DEF Locs, Resolves
<1> QED BY <1>4, <1>5 DEF EmergencyIndex

\* The emergency event carries that location, or "unrecoverable".
LEMMA EmergencyWriteOK ==
  ASSUME TypeOK, IInv, NEW t \in Threads, EmergencyWrite(t)
  PROVE  TypeOK' /\ IInv'
<1>1. /\ pc[t] = "em_write" /\ LocalsResolve(t) /\ ControlOK(t) /\ cur[t] \in Envs
      /\ UNCHANGED <<raw, index, count, todo, past, raised>>
      /\ RawGrows
  BY DEF EmergencyWrite, IInv, RawGrows, ControlOK, Rescue
<1>2. /\ faults' \in Nat
      /\ events' \subseteq Event
      /\ \A ev \in events' \ events : Resolves(raw', ev.loc, Content[ev.env])
  <2> DEFINE ev == [env |-> cur[t], kind |-> "emergency", loc |-> at[t], dup |-> FALSE]
  <2>1. ev \in Event /\ Resolves(raw', ev.loc, Content[ev.env])
    BY <1>1 DEF TypeOK, Event, LocalsResolve
  <2>2. (events' = events \cup {ev} /\ faults' = faults) \/ (Fault /\ events' = events)
    BY DEF EmergencyWrite
  <2> HIDE DEF ev
  <2> QED BY <2>1, <2>2 DEF TypeOK, Fault
<1>3. Traceable'
  BY <1>1, <1>2, TraceableStep
<1>4. CASE Return(t)
  BY <1>1, <1>2, <1>3, <1>4, ReturnOK DEF TypeOK
<1>5. CASE /\ ~Single(t)
           /\ Goto(t, IF left[t] = {} THEN "write" ELSE "compute")
           /\ cur' = [cur EXCEPT ![t] = NoEnv]
           /\ at'  = [at EXCEPT ![t] = Unrec]
           /\ UNCHANGED <<done, mode, batch, left, known, loc, dup, new, rows, seen>>
  <2>1. TypeOK'
    BY <1>1, <1>2, <1>5 DEF Goto, TypeOK, Steps, Locs
  <2>2. Frame(t)
    BY <1>1, <1>5 DEF Goto, Frame, TypeOK
  <2>3. LocalsResolve(t)'
    BY <1>1, <1>5 DEF Goto, TypeOK, LocalsResolve
  <2>4. ControlOK(t)'
    BY <1>1, <1>5 DEF Goto, TypeOK, ControlOK, Located, Rescue, Single
  <2> QED BY <1>1, <1>3, <2>1, <2>2, <2>3, <2>4, ThreadStep
<1> QED BY <1>4, <1>5 DEF EmergencyWrite
-----------------------------------------------------------------------------
(***************************************************************************)
(* The writes                                                              *)
(***************************************************************************)
\* The event built for a row of t has the location found for its envelope.
LEMMA ParsedOK ==
  ASSUME TypeOK, IInv, NEW t \in Threads, NEW e \in rows[t]
  PROVE  Parsed(t, e) \in Event /\ Resolves(raw, Parsed(t, e).loc, Content[Parsed(t, e).env])
<1>1. e \in Envs /\ e \in DOMAIN loc[t] /\ loc[t][e] \in Locs /\ (e \in dup[t]) \in BOOLEAN
  BY DEF TypeOK, IInv, ControlOK, IsPartial
<1> QED BY <1>1 DEF Parsed, Event, IInv, LocalsResolve

\* The bulk write stores events whose locations resolve.
LEMMA WriteEventsOK ==
  ASSUME TypeOK, IInv, NEW t \in Threads, WriteEvents(t)
  PROVE  TypeOK' /\ IInv'
<1> USE DEF db
<1>1. /\ pc[t] = "write" /\ LocalsResolve(t) /\ ControlOK(t)
      /\ UNCHANGED <<raw, index, count, todo, past, raised, done, mode, batch, known, loc, dup, new, rows,
                     at, seen>>
      /\ RawGrows
  BY DEF WriteEvents, IInv, RawGrows
<1>2. ASSUME NEW L \in SUBSET (Envs \cup Tenants), left' = [left EXCEPT ![t] = L],
             NEW s \in {"sources", "fallback"}, Goto(t, s), cur' = cur, faults' \in Nat,
             s = "fallback" => L \subseteq rows[t], events' \subseteq Event,
             \A ev \in events' \ events : Resolves(raw', ev.loc, Content[ev.env])
      PROVE  TypeOK' /\ IInv'
  <2>1. TypeOK'
    BY <1>1, <1>2 DEF Goto, TypeOK, Steps
  <2>2. Frame(t)
    BY <1>1, <1>2 DEF Goto, Frame, TypeOK
  <2>3. Traceable'
    BY <1>1, <1>2, TraceableStep
  <2>4. LocalsResolve(t)'
    BY <1>1, <1>2 DEF Goto, TypeOK, LocalsResolve
  <2>5. ControlOK(t)'
    BY <1>1, <1>2 DEF Goto, TypeOK, ControlOK, Located, Rescue
  <2> QED BY <1>1, <2>1, <2>2, <2>3, <2>4, <2>5, ThreadStep
<1>3. CASE /\ events' = events \cup {Parsed(t, e) : e \in rows[t]}
           /\ Goto(t, "sources")
           /\ left' = [left EXCEPT ![t] = {TenantOf[e] : e \in rows[t]}]
           /\ UNCHANGED <<faults, cur>>
  <2>1. {TenantOf[e] : e \in rows[t]} \in SUBSET (Envs \cup Tenants) /\ faults' \in Nat
    BY <1>3, PipelineAssumption DEF TypeOK
  <2>2. /\ events' \subseteq Event
        /\ \A ev \in events' \ events : Resolves(raw', ev.loc, Content[ev.env])
    BY <1>1, <1>3, ParsedOK DEF TypeOK
  <2> QED BY <1>2, <1>3, <2>1, <2>2
<1>4. CASE /\ Fault /\ Goto(t, "fallback") /\ left' = [left EXCEPT ![t] = rows[t]]
           /\ UNCHANGED <<events, cur>>
  <2>1. rows[t] \in SUBSET (Envs \cup Tenants) /\ faults' \in Nat /\ events' \subseteq Event
    BY <1>4 DEF TypeOK, Fault
  <2> QED BY <1>2, <1>4, <2>1
<1>5. CASE /\ Fault /\ Single(t) /\ (\E e \in batch[t] : Emergency(t, e))
           /\ UNCHANGED <<events, left>>
  <2>1. /\ left' \in [Threads -> SUBSET (Envs \cup Tenants)]
        /\ \A u \in Threads \ {t} : left'[u] = left[u]
        /\ faults' \in Nat
    BY <1>5 DEF Fault, TypeOK
  <2>2. PICK e \in Envs : Emergency(t, e)
    BY <1>5 DEF TypeOK
  <2>3. UNCHANGED <<db, mode, batch, known, loc, dup, new, rows, at, seen, todo, past, raised, done>>
    BY <1>1, <1>5
  <2> QED BY <1>1, <1>5, <2>1, <2>2, <2>3, EmergencyControl
<1> QED BY <1>3, <1>4, <1>5 DEF WriteEvents

\* So does the per-event fallback.
LEMMA WriteOneOK ==
  ASSUME TypeOK, IInv, NEW t \in Threads, NEW e \in Envs, WriteOne(t, e)
  PROVE  TypeOK' /\ IInv'
<1> DEFINE T == {TenantOf[x] : x \in rows[t]}
<1>1. /\ pc[t] = "fallback" /\ e \in left[t] /\ LocalsResolve(t) /\ ControlOK(t)
      /\ left' = [left EXCEPT ![t] = IF left[t] = {e} THEN T ELSE @ \ {e}]
      /\ Goto(t, IF left[t] = {e} THEN "sources" ELSE "fallback")
      /\ UNCHANGED <<raw, index, count, todo, past, raised, done, mode, batch, known, loc, dup, new, rows,
                     cur, at, seen>>
      /\ RawGrows
  BY DEF WriteOne, IInv, RawGrows
<1>2. e \in rows[t] /\ T \subseteq Tenants
  BY <1>1, PipelineAssumption DEF ControlOK, TypeOK
<1>3. /\ faults' \in Nat /\ events' \subseteq Event
      /\ \A ev \in events' \ events : Resolves(raw', ev.loc, Content[ev.env])
  BY <1>1, <1>2, ParsedOK DEF WriteOne, TypeOK, Fault
<1> HIDE DEF T
<1>4. TypeOK'
  BY <1>1, <1>2, <1>3 DEF Goto, TypeOK, Steps
<1>5. Frame(t)
  BY <1>1 DEF Goto, Frame, TypeOK
<1>6. Traceable'
  BY <1>1, <1>3, TraceableStep
<1>7. LocalsResolve(t)'
  BY <1>1 DEF Goto, TypeOK, LocalsResolve
<1>8. ControlOK(t)'
  BY <1>1 DEF Goto, TypeOK, ControlOK, Located, Rescue
<1> QED BY <1>1, <1>4, <1>5, <1>6, <1>7, <1>8, ThreadStep

\* The bulk update of the sources leaves events and locations alone.
LEMMA UpsertSourcesOK ==
  ASSUME TypeOK, IInv, NEW t \in Threads, NEW n \in Tenants, UpsertSources(t, n)
  PROVE  TypeOK' /\ IInv'
<1> DEFINE Inc(s) == {e \in rows[t] : SourceOf[e] = s /\ TenantOf[e] = n}
<1>1. /\ pc[t] = "sources" /\ LocalsResolve(t) /\ ControlOK(t)
      /\ left' = [left EXCEPT ![t] = @ \ {n}]
      /\ UNCHANGED <<raw, index, events, todo, past, raised, done, pc, mode, batch, known, loc, dup, new, rows,
                     cur, at, seen>>
      /\ RawGrows
  BY DEF UpsertSources, IInv, RawGrows
<1>2. \A s \in Sources : Cardinality(Inc(s)) \in Nat
  <2>1. \A s \in Sources : IsFiniteSet(Inc(s))
    BY PipelineAssumption, FS_Subset DEF TypeOK
  <2> QED BY <2>1, FS_CardinalityType
<1>3. count' \in [Sources -> Nat] /\ faults' \in Nat
  <2>1. CASE count' = [s \in Sources |-> count[s] + Cardinality(Inc(s))] /\ faults' = faults
    <3> HIDE DEF Inc
    <3> QED BY <1>2, <2>1 DEF TypeOK
  <2>2. CASE Fault /\ count' = count
    BY <2>2 DEF TypeOK, Fault
  <2> QED BY <2>1, <2>2 DEF UpsertSources
<1>4. TypeOK'
  BY <1>1, <1>3 DEF TypeOK
<1>5. Frame(t)
  BY <1>1 DEF Frame, TypeOK
<1>6. Traceable'
  BY <1>1, TraceableStep
<1>7. LocalsResolve(t)' /\ ControlOK(t)'
  BY <1>1 DEF TypeOK, LocalsResolve, ControlOK, Located, Rescue
<1> QED BY <1>1, <1>4, <1>5, <1>6, <1>7, ThreadStep

\* So does reading a source's count.
LEMMA ReadCountOK ==
  ASSUME TypeOK, IInv, NEW t \in Threads, ReadCount(t)
  PROVE  TypeOK' /\ IInv'
<1> USE DEF db
<1>1. /\ pc[t] = "sources" /\ Single(t) /\ LocalsResolve(t) /\ ControlOK(t)
      /\ UNCHANGED <<db, todo, past, raised, done, mode, batch, left, known, loc, dup, new, rows, at>>
      /\ RawGrows
  BY DEF ReadCount, IInv, RawGrows
<1>2. Traceable'
  BY <1>1, TraceableStep
<1>3. CASE /\ seen' = [seen EXCEPT ![t] = count[SourceOf[CHOOSE e \in batch[t] : TRUE]]]
           /\ Goto(t, "upsert")
           /\ UNCHANGED <<faults, cur>>
  <2>1. batch[t] # {} /\ batch[t] \subseteq Envs
    BY <1>1 DEF ControlOK, TypeOK
  <2>2. SourceOf[CHOOSE e \in batch[t] : TRUE] \in Sources
    BY <2>1, PipelineAssumption
  <2>3. TypeOK'
    BY <1>1, <1>3, <2>2 DEF Goto, TypeOK, Steps
  <2>4. Frame(t)
    BY <1>1, <1>3 DEF Goto, Frame, TypeOK
  <2>5. LocalsResolve(t)' /\ ControlOK(t)'
    BY <1>1, <1>3 DEF Goto, TypeOK, LocalsResolve, ControlOK, Located, Rescue, Single
  <2> QED BY <1>1, <1>2, <2>3, <2>4, <2>5, ThreadStep
<1>4. CASE Fault /\ (\E e \in batch[t] : Emergency(t, e)) /\ seen' = seen
  <2>1. /\ left' \in [Threads -> SUBSET (Envs \cup Tenants)]
        /\ \A u \in Threads \ {t} : left'[u] = left[u]
        /\ faults' \in Nat
    BY <1>1, <1>4 DEF Fault, TypeOK
  <2>2. PICK e \in Envs : Emergency(t, e)
    BY <1>4 DEF TypeOK
  <2>3. UNCHANGED <<db, mode, batch, known, loc, dup, new, rows, at, seen, todo, past, raised, done>>
    BY <1>1, <1>4
  <2> QED BY <1>1, <1>4, <2>1, <2>2, <2>3, EmergencyControl
<1> QED BY <1>3, <1>4 DEF ReadCount

\* So does writing it back.
LEMMA WriteCountOK ==
  ASSUME TypeOK, IInv, NEW t \in Threads, WriteCount(t)
  PROVE  TypeOK' /\ IInv'
<1> USE DEF db
<1>1. /\ pc[t] = "upsert" /\ LocalsResolve(t) /\ ControlOK(t)
      /\ UNCHANGED <<raw, index, events, todo, past, raised>>
      /\ RawGrows
  BY DEF WriteCount, IInv, RawGrows
<1>2. Traceable'
  BY <1>1, TraceableStep
<1>3. PICK e \in Envs :
        \/ /\ count' = [count EXCEPT ![SourceOf[e]] = seen[t] + 1]
           /\ Return(t)
           /\ UNCHANGED faults
        \/ /\ Fault
           /\ Emergency(t, e)
           /\ UNCHANGED <<count, done, mode, batch, left, known, loc, dup, new, rows, at, seen>>
  BY DEF WriteCount, TypeOK
<1>4. CASE count' = [count EXCEPT ![SourceOf[e]] = seen[t] + 1] /\ Return(t) /\ UNCHANGED faults
  <2>1. count' \in [Sources -> Nat] /\ faults' \in Nat
    BY <1>4, PipelineAssumption DEF TypeOK
  <2> QED BY <1>1, <1>2, <1>4, <2>1, ReturnOK DEF TypeOK
<1>5. CASE /\ Fault /\ Emergency(t, e)
           /\ UNCHANGED <<count, done, mode, batch, left, known, loc, dup, new, rows, at, seen>>
  <2>1. TypeOK'
    BY <1>1, <1>5 DEF Emergency, Goto, Fault, TypeOK, Steps
  <2>2. Frame(t)
    BY <1>5 DEF Emergency, Goto, Frame, TypeOK
  <2>3. LocalsResolve(t)'
    BY <1>1, <1>5 DEF Emergency, Goto, TypeOK, LocalsResolve
  <2>4. ControlOK(t)'
    BY <1>1, <1>5 DEF Emergency, Goto, TypeOK, ControlOK, Located, Rescue
  <2> QED BY <1>1, <1>2, <2>1, <2>2, <2>3, <2>4, ThreadStep
<1> QED BY <1>3, <1>4, <1>5

\* The last step of a batch, and an exception that leaves the call.
LEMMA LeaveOK ==
  ASSUME TypeOK, IInv, NEW t \in Threads, Finish(t) \/ EmergencyRaises(t)
  PROVE  TypeOK' /\ IInv'
<1>1. Return(t) /\ UNCHANGED <<raw, index, events, count, todo, past>> /\ faults' \in Nat
      /\ raised' \subseteq SUBSET Envs
  <2>1. Return(t) /\ UNCHANGED <<raw, index, events, count, todo, past>> /\ (Fault \/ faults' = faults)
        /\ (raised' = raised \/ raised' = raised \cup {batch[t]})
    BY DEF Finish, EmergencyRaises, db
  <2>2. batch[t] \in SUBSET Envs /\ raised \in SUBSET (SUBSET Envs) /\ faults \in Nat
    BY DEF TypeOK
  <2> QED BY <2>1, <2>2 DEF Fault
<1>2. RawGrows
  BY <1>1 DEF RawGrows
<1>3. Traceable'
  BY <1>1, <1>2, TraceableStep
<1> QED BY <1>1, <1>2, <1>3, ReturnOK DEF TypeOK

\* The invariant is one on vars.
LEMMA StutterOK == TypeOK /\ IInv /\ UNCHANGED vars => TypeOK' /\ IInv'
BY DEF vars, db, locals, TypeOK, IInv, Traceable, LocalsResolve, ControlOK
-----------------------------------------------------------------------------
\* Every step of every thread preserves TypeOK and the invariant.
LEMMA Step == TypeOK /\ IInv /\ [Next]_vars => TypeOK' /\ IInv'
<1> SUFFICES ASSUME TypeOK, IInv, [Next]_vars PROVE TypeOK' /\ IInv'
  OBVIOUS
<1>1. ASSUME NEW t \in Threads, NEW m \in {"batch", "single"}, NEW b \in SUBSET todo, Start(t, m, b)
      PROVE  TypeOK' /\ IInv'
  BY <1>1, StartOK
<1>2. ASSUME NEW t \in Threads, NEW n \in Tenants, Lookup(t, n) \/ UpsertSources(t, n)
      PROVE  TypeOK' /\ IInv'
  BY <1>2, LookupOK, UpsertSourcesOK
<1>3. ASSUME NEW t \in Threads, NEW e \in Envs, AppendRaw(t, e) \/ Compute(t, e) \/ WriteOne(t, e)
      PROVE  TypeOK' /\ IInv'
  BY <1>3, AppendRawOK, ComputeOK, WriteOneOK
<1>4. ASSUME NEW t \in Threads, IndexRaw(t) \/ WriteEvents(t) PROVE TypeOK' /\ IInv'
  BY <1>4, IndexRawOK, WriteEventsOK
<1>5. ASSUME NEW t \in Threads,
             EmergencyAppend(t) \/ EmergencyIndex(t) \/ EmergencyWrite(t) \/ EmergencyRaises(t)
      PROVE  TypeOK' /\ IInv'
  BY <1>5, EmergencyAppendOK, EmergencyIndexOK, EmergencyWriteOK, LeaveOK
<1>6. ASSUME NEW t \in Threads, ReadCount(t) \/ WriteCount(t) \/ Finish(t)
      PROVE  TypeOK' /\ IInv'
  BY <1>6, ReadCountOK, WriteCountOK, LeaveOK
<1>7. CASE UNCHANGED vars
  BY <1>7, StutterOK
<1> QED BY <1>1, <1>2, <1>3, <1>4, <1>5, <1>6, <1>7 DEF Next

\* TypeOK and the invariant on locals and control hold in every state.
THEOREM Inductive == Spec => [](TypeOK /\ IInv)
BY InitOK, Step, PTL DEF Spec

\* Every variable of process and process_batch keeps its type.
THEOREM TypeCorrect == Spec => []TypeOK
BY Inductive, PTL

\* Provenance: whichever calls fail, and however any number of threads
\* interleave, every event and every raw_index row leads to the bytes of its
\* own payload or says that they are unrecoverable.
THEOREM AlwaysTraceable == Spec => []Traceable
<1>1. TypeOK /\ IInv => Traceable
  BY DEF IInv
<1> QED BY <1>1, Inductive, PTL
-----------------------------------------------------------------------------
(***************************************************************************)
(* One event per arrival, and none lost to one failing call.               *)
(*                                                                         *)
(* An arrival belongs to one thread at a time, and the place the call has  *)
(* come to says which arrivals of its batch it will still write an event   *)
(* for: these have none yet, and the others have theirs unless two calls   *)
(* failed.                                                                 *)
(***************************************************************************)
\* Arrival e has an event.
Written(e) == \E ev \in events : ev.env = e

\* The arrivals of its batch that t has still to write an event for.
Pending(t) ==
  {e \in batch[t] :
     \/ pc[t] \in {"lookup", "append", "index"}
     \/ pc[t] \in {"compute"} \cup Rescue /\ e \in left[t] \cup rows[t]
     \/ pc[t] \in Rescue /\ e = cur[t]
     \/ pc[t] = "write" /\ e \in rows[t]
     \/ pc[t] = "fallback" /\ e \in left[t]}

\* How far the call of t has come with its batch.
BatchOK(t) ==
  /\ \A e \in batch[t] : Entry[e] = mode[t]
  /\ pc[t] = "idle" => batch[t] = {}
  /\ mode[t] = "single" /\ pc[t] # "idle" => \E e \in Envs : batch[t] = {e}
  /\ rows[t] \subseteq batch[t]
  /\ pc[t] \in {"lookup", "append", "index"} => rows[t] = {}
  /\ pc[t] = "append" => left[t] \subseteq batch[t]
  /\ pc[t] = "index" => left[t] = batch[t]
  /\ pc[t] = "compute" \/ (pc[t] \in Rescue /\ mode[t] = "batch") => left[t] \cap rows[t] = {}
  /\ pc[t] \in Rescue => cur[t] \in batch[t] /\ faults > 0
  /\ pc[t] \in Rescue /\ mode[t] = "batch" => cur[t] \notin left[t] \cup rows[t]
  /\ pc[t] = "fallback" => faults > 0 /\ mode[t] = "batch"

\* What it still owes is not written, and what it does not owe is.
EventsOK(t) ==
  /\ faults = 0 \/ mode[t] = "batch" => \A e \in Pending(t) : ~Written(e)
  /\ faults <= 1 => \A e \in batch[t] : Written(e) \/ e \in Pending(t)

\* An arrival is with one thread, or waiting, or done.
OwnerOK ==
  /\ \A t, u \in Threads : t # u => batch[t] \cap batch[u] = {}
  /\ \A t \in Threads : batch[t] \cap (todo \cup done) = {}
  /\ todo \cap done = {}
  /\ \A e \in todo : ~Written(e)

EInv ==
  /\ OneEventPerArrival /\ OneFaultLosesNothing /\ OwnerOK
  /\ \A t \in Threads : BatchOK(t) /\ EventsOK(t)

LEMMA EInitOK == Init => EInv
<1> SUFFICES ASSUME Init PROVE EInv
  OBVIOUS
<1>1. OneEventPerArrival /\ OneFaultLosesNothing /\ OwnerOK
  BY DEF Init, OneEventPerArrival, OneFaultLosesNothing, OwnerOK, Written
<1>2. \A t \in Threads : BatchOK(t) /\ EventsOK(t)
  BY DEF Init, BatchOK, EventsOK, Pending, Rescue
<1> QED BY <1>1, <1>2 DEF EInv

\* New events of one thread keep OneEventPerArrival when none of them is for
\* an arrival that has one and no two of them are for one arrival.
LEMMA UniqueStep ==
  ASSUME TypeOK, EInv, NEW t \in Threads, faults' \in Nat, faults <= faults',
         NEW N, events' = events \cup N,
         \A a \in N : a.env \in batch[t],
         \A a, b \in N : a.env = b.env => a = b,
         faults' = 0 \/ mode[t] = "batch" => \A a \in N : ~Written(a.env)
  PROVE  OneEventPerArrival'
<1>1. \A a \in N : Entry[a.env] = mode[t]
  BY DEF EInv, BatchOK
<1>2. \A a \in N, b \in events : a.env = b.env => ~(faults' = 0 \/ Entry[a.env] = "batch")
  BY <1>1 DEF Written
<1>3. faults' = 0 => faults = 0
  BY DEF TypeOK
<1> QED BY <1>2, <1>3 DEF OneEventPerArrival, EInv

\* A step of t inside its call keeps EInv if it does so for t itself.
LEMMA InnerStep ==
  ASSUME TypeOK, EInv, NEW t \in Threads, Frame(t), UNCHANGED <<todo, past, raised, done, batch>>,
         faults' \in Nat, faults <= faults', events \subseteq events',
         \A ev \in events' \ events : ev.env \in batch[t],
         OneEventPerArrival', BatchOK(t)', EventsOK(t)'
  PROVE  EInv'
<1>1. \A e : Written(e) => Written(e)'
  BY DEF Written
<1>2. \A e : e \notin batch[t] => (Written(e)' <=> Written(e))
  BY DEF Written
<1>3. faults \in Nat /\ (faults' <= 1 => faults <= 1) /\ (faults' = 0 => faults = 0)
      /\ (faults > 0 => faults' > 0)
  BY DEF TypeOK
<1>4. ASSUME NEW u \in Threads \ {t} PROVE BatchOK(u)' /\ EventsOK(u)'
  <2>1. BatchOK(u) /\ EventsOK(u) /\ batch[u] \cap batch[t] = {}
    BY DEF EInv, OwnerOK
  <2>2. BatchOK(u)'
    BY <1>3, <2>1 DEF Frame, BatchOK
  <2>3. Pending(u)' = Pending(u) /\ Pending(u) \subseteq batch[u]
    BY DEF Pending, Frame
  <2>4. \A e \in batch[u] : Written(e)' <=> Written(e)
    BY <1>2, <2>1
  <2>5. EventsOK(u)'
    BY <1>3, <2>1, <2>3, <2>4 DEF EventsOK, Frame
  <2> QED BY <2>2, <2>5
<1>5. OwnerOK'
  BY <1>2 DEF EInv, OwnerOK
<1>6. OneFaultLosesNothing'
  BY <1>1, <1>3 DEF EInv, OneFaultLosesNothing, Written
<1> QED BY <1>4, <1>5, <1>6 DEF EInv

\* So does one that writes no event and leaves what t owes as it is.
LEMMA QuietStep ==
  ASSUME TypeOK, EInv, NEW t \in Threads, Frame(t), UNCHANGED <<events, todo, past, raised, done, batch, mode>>,
         faults' \in Nat, faults <= faults', BatchOK(t)',
         faults' = 0 \/ mode[t] = "batch" => Pending(t)' \subseteq Pending(t),
         faults' <= 1 => Pending(t) \subseteq Pending(t)'
  PROVE  EInv'
<1>1. \A e : Written(e)' <=> Written(e)
  BY DEF Written
<1>2. faults \in Nat /\ (faults' <= 1 => faults <= 1) /\ (faults' = 0 => faults = 0)
  BY DEF TypeOK
<1>3. EventsOK(t)'
  BY <1>1, <1>2 DEF EInv, EventsOK
<1>4. OneEventPerArrival'
  BY <1>2 DEF EInv, OneEventPerArrival
<1> QED BY <1>3, <1>4, InnerStep

\* A call returns: every arrival of the batch has its event by then, unless
\* two calls failed.
LEMMA ReturnStep ==
  ASSUME TypeOK, EInv, NEW t \in Threads, Return(t), UNCHANGED todo, raised \subseteq raised',
         faults' \in Nat, faults <= faults', events \subseteq events',
         \A ev \in events' \ events : ev.env \in batch[t],
         OneEventPerArrival', faults' <= 1 => \A e \in batch[t] : Written(e)'
  PROVE  EInv'
<1>1. \A e : Written(e) => Written(e)'
  BY DEF Written
<1>2. \A e : e \notin batch[t] => (Written(e)' <=> Written(e))
  BY DEF Written
<1>3. faults \in Nat /\ (faults' <= 1 => faults <= 1) /\ (faults' = 0 => faults = 0)
      /\ (faults > 0 => faults' > 0)
  BY DEF TypeOK
<1>4. /\ pc'[t] = "idle" /\ batch'[t] = {} /\ rows'[t] = {} /\ done' = done \cup batch[t]
      /\ Frame(t)
  BY DEF Return, Goto, Frame, TypeOK
<1>5. ASSUME NEW u \in Threads \ {t} PROVE BatchOK(u)' /\ EventsOK(u)'
  <2>1. BatchOK(u) /\ EventsOK(u) /\ batch[u] \cap batch[t] = {}
    BY DEF EInv, OwnerOK
  <2>2. BatchOK(u)'
    BY <1>3, <1>4, <2>1 DEF Frame, BatchOK
  <2>3. Pending(u)' = Pending(u) /\ Pending(u) \subseteq batch[u] /\ batch'[u] = batch[u]
        /\ mode'[u] = mode[u]
    BY <1>4 DEF Pending, Frame
  <2>4. \A e \in batch[u] : Written(e)' <=> Written(e)
    BY <1>2, <2>1
  <2>5. EventsOK(u)'
    BY <1>3, <2>1, <2>3, <2>4 DEF EventsOK
  <2> QED BY <2>2, <2>5
<1>6. BatchOK(t)' /\ EventsOK(t)'
  BY <1>4 DEF BatchOK, EventsOK, Pending, Rescue
<1>7. OwnerOK'
  BY <1>2, <1>4 DEF EInv, OwnerOK, Frame
<1>8. OneFaultLosesNothing'
  <2>1. ASSUME faults' <= 1, NEW e \in done'
        PROVE  Written(e)' \/ \E b \in raised : e \in b /\ b \cap Undecodable # {}
    BY <1>1, <1>3, <1>4, <2>1 DEF EInv, OneFaultLosesNothing, Written
  <2> QED BY <2>1 DEF OneFaultLosesNothing, Written
<1> QED BY <1>5, <1>6, <1>7, <1>8 DEF EInv

\* An exception of process outside _emergency_event: its one arrival is the
\* one the emergency event is for.
LEMMA EmergencyStep ==
  ASSUME TypeOK, EInv, NEW t \in Threads, NEW e \in batch[t], Emergency(t, e), Single(t), Fault,
         Frame(t), UNCHANGED <<events, todo, past, raised, done, batch, mode, rows>>
  PROVE  EInv'
<1>1. faults \in Nat /\ faults' \in Nat /\ faults <= faults' /\ faults' > 0
  BY DEF TypeOK, Fault
<1>2. pc'[t] = "em_append" /\ cur'[t] = e /\ mode[t] = "single" /\ BatchOK(t)
  BY DEF Emergency, Goto, Single, TypeOK, EInv
<1>3. batch[t] = {e}
  BY <1>2 DEF BatchOK
<1>4. BatchOK(t)'
  BY <1>1, <1>2, <1>3 DEF BatchOK, Rescue
<1>5. Pending(t)' = {e} /\ Pending(t) \subseteq {e}
  BY <1>2, <1>3 DEF Pending, Rescue
<1> QED BY <1>1, <1>2, <1>4, <1>5, QuietStep
-----------------------------------------------------------------------------
\* A thread takes arrivals that are waiting, and owes an event for each, unless
\* payload() ends the call.
LEMMA StartEvents ==
  ASSUME TypeOK, EInv, NEW t \in Threads, NEW m \in {"batch", "single"}, NEW b \in SUBSET todo,
         Start(t, m, b)
  PROVE  EInv'
<1> USE DEF db
<1>1. /\ pc[t] = "idle" /\ b # {} /\ (\A e \in b : Entry[e] = m) /\ todo' = todo \ b
      /\ UNCHANGED <<events, faults, rows, cur>>
  BY DEF Start
<1>2. \A e : Written(e)' <=> Written(e)
  BY <1>1 DEF Written
<1>3. CASE b \cap Undecodable # {}
  <2>1. done' = done \cup b /\ raised' = raised \cup {b} /\ UNCHANGED <<pc, mode, batch, left>>
    BY <1>3 DEF Start
  <2>2. \A u \in Threads : Pending(u)' = Pending(u)
    BY <1>1, <2>1 DEF Pending
  <2>3. \A u \in Threads : BatchOK(u)' /\ EventsOK(u)'
    BY <1>1, <1>2, <2>1, <2>2 DEF EInv, BatchOK, EventsOK
  <2>4. OwnerOK'
    BY <1>1, <1>2, <2>1 DEF EInv, OwnerOK
  <2>5. OneEventPerArrival' /\ OneFaultLosesNothing'
    BY <1>1, <1>3, <2>1 DEF EInv, OneEventPerArrival, OneFaultLosesNothing
  <2> QED BY <2>3, <2>4, <2>5 DEF EInv
<1>4. CASE b \cap Undecodable = {}
  <2>1. /\ UNCHANGED <<done, raised>>
        /\ mode'[t] = m /\ batch'[t] = b /\ pc'[t] = "lookup"
        /\ \A u \in Threads \ {t} :
             pc'[u] = pc[u] /\ mode'[u] = mode[u] /\ batch'[u] = batch[u] /\ left'[u] = left[u]
    BY <1>4 DEF Start, Goto, TypeOK
  <2>2. m = "single" => \E e \in Envs : b = {e}
    <3>1. m = "single" => Cardinality(b) = 1 /\ IsFiniteSet(b)
      BY PipelineAssumption, FS_Subset DEF Start, TypeOK
    <3>2. m = "single" => \E e : b = {e}
      BY <3>1, FS_Singleton
    <3> QED BY <3>2 DEF TypeOK
  <2>3. batch[t] = {} /\ rows[t] = {}
    BY <1>1 DEF EInv, BatchOK
  <2>4. BatchOK(t)'
    BY <1>1, <2>1, <2>2, <2>3 DEF BatchOK, Rescue
  <2>5. EventsOK(t)'
    <3>1. Pending(t)' = b
      BY <2>1 DEF Pending
    <3> QED BY <1>1, <1>2, <2>1, <3>1 DEF EventsOK, EInv, OwnerOK
  <2>6. ASSUME NEW u \in Threads \ {t} PROVE BatchOK(u)' /\ EventsOK(u)'
    <3>1. Pending(u)' = Pending(u)
      BY <1>1, <2>1 DEF Pending
    <3> QED BY <1>1, <1>2, <2>1, <3>1 DEF EInv, BatchOK, EventsOK
  <2>7. OwnerOK'
    <3>1. ASSUME NEW u \in Threads, NEW v \in Threads, u # v PROVE batch'[u] \cap batch'[v] = {}
      BY <1>1, <2>1, <3>1 DEF EInv, OwnerOK
    <3>2. \A u \in Threads : batch'[u] \cap (todo' \cup done') = {}
      BY <1>1, <2>1 DEF EInv, OwnerOK
    <3> QED BY <1>1, <1>2, <2>1, <3>1, <3>2 DEF EInv, OwnerOK
  <2>8. OneEventPerArrival' /\ OneFaultLosesNothing'
    BY <1>1, <2>1 DEF EInv, OneEventPerArrival, OneFaultLosesNothing
  <2> QED BY <2>4, <2>5, <2>6, <2>7, <2>8 DEF EInv
<1> QED BY <1>3, <1>4

\* Looking up and appending write no event.
LEMMA LookupEvents ==
  ASSUME TypeOK, IInv, EInv, NEW t \in Threads, NEW n \in Tenants, Lookup(t, n)
  PROVE  EInv'
<1> USE DEF db
<1>1. /\ pc[t] = "lookup" /\ BatchOK(t) /\ UNCHANGED <<events, todo, past, raised, done, batch, mode, rows>>
      /\ Frame(t)
  BY DEF Lookup, Emergency, Goto, Frame, TypeOK, EInv
<1>2. CASE /\ Goto(t, IF left[t] = {n} THEN "append" ELSE "lookup")
           /\ left'  = [left EXCEPT ![t] = IF left[t] = {n} THEN batch[t] ELSE @ \ {n}]
           /\ Fault \/ faults' = faults
  <2>1. faults' \in Nat /\ faults <= faults'
    BY <1>2 DEF TypeOK, Fault
  <2>2. pc'[t] = "lookup" \/ (pc'[t] = "append" /\ left'[t] = batch[t])
    BY <1>2 DEF Goto, TypeOK
  <2>3. BatchOK(t)' /\ Pending(t)' = Pending(t)
    BY <1>1, <2>2 DEF BatchOK, Pending, Rescue
  <2> QED BY <1>1, <2>1, <2>3, QuietStep
<1>3. CASE Fault /\ Single(t) /\ \E e \in batch[t] : Emergency(t, e)
  BY <1>1, <1>3, EmergencyStep
<1> QED BY <1>2, <1>3 DEF Lookup

LEMMA AppendRawEvents ==
  ASSUME TypeOK, IInv, EInv, NEW t \in Threads, NEW e \in Envs, AppendRaw(t, e)
  PROVE  EInv'
<1>1. /\ pc[t] = "append" /\ e \in left[t] /\ BatchOK(t)
      /\ UNCHANGED <<events, todo, past, raised, done, batch, mode, rows>>
      /\ left'[t] = IF left[t] = {e} THEN batch[t] ELSE left[t] \ {e}
      /\ Frame(t)
  BY DEF AppendRaw, Emergency, Goto, Frame, TypeOK, EInv
<1>2. CASE Goto(t, AfterAppend(t, e)) /\ (Fault \/ faults' = faults)
  <2>1. faults' \in Nat /\ faults <= faults'
    BY <1>2 DEF TypeOK, Fault
  <2>2. \/ pc'[t] = "append"
        \/ left[t] = {e} /\ pc'[t] \in {"index", "compute"}
    BY <1>2 DEF Goto, AfterAppend, TypeOK
  <2>3. Pending(t) = batch[t] /\ Pending(t)' = batch[t]
    BY <1>1, <2>2 DEF Pending
  <2>4. BatchOK(t)'
    BY <1>1, <2>2 DEF BatchOK, Rescue
  <2> QED BY <1>1, <2>1, <2>3, <2>4, QuietStep
<1>3. CASE Fault /\ Single(t) /\ Emergency(t, e)
  <2>1. e \in batch[t]
    BY <1>1 DEF BatchOK
  <2> QED BY <1>1, <1>3, <2>1, EmergencyStep
<1> QED BY <1>2, <1>3 DEF AppendRaw

LEMMA IndexRawEvents ==
  ASSUME TypeOK, IInv, EInv, NEW t \in Threads, IndexRaw(t)
  PROVE  EInv'
<1>1. /\ pc[t] = "index" /\ BatchOK(t) /\ UNCHANGED <<events, todo, past, raised, done, batch, mode, rows, left>>
      /\ Frame(t)
  BY DEF IndexRaw, Emergency, Goto, Frame, TypeOK, EInv
<1>2. CASE Goto(t, "compute") /\ (Fault \/ faults' = faults)
  <2>1. faults' \in Nat /\ faults <= faults' /\ pc'[t] = "compute"
    BY <1>2 DEF TypeOK, Fault, Goto
  <2>2. Pending(t) = batch[t] /\ Pending(t)' = batch[t]
    BY <1>1, <2>1 DEF Pending, BatchOK
  <2>3. BatchOK(t)'
    BY <1>1, <2>1 DEF BatchOK, Rescue
  <2> QED BY <1>1, <2>1, <2>2, <2>3, QuietStep
<1>3. CASE Fault /\ Single(t) /\ \E e \in batch[t] : Emergency(t, e)
  BY <1>1, <1>3, EmergencyStep
<1> QED BY <1>2, <1>3 DEF IndexRaw

\* An arrival computed moves from what is left to the rows, or is the one of
\* the emergency event.
LEMMA ComputeEvents ==
  ASSUME TypeOK, IInv, EInv, NEW t \in Threads, NEW e \in Envs, Compute(t, e)
  PROVE  EInv'
<1> USE DEF db
<1>1. /\ pc[t] = "compute" /\ e \in left[t] /\ BatchOK(t)
      /\ UNCHANGED <<events, todo, past, raised, done, batch, mode>>
      /\ left'[t] = left[t] \ {e} /\ left[t] \subseteq batch[t]
      /\ Frame(t)
  BY DEF Compute, Emergency, Goto, Frame, TypeOK, EInv, IInv, ControlOK
<1>2. CASE /\ rows' = [rows EXCEPT ![t] = rows[t] \cup {e}]
           /\ Goto(t, IF left[t] = {e} THEN "write" ELSE "compute")
           /\ faults' = faults
  <2>1. /\ faults' \in Nat /\ faults <= faults' /\ rows'[t] = rows[t] \cup {e}
        /\ pc'[t] = IF left[t] = {e} THEN "write" ELSE "compute"
    BY <1>2 DEF TypeOK, Goto
  <2>2. Pending(t) = left[t] \cup rows[t] /\ Pending(t)' = left[t] \cup rows[t]
    BY <1>1, <2>1 DEF Pending, BatchOK, Rescue
  <2>3. BatchOK(t)'
    BY <1>1, <2>1 DEF BatchOK, Rescue
  <2> QED BY <1>1, <2>1, <2>2, <2>3, QuietStep
<1>3. CASE Fault /\ Emergency(t, e) /\ rows' = rows
  <2>1. /\ faults' \in Nat /\ faults <= faults' /\ faults' > 0
        /\ pc'[t] = "em_append" /\ cur'[t] = e
    BY <1>3 DEF TypeOK, Fault, Emergency, Goto
  <2>2. Pending(t) = left[t] \cup rows[t] /\ Pending(t)' = left[t] \cup rows[t]
    BY <1>1, <1>3, <2>1 DEF Pending, BatchOK, Rescue
  <2>3. BatchOK(t)'
    BY <1>1, <1>3, <2>1 DEF BatchOK, Rescue
  <2> QED BY <1>1, <2>1, <2>2, <2>3, QuietStep
<1> QED BY <1>2, <1>3 DEF Compute

\* Appending and indexing again write no event.
LEMMA RescueEvents ==
  ASSUME TypeOK, IInv, EInv, NEW t \in Threads, EmergencyAppend(t) \/ EmergencyIndex(t)
  PROVE  EInv'
<1>1. /\ pc[t] \in {"em_append", "em_index"} /\ pc'[t] \in {"em_index", "em_write"} /\ BatchOK(t)
      /\ UNCHANGED <<events, todo, past, raised, done, batch, mode, rows, left, cur>>
      /\ Frame(t) /\ (Fault \/ faults' = faults)
  BY DEF EmergencyAppend, EmergencyIndex, Goto, Frame, TypeOK, EInv
<1>2. faults' \in Nat /\ faults <= faults'
  BY <1>1 DEF TypeOK, Fault
<1>3. Pending(t)' = Pending(t)
  BY <1>1 DEF Pending, Rescue
<1>4. BatchOK(t)'
  BY <1>1, <1>2 DEF BatchOK, Rescue, TypeOK
<1> QED BY <1>1, <1>2, <1>3, <1>4, QuietStep

\* The emergency event is the first and only one of its arrival.
LEMMA EmergencyWriteEvents ==
  ASSUME TypeOK, IInv, EInv, NEW t \in Threads, EmergencyWrite(t)
  PROVE  EInv'
<1> DEFINE ev == [env |-> cur[t], kind |-> "emergency", loc |-> at[t], dup |-> FALSE]
<1>1. /\ pc[t] = "em_write" /\ BatchOK(t) /\ EventsOK(t) /\ UNCHANGED <<todo, past, raised>>
      /\ cur[t] \in batch[t] /\ faults \in Nat /\ faults > 0
      /\ mode[t] = "batch" => left[t] \subseteq batch[t]
  BY DEF EmergencyWrite, EInv, BatchOK, Rescue, TypeOK, IInv, ControlOK
<1>2. \/ events' = events \cup {ev} /\ faults' = faults
      \/ events' = events /\ faults' = faults + 1
  BY DEF EmergencyWrite, Fault
<1>3. faults' \in Nat /\ faults <= faults' /\ faults' > 0 /\ ev.env = cur[t]
  BY <1>1, <1>2
<1>4. PICK c \in batch[t] : c = cur[t]
  BY <1>1
<1>5. mode[t] = "batch" => ~Written(c)
  BY <1>1, <1>4 DEF EventsOK, Pending, Rescue
<1> HIDE DEF ev
<1>6. /\ events \subseteq events' /\ \A x \in events' \ events : x.env \in batch[t]
      /\ OneEventPerArrival'
  <2> DEFINE N == events' \ events
  <2>1. events' = events \cup N /\ \A x \in N : x = ev
    BY <1>2
  <2> HIDE DEF N
  <2>2. (\A x \in N : x.env \in batch[t]) /\ \A x, y \in N : x.env = y.env => x = y
    BY <1>1, <1>3, <2>1
  <2>3. faults' = 0 \/ mode[t] = "batch" => \A x \in N : ~Written(x.env)
    BY <1>3, <1>4, <1>5, <2>1
  <2>4. OneEventPerArrival'
    BY <1>3, <2>1, <2>2, <2>3, UniqueStep
  <2> QED BY <2>1, <2>2, <2>4 DEF N
<1>7. faults' <= 1 => Written(c)' /\ \A e : Written(e) => Written(e)'
  BY <1>1, <1>2, <1>3, <1>4 DEF Written
<1>8. CASE Single(t) /\ Return(t)
  <2>1. batch[t] = {c}
    BY <1>1, <1>4, <1>8 DEF BatchOK, Single
  <2> QED BY <1>1, <1>3, <1>6, <1>7, <1>8, <2>1, ReturnStep
<1>9. CASE /\ ~Single(t)
           /\ Goto(t, IF left[t] = {} THEN "write" ELSE "compute")
           /\ cur' = [cur EXCEPT ![t] = NoEnv]
           /\ at'  = [at EXCEPT ![t] = Unrec]
           /\ UNCHANGED <<done, mode, batch, left, known, loc, dup, new, rows, seen>>
  <2>1. /\ mode[t] = "batch" /\ pc'[t] = IF left[t] = {} THEN "write" ELSE "compute"
        /\ Frame(t)
    BY <1>1, <1>9 DEF Single, Goto, Frame, TypeOK
  <2>2. left[t] \cap rows[t] = {} /\ c \notin left[t] \cup rows[t] /\ rows[t] \subseteq batch[t]
    BY <1>1, <1>4, <2>1 DEF BatchOK, Rescue
  <2>3. Pending(t) = left[t] \cup rows[t] \cup {c} /\ Pending(t)' = left[t] \cup rows[t]
    BY <1>1, <1>4, <1>9, <2>1, <2>2 DEF Pending, Rescue
  <2>4. BatchOK(t)'
    BY <1>1, <1>9, <2>1, <2>2 DEF BatchOK, Rescue
  <2>5. \A e \in left[t] \cup rows[t] : ~Written(e)'
    <3>1. \A e \in left[t] \cup rows[t] : ~Written(e) /\ e # c
      BY <1>1, <2>1, <2>2, <2>3 DEF EventsOK
    <3> QED BY <1>2, <1>3, <1>4, <3>1 DEF Written
  <2>6. EventsOK(t)'
    BY <1>1, <1>3, <1>7, <1>9, <2>3, <2>5 DEF EventsOK
  <2> QED BY <1>1, <1>3, <1>6, <1>9, <2>1, <2>4, <2>6, InnerStep
<1> QED BY <1>8, <1>9 DEF EmergencyWrite

\* The events of the rows are the first ones of their arrivals.
LEMMA WriteEventsEvents ==
  ASSUME TypeOK, IInv, EInv, NEW t \in Threads, WriteEvents(t)
  PROVE  EInv'
<1>1. /\ pc[t] = "write" /\ BatchOK(t) /\ EventsOK(t) /\ faults \in Nat
      /\ UNCHANGED <<todo, past, raised, done, batch, mode, rows>> /\ Frame(t)
      /\ Pending(t) = rows[t] /\ rows[t] \subseteq batch[t]
  <2>1. /\ pc[t] = "write" /\ BatchOK(t) /\ EventsOK(t) /\ faults \in Nat
        /\ UNCHANGED <<todo, past, raised, done, batch, mode, rows>>
    BY DEF WriteEvents, TypeOK, EInv
  <2>2. Frame(t)
    BY DEF WriteEvents, Emergency, Goto, Frame, TypeOK
  <2>3. Pending(t) = rows[t] /\ rows[t] \subseteq batch[t]
    BY <2>1 DEF Pending, BatchOK, Rescue
  <2> QED BY <2>1, <2>2, <2>3
<1>2. CASE /\ events' = events \cup {Parsed(t, e) : e \in rows[t]}
           /\ Goto(t, "sources") /\ faults' = faults
  <2> DEFINE N == {Parsed(t, e) : e \in rows[t]}
  <2>1. \A a \in N : a.env \in rows[t] /\ a = Parsed(t, a.env)
    BY DEF Parsed
  <2>2. \A e \in rows[t] : Parsed(t, e) \in N /\ Parsed(t, e).env = e
    BY DEF Parsed
  <2>3. events' = events \cup N /\ faults' \in Nat /\ faults <= faults' /\ pc'[t] = "sources"
    BY <1>1, <1>2 DEF Goto, TypeOK
  <2> HIDE DEF N
  <2>4. faults' = 0 \/ mode[t] = "batch" => \A a \in N : ~Written(a.env)
    BY <1>1, <1>2, <2>1 DEF EventsOK
  <2>5. \A a, b \in N : a.env = b.env => a = b
    BY <2>1
  <2>6. OneEventPerArrival'
    BY <1>1, <2>1, <2>3, <2>4, <2>5, UniqueStep
  <2>7. \A e \in batch[t] : e \in rows[t] \/ Written(e) => Written(e)'
    BY <2>2, <2>3 DEF Written
  <2>8. Pending(t)' = {}
    BY <2>3 DEF Pending, Rescue
  <2>9. EventsOK(t)'
    BY <1>1, <1>2, <2>7, <2>8 DEF EventsOK
  <2>10. BatchOK(t)'
    BY <1>1, <2>3 DEF BatchOK, Rescue
  <2> QED BY <1>1, <2>1, <2>3, <2>6, <2>9, <2>10, InnerStep
<1>3. CASE /\ Fault /\ ~Single(t) /\ Goto(t, "fallback")
           /\ left' = [left EXCEPT ![t] = rows[t]] /\ events' = events
  <2>1. /\ faults' \in Nat /\ faults <= faults' /\ faults' > 0 /\ mode[t] = "batch"
        /\ pc'[t] = "fallback" /\ left'[t] = rows[t]
    BY <1>3 DEF Fault, Goto, Single, TypeOK
  <2>2. Pending(t)' = rows[t]
    BY <1>1, <2>1 DEF Pending, Rescue
  <2>3. BatchOK(t)'
    BY <1>1, <2>1 DEF BatchOK, Rescue
  <2> QED BY <1>1, <1>3, <2>1, <2>2, <2>3, QuietStep
<1>4. CASE Fault /\ Single(t) /\ (\E e \in batch[t] : Emergency(t, e)) /\ events' = events
  BY <1>1, <1>4, EmergencyStep
<1> QED BY <1>2, <1>3, <1>4 DEF WriteEvents

\* A row the fallback has visited is not visited again.
LEMMA WriteOneEvents ==
  ASSUME TypeOK, IInv, EInv, NEW t \in Threads, NEW e \in Envs, WriteOne(t, e)
  PROVE  EInv'
<1>1. /\ pc[t] = "fallback" /\ e \in left[t] /\ BatchOK(t) /\ EventsOK(t)
      /\ faults \in Nat /\ faults > 0 /\ mode[t] = "batch"
      /\ UNCHANGED <<todo, past, raised, done, batch, mode, rows>> /\ Frame(t)
      /\ left[t] \subseteq rows[t] /\ rows[t] \subseteq batch[t] /\ Pending(t) = left[t]
  BY DEF WriteOne, Goto, Frame, TypeOK, EInv, BatchOK, IInv, ControlOK, Pending, Rescue
<1>2. /\ pc'[t] = IF left[t] = {e} THEN "sources" ELSE "fallback"
      /\ left[t] # {e} => left'[t] = left[t] \ {e}
  BY DEF WriteOne, Goto, TypeOK
<1>3. \/ events' = events \cup {Parsed(t, e)} /\ faults' = faults
      \/ events' = events \cup {} /\ faults' = faults + 1
  BY DEF WriteOne, Fault
<1>4. faults' \in Nat /\ faults <= faults' /\ faults' > 0 /\ Parsed(t, e).env = e
  BY <1>1, <1>3 DEF Parsed
<1>5. e \in batch[t] /\ ~Written(e)
  BY <1>1 DEF EventsOK
<1>6. /\ events \subseteq events' /\ \A x \in events' \ events : x.env \in batch[t]
      /\ OneEventPerArrival'
  <2> DEFINE N == events' \ events
  <2>1. events' = events \cup N /\ \A x \in N : x = Parsed(t, e)
    BY <1>3
  <2> HIDE DEF N
  <2>2. \A x, y \in N : x.env = e /\ (x.env = y.env => x = y)
    BY <1>4, <2>1
  <2>3. OneEventPerArrival'
    BY <1>4, <1>5, <2>1, <2>2, UniqueStep
  <2> QED BY <1>5, <2>1, <2>2, <2>3 DEF N
<1>7. Pending(t)' = left[t] \ {e}
  BY <1>1, <1>2 DEF Pending, Rescue
<1>8. EventsOK(t)'
  <2>1. \A x \in left[t] \ {e} : ~Written(x)'
    BY <1>1, <1>3, <1>4 DEF EventsOK, Written
  <2>2. faults' <= 1 => Written(e)' /\ \A x : Written(x) => Written(x)'
    BY <1>1, <1>3, <1>4 DEF Written
  <2> QED BY <1>1, <1>4, <1>7, <2>1, <2>2 DEF EventsOK
<1>9. BatchOK(t)'
  BY <1>1, <1>2, <1>4 DEF BatchOK, Rescue
<1> QED BY <1>1, <1>4, <1>6, <1>8, <1>9, InnerStep

\* The updates of the sources write no event, and after them nothing is owed.
LEMMA SourcesEvents ==
  ASSUME TypeOK, IInv, EInv, NEW t \in Threads,
         (\E n \in Tenants : UpsertSources(t, n)) \/ ReadCount(t)
  PROVE  EInv'
<1> USE DEF db
<1>1. /\ pc[t] = "sources" /\ BatchOK(t) /\ UNCHANGED <<events, todo, past, raised, done, batch, mode, rows>>
      /\ Frame(t)
  BY DEF UpsertSources, ReadCount, Emergency, Goto, Frame, TypeOK, EInv
<1>2. CASE pc'[t] \in {"sources", "upsert"} /\ (Fault \/ faults' = faults)
  <2>1. faults' \in Nat /\ faults <= faults'
    BY <1>2 DEF TypeOK, Fault
  <2>2. BatchOK(t)' /\ Pending(t) = {} /\ Pending(t)' = {}
    BY <1>1, <1>2 DEF BatchOK, Pending, Rescue
  <2> QED BY <1>1, <2>1, <2>2, QuietStep
<1>3. CASE Fault /\ Single(t) /\ \E e \in batch[t] : Emergency(t, e)
  BY <1>1, <1>3, EmergencyStep
<1>4. Goto(t, "upsert") => pc'[t] = "upsert"
  BY DEF Goto, TypeOK
<1> QED BY <1>1, <1>2, <1>3, <1>4 DEF UpsertSources, ReadCount

\* The call returns, with or without an exception.
LEMMA LeaveEvents ==
  ASSUME TypeOK, IInv, EInv, NEW t \in Threads, WriteCount(t) \/ Finish(t) \/ EmergencyRaises(t)
  PROVE  EInv'
<1> USE DEF db
<1>1. /\ pc[t] \in {"upsert", "sources"} \/ (pc[t] = "em_write" /\ faults > 0 /\ Fault)
      /\ BatchOK(t) /\ EventsOK(t) /\ UNCHANGED <<events, todo, past>> /\ faults \in Nat
      /\ raised \subseteq raised' /\ (WriteCount(t) => raised' = raised)
  BY DEF WriteCount, Finish, EmergencyRaises, EInv, BatchOK, Rescue, TypeOK
<1>2. CASE Return(t) /\ (faults' = faults \/ Fault)
  <2>1. faults' \in Nat /\ faults <= faults' /\ (pc[t] = "em_write" => faults' > 1)
    BY <1>1, <1>2 DEF Fault
  <2>2. pc[t] # "em_write" => Pending(t) = {}
    BY <1>1 DEF Pending, Rescue
  <2>3. faults' <= 1 => \A e \in batch[t] : Written(e)'
    BY <1>1, <2>1, <2>2 DEF EventsOK, Written
  <2>4. OneEventPerArrival'
    BY <1>1, <2>1 DEF EInv, OneEventPerArrival
  <2> QED BY <1>1, <1>2, <2>1, <2>3, <2>4, ReturnStep
<1>3. ASSUME NEW e \in batch[t], WriteCount(t), Fault, Emergency(t, e),
             UNCHANGED <<count, done, mode, batch, left, known, loc, dup, new, rows, at, seen>>
      PROVE  EInv'
  <2>1. Single(t) /\ Frame(t)
    BY <1>3 DEF WriteCount, IInv, ControlOK, Single, Emergency, Goto, Frame, TypeOK
  <2> QED BY <1>1, <1>3, <2>1, EmergencyStep
<1> QED BY <1>2, <1>3 DEF WriteCount, Finish, EmergencyRaises
-----------------------------------------------------------------------------
LEMMA EStep == TypeOK /\ IInv /\ EInv /\ [Next]_vars => EInv'
<1> SUFFICES ASSUME TypeOK, IInv, EInv, [Next]_vars PROVE EInv'
  OBVIOUS
<1>1. ASSUME NEW t \in Threads, NEW m \in {"batch", "single"}, NEW b \in SUBSET todo, Start(t, m, b)
      PROVE  EInv'
  BY <1>1, StartEvents
<1>2. ASSUME NEW t \in Threads, NEW n \in Tenants, Lookup(t, n) \/ UpsertSources(t, n)
      PROVE  EInv'
  BY <1>2, LookupEvents, SourcesEvents
<1>3. ASSUME NEW t \in Threads, NEW e \in Envs, AppendRaw(t, e) \/ Compute(t, e) \/ WriteOne(t, e)
      PROVE  EInv'
  BY <1>3, AppendRawEvents, ComputeEvents, WriteOneEvents
<1>4. ASSUME NEW t \in Threads, IndexRaw(t) \/ WriteEvents(t) PROVE EInv'
  BY <1>4, IndexRawEvents, WriteEventsEvents
<1>5. ASSUME NEW t \in Threads,
             EmergencyAppend(t) \/ EmergencyIndex(t) \/ EmergencyWrite(t) \/ EmergencyRaises(t)
      PROVE  EInv'
  BY <1>5, RescueEvents, EmergencyWriteEvents, LeaveEvents
<1>6. ASSUME NEW t \in Threads, ReadCount(t) \/ WriteCount(t) \/ Finish(t) PROVE EInv'
  BY <1>6, SourcesEvents, LeaveEvents
<1>7. CASE UNCHANGED vars
  <2>1. UNCHANGED <<events, todo, past, raised, done, faults, pc, mode, batch, left, rows, cur>>
    BY <1>7 DEF vars, db, locals
  <2>2. (\A e : Written(e)' <=> Written(e)) /\ \A t \in Threads : Pending(t)' = Pending(t)
    BY <2>1 DEF Written, Pending
  <2> QED BY <2>1, <2>2 DEF EInv, OneEventPerArrival, OneFaultLosesNothing, OwnerOK, BatchOK, EventsOK
<1> QED BY <1>1, <1>2, <1>3, <1>4, <1>5, <1>6, <1>7 DEF Next

LEMMA EventsInductive == Spec => [](TypeOK /\ IInv /\ EInv)
BY InitOK, EInitOK, Step, EStep, PTL DEF Spec

\* No fallback or emergency of process_batch writes a second event for an
\* arrival, and process does so only when a call fails.
THEOREM NoSecondEvent == Spec => []OneEventPerArrival
<1>1. EInv => OneEventPerArrival
  BY DEF EInv
<1> QED BY <1>1, EventsInductive, PTL

\* Fail soft: one failing call, wherever it happens and whatever the other
\* threads do, leaves no finished arrival without an event, but for those that
\* share a call with an arrival that does not decode (payload(), which no
\* handler covers).
THEOREM FailSoft == Spec => []OneFaultLosesNothing
<1>1. EInv => OneFaultLosesNothing
  BY DEF EInv
<1> QED BY <1>1, EventsInductive, PTL
-----------------------------------------------------------------------------
(***************************************************************************)
(* event_count is exact without failures.                                  *)
(*                                                                         *)
(* While a thread works through the tenants of its batch the counts lag    *)
(* behind: they count every event but those of its rows whose tenant it    *)
(* has not come to.  That holds however many threads are at it.            *)
(***************************************************************************)
\* All arrivals of source s come through process_batch.
Bulk(s) == \A e \in Envs : SourceOf[e] = s => Entry[e] = "batch"

\* The event of e is written, and its source is not counted up yet.
Uncounted(e) ==
  \E t \in Threads : pc[t] = "sources" /\ ~Single(t) /\ e \in rows[t] /\ TenantOf[e] \in left[t]

Counted(s) == {ev \in events : SourceOf[ev.env] = s /\ ~Uncounted(ev.env)}

CInv ==
  faults = 0 =>
    /\ IsFiniteSet(events)
    /\ \A s \in Sources : Bulk(s) => count[s] = Cardinality(Counted(s))

LEMMA CInitOK == Init => CInv
<1> SUFFICES ASSUME Init PROVE CInv
  OBVIOUS
<1>1. events = {} /\ (\A s \in Sources : count[s] = 0 /\ Counted(s) = {})
  BY DEF Init, Counted
<1> QED BY <1>1, FS_EmptySet DEF CInv

\* A step that neither writes events or counts nor starts or ends the update
\* of the sources.
LEMMA CountsKept ==
  ASSUME TypeOK, CInv, NEW t \in Threads, Frame(t), faults' = 0 => faults = 0,
         faults' = 0 => /\ UNCHANGED <<events, count>>
                        /\ pc[t] = "sources" /\ ~Single(t) => left[t] = {}
                        /\ pc'[t] = "sources" => mode'[t] = "single"
  PROVE  CInv'
<1> SUFFICES ASSUME faults' = 0 PROVE CInv'
  BY DEF CInv
<1>1. ASSUME NEW e PROVE Uncounted(e)' <=> Uncounted(e)
  BY DEF Uncounted, Single, Frame
<1>2. \A s : Counted(s)' = Counted(s)
  BY <1>1 DEF Counted
<1> QED BY <1>2 DEF CInv

\* Writing the events of a batch: none of them is counted yet.
LEMMA WriteEventsCounts ==
  ASSUME TypeOK, IInv, EInv, CInv, NEW t \in Threads, WriteEvents(t)
  PROVE  CInv'
<1> SUFFICES ASSUME faults' = 0 PROVE CInv'
  BY DEF CInv
<1> DEFINE N == {Parsed(t, e) : e \in rows[t]}
<1>1. /\ pc[t] = "write" /\ events' = events \cup N
      /\ pc'[t] = "sources" /\ left'[t] = {TenantOf[e] : e \in rows[t]}
      /\ faults = 0 /\ UNCHANGED <<count, mode, rows>> /\ BatchOK(t) /\ EventsOK(t)
      /\ \A u \in Threads \ {t} : pc'[u] = pc[u] /\ left'[u] = left[u]
  BY DEF WriteEvents, Fault, Goto, TypeOK, EInv
<1>2. IsFiniteSet(events')
  <2>1. IsFiniteSet(rows[t])
    BY PipelineAssumption, FS_Subset DEF TypeOK
  <2> DEFINE f == [e \in rows[t] |-> Parsed(t, e)]
  <2>2. f \in [rows[t] -> N] /\ \A z \in N : \E e \in rows[t] : f[e] = z
    OBVIOUS
  <2>3. \A x, y \in rows[t] : f[x] = f[y] => x = y
    BY DEF Parsed
  <2> HIDE DEF f, N
  <2>4. IsFiniteSet(N)
    BY <2>1, <2>2, <2>3, OneToOneOnto
  <2> QED BY <1>1, <2>4, FS_Union DEF CInv
<1>3. \A a \in N : a.env \in rows[t]
  BY DEF Parsed
<1>4. \A ev \in events : ev.env \notin rows[t]
  <2>1. Pending(t) = rows[t]
    BY <1>1 DEF Pending, Rescue, BatchOK
  <2> QED BY <1>1, <2>1 DEF EventsOK, Written
<1> HIDE DEF N
<1>5. ASSUME NEW s \in Sources, Bulk(s) PROVE Counted(s)' = Counted(s)
  <2>1. \A ev \in events : Uncounted(ev.env)' <=> Uncounted(ev.env)
    BY <1>1, <1>4 DEF Uncounted, Single
  <2>2. ASSUME NEW a \in N, SourceOf[a.env] = s PROVE Uncounted(a.env)'
    <3>1. mode[t] = "batch"
      BY <1>1, <1>3, <1>5, <2>2, ZenonT(40) DEF Bulk, BatchOK, TypeOK
    <3> QED BY <1>1, <1>3, <3>1 DEF Uncounted, Single
  <2> QED BY <1>1, <2>1, <2>2 DEF Counted
<1> QED BY <1>1, <1>2, <1>5 DEF CInv

\* Counting up the sources of one tenant: as many as there are rows of it.
LEMMA UpsertSourcesCounts ==
  ASSUME TypeOK, IInv, EInv, CInv, NEW t \in Threads, NEW n \in Tenants, UpsertSources(t, n)
  PROVE  CInv'
<1> SUFFICES ASSUME faults' = 0 PROVE CInv'
  BY DEF CInv
<1> DEFINE Inc(s) == {e \in rows[t] : SourceOf[e] = s /\ TenantOf[e] = n}
           New(s) == {ev \in events : ev.env \in Inc(s)}
<1>1. /\ pc[t] = "sources" /\ ~Single(t) /\ n \in left[t] /\ left'[t] = left[t] \ {n}
      /\ \A u \in Threads \ {t} : left'[u] = left[u]
      /\ UNCHANGED <<events, pc, mode, rows>> /\ faults = 0
      /\ \A s \in Sources : count'[s] = count[s] + Cardinality(Inc(s))
  BY DEF UpsertSources, Fault, TypeOK
<1>2. /\ BatchOK(t) /\ EventsOK(t) /\ OneEventPerArrival
      /\ \A u \in Threads : u # t => rows[u] \cap rows[t] = {}
  BY DEF EInv, OwnerOK, BatchOK
<1>3. \A e \in rows[t] : Written(e)
  <2>1. Pending(t) = {}
    BY <1>1 DEF Pending, Rescue
  <2> QED BY <1>1, <1>2, <2>1 DEF EventsOK, BatchOK
<1>4. ASSUME NEW s \in Sources, Bulk(s) PROVE count'[s] = Cardinality(Counted(s)')
  <2>1. IsFiniteSet(Inc(s))
    BY PipelineAssumption, FS_Subset DEF TypeOK
  <2>2. IsFiniteSet(Counted(s)) /\ IsFiniteSet(New(s))
    BY <1>1, FS_Subset DEF CInv, Counted
  <2>3. Cardinality(Inc(s)) = Cardinality(New(s))
    <3> DEFINE f == [ev \in New(s) |-> ev.env]
    <3>1. f \in [New(s) -> Inc(s)] /\ \A ev \in New(s) : f[ev] = ev.env
      OBVIOUS
    <3>2. \A x, y \in New(s) : f[x] = f[y] => x = y
      BY <1>1, <1>2, <3>1 DEF OneEventPerArrival
    <3>3. \A e \in Inc(s) : \E ev \in New(s) : f[ev] = e
      BY <1>3, <3>1 DEF Written
    <3> HIDE DEF f, Inc, New
    <3> QED BY <2>2, <3>1, <3>2, <3>3, OneToOneOnto
  <2>4. \A e \in rows[t] : (Uncounted(e) <=> TenantOf[e] \in left[t])
                          /\ (Uncounted(e)' <=> TenantOf[e] \in left[t] \ {n})
    BY <1>1, <1>2 DEF Uncounted, Single
  <2>5. \A e : e \notin rows[t] => (Uncounted(e)' <=> Uncounted(e))
    BY <1>1 DEF Uncounted, Single
  <2>6. Counted(s)' = Counted(s) \cup New(s)
    BY <1>1, <2>4, <2>5 DEF Counted
  <2>7. Counted(s) \cap New(s) = {}
    BY <1>1, <2>4 DEF Counted
  <2> HIDE DEF Inc, New
  <2>8. /\ Cardinality(Counted(s) \cup New(s)) =
             Cardinality(Counted(s)) + Cardinality(New(s)) - Cardinality(Counted(s) \cap New(s))
        /\ Cardinality(Counted(s)) \in Nat /\ Cardinality(New(s)) \in Nat
        /\ Cardinality(Counted(s) \cap New(s)) = 0
    BY <2>2, <2>7, FS_Union, FS_CardinalityType, FS_EmptySet
  <2> QED BY <1>1, <1>4, <2>3, <2>6, <2>8 DEF CInv, Inc
<1> QED BY <1>1, <1>4 DEF CInv

\* Counting up one source for process: none that comes through process_batch.
LEMMA WriteCountCounts ==
  ASSUME TypeOK, IInv, EInv, CInv, NEW t \in Threads, WriteCount(t)
  PROVE  CInv'
<1> SUFFICES ASSUME faults' = 0 PROVE CInv'
  BY DEF CInv
<1>1. PICK e \in batch[t] : /\ count' = [count EXCEPT ![SourceOf[e]] = seen[t] + 1]
                            /\ Return(t) /\ faults' = faults
  BY DEF WriteCount, Fault, TypeOK
<1>2. /\ pc[t] = "upsert" /\ events' = events /\ Entry[e] = "single" /\ e \in Envs
  BY DEF WriteCount, EInv, BatchOK, IInv, ControlOK, TypeOK
<1>3. pc'[t] = "idle" /\ Frame(t) /\ \A u \in Threads \ {t} : mode'[u] = mode[u]
  BY <1>1 DEF Return, Goto, Frame, TypeOK
<1>4. \A x : Uncounted(x)' <=> Uncounted(x)
  BY <1>2, <1>3 DEF Uncounted, Single, Frame
<1>5. \A s : Counted(s)' = Counted(s)
  BY <1>2, <1>4 DEF Counted
<1>6. \A s \in Sources : Bulk(s) => count'[s] = count[s]
  BY <1>1, <1>2 DEF Bulk, TypeOK
<1> QED BY <1>1, <1>2, <1>5, <1>6 DEF CInv

\* Every other step leaves the counted events and the counts alone.
LEMMA OtherCounts ==
  ASSUME TypeOK, IInv, EInv, CInv, NEW t \in Threads,
         \/ \E m \in {"batch", "single"}, b \in SUBSET todo : Start(t, m, b)
         \/ \E n \in Tenants : Lookup(t, n)
         \/ \E e \in Envs : AppendRaw(t, e) \/ Compute(t, e) \/ WriteOne(t, e)
         \/ IndexRaw(t) \/ EmergencyAppend(t) \/ EmergencyIndex(t) \/ EmergencyWrite(t)
         \/ EmergencyRaises(t) \/ ReadCount(t) \/ Finish(t)
  PROVE  CInv'
<1> USE DEF db
<1>1. pc[t] \in {"em_append", "em_index", "em_write", "fallback"} => faults > 0
  BY DEF EInv, BatchOK, Rescue
<1>2. ASSUME NEW m \in {"batch", "single"}, NEW b \in SUBSET todo, Start(t, m, b) PROVE CInv'
  <2>1. /\ UNCHANGED <<events, count, faults>> /\ Frame(t) /\ pc[t] = "idle"
        /\ pc'[t] \in {"idle", "lookup"}
    BY <1>2 DEF Start, Goto, Frame, TypeOK
  <2> QED BY <2>1, CountsKept
<1>3. ASSUME NEW n \in Tenants, Lookup(t, n) PROVE CInv'
  <2>1. /\ pc[t] = "lookup" /\ UNCHANGED <<events, count>> /\ Frame(t) /\ pc'[t] # "sources"
        /\ faults' = 0 => faults = 0
    BY <1>3 DEF Lookup, Emergency, Goto, Frame, Fault, TypeOK
  <2> QED BY <2>1, CountsKept
<1>4. ASSUME NEW e \in Envs, AppendRaw(t, e) PROVE CInv'
  <2>1. /\ pc[t] = "append" /\ UNCHANGED <<events, count>> /\ Frame(t) /\ pc'[t] # "sources"
        /\ faults' = 0 => faults = 0
    BY <1>4 DEF AppendRaw, AfterAppend, Emergency, Goto, Frame, Fault, TypeOK
  <2> QED BY <2>1, CountsKept
<1>5. ASSUME NEW e \in Envs, Compute(t, e) PROVE CInv'
  <2>1. /\ pc[t] = "compute" /\ UNCHANGED <<events, count>> /\ Frame(t) /\ pc'[t] # "sources"
        /\ faults' = 0 => faults = 0
    BY <1>5 DEF Compute, Emergency, Goto, Frame, Fault, TypeOK
  <2> QED BY <2>1, CountsKept
<1>6. CASE IndexRaw(t)
  <2>1. /\ pc[t] = "index" /\ UNCHANGED <<events, count>> /\ Frame(t) /\ pc'[t] # "sources"
        /\ faults' = 0 => faults = 0
    BY <1>6 DEF IndexRaw, Emergency, Goto, Frame, Fault, TypeOK
  <2> QED BY <2>1, CountsKept
<1>7. CASE EmergencyAppend(t) \/ EmergencyIndex(t) \/ EmergencyWrite(t) \/ EmergencyRaises(t)
           \/ \E e \in Envs : WriteOne(t, e)
  <2>1. pc[t] \in {"em_append", "em_index", "em_write", "fallback"} /\ faults' # 0
    BY <1>1, <1>7 DEF Fault, TypeOK, EmergencyAppend, EmergencyIndex, EmergencyWrite, EmergencyRaises, WriteOne
  <2> QED BY <2>1 DEF CInv
<1>8. CASE ReadCount(t)
  <2>1. /\ Single(t) /\ UNCHANGED <<events, count>> /\ Frame(t) /\ pc'[t] # "sources"
        /\ faults' = 0 => faults = 0
    BY <1>8 DEF ReadCount, Emergency, Goto, Frame, Fault, TypeOK
  <2> QED BY <2>1, CountsKept
<1>9. CASE Finish(t)
  <2>1. /\ left[t] = {} /\ UNCHANGED <<events, count>> /\ Frame(t) /\ pc'[t] # "sources"
        /\ faults' = 0 => faults = 0
    BY <1>9 DEF Finish, Return, Goto, Frame, Fault, TypeOK
  <2> QED BY <2>1, CountsKept
<1> QED BY <1>2, <1>3, <1>4, <1>5, <1>6, <1>7, <1>8, <1>9

LEMMA CStep == TypeOK /\ IInv /\ EInv /\ CInv /\ [Next]_vars => CInv'
<1> SUFFICES ASSUME TypeOK, IInv, EInv, CInv, [Next]_vars PROVE CInv'
  OBVIOUS
<1>1. ASSUME NEW t \in Threads, WriteEvents(t) \/ WriteCount(t) PROVE CInv'
  BY <1>1, WriteEventsCounts, WriteCountCounts
<1>2. ASSUME NEW t \in Threads, NEW n \in Tenants, UpsertSources(t, n) PROVE CInv'
  BY <1>2, UpsertSourcesCounts
<1>3. CASE UNCHANGED vars
  <2>1. UNCHANGED <<events, count, faults, pc, mode, rows, left>>
    BY <1>3 DEF vars, db, locals
  <2>2. \A e : Uncounted(e)' <=> Uncounted(e)
    BY <2>1 DEF Uncounted, Single
  <2>3. \A s : Counted(s)' = Counted(s)
    BY <2>1, <2>2 DEF Counted
  <2> QED BY <2>1, <2>3 DEF CInv
<1> QED BY <1>1, <1>2, <1>3, OtherCounts DEF Next

\* Without failures, once every call has returned, event_count is the number
\* of events of each source that uses process_batch only: concurrent batches
\* lose no update of upsert_sources_bulk.
THEOREM CountsAlwaysExact == Spec => []CountsExact
<1>1. CInv => CountsExact
  <2> SUFFICES ASSUME CInv, Quiet, faults = 0, NEW s \in Sources,
                      \A e \in Envs : SourceOf[e] = s => Entry[e] = "batch"
               PROVE  count[s] = Cardinality({ev \in events : SourceOf[ev.env] = s})
    BY DEF CountsExact
  <2>1. \A e : ~Uncounted(e)
    BY DEF Quiet, Uncounted
  <2>2. Counted(s) = {ev \in events : SourceOf[ev.env] = s}
    BY <2>1 DEF Counted
  <2> QED BY <2>2 DEF CInv, Bulk
<1> QED BY <1>1, InitOK, EInitOK, CInitOK, Step, EStep, CStep, PTL DEF Spec
-----------------------------------------------------------------------------
(***************************************************************************)
(* Which events are marked as duplicates, without failures.                *)
(*                                                                         *)
(* Every content with an event is in raw_index, and what is indexed has an *)
(* original, or will have when the call that indexed it writes its events. *)
(* A call that began when an event of some content was written finds that  *)
(* content by its lookup; within the call the first arrival of a content   *)
(* the lookup did not find is the only one not marked.  What calls that    *)
(* overlap index meanwhile a call may or may not see, so nothing is said   *)
(* of it.                                                                  *)
(***************************************************************************)
\* An arrival is to come, being handled or done.  The past of one: its own call,
\* and calls that are over.
HistOK ==
  /\ \A e \in Envs : e \in todo \cup done \/ \E t \in Threads : e \in batch[t]
  /\ \A e \in Envs : \A f \in past[e] : Content[f] = Content[e]
  /\ \A e \in done : past[e] \subseteq done
  /\ \A t \in Threads : \A e \in batch[t] :
       /\ past[e] \subseteq done \cup batch[t]
       /\ \A f \in batch[t] : Content[f] = Content[e] => f \in past[e]

\* An event with the content of e was there when the call of e began.
Earlier(t, e) == \E f \in past[e] \ batch[t] : Written(f)

\* The arrivals of the batch the call has a location for, and those of them
\* whose content it was the first to meet.
Placed(t) == IF pc[t] = "append" THEN batch[t] \ left[t] ELSE batch[t]
Firsts(t) == Placed(t) \ dup[t]

\* Every one of them has a location; the first ones are unknown to the index as
\* the call saw it, one for each new content.
FirstsOK(t) ==
  /\ \A e \in Placed(t) : Content[e] \in DOMAIN known[t]
  /\ \A e \in Firsts(t) : Content[e] \in new[t] /\ ~Earlier(t, e)
  /\ \A c \in new[t] : \E e \in Firsts(t) : Content[e] = c
  /\ \A e, f \in Firsts(t) : Content[e] = Content[f] => e = f

DupOK(t) ==
  /\ pc[t] \in {"idle", "lookup"} => new[t] = {} /\ dup[t] = {}
  /\ pc[t] = "idle" => DOMAIN known[t] = {}
  /\ DOMAIN known[t] \subseteq DOMAIN index \cup new[t]
  /\ pc[t] \in {"lookup", "append"} => \A e \in batch[t] :
       Earlier(t, e) /\ (pc[t] = "lookup" => TenantOf[e] \notin left[t])
         => Content[e] \in DOMAIN known[t]
  /\ pc[t] = "append" => dup[t] \cap left[t] = {}
  /\ pc[t] \in {"append", "index", "compute", "write"} => FirstsOK(t)
  /\ pc[t] = "compute" => left[t] \cup rows[t] = batch[t]
  /\ pc[t] = "write" => rows[t] = batch[t]
  /\ pc[t] \in {"compute", "write"} => new[t] \subseteq DOMAIN index

\* The call of t has indexed c and not written its events yet.
Owes(t, c) == pc[t] \in {"compute", "write"} /\ c \in new[t]

Original(c) == \E ev \in events : Content[ev.env] = c /\ ~ev.dup

Marked(a, b) == b.env \in past[a.env] => a.dup \/ (b.dup /\ a.env \in past[b.env])

OriginalsOK ==
  /\ \A ev \in events : Content[ev.env] \in DOMAIN index
  /\ \A a, b \in events : a # b => Marked(a, b)
  /\ \A c \in DOMAIN index : Original(c) \/ \E t \in Threads : Owes(t, c)

DInv == faults = 0 => OriginalsOK /\ \A t \in Threads : DupOK(t)

LEMMA DInitOK == Init => HistOK /\ DInv
<1> SUFFICES ASSUME Init PROVE HistOK /\ DInv
  OBVIOUS
<1>1. HistOK
  BY DEF Init, HistOK
<1>2. events = {} /\ DOMAIN index = {}
  BY NoFnType DEF Init
<1>3. OriginalsOK
  BY <1>2 DEF OriginalsOK
<1>4. ASSUME NEW t \in Threads PROVE DupOK(t)
  <2>1. pc[t] = "idle" /\ new[t] = {} /\ dup[t] = {} /\ DOMAIN known[t] = {}
    BY NoFnType DEF Init
  <2> QED BY <2>1 DEF DupOK
<1> QED BY <1>1, <1>3, <1>4 DEF DInv

\* The history changes only when calls begin and end.
LEMMA HistKept ==
  ASSUME HistOK, past' = past, UNCHANGED <<todo, done, batch>>
  PROVE  HistOK'
BY DEF HistOK

LEMMA HistReturn ==
  ASSUME TypeOK, EInv, HistOK, NEW t \in Threads, UNCHANGED <<past, todo>>, Return(t)
  PROVE  HistOK'
<1>1. /\ done' = done \cup batch[t] /\ batch'[t] = {}
      /\ \A u \in Threads \ {t} : batch'[u] = batch[u]
  BY DEF Return, TypeOK
<1>2. \A e \in Envs : e \in todo' \cup done' \/ \E u \in Threads : e \in batch'[u]
  BY <1>1 DEF HistOK
<1> QED BY <1>1, <1>2 DEF HistOK

LEMMA HistStart ==
  ASSUME TypeOK, EInv, HistOK, NEW t \in Threads, NEW m \in {"batch", "single"},
         NEW b \in SUBSET todo, Start(t, m, b)
  PROVE  HistOK'
<1>1. /\ b \subseteq Envs /\ \A e \in b : past'[e] = {f \in done \cup b : Content[f] = Content[e]}
      /\ \A e \in Envs \ b : past'[e] = past[e]
  BY DEF Start, TypeOK
<1>2. \/ done' = done /\ batch'[t] = b /\ \A u \in Threads \ {t} : batch'[u] = batch[u]
      \/ done' = done \cup b /\ batch' = batch
  BY DEF Start, TypeOK
<1>3. \A e \in done : e \in Envs \ b
  BY DEF EInv, OwnerOK, TypeOK
<1>4. \A u \in Threads : \A e \in batch[u] : e \in Envs \ b
  BY DEF EInv, OwnerOK, TypeOK
<1>5. \A e \in Envs : \A f \in past'[e] : Content[f] = Content[e]
  BY <1>1 DEF HistOK
<1>6. \A e \in done' : past'[e] \subseteq done'
  BY <1>1, <1>2, <1>3 DEF HistOK
<1>7. ASSUME NEW u \in Threads, NEW e \in batch'[u]
      PROVE  /\ past'[e] \subseteq done' \cup batch'[u]
             /\ \A f \in batch'[u] : Content[f] = Content[e] => f \in past'[e]
  BY <1>1, <1>2, <1>4 DEF HistOK
<1>8. batch[t] = {} /\ todo' = todo \ b
  BY DEF Start, EInv, BatchOK
<1>9. \A e \in Envs : e \in todo' \cup done' \/ \E u \in Threads : e \in batch'[u]
  BY <1>2, <1>8 DEF HistOK
<1> QED BY <1>5, <1>6, <1>7, <1>9 DEF HistOK

LEMMA HistStep == TypeOK /\ EInv /\ HistOK /\ [Next]_vars => HistOK'
<1> SUFFICES ASSUME TypeOK, EInv, HistOK, [Next]_vars PROVE HistOK'
  OBVIOUS
<1>1. ASSUME NEW t \in Threads, NEW m \in {"batch", "single"}, NEW b \in SUBSET todo, Start(t, m, b)
      PROVE  HistOK'
  BY <1>1, HistStart
<1>2. ASSUME NEW t \in Threads, NEW n \in Tenants, Lookup(t, n) \/ UpsertSources(t, n)
      PROVE  HistOK'
  BY <1>2, HistKept DEF Lookup, UpsertSources
<1>3. ASSUME NEW t \in Threads, NEW e \in Envs, AppendRaw(t, e) \/ Compute(t, e) \/ WriteOne(t, e)
      PROVE  HistOK'
  BY <1>3, HistKept DEF AppendRaw, Compute, WriteOne
<1>4. ASSUME NEW t \in Threads,
             \/ IndexRaw(t) \/ WriteEvents(t) \/ EmergencyAppend(t) \/ EmergencyIndex(t) \/ ReadCount(t)
      PROVE  HistOK'
  BY <1>4, HistKept DEF IndexRaw, WriteEvents, EmergencyAppend, EmergencyIndex, ReadCount
<1>5. ASSUME NEW t \in Threads,
             EmergencyWrite(t) \/ EmergencyRaises(t) \/ WriteCount(t) \/ Finish(t)
      PROVE  HistOK'
  <2>1. UNCHANGED <<past, todo>> /\ (Return(t) \/ UNCHANGED <<done, batch>>)
    BY <1>5 DEF EmergencyWrite, EmergencyRaises, WriteCount, Finish
  <2> QED BY <2>1, HistKept, HistReturn
<1>6. CASE UNCHANGED vars
  BY <1>6, HistKept DEF vars, locals
<1> QED BY <1>1, <1>2, <1>3, <1>4, <1>5, <1>6 DEF Next
-----------------------------------------------------------------------------
\* What a step of t without failures leaves to the other threads.
Apart(t) ==
  /\ Frame(t)
  /\ \A u \in Threads \ {t} : dup'[u] = dup[u]
  /\ DOMAIN index \subseteq DOMAIN index' /\ events \subseteq events'
  /\ \A ev \in events' \ events : ev.env \in batch[t]
  /\ \A e \in Envs : e \notin todo => past'[e] = past[e]

\* Another thread does not notice: what was written when its call began is
\* what has been written of those calls ever after.
LEMMA OthersDup ==
  ASSUME TypeOK, EInv, HistOK, NEW t \in Threads, Apart(t), NEW u \in Threads \ {t}, DupOK(u)
  PROVE  DupOK(u)'
<1>1. /\ UNCHANGED <<pc[u], batch[u], left[u], known[u], new[u], rows[u], dup[u]>>
      /\ DOMAIN index \subseteq DOMAIN index'
  BY DEF Apart, Frame
<1>2. Placed(u)' = Placed(u) /\ Firsts(u)' = Firsts(u)
  BY <1>1 DEF Placed, Firsts
<1>3. ASSUME NEW e \in batch[u] PROVE Earlier(u, e)' <=> Earlier(u, e)
  <2>1. e \in Envs /\ e \notin todo /\ past[e] \subseteq done \cup batch[u]
    BY DEF EInv, OwnerOK, HistOK, TypeOK
  <2>2. past'[e] = past[e]
    BY <2>1 DEF Apart
  <2>3. \A f \in done : Written(f)' <=> Written(f)
    BY DEF EInv, OwnerOK, Apart, Written
  <2> QED BY <1>1, <2>1, <2>2, <2>3 DEF Earlier
<1>4. Placed(u) \subseteq batch[u] /\ Firsts(u) \subseteq batch[u]
  BY DEF Placed, Firsts
<1>5. FirstsOK(u) => FirstsOK(u)'
  BY <1>1, <1>2, <1>3, <1>4 DEF FirstsOK
<1> QED BY <1>1, <1>3, <1>5 DEF DupOK

\* A step of t preserves DInv if it does so for t and for the tables.
LEMMA MyStep ==
  ASSUME TypeOK, EInv, HistOK, DInv, faults = 0, NEW t \in Threads, Apart(t), DupOK(t)', OriginalsOK'
  PROVE  DInv'
BY OthersDup DEF DInv

\* A step that writes neither an event nor an index row, and does not give up
\* what the call owes.
LEMMA OriginalsKept ==
  ASSUME TypeOK, EInv, OriginalsOK, NEW t \in Threads, Apart(t), UNCHANGED <<events, index>>,
         pc[t] \in {"compute", "write"} /\ new[t] # {} =>
           pc'[t] \in {"compute", "write"} /\ new'[t] = new[t]
  PROVE  OriginalsOK'
<1>1. \A c : Original(c)' <=> Original(c)
  BY DEF Original
<1>2. \A u \in Threads, c \in DOMAIN index : Owes(u, c) => Owes(u, c)'
  BY DEF Owes, Apart, Frame
<1>3. \A ev \in events : ev.env \in Envs /\ ev.env \notin todo
  BY DEF EInv, OwnerOK, Written, TypeOK, Event
<1>4. \A a, b \in events : Marked(a, b)' <=> Marked(a, b)
  BY <1>3 DEF Marked, Apart
<1> QED BY <1>1, <1>2, <1>4 DEF OriginalsOK

LEMMA StartDup ==
  ASSUME TypeOK, IInv, EInv, HistOK, DInv, faults = 0, NEW t \in Threads,
         NEW m \in {"batch", "single"}, NEW b \in SUBSET todo, Start(t, m, b)
  PROVE  DInv'
<1> USE DEF db
<1>1. /\ pc[t] = "idle" /\ pc'[t] \in {"idle", "lookup"}
      /\ UNCHANGED <<events, index, known, dup, new>>
      /\ pc'[t] = "lookup" => batch'[t] = b /\ left'[t] = {TenantOf[e] : e \in b}
  BY DEF Start, Goto, TypeOK
<1>2. Apart(t)
  BY <1>1 DEF Start, Goto, Apart, Frame, TypeOK
<1>3. OriginalsOK'
  BY <1>1, <1>2, OriginalsKept DEF DInv
<1>4. DupOK(t)'
  BY <1>1 DEF DInv, DupOK
<1> QED BY <1>2, <1>3, <1>4, MyStep

\* Once all tenants of the batch are looked up, every content that had an event
\* when the call began is known.
LEMMA LookupDup ==
  ASSUME TypeOK, IInv, EInv, HistOK, DInv, faults = 0, faults' = 0, NEW t \in Threads,
         NEW n \in Tenants, Lookup(t, n)
  PROVE  DInv'
<1> USE DEF db
<1> DEFINE mine == {Content[e] : e \in {x \in batch[t] : TenantOf[x] = n}}
           hits == [c \in mine \cap DOMAIN index |-> index[c]]
<1>1. /\ pc[t] = "lookup"
      /\ UNCHANGED <<events, index, past, mode, batch, loc, dup, new, rows, cur, at>>
      /\ known' = [known EXCEPT ![t] = Extend(@, hits)]
      /\ left'  = [left EXCEPT ![t] = IF left[t] = {n} THEN batch[t] ELSE @ \ {n}]
      /\ Goto(t, IF left[t] = {n} THEN "append" ELSE "lookup")
  BY DEF Lookup, Fault
<1> HIDE DEF hits
<1>2. /\ known'[t] = Extend(known[t], hits)
      /\ left'[t] = IF left[t] = {n} THEN batch[t] ELSE left[t] \ {n}
      /\ pc'[t] = IF left[t] = {n} THEN "append" ELSE "lookup"
  BY <1>1 DEF Goto, TypeOK
<1>3. Apart(t)
  BY <1>1 DEF Goto, Apart, Frame, TypeOK
<1>4. OriginalsOK'
  BY <1>1, <1>3, OriginalsKept DEF DInv
<1>5. DOMAIN known'[t] = DOMAIN known[t] \cup (mine \cap DOMAIN index)
  BY <1>2 DEF Extend, hits
<1>6. DupOK(t) /\ OriginalsOK
  BY DEF DInv
<1>7. ASSUME NEW e \in batch[t], Earlier(t, e)', pc'[t] = "lookup" => TenantOf[e] \notin left'[t]
      PROVE  Content[e] \in DOMAIN known'[t]
  <2>1. Earlier(t, e)
    BY <1>1, <1>7 DEF Earlier, Written
  <2>2. Content[e] \in DOMAIN index
    <3>1. PICK f \in past[e] : Written(f)
      BY <2>1 DEF Earlier
    <3>2. e \in Envs /\ Content[f] = Content[e]
      BY <3>1 DEF HistOK, TypeOK
    <3> QED BY <1>6, <3>1, <3>2 DEF Written, OriginalsOK
  <2>3. TenantOf[e] \notin left[t] \ {n}
    BY <1>2, <1>7
  <2> QED BY <1>1, <1>5, <1>6, <2>1, <2>2, <2>3 DEF DupOK
<1>8. pc'[t] = "append" => Placed(t)' = {} /\ Firsts(t)' = {}
  BY <1>1, <1>2 DEF Placed, Firsts
<1>9. new'[t] = {} /\ dup'[t] = {} /\ DOMAIN known'[t] \subseteq DOMAIN index'
  BY <1>1, <1>5, <1>6 DEF DupOK
<1> HIDE DEF mine
<1>10. pc'[t] = "append" => FirstsOK(t)'
  BY <1>8, <1>9 DEF FirstsOK
<1>11. DupOK(t)'
  BY <1>1, <1>2, <1>7, <1>9, <1>10 DEF DupOK
<1> QED BY <1>3, <1>4, <1>11, MyStep

\* An arrival whose content is not known is the first of it in this call, and
\* no event of it was there when the call began.
LEMMA AppendRawDup ==
  ASSUME TypeOK, IInv, EInv, HistOK, DInv, faults = 0, faults' = 0, NEW t \in Threads,
         NEW e \in Envs, AppendRaw(t, e)
  PROVE  DInv'
<1> DEFINE c == Content[e]
<1>1. /\ pc[t] = "append" /\ e \in left[t] /\ UNCHANGED <<events, index, past, batch, rows>>
      /\ left'[t] = IF left[t] = {e} THEN batch[t] ELSE left[t] \ {e}
      /\ pc'[t] = AfterAppend(t, e) /\ left[t] \subseteq batch[t] /\ rows'[t] = {}
      /\ DOMAIN known'[t] = DOMAIN known[t] \cup {c}
      /\ \/ c \in DOMAIN known[t] /\ dup'[t] = dup[t] \cup {e} /\ new'[t] = new[t]
         \/ c \notin DOMAIN known[t] /\ dup'[t] = dup[t] /\ new'[t] = new[t] \cup {c}
  BY DEF AppendRaw, Fault, Goto, TypeOK, EInv, BatchOK, Put
<1>2. /\ pc'[t] = "append" => left'[t] = left[t] \ {e}
      /\ pc'[t] # "append" => left'[t] = batch[t] /\ left[t] = {e}
      /\ pc'[t] \in {"append", "index", "compute"}
      /\ pc'[t] = "compute" => new'[t] = {}
  BY <1>1 DEF AfterAppend
<1>3. Apart(t)
  <2>1. Frame(t)
    BY DEF AppendRaw, Emergency, Goto, Frame, TypeOK
  <2>2. \A u \in Threads \ {t} : dup'[u] = dup[u]
    BY DEF AppendRaw, TypeOK
  <2> QED BY <1>1, <2>1, <2>2 DEF Apart
<1>4. OriginalsOK'
  BY <1>1, <1>3, OriginalsKept DEF DInv
<1>5. DupOK(t)
  BY DEF DInv
<1>6. /\ Placed(t)' = Placed(t) \cup {e} /\ e \notin Placed(t) /\ e \notin dup[t]
      /\ Placed(t) \subseteq batch[t]
  BY <1>1, <1>2, <1>5 DEF Placed, DupOK
<1>7. \A x \in batch[t] : Earlier(t, x)' <=> Earlier(t, x)
  BY <1>1 DEF Earlier, Written
<1> HIDE DEF c
<1>8. FirstsOK(t)'
  <2>1. CASE c \in DOMAIN known[t] /\ dup'[t] = dup[t] \cup {e} /\ new'[t] = new[t]
    <3>1. Firsts(t)' = Firsts(t)
      BY <1>6, <2>1 DEF Firsts
    <3>2. FirstsOK(t) /\ Firsts(t) \subseteq batch[t]
      BY <1>1, <1>5, <1>6 DEF DupOK, Firsts
    <3> QED BY <1>1, <1>6, <1>7, <2>1, <3>1, <3>2 DEF FirstsOK, c
  <2>2. CASE c \notin DOMAIN known[t] /\ dup'[t] = dup[t] /\ new'[t] = new[t] \cup {c}
    <3>1. Firsts(t)' = Firsts(t) \cup {e}
      BY <1>6, <2>2 DEF Firsts
    <3>2. FirstsOK(t) /\ Firsts(t) \subseteq Placed(t)
      BY <1>1, <1>5 DEF DupOK, Firsts
    <3>3. e \in batch[t] /\ ~Earlier(t, e)
      BY <1>1, <1>5, <2>2 DEF DupOK, c
    <3> QED BY <1>1, <1>6, <1>7, <2>2, <3>1, <3>2, <3>3 DEF FirstsOK, c
  <2> QED BY <1>1, <2>1, <2>2
<1>9. DupOK(t)'
  <2>1. DOMAIN known'[t] \subseteq DOMAIN index' \cup new'[t]
    BY <1>1, <1>5 DEF DupOK, ControlOK, IInv
  <2>2. pc'[t] = "append" => dup'[t] \cap left'[t] = {}
    BY <1>1, <1>2, <1>5 DEF DupOK
  <2>3. \A x \in batch[t] : Earlier(t, x) => Content[x] \in DOMAIN known'[t]
    BY <1>1, <1>5 DEF DupOK
  <2> QED BY <1>1, <1>2, <1>7, <1>8, <2>1, <2>2, <2>3 DEF DupOK
<1> QED BY <1>3, <1>4, <1>9, MyStep

\* The contents met first in this call are indexed, and owed an original.
LEMMA IndexRawDup ==
  ASSUME TypeOK, IInv, EInv, HistOK, DInv, faults = 0, faults' = 0, NEW t \in Threads, IndexRaw(t)
  PROVE  DInv'
<1>1. /\ pc[t] = "index" /\ UNCHANGED <<events, past, batch, left, known, loc, dup, new, rows>>
      /\ index' = Extend(index, [c \in new[t] |-> known[t][c]])
      /\ pc'[t] = "compute" /\ DupOK(t) /\ OriginalsOK
  BY DEF IndexRaw, Fault, Goto, TypeOK, DInv
<1>2. DOMAIN index' = DOMAIN index \cup new[t]
  BY <1>1 DEF Extend
<1>3. Apart(t)
  <2>1. Frame(t)
    BY DEF IndexRaw, Emergency, Goto, Frame, TypeOK
  <2> QED BY <1>1, <1>2, <2>1 DEF Apart
<1>4. OriginalsOK'
  <2>1. \A c : Original(c)' <=> Original(c)
    BY <1>1 DEF Original
  <2>2. \A c \in new[t] : Owes(t, c)'
    BY <1>1 DEF Owes
  <2>3. \A u \in Threads, c \in DOMAIN index : Owes(u, c) => Owes(u, c)'
    BY <1>1, <1>3 DEF Owes, Apart, Frame
  <2>4. \A a, b \in events : Marked(a, b)' <=> Marked(a, b)
    BY <1>1 DEF Marked
  <2> QED BY <1>1, <1>2, <2>1, <2>2, <2>3, <2>4 DEF OriginalsOK
<1>5. FirstsOK(t)'
  <2>1. Placed(t)' = Placed(t) /\ Firsts(t)' = Firsts(t)
    BY <1>1 DEF Placed, Firsts
  <2>2. \A x : Earlier(t, x)' <=> Earlier(t, x)
    BY <1>1 DEF Earlier, Written
  <2> QED BY <1>1, <2>1, <2>2 DEF FirstsOK, DupOK
<1>6. DupOK(t)'
  <2>1. left'[t] \cup rows'[t] = batch'[t]
    BY <1>1 DEF EInv, BatchOK
  <2> QED BY <1>1, <1>2, <1>5, <2>1 DEF DupOK
<1> QED BY <1>3, <1>4, <1>6, MyStep

LEMMA ComputeDup ==
  ASSUME TypeOK, IInv, EInv, HistOK, DInv, faults = 0, faults' = 0, NEW t \in Threads,
         NEW e \in Envs, Compute(t, e)
  PROVE  DInv'
<1> USE DEF db
<1>1. /\ pc[t] = "compute" /\ pc'[t] = IF left[t] = {e} THEN "write" ELSE "compute"
      /\ UNCHANGED <<events, index, past, batch, known, dup, new>> /\ e \in left[t]
      /\ left'[t] = left[t] \ {e} /\ rows'[t] = rows[t] \cup {e} /\ DupOK(t)
  BY DEF Compute, Fault, Goto, TypeOK, DInv
<1>2. Apart(t)
  <2>1. Frame(t)
    BY DEF Compute, Emergency, Goto, Frame, TypeOK
  <2> QED BY <1>1, <2>1 DEF Apart
<1>3. OriginalsOK'
  BY <1>1, <1>2, OriginalsKept DEF DInv
<1>4. FirstsOK(t)'
  <2>1. Placed(t)' = Placed(t) /\ Firsts(t)' = Firsts(t)
    BY <1>1 DEF Placed, Firsts
  <2>2. \A x : Earlier(t, x)' <=> Earlier(t, x)
    BY <1>1 DEF Earlier, Written
  <2> QED BY <1>1, <2>1, <2>2 DEF FirstsOK, DupOK
<1>5. DupOK(t)'
  BY <1>1, <1>4 DEF DupOK
<1> QED BY <1>2, <1>3, <1>5, MyStep

\* The events of the batch: one is the original of each new content; the others
\* are marked, those of a content that had an event when the call began among
\* them.
LEMMA WriteEventsDup ==
  ASSUME TypeOK, IInv, EInv, HistOK, DInv, faults = 0, faults' = 0, NEW t \in Threads, WriteEvents(t)
  PROVE  DInv'
<1> DEFINE N == {Parsed(t, e) : e \in batch[t]}
<1>1. /\ pc[t] = "write" /\ pc'[t] = "sources" /\ UNCHANGED <<index, past, batch, known, dup, new>>
      /\ events' = events \cup N /\ rows[t] = batch[t] /\ DupOK(t) /\ OriginalsOK
  BY DEF WriteEvents, Fault, Goto, TypeOK, DInv, DupOK
<1>2. /\ \A a \in N : a.env \in batch[t] /\ (a.dup <=> a.env \in dup[t])
      /\ \A e \in batch[t] : Parsed(t, e) \in N /\ Parsed(t, e).env = e
                          /\ (Parsed(t, e).dup <=> e \in dup[t])
      /\ \A a, b \in N : a.env = b.env => a = b
  <2>1. \A e \in batch[t] : Parsed(t, e).env = e /\ Parsed(t, e).dup = (e \in dup[t])
    BY DEF Parsed
  <2>2. \A e \in batch[t] : Parsed(t, e).dup <=> e \in dup[t]
    BY <2>1, Zenon
  <2>3. \A a \in N : \E e \in batch[t] : a = Parsed(t, e)
    OBVIOUS
  <2>4. \A e \in batch[t] : Parsed(t, e) \in N
    OBVIOUS
  <2> HIDE DEF N
  <2>5. \A a \in N : a.env \in batch[t] /\ (a.dup <=> a.env \in dup[t])
    BY <2>1, <2>2, <2>3
  <2>6. \A a, b \in N : a.env = b.env => a = b
    BY <2>1, <2>3
  <2> QED BY <2>1, <2>2, <2>4, <2>5, <2>6
<1> HIDE DEF N
<1>3. Apart(t)
  <2>1. Frame(t)
    BY DEF WriteEvents, Emergency, Goto, Frame, TypeOK
  <2> QED BY <1>1, <1>2, <2>1 DEF Apart
<1>4. DupOK(t)'
  BY <1>1 DEF DupOK
<1>5. /\ FirstsOK(t) /\ Placed(t) = batch[t] /\ Firsts(t) = batch[t] \ dup[t]
      /\ new[t] \subseteq DOMAIN index /\ \A e \in batch[t] : Content[e] \in DOMAIN index
  BY <1>1 DEF DupOK, FirstsOK, Placed, Firsts
<1>6. \A ev \in events : ev.env \notin batch[t] /\ ev.env \in Envs /\ ev.env \notin todo
  <2>1. Pending(t) = batch[t] /\ EventsOK(t)
    BY <1>1 DEF Pending, Rescue, EInv
  <2> QED BY <2>1 DEF EventsOK, EInv, OwnerOK, Written, TypeOK, Event
<1>7. \A a, b \in events' : a # b => Marked(a, b)'
  <2>1. ASSUME NEW a \in N, NEW b \in N, a # b PROVE Marked(a, b)'
    <3>1. a.env \in batch[t] /\ b.env \in batch[t] /\ a.env # b.env
      BY <1>2, <2>1
    <3>2. CASE b.env \in past[a.env]
      <4>1. Content[b.env] = Content[a.env] /\ a.env \in past[b.env]
        BY <3>1, <3>2 DEF HistOK, TypeOK
      <4>2. ~(a.env \in Firsts(t) /\ b.env \in Firsts(t))
        BY <1>5, <3>1, <4>1 DEF FirstsOK
      <4> QED BY <1>1, <1>2, <1>5, <3>1, <4>1, <4>2 DEF Marked
    <3> QED BY <1>1, <3>2 DEF Marked
  <2>2. ASSUME NEW a \in N, NEW b \in events PROVE Marked(a, b)'
    <3>1. CASE b.env \in past[a.env]
      <4>1. Earlier(t, a.env) /\ a.env \in batch[t]
        BY <1>2, <1>6, <3>1 DEF Earlier, Written
      <4>2. a.dup
        BY <1>2, <1>5, <4>1 DEF FirstsOK
      <4> QED BY <4>2 DEF Marked
    <3> QED BY <1>1, <3>1 DEF Marked
  <2>3. ASSUME NEW a \in events, NEW b \in N PROVE Marked(a, b)'
    <3>1. b.env \in batch[t] /\ Written(a.env) /\ a.env \in Envs \ todo
      BY <1>2, <1>6 DEF Written
    <3>2. b.env \notin past[a.env]
      <4>1. CASE a.env \in done
        BY <3>1, <4>1 DEF HistOK, EInv, OwnerOK
      <4>2. ASSUME NEW u \in Threads, a.env \in batch[u] PROVE b.env \notin past[a.env]
        <5>1. u # t /\ past[a.env] \subseteq done \cup batch[u]
          BY <1>6, <4>2 DEF HistOK
        <5> QED BY <3>1, <5>1 DEF EInv, OwnerOK
      <4> QED BY <3>1, <4>1, <4>2 DEF HistOK
    <3> QED BY <1>1, <3>2 DEF Marked
  <2>4. ASSUME NEW a \in events, NEW b \in events, a # b PROVE Marked(a, b)'
    BY <1>1, <2>4 DEF Marked, OriginalsOK
  <2> QED BY <1>1, <2>1, <2>2, <2>3, <2>4
<1>8. OriginalsOK'
  <2>1. \A ev \in events' : Content[ev.env] \in DOMAIN index'
    BY <1>1, <1>2, <1>5 DEF OriginalsOK
  <2>2. ASSUME NEW c \in DOMAIN index PROVE Original(c)' \/ \E u \in Threads : Owes(u, c)'
    <3>1. CASE Original(c)
      BY <1>1, <3>1 DEF Original
    <3>2. CASE c \in new[t]
      <4>1. PICK e \in batch[t] : Content[e] = c /\ e \notin dup[t]
        BY <1>5, <3>2 DEF FirstsOK
      <4> QED BY <1>1, <1>2, <4>1 DEF Original
    <3>3. ASSUME NEW u \in Threads \ {t}, Owes(u, c) PROVE Owes(u, c)'
      BY <1>3, <3>3 DEF Apart, Frame, Owes
    <3> QED BY <1>1, <3>1, <3>2, <3>3 DEF OriginalsOK, Owes
  <2> QED BY <1>1, <1>7, <2>1, <2>2 DEF OriginalsOK
<1> QED BY <1>3, <1>4, <1>8, MyStep

\* The updates of the sources, and the return.
LEMMA LastDup ==
  ASSUME TypeOK, IInv, EInv, HistOK, DInv, faults = 0, faults' = 0, NEW t \in Threads,
         (\E n \in Tenants : UpsertSources(t, n)) \/ ReadCount(t) \/ WriteCount(t) \/ Finish(t)
  PROVE  DInv'
<1> USE DEF db
<1>1. ~Fault /\ DupOK(t)
  BY DEF Fault, TypeOK, DInv
<1>2. /\ pc[t] \in {"sources", "upsert"} /\ UNCHANGED <<events, index, past>>
      /\ \/ Return(t)
         \/ /\ pc'[t] \in {"sources", "upsert"} /\ UNCHANGED <<batch, known, dup, new>>
            /\ Frame(t)
  <2>1. CASE WriteCount(t)
    BY <1>1, <2>1 DEF WriteCount
  <2>2. CASE (\E n \in Tenants : UpsertSources(t, n)) \/ ReadCount(t) \/ Finish(t)
    BY <1>1, <2>2 DEF UpsertSources, ReadCount, Finish, Goto, Frame, TypeOK
  <2> QED BY <2>1, <2>2
<1>3. CASE Return(t)
  <2>1. /\ pc'[t] = "idle" /\ known'[t] = NoFn /\ dup'[t] = {} /\ new'[t] = {}
        /\ Frame(t) /\ \A u \in Threads \ {t} : dup'[u] = dup[u]
    BY <1>3 DEF Return, Goto, Frame, TypeOK
  <2>2. Apart(t)
    BY <1>2, <2>1 DEF Apart
  <2>3. OriginalsOK'
    BY <1>2, <2>2, OriginalsKept DEF DInv
  <2>4. DupOK(t)'
    BY <2>1, NoFnType DEF DupOK
  <2> QED BY <2>2, <2>3, <2>4, MyStep
<1>4. CASE pc'[t] \in {"sources", "upsert"} /\ UNCHANGED <<batch, known, dup, new>> /\ Frame(t)
  <2>1. Apart(t)
    BY <1>2, <1>4 DEF Apart
  <2>2. OriginalsOK'
    BY <1>2, <2>1, OriginalsKept DEF DInv
  <2>3. DupOK(t)'
    BY <1>1, <1>2, <1>4 DEF DupOK
  <2> QED BY <2>1, <2>2, <2>3, MyStep
<1> QED BY <1>2, <1>3, <1>4

LEMMA DStep == TypeOK /\ IInv /\ EInv /\ HistOK /\ DInv /\ [Next]_vars => DInv'
<1> SUFFICES ASSUME TypeOK, IInv, EInv, HistOK, DInv, [Next]_vars, faults' = 0 PROVE DInv'
  BY DEF DInv
<1>1. CASE UNCHANGED vars
  <2>1. UNCHANGED <<events, index, faults, past, pc, batch, left, known, dup, new, rows>>
    BY <1>1 DEF vars, db, locals
  <2>2. (\A c : Original(c)' <=> Original(c)) /\ (\A t, c : Owes(t, c)' <=> Owes(t, c))
        /\ \A a, b : Marked(a, b)' <=> Marked(a, b)
    BY <2>1 DEF Original, Owes, Marked
  <2>3. \A t : Placed(t)' = Placed(t) /\ Firsts(t)' = Firsts(t)
    BY <2>1 DEF Placed, Firsts
  <2>4. \A t, e : Earlier(t, e)' <=> Earlier(t, e)
    BY <2>1 DEF Earlier, Written
  <2>5. \A t : FirstsOK(t)' <=> FirstsOK(t)
    BY <2>1, <2>3, <2>4 DEF FirstsOK
  <2>6. OriginalsOK' <=> OriginalsOK
    BY <2>1, <2>2 DEF OriginalsOK
  <2>7. \A t : DupOK(t)' <=> DupOK(t)
    BY <2>1, <2>4, <2>5 DEF DupOK
  <2> QED BY <2>1, <2>6, <2>7 DEF DInv
<1>2. ASSUME NEW t \in Threads, NEW m \in {"batch", "single"}, NEW b \in SUBSET todo, Start(t, m, b)
      PROVE  DInv'
  <2>1. faults = 0
    BY <1>2 DEF Start
  <2> QED BY <1>2, <2>1, StartDup
<1>3. ASSUME NEW t \in Threads, NEW n \in Tenants, Lookup(t, n) \/ UpsertSources(t, n) PROVE DInv'
  <2>1. faults = 0
    BY <1>3 DEF Lookup, UpsertSources, Fault, TypeOK
  <2> QED BY <1>3, <2>1, LookupDup, LastDup
<1>4. ASSUME NEW t \in Threads, NEW e \in Envs, AppendRaw(t, e) \/ Compute(t, e) PROVE DInv'
  <2>1. faults = 0
    BY <1>4 DEF AppendRaw, Compute, Fault, TypeOK
  <2> QED BY <1>4, <2>1, AppendRawDup, ComputeDup
<1>5. ASSUME NEW t \in Threads, IndexRaw(t) \/ WriteEvents(t) PROVE DInv'
  <2>1. faults = 0
    BY <1>5 DEF IndexRaw, WriteEvents, Fault, TypeOK
  <2> QED BY <1>5, <2>1, IndexRawDup, WriteEventsDup
<1>6. ASSUME NEW t \in Threads, ReadCount(t) \/ WriteCount(t) \/ Finish(t) PROVE DInv'
  <2>1. faults = 0
    BY <1>6 DEF ReadCount, WriteCount, Finish, Fault, TypeOK
  <2> QED BY <1>6, <2>1, LastDup
<1>7. ASSUME NEW t \in Threads,
             \/ EmergencyAppend(t) \/ EmergencyIndex(t) \/ EmergencyWrite(t) \/ EmergencyRaises(t)
             \/ \E e \in Envs : WriteOne(t, e)
      PROVE  DInv'
  <2>1. faults = 0
    BY <1>7 DEF EmergencyAppend, EmergencyIndex, EmergencyWrite, EmergencyRaises, WriteOne, Fault, TypeOK
  <2>2. pc[t] \notin Rescue /\ pc[t] # "fallback"
    BY <2>1 DEF EInv, BatchOK
  <2> QED BY <1>7, <2>2 DEF Rescue, EmergencyAppend, EmergencyIndex, EmergencyWrite, EmergencyRaises, WriteOne
<1> QED BY <1>1, <1>2, <1>3, <1>4, <1>5, <1>6, <1>7 DEF Next

\* Without failures, of two events of one content the one whose call began
\* after the call of the other had returned is marked as a duplicate, as is one
\* of two events of one call, whatever other threads do meanwhile; and once
\* every call has returned each content has an original.
THEOREM LaterMarked == Spec => []OneOriginal
<1>1. DInv => OneOriginal
  <2> SUFFICES ASSUME OriginalsOK, faults = 0 PROVE OneOriginal
    BY DEF DInv, OneOriginal
  <2>1. \A a, b \in events :
          a # b /\ b.env \in past[a.env] => a.dup \/ (b.dup /\ a.env \in past[b.env])
    BY DEF OriginalsOK, Marked
  <2>2. ASSUME Quiet, NEW b \in events
        PROVE  \E a \in events : Content[a.env] = Content[b.env] /\ ~a.dup
    BY <2>2 DEF OriginalsOK, Quiet, Owes, Original
  <2> QED BY <2>1, <2>2 DEF OneOriginal
<1> QED BY <1>1, InitOK, EInitOK, DInitOK, Step, EStep, HistStep, DStep, PTL DEF Spec
=============================================================================
