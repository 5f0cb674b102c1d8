------------------------------ MODULE Pipeline ------------------------------
(***************************************************************************)
(* Pipeline.process and Pipeline.process_batch (uli/pipeline.py) over the  *)
(* tables they write (uli/storage/sql.py): raw_index, events, sources.     *)
(*                                                                         *)
(* Threads (workers, or request threads of the API) handle arrivals, each  *)
(* in batch mode (a set of arrivals through process_batch) or in single    *)
(* mode (one arrival through process), as the caller of the arrival does.  *)
(* Every call to the raw store or to SQL is a step of its own that may     *)
(* fail, and so may the parsing of one event; the guards and handlers      *)
(* around those calls are what the module is about.  payload(), which has  *)
(* no handler, raises for the arrivals that do not decode.  A batch is a   *)
(* set: the order of its envelopes is the order in which AppendRaw and     *)
(* Compute pick them.                                                      *)
(***************************************************************************)
EXTENDS Naturals, Sequences, FiniteSets

CONSTANTS
  Threads,     \* workers and API threads running the pipeline
  Envs,        \* arrivals
  Contents,    \* (tenant_id, sha256 of the payload)
  Sources,     \* (tenant_id, source_id)
  Tenants,
  Content,     \* Content[e], SourceOf[e], TenantOf[e]: what an arrival carries
  SourceOf,
  TenantOf,
  Entry,       \* Entry[e]: "batch" or "single", the entry point e comes through
  Undecodable, \* arrivals whose payload_b64 b64decode refuses
  MaxBatch,    \* bound: arrivals in one batch
  MaxFaults,   \* bound: failing calls in a behaviour
  Unrec,       \* RawLocation("unrecoverable")
  NoEnv

ASSUME PipelineAssumption ==
  /\ IsFiniteSet(Envs)
  /\ Content \in [Envs -> Contents]
  /\ SourceOf \in [Envs -> Sources]
  /\ TenantOf \in [Envs -> Tenants]
  /\ Entry \in [Envs -> {"batch", "single"}]
  /\ Undecodable \subseteq Envs
  /\ MaxBatch \in Nat /\ MaxFaults \in Nat
  /\ Unrec \notin Nat

VARIABLES
  raw,      \* the raw store: raw[l] is the content of the record at location l
  index,    \* raw_index: content |-> location
  events,   \* rows of events
  count,    \* sources.event_count
  todo,     \* arrivals not yet handed to a thread
  done,     \* arrivals whose call has returned, or raised
  faults,
  raised,   \* the batches of the calls an exception has left
  past,     \* history: past[e] are the arrivals with the content of e whose calls
            \* were over when that of e began, and those of that call itself
  \* the locals of each thread's call
  pc, mode, batch,
  left,     \* what the current loop has not visited yet
  known,    \* existing: content |-> location
  loc,      \* locs
  dup,      \* arrivals with dup_of set
  new,      \* new_index_rows, by content
  rows,     \* event_rows
  cur,      \* the arrival _emergency_event is handling, or NoEnv
  at,       \* ... and its location
  seen      \* event_count as upsert_source has read it

locals == <<mode, batch, left, known, loc, dup, new, rows, cur, at, seen>>
db     == <<raw, index, events, count>>
vars   == <<db, todo, done, faults, raised, past, pc, locals>>
-----------------------------------------------------------------------------
Locs  == (Nat \ {0}) \cup {Unrec}
Event == [env : Envs, kind : {"parsed", "emergency"}, loc : Locs, dup : BOOLEAN]
Steps == {"idle", "lookup", "append", "index", "compute", "write", "fallback",
          "sources", "upsert", "em_append", "em_index", "em_write"}

\* f is a function from a part of S to T.
IsPartial(f, S, T) == f \in [DOMAIN f -> T] /\ DOMAIN f \subseteq S

NoFn == [x \in {} |-> 0]
Put(f, x, v) == [y \in DOMAIN f \cup {x} |-> IF y = x THEN v ELSE f[y]]

ExtendNothing(f, g) == f   \* mutant: the new rows are not inserted
\* f extended with g where f is silent: ON CONFLICT DO NOTHING, setdefault.
Extend(f, g) == [y \in DOMAIN f \cup DOMAIN g |-> IF y \in DOMAIN f THEN f[y] ELSE g[y]]

Goto(t, s) == pc' = [pc EXCEPT ![t] = s]
Fault      == faults < MaxFaults /\ faults' = faults + 1
Single(t)  == mode[t] = "single"

NextLocBehind == Len(raw)   \* mutant: the location is that of the record before
\* The location raw_store.append returns for the record it is about to write.
NextLoc == Len(raw) + 1

ParsedFirstLoc(t, e) ==   \* mutant: every event of a batch takes the location of one of them
  [env |-> e, kind |-> "parsed", loc |-> loc[t][CHOOSE x \in batch[t] : TRUE], dup |-> e \in dup[t]]
Parsed(t, e) == [env |-> e, kind |-> "parsed", loc |-> loc[t][e], dup |-> e \in dup[t]]

Init ==
  /\ raw = <<>> /\ index = NoFn /\ events = {}
  /\ count = [s \in Sources |-> 0]
  /\ todo = Envs /\ done = {} /\ faults = 0
  /\ raised = {} /\ past = [e \in Envs |-> {}]
  /\ pc = [t \in Threads |-> "idle"]
  /\ mode = [t \in Threads |-> "batch"]
  /\ batch = [t \in Threads |-> {}]
  /\ left = [t \in Threads |-> {}]
  /\ known = [t \in Threads |-> NoFn]
  /\ loc = [t \in Threads |-> NoFn]
  /\ dup = [t \in Threads |-> {}]
  /\ new = [t \in Threads |-> {}]
  /\ rows = [t \in Threads |-> {}]
  /\ cur = [t \in Threads |-> NoEnv]
  /\ at = [t \in Threads |-> Unrec]
  /\ seen = [t \in Threads |-> 0]

\* The call of t returns: its locals go with it.
Return(t) ==
  /\ Goto(t, "idle")
  /\ done'  = done \cup batch[t]
  /\ mode'  = [mode EXCEPT ![t] = "batch"]
  /\ batch' = [batch EXCEPT ![t] = {}]
  /\ left'  = [left EXCEPT ![t] = {}]
  /\ known' = [known EXCEPT ![t] = NoFn]
  /\ loc'   = [loc EXCEPT ![t] = NoFn]
  /\ dup'   = [dup EXCEPT ![t] = {}]
  /\ new'   = [new EXCEPT ![t] = {}]
  /\ rows'  = [rows EXCEPT ![t] = {}]
  /\ cur'   = [cur EXCEPT ![t] = NoEnv]
  /\ at'    = [at EXCEPT ![t] = Unrec]
  /\ seen'  = [seen EXCEPT ![t] = 0]

\* An exception reaches the handler of process: _emergency_event.
\* In batch mode only _compute is guarded this way.
Emergency(t, e) ==
  /\ Goto(t, "em_append")
  /\ cur' = [cur EXCEPT ![t] = e]
-----------------------------------------------------------------------------
\* The call begins with payload() of every envelope, outside every handler: in
\* process_batch for the whole batch, in process once more in _emergency_event.
\* When one raises so does the call, and nothing of its batch is stored.
Start(t, m, b) ==
  /\ pc[t] = "idle"
  /\ b # {} /\ b \subseteq todo /\ Cardinality(b) <= MaxBatch
  /\ \A e \in b : Entry[e] = m
  /\ m = "single" => Cardinality(b) = 1
  /\ todo' = todo \ b
  /\ past' = [e \in Envs |-> IF e \in b THEN {f \in done \cup b : Content[f] = Content[e]}
                             ELSE past[e]]
  /\ \/ /\ b \cap Undecodable = {}
        /\ mode'  = [mode EXCEPT ![t] = m]
        /\ batch' = [batch EXCEPT ![t] = b]
        /\ left'  = [left EXCEPT ![t] = {TenantOf[e] : e \in b}]
        /\ Goto(t, "lookup")
        /\ UNCHANGED <<done, raised>>
     \/ /\ b \cap Undecodable # {}
        /\ done' = done \cup b
        /\ raised' = raised \cup {b}
        /\ UNCHANGED <<pc, mode, batch, left>>
  /\ UNCHANGED <<db, faults, known, loc, dup, new, rows, cur, at, seen>>

\* find_raw_locations of one tenant's hashes / get_raw_location.
Lookup(t, n) ==
  /\ pc[t] = "lookup" /\ n \in left[t]
  /\ LET mine == {Content[e] : e \in {x \in batch[t] : TenantOf[x] = n}}
         hits == [c \in mine \cap DOMAIN index |-> index[c]]
         last == left[t] = {n}
     IN \/ /\ known' = [known EXCEPT ![t] = Extend(@, hits)]
           /\ left'  = [left EXCEPT ![t] = IF last THEN batch[t] ELSE @ \ {n}]
           /\ Goto(t, IF last THEN "append" ELSE "lookup")
           /\ UNCHANGED <<faults, cur>>
        \/ /\ Fault /\ ~Single(t)           \* the lookup fails: found = {}
           /\ left' = [left EXCEPT ![t] = IF last THEN batch[t] ELSE @ \ {n}]
           /\ Goto(t, IF last THEN "append" ELSE "lookup")
           /\ UNCHANGED <<known, cur>>
        \/ /\ Fault /\ Single(t)
           /\ \E e \in batch[t] : Emergency(t, e)
           /\ UNCHANGED <<known, left>>
  /\ UNCHANGED <<db, todo, past, raised, done, mode, batch, loc, dup, new, rows, at, seen>>

\* raw_store.append for one envelope whose content is not known yet.
AfterAppend(t, e) ==
  IF left[t] # {e} THEN "append"
  ELSE IF new[t] = {} /\ Content[e] \in DOMAIN known[t] THEN "compute" ELSE "index"
AppendRaw(t, e) ==
  /\ pc[t] = "append" /\ e \in left[t]
  /\ LET c == Content[e]
         locate(l) ==
           /\ loc'   = [loc EXCEPT ![t] = Put(@, e, l)]
           /\ known' = [known EXCEPT ![t] = Put(@, c, l)]
           /\ Goto(t, AfterAppend(t, e))
     IN \/ /\ c \in DOMAIN known[t]
           /\ locate(known[t][c])
           /\ dup' = [dup EXCEPT ![t] = @ \cup {e}]
           /\ UNCHANGED <<raw, new, faults, cur>>
        \/ /\ c \notin DOMAIN known[t]
           /\ raw' = Append(raw, c)
           /\ locate(NextLoc)
           /\ new' = [new EXCEPT ![t] = @ \cup {c}]
           /\ UNCHANGED <<dup, faults, cur>>
        \/ /\ c \notin DOMAIN known[t]
           /\ Fault /\ ~Single(t)           \* append fails, the row is indexed all the same
           /\ locate(Unrec)
           /\ new' = [new EXCEPT ![t] = @ \cup {c}]
           /\ UNCHANGED <<raw, dup, cur>>
        \/ /\ c \notin DOMAIN known[t]
           /\ Fault /\ Single(t)
           /\ Emergency(t, e)
           /\ UNCHANGED <<raw, loc, known, dup, new>>
  /\ left' = [left EXCEPT ![t] = IF left[t] = {e} THEN batch[t] ELSE @ \ {e}]
  /\ UNCHANGED <<index, events, count, todo, past, raised, done, mode, batch, rows, at, seen>>

\* index_raw_bulk (ON CONFLICT DO NOTHING) / index_raw (select, then insert).
IndexRaw(t) ==
  /\ pc[t] = "index"
  /\ \/ /\ index' = Extend(index, [c \in new[t] |-> known[t][c]])
        /\ Goto(t, "compute")
        /\ UNCHANGED <<faults, cur>>
     \/ /\ Fault /\ ~Single(t)
        /\ Goto(t, "compute")
        /\ UNCHANGED <<index, cur>>
     \/ /\ Fault /\ Single(t)
        /\ \E e \in batch[t] : Emergency(t, e)
        /\ UNCHANGED index
  /\ UNCHANGED <<raw, events, count, todo, past, raised, done, mode, batch, left, known, loc, dup, new, rows, at, seen>>

\* _compute for one envelope: the event is ready, or an exception escapes.
\* The last iteration moves on to the writes.
ComputeKeepsRow(t, e) ==   \* mutant: the row is queued before _compute can raise
  /\ pc[t] = "compute" /\ e \in left[t]
  /\ left' = [left EXCEPT ![t] = @ \ {e}]
  /\ rows' = [rows EXCEPT ![t] = @ \cup {e}]
  /\ \/ /\ Goto(t, IF left[t] = {e} THEN "write" ELSE "compute")
        /\ UNCHANGED <<faults, cur>>
     \/ Fault /\ Emergency(t, e)
  /\ UNCHANGED <<db, todo, past, raised, done, mode, batch, known, loc, dup, new, at, seen>>
Compute(t, e) ==
  /\ pc[t] = "compute" /\ e \in left[t]
  /\ left' = [left EXCEPT ![t] = @ \ {e}]
  /\ \/ /\ rows' = [rows EXCEPT ![t] = @ \cup {e}]
        /\ Goto(t, IF left[t] = {e} THEN "write" ELSE "compute")
        /\ UNCHANGED <<faults, cur>>
     \/ /\ Fault
        /\ Emergency(t, e)
        /\ UNCHANGED rows
  /\ UNCHANGED <<db, todo, past, raised, done, mode, batch, known, loc, dup, new, at, seen>>
-----------------------------------------------------------------------------
(***************************************************************************)
(* _emergency_event: append and index again, then write a minimal event.   *)
(***************************************************************************)
EmergencyAppend(t) ==
  /\ pc[t] = "em_append"
  /\ \/ /\ raw' = Append(raw, Content[cur[t]])
        /\ at' = [at EXCEPT ![t] = NextLoc]
        /\ Goto(t, "em_index")
        /\ UNCHANGED faults
     \/ /\ Fault                            \* loc = "unrecoverable", no index row
        /\ at' = [at EXCEPT ![t] = Unrec]
        /\ Goto(t, "em_write")
        /\ UNCHANGED raw
  /\ UNCHANGED <<index, events, count, todo, past, raised, done, mode, batch, left, known, loc, dup, new, rows, cur, seen>>

EmergencyIndex(t) ==
  /\ pc[t] = "em_index"
  /\ \/ /\ index' = Extend(index, Put(NoFn, Content[cur[t]], at[t]))
        /\ UNCHANGED <<faults, at>>
     \/ /\ Fault                            \* the location just obtained is given up
        /\ at' = [at EXCEPT ![t] = Unrec]
        /\ UNCHANGED index
  /\ Goto(t, "em_write")
  /\ UNCHANGED <<raw, events, count, todo, past, raised, done, mode, batch, left, known, loc, dup, new, rows, cur, seen>>

\* The event is written, or that fails too and is only logged.  A batch goes
\* on with its next envelope.
EmergencyWriteNone(t) ==   \* mutant: process returns the event without storing it
  /\ pc[t] = "em_write"
  /\ Return(t)
  /\ UNCHANGED <<db, todo, past, raised, faults>>
EmergencyWrite(t) ==
  /\ pc[t] = "em_write"
  /\ \/ /\ events' = events \cup {[env |-> cur[t], kind |-> "emergency",
                                   loc |-> at[t], dup |-> FALSE]}
        /\ UNCHANGED faults
     \/ Fault /\ UNCHANGED events
  /\ \/ Single(t) /\ Return(t)
     \/ /\ ~Single(t)
        /\ Goto(t, IF left[t] = {} THEN "write" ELSE "compute")
        /\ cur' = [cur EXCEPT ![t] = NoEnv]
        /\ at'  = [at EXCEPT ![t] = Unrec]
        /\ UNCHANGED <<done, mode, batch, left, known, loc, dup, new, rows, seen>>
  /\ UNCHANGED <<raw, index, count, todo, past, raised>>

\* fingerprint or normalize raises inside _emergency_event: the exception
\* leaves process / process_batch and the worker logs it and acknowledges.
EmergencyRaises(t) ==
  /\ pc[t] = "em_write"
  /\ Fault
  /\ Return(t)
  /\ raised' = raised \cup {batch[t]}
  /\ UNCHANGED <<db, todo, past>>
-----------------------------------------------------------------------------
\* write_events_bulk / write_event, in one transaction.
WriteEvents(t) ==
  /\ pc[t] = "write"
  /\ \/ /\ events' = events \cup {Parsed(t, e) : e \in rows[t]}
        /\ Goto(t, "sources")
        /\ left' = [left EXCEPT ![t] = {TenantOf[e] : e \in rows[t]}]
        /\ UNCHANGED <<faults, cur>>
     \/ /\ Fault /\ ~Single(t) /\ rows[t] # {}
        /\ Goto(t, "fallback")
        /\ left' = [left EXCEPT ![t] = rows[t]]
        /\ UNCHANGED <<events, cur>>
     \/ /\ Fault /\ Single(t)
        /\ \E e \in batch[t] : Emergency(t, e)
        /\ UNCHANGED <<events, left>>
  /\ UNCHANGED <<raw, index, count, todo, past, raised, done, mode, batch, known, loc, dup, new, rows, at, seen>>

\* "fall back to per-event writes rather than lose data"
WriteOne(t, e) ==
  /\ pc[t] = "fallback" /\ e \in left[t]
  /\ \/ /\ events' = events \cup {Parsed(t, e)}
        /\ UNCHANGED faults
     \/ Fault /\ UNCHANGED events
  /\ left' = [left EXCEPT ![t] = IF left[t] = {e} THEN {TenantOf[x] : x \in rows[t]}
                                 ELSE @ \ {e}]
  /\ Goto(t, IF left[t] = {e} THEN "sources" ELSE "fallback")
  /\ UNCHANGED <<raw, index, count, todo, past, raised, done, mode, batch, known, loc, dup, new, rows, cur, at, seen>>

\* upsert_sources_bulk of one tenant: event_count = event_count + inc.
UpsertSourcesOverwrites(t, n) ==   \* mutant: the conflict clause sets the count to the increment
  /\ pc[t] = "sources" /\ ~Single(t) /\ n \in left[t]
  /\ count' = [s \in Sources |->
                 LET inc == Cardinality({e \in rows[t] : SourceOf[e] = s /\ TenantOf[e] = n})
                 IN IF inc > 0 THEN inc ELSE count[s]]
  /\ left' = [left EXCEPT ![t] = @ \ {n}]
  /\ UNCHANGED <<raw, index, events, todo, past, raised, done, faults, pc, mode, batch, known, loc, dup, new, rows, cur, at, seen>>
UpsertSources(t, n) ==
  /\ pc[t] = "sources" /\ ~Single(t) /\ n \in left[t]
  /\ \/ /\ count' = [s \in Sources |->
                       count[s] + Cardinality({e \in rows[t] : SourceOf[e] = s /\ TenantOf[e] = n})]
        /\ UNCHANGED faults
     \/ Fault /\ UNCHANGED count
  /\ left' = [left EXCEPT ![t] = @ \ {n}]
  /\ UNCHANGED <<raw, index, events, todo, past, raised, done, pc, mode, batch, known, loc, dup, new, rows, cur, at, seen>>

\* upsert_source of process: read event_count, then write it back plus one.
ReadCount(t) ==
  /\ pc[t] = "sources" /\ Single(t)
  /\ \/ /\ seen' = [seen EXCEPT ![t] = count[SourceOf[CHOOSE e \in batch[t] : TRUE]]]
        /\ Goto(t, "upsert")
        /\ UNCHANGED <<faults, cur>>
     \/ /\ Fault
        /\ \E e \in batch[t] : Emergency(t, e)
        /\ UNCHANGED seen
  /\ UNCHANGED <<db, todo, past, raised, done, mode, batch, left, known, loc, dup, new, rows, at>>

WriteCount(t) ==
  /\ pc[t] = "upsert"
  /\ \E e \in batch[t] :
       \/ /\ count' = [count EXCEPT ![SourceOf[e]] = seen[t] + 1]
          /\ Return(t)
          /\ UNCHANGED faults
       \/ /\ Fault
          /\ Emergency(t, e)
          /\ UNCHANGED <<count, done, mode, batch, left, known, loc, dup, new, rows, at, seen>>
  /\ UNCHANGED <<raw, index, events, todo, past, raised>>

Finish(t) ==
  /\ pc[t] = "sources" /\ ~Single(t) /\ left[t] = {}
  /\ Return(t)
  /\ UNCHANGED <<db, todo, past, raised, faults>>
-----------------------------------------------------------------------------
Next ==
  \E t \in Threads :
    \/ \E m \in {"batch", "single"}, b \in SUBSET todo : Start(t, m, b)
    \/ \E n \in Tenants : Lookup(t, n) \/ UpsertSources(t, n)
    \/ \E e \in Envs : AppendRaw(t, e) \/ Compute(t, e) \/ WriteOne(t, e)
    \/ IndexRaw(t) \/ WriteEvents(t)
    \/ EmergencyAppend(t) \/ EmergencyIndex(t) \/ EmergencyWrite(t) \/ EmergencyRaises(t)
    \/ ReadCount(t) \/ WriteCount(t) \/ Finish(t)

Spec == Init /\ [][Next]_vars
-----------------------------------------------------------------------------
(***************************************************************************)
(* Properties                                                              *)
(***************************************************************************)
\* Every variable holds a value of its kind.
TypeOK ==
  /\ raw \in Seq(Contents)
  /\ IsPartial(index, Contents, Locs)
  /\ events \subseteq Event
  /\ count \in [Sources -> Nat]
  /\ todo \subseteq Envs /\ done \subseteq Envs /\ faults \in Nat
  /\ raised \subseteq SUBSET Envs /\ past \in [Envs -> SUBSET Envs]
  /\ pc \in [Threads -> Steps]
  /\ mode \in [Threads -> {"batch", "single"}]
  /\ batch \in [Threads -> SUBSET Envs]
  /\ left \in [Threads -> SUBSET (Envs \cup Tenants)]
  /\ dup \in [Threads -> SUBSET Envs]
  /\ new \in [Threads -> SUBSET Contents]
  /\ rows \in [Threads -> SUBSET Envs]
  /\ cur \in [Threads -> Envs \cup {NoEnv}]
  /\ at \in [Threads -> Locs]
  /\ seen \in [Threads -> Nat]
  /\ known = [t \in Threads |-> known[t]] /\ loc = [t \in Threads |-> loc[t]]
  /\ \A t \in Threads : IsPartial(known[t], Contents, Locs) /\ IsPartial(loc[t], Envs, Locs)

\* In the store r, location l holds content c, or is marked as never stored.
Resolves(r, l, c) == l = Unrec \/ (l \in DOMAIN r /\ r[l] = c)

\* Provenance: every event and every raw_index row leads to the bytes of its
\* own payload, unless it says "unrecoverable", whatever calls failed and
\* however the calls of several threads interleaved (architecture.md:202
\* "Raw-first write, content hash, offset ... on every event").
Traceable ==
  /\ \A ev \in events : Resolves(raw, ev.loc, Content[ev.env])
  /\ \A c \in DOMAIN index : Resolves(raw, index[c], c)

\* The normalized layer keeps one event per arrival (architecture.md:95): no
\* fallback or emergency of process_batch writes a second one, and process
\* does so only when a call fails.
OneEventPerArrival ==
  \A a, b \in events :
    a.env = b.env /\ (faults = 0 \/ Entry[a.env] = "batch") => a = b

\* Fail soft (pipeline.py:37-38, 125-127), as far as it goes: one failing call
\* to the stores or the parsers, wherever it happens, leaves no finished arrival
\* without an event, but for the arrivals whose call payload() ended: those
\* that share a batch with an arrival that does not decode.
OneFaultLosesNothing ==
  faults <= 1 =>
    \A e \in done :
      \/ \E ev \in events : ev.env = e
      \/ \E b \in raised : e \in b /\ b \cap Undecodable # {}

Quiet == \A t \in Threads : pc[t] = "idle"

\* Deduplication without failures, with any number of threads.  Of two events of
\* one content the one whose call began after the call of the other had returned
\* is marked as a duplicate, and so is one of two events of the same call; and a
\* content is never left with duplicates only (architecture.md:95 "duplicate_of
\* set on the later one").  Calls that overlap may both write an original, since
\* the lookup (pipeline.py:146) and the insert (:172) are two transactions.
OneOriginal ==
  faults = 0 =>
    /\ \A a, b \in events :
         a # b /\ b.env \in past[a.env] => a.dup \/ (b.dup /\ a.env \in past[b.env])
    /\ Quiet => \A b \in events :
         \E a \in events : Content[a.env] = Content[b.env] /\ ~a.dup

\* Without failures the event_count of a source is the number of its events,
\* also when several batches update it concurrently.  (Two calls of process
\* that overlap may lose an update.)
CountsExact ==
  Quiet /\ faults = 0 =>
    \A s \in Sources :
      (\A e \in Envs : SourceOf[e] = s => Entry[e] = "batch")
        => count[s] = Cardinality({ev \in events : SourceOf[ev.env] = s})

=============================================================================
