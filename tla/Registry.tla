------------------------------ MODULE Registry ------------------------------
(***************************************************************************)
(* The parser registry of a ParserEngine (uli/engine.py): the packs it has *)
(* loaded, the routing cache, and the calls that read and write them from  *)
(* several threads, together with the parsers and parser_suggestions       *)
(* tables (uli/storage/sql.py) and the API handlers that load, retire and  *)
(* promote packs (uli/api/app.py).                                         *)
(*                                                                         *)
(* Registration and retirement hold the engine's lock; routing does not.   *)
(* A text is abstracted to its shape, and can_parse to a score a pack      *)
(* version has for a shape; whether the text is then parsed with enough    *)
(* confidence is left open.  All structural parsers together are one       *)
(* candidate.  Every process has an engine of its own; the tables are      *)
(* shared.                                                                 *)
(***************************************************************************)
EXTENDS Naturals, FiniteSets

CONSTANTS
  Engines,     \* processes that run build_stack
  Threads,
  Home,        \* Home[t]: the process of thread t
  Calls,       \* Calls[t] \subseteq {"route", "admin"}: what thread t serves
  Packs,       \* parser_ids of declarative packs
  Versions,
  Shapes,
  Score,       \* Score[id][v][s]: can_parse of version v of pack id
  Base,        \* Base[s]: the best can_parse of the structural parsers
  Vendor,      \* id |-> version: the files of parsers/vendors
  Suggestions,
  Draft,       \* Draft[g]: the pack a suggestion's yaml defines
  MaxWrites,   \* bound: admin calls in a behaviour
  MaxFaults,   \* bound: failing storage calls and restarts in a behaviour
  Structural,  \* the id of the structural candidate
  None

Pack      == [id : Packs, ver : Versions]
Candidate == Pack \cup {[id |-> Structural, ver |-> None]}

ASSUME RegistryAssumption ==
  /\ Home \in [Threads -> Engines]
  /\ Calls \in [Threads -> SUBSET {"route", "admin"}]
  /\ Score \in [Packs -> [Versions -> [Shapes -> Nat]]]
  /\ Base \in [Shapes -> Nat]
  /\ DOMAIN Vendor \subseteq Packs /\ Vendor \in [DOMAIN Vendor -> Versions]
  /\ Draft \in [Suggestions -> Pack]
  /\ MaxWrites \in Nat /\ MaxFaults \in Nat
  /\ Structural \notin Packs /\ None \notin Packs \cup {Structural} \cup Candidate \cup Threads

VARIABLES
  boot,      \* boot[e]: files of parsers/vendors that e has still to load
  packs,     \* packs[e]: declarative of e, id |-> version
  cache,     \* cache[e]: _routing_cache of e, shape |-> id
  similar,   \* similar[e]: ids with references in the similarity index of e
  lock,      \* lock[e]: the thread holding e's lock, or None
  table,     \* the parsers table: id |-> row
  promoted,  \* suggestions whose status is "promoted"
  pc,
  job,       \* job[t]: the locals of the call t serves
  writes, faults,
  late,      \* late[e]: a route that a registration overtook was cached after it
  torn       \* ids whose memory and row may differ: overlapping or failed calls

bounds == <<writes, faults>>
vars == <<boot, packs, cache, similar, lock, table, promoted, pc, job, bounds, late, torn>>
-----------------------------------------------------------------------------
Row == [ver : Versions \cup {None}, status : {"active", "retired"}, promoted : BOOLEAN]

NoFn == [x \in {} |-> 0]
Put(f, x, v) == [y \in DOMAIN f \cup {x} |-> IF y = x THEN v ELSE f[y]]
DropToNone(f, S) ==   \* mutant: a tombstone is left behind
  [y \in DOMAIN f |-> IF y \in S THEN None ELSE f[y]]
Drop(f, S)   == [y \in DOMAIN f \ S |-> f[y]]

Idle == [call |-> "none"]

Goto(t, s)   == pc' = [pc EXCEPT ![t] = s]
Finish(t)    == Goto(t, "idle") /\ job' = [job EXCEPT ![t] = Idle]
Fault        == faults < MaxFaults /\ faults' = faults + 1
Up(e)        == boot[e] = {}
Free(e)      == lock[e] = None
Take(t)      == lock' = [lock EXCEPT ![Home[t]] = t]
Release(t)   == lock' = [lock EXCEPT ![Home[t]] = None]

\* A call on id that has written one of memory and row, and not the other yet.
Halfway(t, id) == pc[t] \in {"clear", "prune", "row"} /\ job[t].pack.id = id

UpsertNew(id, row) ==   \* mutant: ON CONFLICT DO NOTHING
  IF id \in DOMAIN table THEN table ELSE Put(table, id, row)
\* upsert_parser: a row with the given fields, the others as they were.
Upsert(id, row) == Put(table, id, row)

RowOf(id) == IF id \in DOMAIN table THEN table[id]
             ELSE [ver |-> None, status |-> "active", promoted |-> FALSE]

Registered(e) == {[id |-> i, ver |-> packs[e][i]] : i \in DOMAIN packs[e]}
Candidates(e) == Registered(e) \cup {[id |-> Structural, ver |-> None]}

ScoreOf(c, s) == IF c.id = Structural THEN Base[s] ELSE Score[c.id][c.ver][s]

\* The candidates _route may run: the highest score, above zero.
Best(C, s) == {c \in C : ScoreOf(c, s) > 0 /\ \A d \in C : ScoreOf(d, s) <= ScoreOf(c, s)}
-----------------------------------------------------------------------------
Init ==
  /\ boot = [e \in Engines |-> DOMAIN Vendor]
  /\ packs = [e \in Engines |-> NoFn]
  /\ cache = [e \in Engines |-> NoFn]
  /\ similar = [e \in Engines |-> {}]
  /\ lock = [e \in Engines |-> None]
  /\ table = NoFn /\ promoted = {}
  /\ pc = [t \in Threads |-> "idle"]
  /\ job = [t \in Threads |-> Idle]
  /\ writes = 0 /\ faults = 0
  /\ late = [e \in Engines |-> FALSE] /\ torn = {}

\* load_parsers_dir, one file: nobody sees the engine before it has loaded all.
LoadFile(e, id) ==
  /\ id \in boot[e]
  /\ boot'  = [boot EXCEPT ![e] = @ \ {id}]
  /\ packs' = [packs EXCEPT ![e] = Put(@, id, Vendor[id])]
  /\ \/ /\ table' = Upsert(id, [RowOf(id) EXCEPT !.ver = Vendor[id], !.status = "active"])
        /\ torn' = IF \E t \in Threads : Halfway(t, id) THEN torn \cup {id} ELSE torn
        /\ UNCHANGED faults
     \/ /\ Fault                     \* the upsert raises: logged, the pack stays loaded
        /\ torn' = torn \cup {id}
        /\ UNCHANGED table
  /\ UNCHANGED <<cache, similar, lock, promoted, pc, job, writes, late>>
-----------------------------------------------------------------------------
(***************************************************************************)
(* load_bundle and promote: register_pack                                  *)
(***************************************************************************)
Admin(t) ==
  /\ pc[t] = "idle" /\ Up(Home[t]) /\ "admin" \in Calls[t]
  /\ writes < MaxWrites /\ writes' = writes + 1

StartRegister(t, p, g) ==
  /\ Admin(t)
  /\ Goto(t, "set")
  /\ job' = [job EXCEPT ![t] = [call |-> "register", pack |-> p, sug |-> g]]
  /\ UNCHANGED <<boot, packs, cache, similar, lock, table, promoted, faults, late, torn>>

\* The routes in progress in e, after p is there for them to see.
SeenBy(e, p) ==
  [u \in Threads |-> IF Home[u] = e /\ job[u].call = "route"
                     THEN [job[u] EXCEPT !.seen = @ \cup {p}] ELSE job[u]]

\* ... and after the cache they read, or chose without, has been cleared.
Overtaken(e) ==
  [u \in Threads |-> IF Home[u] = e /\ job[u].call = "route"
                     THEN [job[u] EXCEPT !.old = pc[u] = "store" \/ job[u].cached # None]
                     ELSE job[u]]

\* with self._lock: self.declarative[p.id] = p
SetPackUnlocked(t) ==   \* mutant: the lock is not taken
  /\ pc[t] = "set"
  /\ LET e == Home[t]
         p == job[t].pack
     IN /\ packs' = [packs EXCEPT ![e] = Put(@, p.id, p.ver)]
        /\ torn'  = IF \E u \in Threads \ {t} : Halfway(u, p.id) THEN torn \cup {p.id} ELSE torn
        /\ job'   = SeenBy(e, p)
  /\ Goto(t, "clear")
  /\ UNCHANGED <<lock, boot, cache, similar, table, promoted, bounds, late>>
SetPack(t) ==
  /\ pc[t] = "set" /\ Free(Home[t]) /\ Take(t)
  /\ LET e == Home[t]
         p == job[t].pack
     IN /\ packs' = [packs EXCEPT ![e] = Put(@, p.id, p.ver)]
        /\ torn'  = IF \E u \in Threads \ {t} : Halfway(u, p.id) THEN torn \cup {p.id} ELSE torn
        /\ job'   = SeenBy(e, p)
  /\ Goto(t, "clear")
  /\ UNCHANGED <<boot, cache, similar, table, promoted, bounds, late>>

\* self._routing_cache.clear(); the lock is released.
ClearCache(t) ==
  /\ pc[t] = "clear"
  /\ cache' = [cache EXCEPT ![Home[t]] = NoFn]
  /\ late'  = [late EXCEPT ![Home[t]] = FALSE]
  /\ job'   = Overtaken(Home[t])
  /\ Release(t)
  /\ Goto(t, "row")
  /\ UNCHANGED <<boot, packs, similar, table, promoted, bounds, torn>>

\* storage.upsert_parser.  If it raises, the handler answers 422 or 500 with
\* the change made in memory.
WriteRow(t) ==
  /\ pc[t] = "row"
  /\ LET p   == job[t].pack
         reg == job[t].call = "register"
     IN \/ /\ table' = Upsert(p.id, IF reg THEN [RowOf(p.id) EXCEPT !.ver = p.ver, !.status = "active"]
                                           ELSE [RowOf(p.id) EXCEPT !.status = "retired"])
           /\ IF reg /\ job[t].sug # None THEN Goto(t, "mark") /\ UNCHANGED job ELSE Finish(t)
           /\ UNCHANGED <<faults, torn>>
        \/ /\ Fault
           /\ torn' = torn \cup {p.id}
           /\ Finish(t)
           /\ UNCHANGED table
  /\ UNCHANGED <<boot, packs, cache, similar, lock, promoted, writes, late>>

\* promote: update_suggestion(status="promoted"), then upsert_parser(promoted_at)
MarkSuggestion(t) ==
  /\ pc[t] = "mark"
  /\ \/ /\ promoted' = promoted \cup {job[t].sug}
        /\ Goto(t, "stamp")
        /\ UNCHANGED <<job, faults>>
     \/ Fault /\ Finish(t) /\ UNCHANGED promoted
  /\ UNCHANGED <<boot, packs, cache, similar, lock, table, writes, late, torn>>

StampRow(t) ==
  /\ pc[t] = "stamp"
  /\ LET id == job[t].pack.id
     IN \/ table' = Upsert(id, [RowOf(id) EXCEPT !.promoted = TRUE]) /\ UNCHANGED faults
        \/ Fault /\ UNCHANGED table
  /\ Finish(t)
  /\ UNCHANGED <<boot, packs, cache, similar, lock, promoted, writes, late, torn>>
-----------------------------------------------------------------------------
(***************************************************************************)
(* retire_pack                                                             *)
(***************************************************************************)
\* with self._lock: self.declarative.pop(parser_id, None), and the iteration
\* over the cache begins.
StartRetire(t, id) ==
  /\ Admin(t)
  /\ Free(Home[t]) /\ Take(t)
  /\ LET e == Home[t]
     IN /\ packs' = [packs EXCEPT ![e] = Drop(@, {id})]
        /\ torn'  = IF \E u \in Threads \ {t} : Halfway(u, id) THEN torn \cup {id} ELSE torn
        /\ job'   = [job EXCEPT ![t] = [call |-> "retire", pack |-> [id |-> id, ver |-> None],
                                        existed |-> id \in DOMAIN packs[e], copy |-> cache[e]]]
  /\ Goto(t, "prune")
  /\ UNCHANGED <<boot, cache, similar, table, promoted, faults, late>>

\* If routing has added a shape during the iteration, Python may raise, and the
\* handler answers 500.
PruneRaiseLocked(t) ==   \* mutant: acquire and release instead of with
  /\ pc[t] = "prune"
  /\ DOMAIN cache[Home[t]] # DOMAIN job[t].copy
  /\ torn' = torn \cup {job[t].pack.id}
  /\ Finish(t)
  /\ UNCHANGED <<boot, packs, cache, similar, lock, table, promoted, bounds, late>>
PruneRaise(t) ==
  /\ pc[t] = "prune"
  /\ DOMAIN cache[Home[t]] # DOMAIN job[t].copy
  /\ torn' = torn \cup {job[t].pack.id}
  /\ Release(t)
  /\ Finish(t)
  /\ UNCHANGED <<boot, packs, cache, similar, table, promoted, bounds, late>>

\* The rebuilt dictionary replaces the cache: of the shapes routing has stored
\* anew the iteration saw the one or the other entry, and what was added since
\* is lost.
Prune(t) ==
  /\ pc[t] = "prune"
  /\ LET now == cache[Home[t]]
         was == job[t].copy
     IN \E new \in SUBSET (DOMAIN now \cap DOMAIN was) :
          LET read == [s \in DOMAIN was |-> IF s \in new THEN now[s] ELSE was[s]]
          IN cache' = [cache EXCEPT ![Home[t]] =
                         Drop(read, {s \in DOMAIN read : read[s] = job[t].pack.id})]
  /\ Release(t)
  /\ IF job[t].existed THEN Goto(t, "row") /\ job' = [job EXCEPT ![t].copy = NoFn] ELSE Finish(t)
  /\ UNCHANGED <<boot, packs, similar, table, promoted, bounds, late, torn>>
-----------------------------------------------------------------------------
(***************************************************************************)
(* run: _route, without the lock, and the tier-5 part of _fallback         *)
(***************************************************************************)
\* cached = self._routing_cache.get(shape_hash)
StartRoute(t, s) ==
  /\ pc[t] = "idle" /\ Up(Home[t]) /\ "route" \in Calls[t]
  /\ Goto(t, "pick")
  /\ job' = [job EXCEPT ![t] =
       [call |-> "route", shape |-> s, pick |-> None, old |-> FALSE, seen |-> Registered(Home[t]),
        cached |-> IF s \in DOMAIN cache[Home[t]] THEN cache[Home[t]][s] ELSE None]]
  /\ UNCHANGED <<boot, packs, cache, similar, lock, table, promoted, bounds, late, torn>>

\* The cached parser alone if it is registered, otherwise all of them.
OffersUnchecked(t) ==   \* mutant: the cache holds the parser object, of the first version
  IF job[t].cached \in Packs
  THEN {[id |-> job[t].cached, ver |-> CHOOSE v \in Versions : \A w \in Versions : v <= w]}
  ELSE Candidates(Home[t])
Offers(t) ==
  LET hit == {c \in Candidates(Home[t]) : c.id = job[t].cached}
  IN IF hit # {} THEN hit ELSE Candidates(Home[t])

\* The best candidate parses the text, well enough or not.
Pick(t) ==
  /\ pc[t] = "pick"
  /\ LET best == Best(Offers(t), job[t].shape)
     IN \/ best = {} /\ Goto(t, "fallback") /\ UNCHANGED job
        \/ \E c \in best : /\ Goto(t, "store") \/ Goto(t, "fallback")
                           /\ job' = [job EXCEPT ![t].pick = c]
  /\ UNCHANGED <<boot, packs, cache, similar, lock, table, promoted, bounds, late, torn>>

\* self._routing_cache[shape_hash] = id; upsert_fingerprint, which may raise
\* and then skips add_reference.
Store(t) ==
  /\ pc[t] = "store"
  /\ LET e  == Home[t]
         id == job[t].pick.id
     IN /\ cache' = [cache EXCEPT ![e] = Put(@, job[t].shape, id)]
        /\ late'  = [late EXCEPT ![e] = @ \/ job[t].old]
        /\ \/ similar' = [similar EXCEPT ![e] = @ \cup {id}] /\ UNCHANGED faults
           \/ Fault /\ UNCHANGED similar
  /\ Finish(t)
  /\ UNCHANGED <<boot, packs, lock, table, promoted, writes, torn>>

\* Tier 5: a pack with a similar reference, if it is still registered, is run on
\* the text.  Its result is dropped: copying it into an IR, which has slots and
\* no __dict__, raises, and the handler notes the error (Ladder, Tier5).
Fallback(t) ==
  /\ pc[t] = "fallback"
  /\ \/ \E c \in Registered(Home[t]) :
          /\ c.id \in similar[Home[t]]
          /\ job' = [job EXCEPT ![t].pick = c]
          /\ Goto(t, "tier5")
     \/ Finish(t)
  /\ UNCHANGED <<boot, packs, cache, similar, lock, table, promoted, bounds, late, torn>>

Tier5Done(t) ==
  /\ pc[t] = "tier5"
  /\ Finish(t)
  /\ UNCHANGED <<boot, packs, cache, similar, lock, table, promoted, bounds, late, torn>>
-----------------------------------------------------------------------------
\* A process dies or is restarted: memory is gone, its calls are cut off.
Restart(e) ==
  /\ Fault
  /\ boot'    = [boot EXCEPT ![e] = DOMAIN Vendor]
  /\ packs'   = [packs EXCEPT ![e] = NoFn]
  /\ cache'   = [cache EXCEPT ![e] = NoFn]
  /\ similar' = [similar EXCEPT ![e] = {}]
  /\ lock'    = [lock EXCEPT ![e] = None]
  /\ pc'      = [t \in Threads |-> IF Home[t] = e THEN "idle" ELSE pc[t]]
  /\ job'     = [t \in Threads |-> IF Home[t] = e THEN Idle ELSE job[t]]
  /\ late'    = [late EXCEPT ![e] = FALSE]
  /\ torn'    = torn \cup DOMAIN packs[e]
                     \cup {id \in Packs : \E t \in Threads : Home[t] = e /\ Halfway(t, id)}
  /\ UNCHANGED <<table, promoted, writes>>

AdminStep(t) ==
  \/ SetPack(t) \/ ClearCache(t) \/ WriteRow(t) \/ MarkSuggestion(t) \/ StampRow(t)
  \/ PruneRaise(t) \/ Prune(t)
RouteStep(t) == Pick(t) \/ Store(t) \/ Fallback(t) \/ Tier5Done(t)

Next ==
  \/ \E e \in Engines : Restart(e) \/ \E id \in Packs : LoadFile(e, id)
  \/ \E t \in Threads :
       \/ \E p \in Pack : StartRegister(t, p, None)
       \/ \E g \in Suggestions : StartRegister(t, Draft[g], g)
       \/ \E id \in Packs : StartRetire(t, id)
       \/ \E s \in Shapes : StartRoute(t, s)
       \/ AdminStep(t)
       \/ RouteStep(t)

Spec == Init /\ [][Next]_vars

\* A thread that serves a call is scheduled, and its storage calls return or
\* raise.  The lock is not assumed to be fair.
FairSpec == Spec /\ \A t \in Threads : WF_vars(AdminStep(t)) /\ WF_vars(RouteStep(t))
-----------------------------------------------------------------------------
(***************************************************************************)
(* Properties                                                              *)
(***************************************************************************)
IsPartial(f, S, T) == DOMAIN f \subseteq S /\ f \in [DOMAIN f -> T]

Steps == {"idle", "set", "clear", "row", "mark", "stamp", "prune", "pick", "store", "fallback", "tier5"}

RegisterJob == [call : {"register"}, pack : Pack, sug : Suggestions \cup {None}]
RouteJob    == [call : {"route"}, shape : Shapes, pick : Candidate \cup {None}, old : BOOLEAN,
                seen : SUBSET Pack, cached : Packs \cup {Structural, None}]
IsRetireJob(j) ==
  /\ DOMAIN j = {"call", "pack", "existed", "copy"}
  /\ j.call = "retire" /\ j.pack \in [id : Packs, ver : {None}] /\ j.existed \in BOOLEAN
  /\ IsPartial(j.copy, Shapes, Packs \cup {Structural})

\* Every variable holds a value of its kind.
TypeOK ==
  /\ boot \in [Engines -> SUBSET DOMAIN Vendor]
  /\ packs = [e \in Engines |-> packs[e]] /\ cache = [e \in Engines |-> cache[e]]
  /\ \A e \in Engines : IsPartial(packs[e], Packs, Versions)
                        /\ IsPartial(cache[e], Shapes, Packs \cup {Structural})
  /\ similar \in [Engines -> SUBSET (Packs \cup {Structural})]
  /\ lock \in [Engines -> Threads \cup {None}]
  /\ IsPartial(table, Packs, Row) /\ promoted \subseteq Suggestions
  /\ pc \in [Threads -> Steps]
  /\ job = [t \in Threads |-> job[t]]
  /\ \A t \in Threads : job[t] \in RegisterJob \cup RouteJob \cup {Idle} \/ IsRetireJob(job[t])
  /\ late \in [Engines -> BOOLEAN] /\ torn \subseteq Packs
  /\ writes \in Nat /\ faults \in Nat

\* An event is handed to a pack version that was registered in its process at
\* some time during the call, never to one retired or replaced before it,
\* whatever the routing cache and the similarity index remember.
NeverRetired ==
  \A t \in Threads :
    job[t].call = "route" /\ job[t].pick # None =>
      job[t].pick.id = Structural \/ job[t].pick \in job[t].seen

\* The cache loses no accuracy (docs/research.md:189), as far as one score per
\* shape can tell (Ladder has lines of one shape that differ): outside a
\* registration, the parser cached for a shape is one that scoring all of them would choose,
\* unless a route begun before the last registration was cached after it.
CacheIsBest ==
  \A e \in Engines :
    (\A t \in Threads : Home[t] = e => pc[t] # "clear") /\ ~late[e] =>
      \A s \in DOMAIN cache[e] : \A c \in Candidates(e) :
        c.id = cache[e][s] => c \in Best(Candidates(e), s)

\* The parsers table says what the engine serves: unless calls on a pack
\* overlapped, failed, or were cut off, its row is active exactly if the pack is
\* loaded, with the version that is loaded.
TableAgrees ==
  \A e \in Engines, id \in Packs \ torn :
    Up(e) /\ (\A t \in Threads : ~Halfway(t, id)) =>
      /\ id \in DOMAIN packs[e] <=> (id \in DOMAIN table /\ table[id].status = "active")
      /\ id \in DOMAIN packs[e] => table[id].ver = packs[e][id]

\* Every call returns: no path leaves the lock behind, and two calls never wait
\* for each other.
CallsReturn == \A t \in Threads : pc[t] # "idle" ~> pc[t] = "idle"
=============================================================================
