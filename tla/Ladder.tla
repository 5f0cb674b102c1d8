------------------------------- MODULE Ladder -------------------------------
(***************************************************************************)
(* The parsing ladder, ParserEngine.run (uli/engine.py), of the threads of *)
(* one process, with the packs that are registered in it (Registry is      *)
(* about how they come and go).                                            *)
(*                                                                         *)
(* Threads share the routing cache, the similarity index and the circuit   *)
(* breaker of the ML client.  What a call does between two accesses to     *)
(* these is one action: the interpreter (pyproject.toml asks for CPython   *)
(* 3.12) switches threads at calls and loops only.  What the ML service    *)
(* answers is an annotation that decides nothing, and is left out.         *)
(***************************************************************************)
EXTENDS Fields

CONSTANTS
  Threads,
  Names, Line,    \* the lines that arrive
  Packs,          \* the registered packs, in their order
  Similarity,     \* Jaccard index of the n-grams of two shapes, in hundredths
  Failures,       \* ml_circuit_failures
  Reset,          \* ml_circuit_reset_s
  MaxLines, MaxTime, MaxFaults   \* bounds of a run

ASSUME ThreadsAssumption == IsFiniteSet(Threads) /\ Failures \in Nat \ {0} /\ Reset \in Nat \ {0}

\* A line is finite text.  Packs are a dictionary by id, and pack.schema.json bounds
\* the base and names the kinds of signatures.
ASSUME LineAssumption ==
  \A n \in Names : IsFiniteSet(DOMAIN Line[n].pairs) /\ IsFiniteSet(DOMAIN Line[n].groups)
ASSUME PacksAssumption ==
  /\ Packs \in Seq(Range(Packs))
  /\ \A i, j \in DOMAIN Packs : Packs[i].id = Packs[j].id => i = j
  /\ \A d \in Range(Packs) :
       /\ d.base \in 0..100
       /\ \A s \in d.sigs : s.kind \in DOMAIN SignatureScore
       /\ d.extracts \in Seq(Range(d.extracts)) /\ d.rules \in Seq(Range(d.rules))

Known == 60       \* tau_known
Similar == 80     \* similarity_threshold

\* What each parser says of each line, in the order in which they are asked.
Answers == [n \in Names |-> [i \in 1..Len(Packs) |-> Declarative(Packs[i], Line[n])]
                            \o StructuralParsers(Line[n])]
ById(answers, id) == answers[Min({i \in 1..Len(answers) : answers[i].id = id})]
AnswerOf(n, id) == ById(Answers[n], id)

VARIABLES
  cache,      \* _routing_cache: shape |-> id of a parser
  refs,       \* the similarity index: pairs of a parser id and a shape
  failures,   \* _failures and _open_until of the ML client
  openUntil,
  now,        \* time.monotonic()
  pc, job,    \* the call of each thread; of a finished one, what it returns
  taken, faults,
  calls, quiet   \* history: sidecar calls since the last success, and its time

vars == <<cache, refs, failures, openUntil, now, pc, job, taken, faults, calls, quiet>>

NoJob == [line |-> None, hit |-> FALSE, ir |-> None, ids |-> {}, broke |-> FALSE]

Init ==
  /\ cache = NoFields /\ refs = {}
  /\ failures = 0 /\ openUntil = 0 /\ now = 0
  /\ pc = [t \in Threads |-> "idle"]
  /\ job = [t \in Threads |-> NoJob]
  /\ taken = 0 /\ faults = 0 /\ calls = 0 /\ quiet = 0

Goto(t, step) == pc' = [pc EXCEPT ![t] = step]
SetIR(t, ir) == job' = [job EXCEPT ![t].ir = ir]
Fault == faults < MaxFaults /\ faults' = faults + 1
-----------------------------------------------------------------------------
\* The parser cached for the shape is asked alone.
CandidatesAnyShape(n) ==   \* mutant: whatever is cached last is asked
  IF DOMAIN cache = {} THEN Answers[n]
  ELSE <<AnswerOf(n, cache[CHOOSE s \in DOMAIN cache : TRUE])>>
Candidates(n) ==
  IF Line[n].shape \in DOMAIN cache THEN <<AnswerOf(n, cache[Line[n].shape])>> ELSE Answers[n]

\* The first of the best scores wins; nobody does with a score of 0.
Winner(answers) ==
  LET best == Max({a.score : a \in Range(answers)})
  IN IF best = 0 THEN None ELSE answers[Min({i \in 1..Len(answers) : answers[i].score = best})]

CacheableAll(ir) == TRUE   \* mutant: what is not known is cached too
Cacheable(ir) == ir.conf >= Known

NoMatch == [NewIR("none", 7, 0) EXCEPT !.errs = {"no_tier1_2_match"}]

\* run and _route up to the reading of the line.  The can_parse of a parser may
\* raise, which counts as 0, and so may the parse of the winner.
Route(t, n) ==
  LET begin(answers, ir) ==
        /\ job' = [job EXCEPT ![t] = [NoJob EXCEPT !.line = n, !.ir = ir,
                                                   !.hit = Line[n].shape \in DOMAIN cache]]
        /\ Goto(t, IF Cacheable(ir) THEN "store" ELSE "infer")
      read(answers) == begin(answers, IF Winner(answers) = None THEN NoMatch ELSE Winner(answers).ir)
  IN /\ pc[t] \in {"idle", "done"} /\ taken < MaxLines
     /\ taken' = taken + 1
     /\ \/ read(Candidates(n)) /\ UNCHANGED faults
        \/ /\ Fault
           /\ \E i \in DOMAIN Candidates(n) : read([Candidates(n) EXCEPT ![i].score = 0])
        \/ /\ Fault
           /\ LET w == Winner(Candidates(n))
              IN w # None /\ begin(Candidates(n), [NewIR(w.id, 7, 0) EXCEPT !.errs = {"exception"}])
     /\ UNCHANGED <<cache, refs, failures, openUntil, now, calls, quiet>>

\* The handler of Pipeline._compute: run raised.
Broken(t) ==
  /\ job' = [job EXCEPT ![t].ir = [NewIR("engine.error", 7, 0) EXCEPT !.errs = {"exception"}],
                        ![t].broke = TRUE]
  /\ Goto(t, "done")

\* A line that is known is cached before its fingerprint is stored, and nothing
\* guards upsert_fingerprint.
Store(t) ==
  /\ pc[t] = "store"
  /\ cache' = Put(cache, Line[job[t].line].shape, job[t].ir.id)
  /\ \/ Goto(t, "index") /\ UNCHANGED <<job, faults>>
     \/ Fault /\ Broken(t)
  /\ UNCHANGED <<refs, failures, openUntil, now, taken, calls, quiet>>

\* add_reference; that the oldest of 200 references goes is left out.
AddReference(t) ==
  LET shape == Line[job[t].line].shape
  IN /\ pc[t] = "index"
     /\ refs' = IF \E r \in refs : r[1] = job[t].ir.id /\ Similarity[shape][r[2]] > 95
                THEN refs ELSE refs \cup {<<job[t].ir.id, shape>>}
     /\ Goto(t, "infer")
     /\ UNCHANGED <<cache, failures, openUntil, now, job, taken, faults, calls, quiet>>

\* Tier 4 in _fallback.  Mining may fail, which it notes.
MinedAlways(ir, errs) ==   \* mutant: a partial reading of tier 1 or 2 is mined over
  [ir EXCEPT !.tier = 4, !.id = "engine.drain3", !.errs = @ \cup errs,
             !.conf = Max({@, IF errs = {} THEN 50 ELSE 20})]
Mined(ir, errs) ==
  IF ir.tier <= 4 THEN [ir EXCEPT !.errs = @ \cup errs]
  ELSE [ir EXCEPT !.tier = 4, !.id = "engine.drain3", !.errs = @ \cup errs,
                  !.conf = Max({@, IF errs = {} THEN 50 ELSE 20})]

\* Tier 3 for every line; a known one is then done, another goes on to tier 4.
\* One fault is that either of them fails, or both.
InferAndMine(t) ==
  LET x == Line[job[t].line]
      found == Infer(job[t].ir, x)
      go(ir, errs) == IF ir.conf >= Known THEN SetIR(t, ir) /\ Goto(t, "done")
                      ELSE SetIR(t, Mined(ir, errs)) /\ Goto(t, "match")
  IN /\ pc[t] = "infer"
     /\ \/ go(found, {}) /\ UNCHANGED faults
        \/ /\ Fault
           /\ \E ir \in {found} \cup InferRaised(job[t].ir, x), errs \in {{}, {"template_mining_error"}} :
                go(ir, errs)
     /\ UNCHANGED <<cache, refs, failures, openUntil, now, taken, calls, quiet>>

Ids == {r[1] : r \in refs}

StartMatch(t) ==
  /\ pc[t] = "match"
  /\ job' = [job EXCEPT ![t].ids = Ids]
  /\ Goto(t, "matching")
  /\ UNCHANGED <<cache, refs, failures, openUntil, now, taken, faults, calls, quiet>>

\* Tier 5.  A pack whose shapes are similar enough is run on the line, but what
\* it reads never gets into the result: an IR has slots and no __dict__, so the
\* copying raises, and the handler notes that, as it does when the reading raises.
Tier5(ir, n) ==
  LET sim(r) == Similarity[Line[n].shape][r[2]]
      near   == {r \in refs : sim(r) >= Similar}
      best   == {r \in near : \A q \in near : sim(q) <= sim(r)}
      noted  == [ir EXCEPT !.errs = @ \cup {"similarity_candidate_error"}]
      pack(r)   == \E i \in DOMAIN Packs : Packs[i].id = r[1]
      better(r) == Times(AnswerOf(n, r[1]).ir.conf, sim(r)) > ir.conf
  IN {noted : r \in {q \in best : pack(q)}}
     \cup {ir : r \in {q \in best : ~(pack(q) /\ better(q))}} \cup (IF near = {} THEN {ir} ELSE {})

\* best_match loops over the index: when another thread has added a parser to it
\* meanwhile, the loop raises, and run with it.
EndMatch(t) ==
  /\ pc[t] = "matching"
  /\ IF job[t].ids \notin {{}, Ids} THEN Broken(t)
     ELSE \E ir \in Tier5(job[t].ir, job[t].line) : SetIR(t, ir) /\ Goto(t, "ask")
  /\ UNCHANGED <<cache, refs, failures, openUntil, now, taken, faults, calls, quiet>>

\* Tier 7.
Quarantine(ir) == [ir EXCEPT !.tier = IF ir.conf < 40 THEN 7 ELSE @,
                             !.id = IF @ = "none" THEN "engine.quarantine" ELSE @]
Return(t) == SetIR(t, Quarantine(job[t].ir)) /\ Goto(t, "done")

\* classify_and_score: the sidecar is asked unless the circuit is open.
Available == now >= openUntil
Ask(t) ==
  /\ pc[t] = "ask"
  /\ IF Available THEN Goto(t, "call") /\ calls' = calls + 1 /\ UNCHANGED job
     ELSE Return(t) /\ UNCHANGED calls
  /\ UNCHANGED <<cache, refs, failures, openUntil, now, taken, faults, quiet>>

TripsLate(count) == count > Failures   \* mutant: one failure too many
Trips(count) == count >= Failures
CountFailure(count) ==
  /\ failures' = count
  /\ openUntil' = IF Trips(count) THEN now + Reset ELSE openUntil

\* The answer comes, is an error or does not come in time, or is no JSON: that is
\* found after the failures were forgotten.
Reply(t) ==
  /\ pc[t] = "call"
  /\ \/ /\ failures' = 0 /\ UNCHANGED openUntil
        /\ calls' = 0 /\ quiet' = now
     \/ CountFailure(failures + 1) /\ UNCHANGED <<calls, quiet>>
     \/ CountFailure(1) /\ calls' = 0 /\ quiet' = now
  /\ Return(t)
  /\ UNCHANGED <<cache, refs, now, taken, faults>>

Tick ==
  /\ now < MaxTime
  /\ now' = now + 1
  /\ UNCHANGED <<cache, refs, failures, openUntil, pc, job, taken, faults, calls, quiet>>

Next ==
  \/ Tick
  \/ \E t \in Threads :
       \/ \E n \in Names : Route(t, n)
       \/ Store(t) \/ AddReference(t) \/ InferAndMine(t) \/ StartMatch(t) \/ EndMatch(t)
       \/ Ask(t) \/ Reply(t)

Spec == Init /\ [][Next]_vars
-----------------------------------------------------------------------------
(***************************************************************************)
(* Properties                                                              *)
(***************************************************************************)
Parser == {a.id : a \in UNION {Range(Answers[n]) : n \in Names}}
Engine == {"none", "engine.drain3", "engine.quarantine", "engine.error"}

\* Every variable holds a value of its kind, and a confidence is at most 1.
TypeOK ==
  /\ DOMAIN cache \subseteq {Line[n].shape : n \in Names} /\ Range(cache) \subseteq Parser
  /\ refs \subseteq Parser \X {Line[n].shape : n \in Names}
  /\ failures \in Nat /\ openUntil \in Nat /\ now \in Nat
  /\ pc \in [Threads -> {"idle", "store", "index", "infer", "match", "matching", "ask", "call", "done"}]
  /\ \A t \in Threads : pc[t] # "idle" =>
       /\ job[t].line \in Names /\ job[t].ir.id \in Parser \cup Engine
       /\ job[t].ir.tier \in 1..7 /\ job[t].ir.conf \in 0..100

Result(t) == job[t].ir
Returned == {t \in Threads : pc[t] = "done"}

\* The tier of an event says how it was read, whatever failed on the way: tiers
\* 1 and 2, with the confidence of the parser it names, which is at least .4;
\* tier 4, that no parser read it, and mining did; tier 7, that the confidence
\* is below .4.  No other tier is ever given.
TierMeans ==
  \A t \in Returned :
    LET ir == Result(t)
    IN /\ ir.tier = 7 <=> ir.conf < 40
       /\ ir.tier # 7 =>
            \/ ir.id \in Parser /\ ir.tier = AnswerOf(job[t].line, ir.id).ir.tier
               /\ ir.conf = AnswerOf(job[t].line, ir.id).ir.conf
            \/ ir.id = "engine.drain3" /\ ir.tier = 4 /\ ir.conf < Known
               /\ ir.errs \cap {"no_tier1_2_match", "exception"} # {}
       /\ job[t].broke <=> ir.id = "engine.error"

IsBest(n, id) == AnswerOf(n, id).score = Max({a.score : a \in Range(Answers[n])})

\* A line is read by a parser that scores it best, or by one that a line of its
\* shape went to, which scored that line best and knew it, as long as no
\* can_parse raises.
ReadByBest ==
  \A t \in Returned :
    LET n == job[t].line  id == Result(t).id
    IN faults = 0 /\ id \in Parser =>
         \/ IsBest(n, id)
         \/ /\ job[t].hit
            /\ \E m \in Names : /\ Line[m].shape = Line[n].shape
                               /\ IsBest(m, id) /\ AnswerOf(m, id).ir.conf >= Known

\* A sidecar that does not answer costs few timeouts: from a success on there are
\* at most as many calls as open the circuit and one more of every other thread,
\* and then one of every thread in each reset period (docs/architecture.md:137,
\* "never blocks").
FailsFast ==
  calls <= Failures - 1 + Cardinality(Threads) * (1 + (now - quiet) \div Reset)

\* What the value v of the field named n is in the event: hidden under a private
\* name, unless tier 3 raised.
Shown(errs, n, v) ==
  IF n \in Private /\ v \notin Empty /\ "inference_error" \notin errs THEN Redacted ELSE v

\* Names under which the normalizer replaces what is mapped.
Replaced == {"time", "observables", "unmapped", "raw_data"}

\* Whatever path a line took, its event has every value of the parser it names, a
\* list as its text (docs/data-model.md:80, but for the names with a reserved
\* prefix, and what is mapped where the normalizer puts values of its own).  Unless
\* tier 3 raised, it hides the secrets among them under every name that is private.
\* An address or port that was inferred is never added to an endpoint of which the
\* parser maps a part.
EventComplete ==
  \A t \in Returned :
    LET id   == Result(t).id
        errs == Result(t).errs
        f    == IF id \in Parser /\ "exception" \notin errs
                THEN AnswerOf(job[t].line, id).ir.fields ELSE NoFields
        ev   == Normalize(Result(t))
        sec  == {k \in {<<"", n>> : n \in Private} \cap DOMAIN f : f[k] \notin Empty \cup {Redacted}}
        ocsf == {k \in DOMAIN f : k[1] = "ocsf"}
        kept == {k \in ocsf : Head(k[2]) \notin Replaced /\ k[2] # <<"metadata">>}
        ends == {Head(k[2]) : k \in ocsf} \cap {"src_endpoint", "dst_endpoint"}
    IN /\ \A k \in DOMAIN f : k[1] = "" /\ f[k] # None =>
            Get(ev, <<"unmapped", k[2]>>) = Scalar(Shown(errs, k[2], f[k]))
       /\ \A k \in kept : Get(ev, k[2]) = Shown(errs, Last(k[2]), f[k])
       /\ "inference_error" \notin errs =>
            \A p \in DOMAIN ev \ {<<"severity_id">>}, k \in sec : ev[p] = f[k] => Last(p) \notin Private
       /\ \A p \in DOMAIN ev : Head(p) \in ends => <<"ocsf", p>> \in DOMAIN f
=============================================================================
