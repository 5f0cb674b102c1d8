# A TLA+ verification of the Universal Log Intelligence pipeline

This directory holds a formal model of the log-ingestion system in `collector/` and `uli/`:
TLA+ modules, TLC configurations that check them on small instances, and theorems whose proofs
TLAPS checks. It is about what the unit and end-to-end tests can hardly reach: interleavings of
workers and goroutines, crashes between two steps, failing calls, lost replies, duplicate
deliveries and boundaries of segments, pages and batches.

Contents: [the system](#the-system) · [the modules](#the-modules) · [the runs](#the-runs) ·
[the proofs](#the-proofs) · [disagreements with the documentation](#disagreements-with-the-documentation) ·
[not modelled](#what-is-not-modelled) · [the plan](#the-plan)

## The system

A log line travels

    listener -> batcher -> POST /v1/ingest -> queue -> worker -> pipeline -> raw store + SQL tables
     (collector, Go)          (api)         (Redis)  (runner.py) (pipeline.py)

| component | source | state | operations | interacts with |
|---|---|---|---|---|
| collector batcher | `collector/cmd/uli-collector/main.go` | `buf` per source, batches in flight; memory only | `add`, `loop`, `flushSource` | listeners call `add`; posts to the API |
| collector framing, tail | same file | reader position, file offset | `udpListener`, `handleTCP`, `tailFile` | calls `add` |
| API | `uli/api/app.py` | none of its own | ingest, raw and event queries, parser bundles, suggestions | queue, pipeline, raw store, engine, SQL |
| Redis queue | `uli/ingestion/queue.py` | stream, consumer group, pending entries (in Redis); `first` per generator | `publish`, `consume`, `ack` | Redis server |
| memory queue | same file | `queue.Queue` of one process | same | API thread and consumer thread |
| worker | `uli/workers/runner.py` | stop flag, batch in hand | read, process, acknowledge, resource tick | queue, pipeline, resource agent |
| pipeline | `uli/pipeline.py` | locals of the call only | `process`, `process_batch`, `_emergency_event` | raw store, SQL, engine, drift monitor, unknown registry |
| raw store | `uli/storage/raw_store.py` | open segments, sizes, buffers; `.ndjson` and `.ndjson.gz` files | `append`, `_rotate`, `_compress`, `read`, `flush`, `close` | file system |
| SQL storage | `uli/storage/sql.py` | tables | one transaction per method | SQLite or PostgreSQL |
| engine and registry | `uli/engine.py` | parsers in memory, routing cache, breaker of the ML client | `register_pack`, `retire_pack`, `run` | SQL `parsers`, ML sidecar |
| drift monitor | `uli/drift/parser_drift.py` | windows, hits, references per (source, parser) | `observe` | SQL |
| unknown registry | `uli/detection/unknown.py` | SQL rows | `record_unknown` | SQL, `suggest` endpoint |
| resource drift, correlator | `uli/drift/resource.py`, `correlator.py` | SQL rows | `tick`, `correlate` | raw store, SQL |
| parser evolution | `uli/drift/evolution.py` | none: pure | `align`, `transfer_labels`, `synthesize_pack_yaml` | `suggest` endpoint |
| parsers | `uli/parsers/*`, `uli/fingerprint.py`, `uli/timestamps.py`, `uli/normalization/ocsf.py` | Drain3 miners on disk, otherwise pure | `can_parse`, `parse`, `mine`, `infer`, `normalize` | engine |

What makes each part correct, and what makes it hard:

* **Raw store.** A `raw_index` row is a promise: its segment, offset and length lead to the bytes.
  Hard: the line sits in a buffer when the row is committed; rotation closes, compresses and
  unlinks files under readers; sizes are private to a process; numbering must not reuse a
  compressed segment; a copy may fail or a process die at any step.
* **Pipeline.** Meant to be total: one event per arrival, always with provenance, whatever call fails.
  Hard: `payload()`, which no handler covers; eleven calls that can fail, four handlers that each cover
  several of them, a fallback that repeats writes, duplicates within a batch and across threads,
  counters updated by several workers.
* **Queue and worker.** At-least-once delivery with one owner per message. Hard: crash between
  write and acknowledgement, replies lost after the server has moved on, stream trimming, poison
  messages, a consumer name that changes with the container, the recovery read that is done once.
* **Collector.** Every line is in one buffer or one batch until it is out. Hard: two goroutines
  flush the same source; the post is made without the lock, is retried, and may have been
  stored when it failed.
  Framing and tailing are sequential, but against a stream that may break anywhere and a file
  another program writes, cuts and replaces.
* **Registry, drift, unknown registry.** Read-compute-write cycles of several threads on shared
  memory and rows; memory and database updated one after the other.
* **Ladder, parsers, inference, normalization.** One event for a line, however it was read. Hard:
  every call on the way may raise, a line may take many paths through seven tiers, what one tier
  leaves in the fields another takes up, and a secret has to be hidden on all of them; the routing
  cache, the similarity index and the circuit breaker are shared by threads without a lock.
* **Parser evolution.** A dynamic programme whose traceback must agree with its table.

`PROJECT.json` lists every hazard with its line and with the properties that cover it.

## The modules

| module | models | notes |
|---|---|---|
| `RawStore` | `LocalRawStore`, and the commit of `raw_index` rows | one action per critical section or system call |
| `Pipeline` | `process`, `process_batch`, `_emergency_event` over `raw_index`, `events`, `sources` | one action per call that can fail |
| `AtLeastOnce` | nothing: the abstract promise of a queue | implemented by `Delivery` |
| `Delivery` | `RedisStreamsQueue`, the consumer group, `runner.main` | |
| `Collector` | `batcher`, with the ingest endpoint as its server | |
| `Registry` | the packs, routing cache and similarity index of `ParserEngine`; the `parsers` table; `load_bundle`, `retire_parser`, `promote` | one action per critical section, read or storage call |
| `Parsers` | the nine structural parsers and declarative packs | functions of a line |
| `Fields` | `infer` (tier 3) and `normalize` | functions of fields |
| `Ladder` | `ParserEngine.run` and `_fallback` in several threads, with the circuit breaker of `MLClient`; extends `Fields`, which extends `Parsers` | one action per access to what threads share |
| `Detection` | `DriftMonitor.observe`, `correlate`, `record_unknown`, `suggest`, `ResourceDriftAgent.tick` | one action per critical section or storage call |
| `Evolution` | `align`, `transfer_labels` | functions, with a reference definition |
| `Intake` | `handleTCP`, `tailFile` | framing is a function of bytes; the tail has an action per read |
| `MCRawStore`, `MCPipeline`, `MCDelivery`, `MCCollector`, `MCRegistry`, `MCLadder`, `MCDetection` | the instances TLC checks | |
| `SetLemmas`, `DeliveryProofs`, `PipelineProofs`, `RegistryProofs`, `CollectorProofs`, `RawStoreProofs`, `DetectionProofs`, `LadderProofs` | lemmas and theorems | |

`Ladder`, `Registry` and `Pipeline` are three views of one call. `Pipeline` has parsing as a step
that succeeds or raises; `Ladder` opens that step, for packs that stay; `Registry` has the packs come
and go, for lines that are shapes only. `Detection` is what `Pipeline`'s step does after parsing.

Operators named after a change to the code ("mutant") stand beside the action they vary. No
specification uses them: they record a plausible bug that the property named with them in
`PROJECT.json` detects.

### RawStore

A file is an *extent*: a length and the set of lines with the offset each starts at. This keeps
what matters of bytes: a read at an offset returns the record exactly when the record's line starts
there, and appending shifts buffered lines by the length of the file. `file` and `gz` are the plain
and the compressed files by path (directory, day, number). `seg[p][k]` is `_segments` of process
`p`: the path, the private size, the buffered extent, and whether the handle is open. `lock[p]` is
`_lock`: `append` holds it from the start of `_rotate` to the write (`StartRotate`,
`CompressSegment`, `UnlinkPlain`, `OpenSegment`), `flush` one segment at a time (`FlushOne`,
`FlushDone`), `close` likewise (`ExitStart`, `ExitFlush`). `Append` is the whole of `append` when
there is room. The buffer follows Python's `BufferedWriter`: a line that does not fit flushes it
first, a line larger than the buffer bypasses it. `read_record` flushes under the lock and then,
without it, probes (`Probe`) and opens (`OpenAndRead`), as `_open` does. `IndexRaw` is the commit
of a row for a location `append` returned; it keeps an existing row. `Crash` drops everything in
memory; if the process was writing a `.gz` it may stay behind incomplete.

Abstractions: the hash check of `_compress` is the choice in `UnlinkPlain`; the content of a
partial `.gz` is empty; records are model values with a length.

### Pipeline

`raw`, `index`, `events` and `count` are the raw store and the tables; the locals of each thread's
call are variables named as in the code (`known` is `existing`, `new` is `new_index_rows`, `rows` is
`event_rows`, `loc` is `locs`). `pc` walks through the phases of `process_batch`; the same steps in
single mode are `process`. Every call has an alternative guarded by `Fault` that takes the handler
the code has at that place: a logged warning and a default in batch mode, `_emergency_event` in
single mode and around `_compute`. The three steps of `_emergency_event` can fail as well, and
`EmergencyRaises` is an exception that leaves the "total" functions: `fingerprint` or
`normalize` raising inside the emergency path. The other one is in `Start`: `payload()` of an
envelope that does not decode (`Undecodable`) raises before any handler, in `process_batch` for the
whole batch, in `process` once more in its handler, and `raised` records the batch that is lost with
it. `ReadCount` and `WriteCount` are the two statements
of `upsert_source`; `UpsertSources` is the single statement of the bulk version. `Entry` says which
entry point an arrival comes through, since the API and the worker call `process_batch` and the
callers of `process` are others.

One history variable, `past`, says which arrivals of its content an arrival came after (their calls were
over) or together with (one call); no guard reads it.

Abstractions: the raw store is a sequence that never loses a record (`RawStore` is where it may);
parsing, drift and unknown recording are one step; a primary-key conflict of two `index_raw` calls
is one of the failures; a batch is a set, so the order within a batch is arbitrary.

### Delivery and AtLeastOnce

Messages are numbered in stream order. `published`, `trimmed`, `last` and `pel` are the server:
what has been added, trimmed, delivered to the group, and is pending for a consumer. A worker reads
one page of its own pending entries (`ReadPending`), then new ones (`ReadNew`), acknowledges what
does not decode (`Parse`), processes (`Process`, which may raise) and acknowledges (`Ack`). `Stop`
is every way down: a crash with part of the batch stored, an exception of Redis, and the stop flag,
which leaves the batch just fetched. A spare consumer name starts only after a container was
replaced. `ReadNew` may lose the reply.

`AtLeastOnce` says: a published message is owed, it is settled only when it has been handled at
least once or is excused. `Delivery` instantiates it with "owed" as what is not delivered yet
together with what is pending, and "excused" as unreadable, trimmed or raised.

### Collector

Line `n` of a source is the n-th line its listener reads. `Add` appends and, if the buffer is full,
makes the listener flush; `Tick` copies the ids of the sources; `Take` is the locked part of
`flushSource`; the post succeeds, fails after the server stored the first `k` lines (the API
publishes line by line), or times out while the request is still under way (`late`). `Retry` gives
up after `Attempts`. `Crash` loses what is in memory.

### Intake

`handleTCP` is a recursive function from the bytes of a connection to the messages it adds (`Message` is
one round of its loop): a first byte that is a digit makes it a counted message (`Counted`, with what
`strconv.Atoi` rejects and the limit of 1 MiB), any other a line (`Ended`). `Send` puts messages on the
connection, framed in either way of RFC 6587, or counted and followed by a newline; `stream` is all of
its bytes, and each message has the place where it begins.

A file is a sequence of pieces, three for each line: two halves and the newline. `Write` writes a line
at once or in two goes; `Replace` moves another file to the path or truncates it. `Open` is the
beginning of a pass of `tailFile`, `Read` one return of `ReadString` or one read into its buffer; the
buffer and the open file are as they were when the path changed, which is what can go wrong.

Abstractions: the reader's error while a file is read is left out (an unreadable file is only
retried); bytes are what the framing distinguishes (a digit, a blank, a newline, anything else).

### Registry

Every process `e` has an engine: `packs[e]` is `declarative`, `cache[e]` is `_routing_cache`,
`similar[e]` the ids in the similarity index, `lock[e]` is `_lock`; `table` and `promoted` are the
shared `parsers` and `parser_suggestions` rows. `LoadFile` loads the vendor directory before anybody
sees the engine (`Up`). `register_pack` is `StartRegister`, `SetPack` and `ClearCache` (under the
lock) and `WriteRow` (after it); `promote` goes on with `MarkSuggestion` and `StampRow`.
`retire_pack` is `StartRetire`, which removes the pack and starts the iteration over the cache, then
`Prune` or `PruneRaise`, then `WriteRow`. Routing takes no lock: `StartRoute` reads the cache, `Pick`
chooses among what `Offers` and `Best` leave, `Store` writes the cache and the similarity index,
`Fallback` is tier 5 and `Tier5Done` the end of it. A storage call may raise (`Fault`), which leaves the handler where the code
leaves it; `Restart` loses the memory of one process.

Four history variables say when properties must hold, and no guard reads them: `seen` (all versions
registered since a route began), `old` and `late` (a route that a registration overtook, and whether
such a route has been cached since), `torn` (packs whose calls overlapped, failed or were cut off).

Abstractions: a text is its shape, and `can_parse` a score of a pack version for a shape; whether a
parse is confident is open; all structural parsers are one candidate; the similarity of two shapes is
a choice; a pack that does not validate changes nothing, so only valid ones are enumerated.

### Parsers, Fields and Ladder

A *line* is a record of what the parsers can tell of it: the *marks* their tests and regular
expressions find in it ("it begins with CEF:", "the whole RFC 3164 header matches"), where in it a
timestamp can be read, its level, its syslog severity, and the names and values that the header
and the key=value pairs give. What an expression matches is thus part of the line; what the code does
with it is the model: each structural parser is a score (`can_parse`) and an intermediate
representation (`parse`) with confidence, severity, fields and error notes, on every return path.
A declarative pack is `PackScore`, `PreParsed`, then a step (`RunStep`) for each extract (`RunExtract`)
and each rule of its map (`ApplyRule`), and `Scored`. Confidences are hundredths, rounded down where Python has floats; the
exponent one half of `_score` is an integer root.

`Fields` models `infer` one `_infer` step after the other (`InferTokens`, `InferKV`, `EndpointRoles`,
`Redact`) and `normalize` (`OcsfField`, `Endpoint`, `Body`, `Unmapped`, `Normalize`) on fields named by
prefix and name, as in the code (`ocsf.`, `inferred.`, `__`, or none). One handler is around all
steps of `infer`: `InferRaised` is what it leaves, a reading to which some steps have added and of which
nothing is hidden. `Give` is where the normalizer puts a value of its own in place of what a pack has
mapped there (time, observables, `raw_data`; `unmapped` likewise), and `Str` is `str(v)[:2000]` of the
values that are no scalars. Left out: users and hashes, what is in the metadata, the class, product and
protocol of an event of which nothing is mapped, `embed_raw`, and rules of which one target contains
another's.

`Ladder` composes them. `Route` is `run` up to the winner's reading, `Store` and `AddReference` the
caching of a known line, `InferAndMine` tiers 3 and 4, either of which may raise and is caught,
`StartMatch` and `EndMatch` the loop of
`best_match` over the shared index and tier 5, `Ask` and `Reply` the circuit breaker around the sidecar,
with tier 7 at the end (`Quarantine`). A call that raises is a disjunct that uses up a `Fault`; where
nothing in `run` guards it, the handler of `Pipeline._compute` ends the call (`Broken`).

Abstractions: the grain of interleaving is the access to shared objects, since CPython 3.12 (which
`pyproject.toml` asks for) switches threads at calls and loops only; the Jaccard index of two shapes is
a table; the answer of the ML service is an annotation that decides nothing; the eviction of the
oldest of 200 references is left out.

### Detection

`window`, `ewma`, `ref` and `hits` are the fields of `DriftMonitor`, one of each per process; the
tables are sequences in the order of insertion. `Observe` is what happens under the lock, including
both conditions that close a window (it is full, or has been open for long enough, which may be the
case at any event). `Evaluate`, `Capture`, `Judge`, `Check` are the reads and writes that follow
without the lock; `Alert`, `Degrade`, `Correlate` and `Explain` the storage calls, each of which may
raise. `Find` and `Upsert` are the two transactions of `record_unknown`; `StartSuggest`, `Draft` and
`Mark` the endpoint `suggest`. `StartTick`, `IndexSnap` and `WriteDrift` are `tick`, one transaction for
each difference. `Restart` loses a process's monitor and cuts off its calls.

History variables, which no guard reads: `run` counts the windows that drifted one after the other,
`raced` the keys of which two windows were evaluated at once, `recorded` and `shared` likewise for
clusters. Abstractions: which histograms diverge is the relation `Far`; a clock that ticks with
every `detected_at` stands for time; the observation of the system is a choice.

### Evolution

A template is the sequence of the classes of its tokens. `Table` is the dynamic programme, `align` the
traceback with its preferences, `transfer_labels` what it is for. The reference, in `AlignOptimal`,
compares its `Gain` with that of every order-preserving set of pairs of positions (`InOrder`). The two
templates are variables that grow token by token, so a run covers every pair up to its bound.

## The runs

| run | expectation | checks | bounds and why they are enough |
|---|---|---|---|
| `RawStore_one` | holds | `TypeOK`, `TruthUntilCrash`, `ReadNeverOther`, `StoredStays` | segments of 3 bytes, a buffer of 1, lines of 1, 1 and 2: a line is buffered, flushes the buffer, bypasses it, fills a segment exactly or is a byte too long for it; two days; two sources; one crash and one failed copy |
| `RawStore_crashlost` | violated | `RawIsTruth` | one crash |
| `RawStore_shared` | violated | `ReadNeverOther` | two processes |
| `Pipeline_batch` | holds | `TypeOK`, `OneOriginal` | one worker; four arrivals, two of them equal and one of another tenant, batches of three, two faults: equal payloads meet in one batch and in two, and a fault in a handler of a fault |
| `Pipeline_threads` | holds | `Traceable`, `OneEventPerArrival`, `OneFaultLosesNothing`, `CountsExact`, `OneOriginal` | two threads, which are symmetric; one arrival through `process`, three through `process_batch` in batches of two, one of them undecodable; equal bytes come through either entry; two faults: a call that fails while another thread is between lookup and insert, and a fault in a handler of a fault |
| `Delivery_group` | holds | `TypeOK`, `NothingForgotten`, `OneOwner`, `AtLeastOnceSpec`, `HandledDespiteCrashes` | three messages, one of them poison, pages of two, a stream of two; two stops, one lost reply, one raising batch, one replaced container |
| `Delivery_lostreply` | violated | `EventuallyHandled` | one lost reply |
| `Collector_batcher` | holds | `TypeOK`, `NoLineVanishes`, `StoredOnce`, `EveryLineLeaves`, `FramesExact`, `TailFollows` | batches of two, three and two lines, two posts per batch, two failing posts (a drop), one crash; connections of three messages out of four, which hold digits, blanks and newlines, cut off at every byte; a file of four lines, replaced or truncated twice, each write in one go or two |
| `Registry_engine` | holds | `TypeOK`, `NeverRetired`, `CacheIsBest`, `TableAgrees`, `CallsReturn` | one routing thread, two administrators, two calls of theirs, one fault: both calls on one pack, in every overlap; a version that wins the shape and one that loses it to the vendor pack |
| `Detection_drift` | holds | `TypeOK`, `AlertsSustained`, `FrozenReference`, `DriftEvidence`, `NearestExplained`, `UnknownCounted`, `SuggestedHasDraft`, `AlignOptimal` | two API threads with four events and a worker with three ticks of one or two differences, each at a time of its own; windows of at most two events, two hits for an alert: two threads evaluate windows of one key at once; a look-back of 2, a list limit of 3 and two explanations: rows are too old for an alert, near, or newer than it while it is being explained, and newer rows fill the list in part or in whole; one fault or restart, one draft. `Focus` keeps the combinations down: no draft once there was a tick, and with the second tick neither a fault nor the second API thread. Templates of up to three tokens of four classes |
| `Ladder` | holds | `TypeOK`, `TierMeans`, `ReadByBest`, `FailsFast`, `EventComplete` | two threads, three of seven lines (read well, in part, badly, or by nobody; two of one shape; a secret that is mapped, unmapped, or inferred; a field that is a list; a value mapped where the normalizer puts its own), one exception, in a parser, tier 3, mining, storage or the index; the threads are symmetric; a circuit that opens at once and three ticks of a clock that closes it after two |
| `Ladder_promoted` | violated | `PromotedServes` | the pack `suggest` drafts, and a line of its cluster |

Two models are small and share the run of a neighbour, in behaviours of their own: `Intake` that of
`Collector`, `Evolution` that of `Detection`. `MCNext` lets only one of them move in a behaviour, so no
state space is a product.

What they show:

* *TruthUntilCrash, StoredStays.* Until a process dies every indexed location is readable through
  every rotation and compression, also when a copy fails; and what has once reached the disk is
  never made unreadable or moved, crash or not. What a crash costs is therefore exactly the buffer.
* *ReadNeverOther.* The flush in `read_record` and the lock around it are enough for one process.
* *Traceable.* No combination of failing calls and interleavings gives an event or an index row
  somebody else's bytes.
* *OneEventPerArrival, OneFaultLosesNothing.* No single failing call to the stores or the parsers loses
  an arrival; an envelope that does not decode loses those that share its call and no other. Fallback and
  emergency writes of `process_batch` never double one. `process` can (see below), and the property
  says so: only when a call fails.
* *OneOriginal, CountsExact.* Deduplication and counting by several threads. An arrival whose call begins
  after one with the same bytes has returned is marked as its duplicate, through whichever entry the two
  come and whatever else runs; one of two in a batch is; and no content is left with duplicates only. Two
  calls that overlap may both write an original: the run has such states, and the property leaves out
  these pairs and no others.
* *NothingForgotten, OneOwner, AtLeastOnceSpec, HandledDespiteCrashes.* At-least-once delivery with
  one owner; crashes and restarts under the same name delay a message, and nothing else.
* *NoLineVanishes, StoredOnce, EveryLineLeaves.* The two flushers never share or drop a line between
  them.
* *NeverRetired, CacheIsBest.* Routing without the lock is harmless for what parses an event: a
  stale cache entry or reference of a retired pack is ignored, since `_route` and `_fallback` look
  the id up again. It does cost accuracy in one case: a route overtaken by a registration caches its
  old choice after the cache was cleared (`late`), and until the next registration the shape misses
  the better pack.
* *TableAgrees.* If calls on a pack do not overlap, fail or get cut off, its row tells what is
  loaded; the row of a retired pack stays, the row of one registered again is active again.
* *FramesExact.* Counted messages and lines may alternate on a connection; a break anywhere costs the
  message it falls into, and never yields part of a counted one.
* *TailFollows.* No piece of a file is added twice or out of order, however the file is replaced; and
  between two passes everything before the offset has been added, as long as the file only grew. What
  rotation can cost is the end of the old file and, if the new one is already longer, its beginning.
* *AlertsSustained, FrozenReference.* The windows are taken under the lock and judged without it. If
  the windows of one key are judged one after the other, an alert has exactly the required number of
  drifted windows behind it, no such row passes without one, and the reference stays. Two threads
  that judge at once (`raced`) may alert early, late or twice; and the reference changes even then only
  by a thread that found none and is still to capture its window.
* *DriftEvidence.* A drift event is written only after its snapshot can be looked up, and names a setting
  in which the snapshot differs.
* *NearestExplained.* An alert is never explained by later drift or that of another tenant, and by the
  nearest there was, of rows inside and outside the look-back. The rows later than the alert are dropped
  after the limit of `list_drift` was applied: where they fill the list, which happens in the run, the
  alert is left unexplained, and the property says so by counting the newer rows.
* *UnknownCounted, SuggestedHasDraft.* Lost updates and second clusters of one family occur only when
  two threads record it at once; a count is never too high. A cluster may lose the status "suggested"
  to such a race, but never has it without a draft.
* *AlignOptimal.* The traceback finds an alignment whose gain is the best of all matchings, and a name is
  carried to at most one position, of a compatible class.
* *TierMeans.* Whatever raises on the way, a returned event's tier and id say how it was read; no line
  falls between the tiers, and tier 7 is exactly a confidence below .4.
* *ReadByBest.* The parser that reads a line scores it best, except after a cache hit, where it scored
  another line of the shape best.
* *FailsFast.* The breaker counts failures without a lock, and still a dead sidecar gets at most one call
  of every thread in each reset period, and `Failures - 1` more before the circuit opens.
* *EventComplete.* On every path the event has each value of the parser it names, a list as its text, but
  for what is mapped to the places where the normalizer puts values of its own (`Replaced`, and a scalar
  mapped to `metadata`). It hides the secrets under every name that is private, also where a pack mapped
  them and where inference found them again, unless tier 3 has raised; in that case they stay in the
  event. And it does not mix a mapped endpoint with an inferred one.
* *CallsReturn.* Every call ends, and the iteration that raises in `retire_pack` frees the lock.

**Fairness.** `Delivery`: a running worker goes on (weak fairness of its loop) and a worker that is
down starts again (`restart: unless-stopped` in `docker-compose.yml`). Nothing is assumed of
publishing, of crashes or of lost replies. `Collector`: goroutines run, the ticker ticks, and a post
ends, because the HTTP client has a timeout of five seconds. The order in which the loop visits the
sources of one tick is left open (Go's map order), so fairness is on the loop and not on a source.

`MCSpec` of `Collector_batcher` is `Collector`'s specification with the same fairness; `Intake` adds
none. `Detection` and `Ladder` state only safety.

`Registry`: a thread that serves a call runs on, and its storage calls return or raise. Python's
lock is not fair, so a thread waiting for it gets it only because critical sections end and the
bounded number of calls leaves it free; nothing is assumed of restarts or of new calls.

**Deadlock** checking is off: every model has bounds on arrivals and faults and stops when they are
used up.

**Bounds.** `MaxCopies`, `MaxCrashes`, `MaxFaults` (RawStore); `MaxBatch`, `MaxFaults`, the set of
arrivals (Pipeline); `MaxMsgs`, `MaxStops`, `MaxLost`, `MaxRaises`, `MaxReplaced` (Delivery);
`MaxLines`, `MaxFaults`, `MaxCrashes` (Collector); `MaxWrites`, `MaxFaults` (Registry);
`MaxMessages`, `MaxWritten`, `MaxReplaced` (Intake); `Share`, `MaxTicks`, `MaxDrafts`, `MaxFaults`
(Detection); `MaxLines`, `MaxTime`, `MaxFaults` (Ladder); `MaxLen` (Evolution). They are constants of the modules and appear in
the guards; the theorems below hold for every value of them.

## The proofs

Seven modules (and `SetLemmas`, which they use) prove, for every value of the constants that
satisfies the module's assumptions:

| theorem | statement |
|---|---|
| `DeliveryProofs!TypeCorrect` | `Spec => []TypeOK` |
| `DeliveryProofs!NothingIsForgotten` | `Spec => []NothingForgotten` |
| `DeliveryProofs!OneOwnerEach` | `Spec => []OneOwner` |
| `DeliveryProofs!DeliveryImplementsAtLeastOnce` | `Spec => AtLeastOnceSpec` |
| `PipelineProofs!TypeCorrect` | `Spec => []TypeOK` |
| `PipelineProofs!AlwaysTraceable` | `Spec => []Traceable` |
| `PipelineProofs!NoSecondEvent` | `Spec => []OneEventPerArrival` |
| `PipelineProofs!FailSoft` | `Spec => []OneFaultLosesNothing` |
| `PipelineProofs!CountsAlwaysExact` | `Spec => []CountsExact` |
| `PipelineProofs!LaterMarked` | `Spec => []OneOriginal` |
| `RegistryProofs!TypeCorrect` | `Spec => []TypeOK` |
| `RegistryProofs!RetiredNeverParses` | `Spec => []NeverRetired` |
| `RegistryProofs!CacheAlwaysBest` | `Spec => []CacheIsBest` |
| `RegistryProofs!TableAlwaysAgrees` | assuming `OneProcess`: `Spec => []TableAgrees` |
| `CollectorProofs!CollectorTypeOK` | `Spec => []TypeOK` |
| `CollectorProofs!CollectorLosesNoLine` | `Spec => []NoLineVanishes` |
| `CollectorProofs!CollectorStoresOnce` | `Spec => []StoredOnce` |
| `CollectorProofs!TailAlwaysFollows` | `IntakeSpec => []TailFollows` |
| `CollectorProofs!FramesAlwaysExact` | `IntakeSpec => []FramesExact` |
| `RawStoreProofs!RawStoreTypeOK` | `Spec => []TypeOK` |
| `RawStoreProofs!RawStoreKeepsStored` | assuming `SoleWriters`: `Spec => StoredStays` |
| `RawStoreProofs!RawStoreTruth` | assuming `SoleWriters`: `Spec => []TruthUntilCrash` |
| `RawStoreProofs!RawStoreReads` | assuming `SoleWriters`, `OneProcess`: `Spec => []ReadNeverOther` |
| `DetectionProofs!DetectionTypeOK` | `Spec => []TypeOK` |
| `DetectionProofs!DriftHasEvidence` | `Spec => []DriftEvidence` |
| `DetectionProofs!SuggestedIsDrafted` | `Spec => []SuggestedHasDraft` |
| `DetectionProofs!ReferenceStays` | `Spec => FrozenReference` |
| `DetectionProofs!AlertsAreSustained` | `Spec => []AlertsSustained` |
| `DetectionProofs!ExplainedByNearest` | `Spec => []NearestExplained` |
| `DetectionProofs!UnknownIsCounted` | `Spec => []UnknownCounted` |
| `DetectionProofs!AlignAlwaysOptimal` | `TemplateSpec => []AlignOptimal` |
| `LadderProofs!SidecarFailsFast` | `Spec => []FailsFast` |
| `LadderProofs!LadderTypeOK` | `Spec => []TypeOK` |
| `LadderProofs!TierAlwaysMeans` | assuming `OwnIds`: `Spec => []TierMeans` |
| `LadderProofs!AlwaysReadByBest` | assuming `OwnIds`: `Spec => []ReadByBest` |
| `LadderProofs!EventAlwaysComplete` | assuming `OwnIds`: `Spec => []EventComplete` |

*Delivery.* `NothingForgotten` is not inductive: to know that an acknowledgement settles only
handled messages one must know that the batch of a worker about to acknowledge was handled or
raised (`AckIsSettled`), that what a worker holds is pending for its name (`HeldIsPending`), that
pending messages have been delivered (`PendingIsDelivered`) and that no two names share one
(`PendingDisjoint`; otherwise an acknowledgement would take the message of another worker out of
the debt). The refinement adds that a page of new entries leaves nothing behind below the group's
last-delivered id (`PageClosed`, `LastOfPage`), so what is owed does not change when entries move
from "new" to "pending". `SetLemmas` proves the existence of minima and maxima of finite sets of
integers that the page argument needs.

*Pipeline.* `Traceable` speaks of the tables; the strengthening `IInv` adds that every location in
the locals of every thread resolves (`LocalsResolve`) and which envelopes have one at which point
of the control (`ControlOK`). Two lemmas carry the concurrency: a location that resolves still does
after the raw store has grown (`ResolvesStable`), and a step of one thread leaves the locals of the
others alone (`ThreadStep`). One lemma per action follows.

That no arrival gets a second event and a single fault loses none rests on `EInv`: which envelopes
of a batch still owe their event at each point of the call (`Pending`, `BatchOK`), that what is owed
is not written and the rest is (`EventsOK`), and that an arrival belongs to one thread, is waiting,
or is done (`OwnerOK`). For the counts (`CInv`), the lag is made explicit: while a thread goes through
the tenants of its batch, `count` is the number of events but for its rows of the tenants it has not
come to (`Counted`), and this holds however many threads are at it.

For the originals (`DInv`): the past of an arrival is its own call and calls that are over (`HistOK`). A
call that began when an event of some content was there (`Earlier`) finds that content by its lookup;
within the call only the first arrival of a content the lookup did not find is not marked (`DupOK`,
`FirstsOK`); so of two events, one of which is in the other's past, one is marked (`Marked`). And what
is indexed has an original, or a thread that will write one (`Owes`, `OriginalsOK`). Of what overlapping
calls index meanwhile nothing is said, so the argument is about one thread and what had been over when
its call began, which no other thread changes.

*Registry.* `NeverRetired` follows from the invariant that every route in progress has seen all that
is loaded in its process now (`SeenOK`), so that whatever `Pick` or `Fallback` find registered is
among what the call has seen. `SetPack` keeps it by what `SeenBy` adds; `LoadFile`, which registers
without it, by the fact that no call runs in a process that is still loading (`BootOK`). `JobOK` ties
the locals of a call to its place.

`CacheIsBest` needs three more things (`BInv`): what a route has read from the cache, or chosen and
not yet cached, is the best of what is loaded, unless a registration overtook it (`ChoiceOK`); so is
what is left of the copy from which a retirement rebuilds the cache (`CopyOK`); and a call between its
change and its work on the cache holds the lock (`LockOK`). Retiring a pack takes candidates away,
which leaves the best of the others the best. `TableAgrees` speaks of
calls that have returned; `TabInv` adds what a call that has changed memory and not yet its row
knows (`HalfOK`), which is enough because any other call on the pack would have marked it torn.

*Collector.* `NoLineVanishes` is an existential: a line that was read is somewhere. It becomes
inductive by naming who has it and saying that nobody else does (`OnePlace`), that a goroutine has
lines only while it posts (`ControlOK`), and that no buffer is overfull (`SizesOK`: `Add` never
meets a full one, since the listener that filled it flushes first). `OnceOK` says the same of
multiplicities while no post fails.

`tailFile` keeps an order that spans a file, a handle on it or on the one it replaced, the reader's
buffer and what was added. The invariant (`TailInv`) says that every piece in these is older than
those behind it: what was added precedes the buffer, that what the reader has not come to, and a
file that took the place of the open one is newer than all of it (`Pass`). Nothing that is written
later can therefore come earlier, and a piece behind the offset is never seen again. As long as the
file has only grown, the buffer is what follows the offset in it, and what was added since the start
is what is before it (`Clean`).

For the frames, `FramesExact` says what is taken of the stream as it is, which is not inductive: a byte
more could change it. The invariant (`FramesInv`) says it of the stream with anything behind it: handling
`stream \o r` gives the messages sent and then what handling `r` gives. It holds of one more frame because
handling does not look back (`HandleShifts`: from any byte on it is what it would be of the rest alone)
and because a frame yields its message, whatever follows, and of a part of itself nothing or what came of
a line (`FrameIs`, from `CountedFrame` and `LineFrame`). That handling is a function at all, and that a
count is read as it was written, is recursion over bytes and over digits; both climb from the last byte
or the smaller number (`ChainExists`, `HandleIs`, `CountIs`, `DecimalIs`).

*RawStore.* With one writer to a directory, an open segment is in step with its file, there is no
compressed copy of it, a closed one has an empty buffer (`SegOK`), and whoever holds the lock to
remove a plain file has a compressed copy equal to it (`HoldOK`). From these four, `StoredStays` is
a matter of what each action writes. `TrInv` adds that an indexed or returned location is in the
file followed by the writer's buffer (`Truth`, `HeldTrue`). For `ReadNeverOther`, a reader past the
flush finds its line on disk, and may see the plain file give way to the compressed one and never
the reverse (`ReadOK`).

*Detection.* The threads' locals are in the invariants throughout: a tick has its snapshot indexed
before it writes, and what it has still to write are differences of it (`Ticking`); a cluster somebody
is about to mark, or a row somebody is about to write back, has its draft (`Suggesting`). For the
alerts (`SlotOK`), of the windows of one key at most one is with a thread unless the key is `raced`,
the hits equal the windows that drifted in a row, and they have reached the required number only if a
thread is about to look (`"check"`). An alert in hand, like one in the table, is sustained and its
explanation the nearest drift of what the table held when it asked (`Sustained`, `Near`); later
drift comes behind it. For the counts (`CountInv`), there is a ghost: how often each cluster was
really written. The counts of a family add up to at most that, and to exactly that where nobody
raced (`Written`, with `OneWriter` and `OneCluster` of `WriterInv`).

*Evolution.* The table and the way back through it are functions by recursion over the cells of a
grid. That such functions exist, and that what holds of a cell when it holds of those before it holds
of all, is proved first, by climbing the diagonals (`GridExists`, `GridClimb`). Then: no pairs in order
gain more than the table says, since the last positions are a pair, or one of them is in no pair
(`NoneBetter`); the way back from a cell is an alignment up to it and gains what the table says there
(`BackIsRoute`); of a template and itself it stays on the diagonal (`Diagonal`, with `TableBound`). What
is carried follows from the pairs (`TransferIs`).

*Ladder.* Until the circuit opens, a call since the last success has failed or is under way. It opens
a reset period after the success at the earliest, and from then on a thread calls once a period: one
that does not call now could so far only in the periods before `openUntil`. `CallsInv` adds up these
shares (`Shares`), which is inductive where the bound of `FailsFast` itself is not.

What the ladder does depends on what the parsers answer, so the second part is about `Parsers`: each
of the nine structural parsers and every pack answers with its own id and tier, a score and a
confidence from 0 to 1, and finitely many fields (`Answering`, `Reads`). The parse of a pack is a
recursive function of the number of steps done, one for each extract and rule; the proof does not
unfold it but climbs it (`Runs`): there is such a function, all of its values are readings, and any
two agree. With that, `TInv` is the type of every variable; `RInv` says of each place in `run` how
the result in hand came about (`ReadByParser`, `Unread`, `MinedOnly`), from which the meaning of the
tier follows when the call returns (`Told`); and `BInv` that a parser in the cache knew a line of the
shape and scored it best (`Knows`), so that a result in hand is read by the best or by such a one
(`Best`).

`EventComplete` adds one conjunct for each place in `run` (`Holds`): a result that names a parser has
the fields that the parser reads in the line, and from the inference on fields that keep every one of
these, hidden or, where tier 3 raised, as it was (`Hides`). The rest is about the functions of `Fields`:
inference keeps what a parser has set, hides each secret under a private name and every copy that it
made of one (`InferHides`), and if it raises it has only added (`KeptHides`); the normalizer lays field
over field, and what one has put is not changed by a later one, apart from the places it always fills
itself (`GiveExtends`, `BodyExtends`, `NormalizeExtends`).

**Assumptions.** Those on constants are the named `ASSUME`s of the modules; TLC evaluates them in every
run. They are types of the constants, finite sets of threads and arrivals, a positive page size and
thresholds; that `None` and `NoSeg` are not among the values they stand beside; that a message on a
connection is text and not empty (`MessagesAssumption`); in `Ladder`, that a line is finite text, that
packs are a dictionary by id, what `pack.schema.json` guarantees of a pack (`LineAssumption`,
`PacksAssumption`), and that no name the normalizer gives itself is a private one (`PrivateAssumption`;
the suffixes are at `inference.py:26`), and that a value with a text is neither absent, empty nor the
mask of a secret (`StrAssumption`). Four hypotheses stand in theorems only, because the property is
false without them and the model allows that:

* `OneProcess` of `Registry` (`TableAlwaysAgrees`): a second process does not learn what the first
  has loaded or retired.
* `SoleWriters` (no two keys of the deployment share a directory) and `OneProcess` of `RawStore`
  (`RawStoreReads`): a process that reads what another one writes cannot flush the writer's buffer,
  and two that write to one directory get in each other's way. `RawStore_shared` shows it.
* `OwnIds` (`TierAlwaysMeans`, `AlwaysReadByBest`, `EventAlwaysComplete`): no pack has the id of a
  structural parser or of the engine. The pattern of ids in `pack.schema.json` (line 9) does not forbid
  it; from an event with such an id nobody could tell which of the two read it, and a cache entry of the
  structural parser would be looked up among the packs first (`engine.py:164`).

**Only model-checked.**

The liveness properties (`EveryLineLeaves`, `HandledDespiteCrashes`, `CallsReturn`): they depend on
fairness and on when actions are enabled, which the prover does not reason about.

## Disagreements with the documentation

The violated runs exhibit behaviours the code has and a document denies; `PROJECT.json` quotes both.
The models contain further such behaviours, on which properties above are conditioned:

*Storage and delivery*

* `process` writes a second event when `upsert_source` fails after `write_event`
  (`pipeline.py:64-65`; hence `Entry[e] = "batch"` in `OneEventPerArrival`), and two overlapping
  calls of `process` lose a count (`sql.py:290-298`; hence the condition of `CountsExact`).
* `process_batch` commits an `unrecoverable` row to `raw_index` when an append failed
  (`pipeline.py:164-172`): later arrivals of the same bytes are then never stored
  (hence `Unrec` in `Resolves`).
* A crash between write and acknowledgement stores a batch twice, with fresh event ids
  (`runner.py:36-41`).
* The pending entries of a container that was replaced by one with another hostname are never read
  (`runner.py:19`; hence `gone` in `HandledDespiteCrashes`).
* A read that races a rotation fails: `_open` tests for the plain file and opens it without the lock
  (`raw_store.py:132`), and `_compress` may unlink it in between (result `missing` in `RawStore`).
* Two threads that receive equal bytes at once both find no earlier row (`pipeline.py:146`, `172`): two
  originals, where `docs/architecture.md:95` has one (hence one thread in `Pipeline_batch`).
* Two processes number segments of one directory independently and rotate and compress each other's
  files (`raw_store.py:57`); one that finds its segment gone fails.

*Registry and parsing*

* A promoted pack is loaded in the process of the API only (`engine.py:118`); workers serve it after a
  restart, where `README.md:130-131` says immediately.
* The routing cache is keyed by shape: a line for which another pack is better goes to the parser of an
  earlier line of the same shape (`engine.py:161-170`; `docs/architecture.md:140`; hence the second case
  of `ReadByBest`).
* `upsert_fingerprint` is not guarded (`engine.py:195`) and `best_match` loops over a dictionary other
  threads extend (`engine.py:208`): `run` raises, where `engine.py:2` says it always returns
  (`Broken`; the pipeline's handler makes it an event of `engine.error`).
* The result of tier 5 is always dropped: an IR has slots, so the `__dict__` it is copied by does not
  exist (`engine.py:219`), where `docs/architecture.md:136` and `README.md:51` have a tier 5. Tier 3
  raises no confidence (`docs/architecture.md:134`), and quarantine begins below .4, not at .3 (`:138`).
* An event of tier 1 or 2 with a confidence from .4 to .6 is neither known nor recorded as unknown
  (`pipeline.py:104`; hence `Unknown` in `Detection`).
* An optional extract that does not match costs half the confidence like any other, since its note has
  the same ending (`declarative.py:162`, `267`).
* A syslog emergency, severity 0, is given the lowest severity (`structural.py:16`).
* Fields with a reserved prefix do not reach the event (`ocsf.py:50`), where `docs/data-model.md:80` says no
  field is lost (hence the prefix "" in `EventComplete`).
* The normalizer replaces what a pack has mapped to `time`, `observables`, `unmapped` or `raw_data`, and a
  scalar mapped to `metadata` (`ocsf.py:109-127`), and cuts the text of a value that is no scalar at 2000
  characters (`ocsf.py:54`), where its docstring says "Never discards data" and `docs/data-model.md:80`
  "nothing extracted is discarded" (hence `Replaced` and `Str` in `EventComplete`).
* `infer` is called a "Total function" (`inference.py:3`), and its handler does return; but an exception in
  any step skips those behind it, the last of which hides the secrets (`inference.py:46-49`). A JSON line
  with a number under the name `__ips` raises in `_endpoint_roles` (`:139`), and its password stays in the
  event (hence `inference_error` in `EventComplete`).

*Drift and suggestions*

* A reference is captured from the first window of a key in each process and never again
  (`parser_drift.py:80` is the only caller of `set_reference`), where `docs/architecture.md:151` has it
  "captured at parser onboarding or last approval", `docs/parser-design.md:143` has a promotion capture "a
  new reference histogram", and `parser_drift.py:2-3` says the same: after a promotion the monitor
  compares with the old reference for as long as the process lives. References are lost with the process
  and not shared; their key omits the tenant (`parser_drift.py:65`,
  `docs/data-model.md:154`); hits are reset before the alert is written, so a failing write loses it
  (`parser_drift.py:94`).
* `suggest` numbers positions of the template after tokenizing it again, which splits masks such as
  `<IP>` (`app.py:151-152`); label transfer is imported and never called (`app.py:24`), and `align` has no
  other caller. Its costs are those of `docs/parser-design.md:151` (2, 1, -2, gap -1), where
  `docs/architecture.md:160` has 0, 1 and infinity.

*Rest of the registry and the collector*

* A pack whose row could not be written is reported as rejected and runs (`engine.py:117-121`,
  `app.py:117`), where `docs/parser-design.md:169` says the registry is untouched (hence `torn` in
  `TableAgrees`). A retired vendor pack is active again after a restart (`engine.py:79`).
* `retire_pack` raises when routing adds a shape to the cache it iterates over (`engine.py:131`): the
  pack is gone from memory and its row stays active (`PruneRaise`).
* With `bundle_require_signature` no suggestion can be promoted, because `promote` passes no signature
  (`app.py:179`, `engine.py:114`); `Registry` models the setting without it.
* The collector drops a batch after five failing posts (`main.go:114`; its comment at line 9 says it
  never does), and two batches of one source may arrive in either order (`main.go:68` and `82`).
* `tailFile` sends the beginning of a line that is being written as a line (`main.go:200`), and
  misses a rotation if the new file is already as long as the offset.

## What is not modelled

* *Memory queue.* A bounded queue of the standard library between two threads of one process, without
  acknowledgements: nothing survives the process, and `put` blocks when it is full.
* *ML sidecar service.* Statistical models behind a stateless endpoint; its client's breaker is in `Ladder`.
* *Authentication, bundle signing.* A header lookup and calls into a cryptography library, without state.
* *Fingerprints and timestamps.* Classification of text character by character. Shapes, families,
  similarities and the places where a timestamp is found are inputs of `Ladder` and `Detection`.
* *Regular expressions.* What those of the structural parsers and packs match is part of a line.
* *Drain3* and its snapshots: an external library; mining succeeds or fails in `Ladder`.
* *Writing a draft as YAML; what the metadata and observables of an event hold, its users and hashes*: data
  that no decision depends on. Where the normalizer puts them is modelled.
* *Queries* of the API and their SQL, the audit table, fingerprint counts: they change no state or only
  grow.
* *Bootstrap, configuration, web UI, scripts.* Wiring and presentation; the process sets and restarts
  of the models are those of `docker-compose.yml`.

## The plan

Done, in this order: `RawStore`, `Pipeline`, `AtLeastOnce` and `Delivery`, `Collector`, `Registry`,
`Ladder` with `Parsers` and `Fields`, `Detection`, `Intake`, `Evolution`; the refinement of
`AtLeastOnce`; and the proofs of every safety property that holds in a run.
