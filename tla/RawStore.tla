------------------------------ MODULE RawStore ------------------------------
(***************************************************************************)
(* The append-only raw store (uli/storage/raw_store.py) together with the  *)
(* raw_index row that the pipeline commits for every location the store    *)
(* returns.                                                                *)
(*                                                                         *)
(* Bytes are abstracted to lines with a length and a position.  A stretch  *)
(* of a file is an Extent: its length and the lines it holds with the      *)
(* offset each starts at.  Reading offset o returns the original bytes of  *)
(* record r exactly when the extent holds a line of r that starts at o.    *)
(* Flushing a buffer behind a file shifts the buffered lines by the length *)
(* of the file (the file is opened "ab", so the kernel appends whatever    *)
(* the process believes its size to be).                                   *)
(*                                                                         *)
(* A process is one LocalRawStore: it has private segments, private sizes  *)
(* and one lock.  Several processes may share the directory tree, as the   *)
(* api and the workers of docker-compose.yml do.                           *)
(***************************************************************************)
EXTENDS Naturals, FiniteSets

CONSTANTS
  Procs,       \* processes that hold a LocalRawStore
  Keys,        \* (tenant_id, source_id) pairs
  Dirs,        \* directories <root>/<slug(tenant)>/<slug(source)>
  Dir,         \* Dir[p][k]: the directory process p uses for key k
  Days,        \* values of received_at's date
  Recs,        \* raw records, by content hash
  LineLen,     \* LineLen[r]: bytes of the encoded line of r
  MaxBytes,    \* max_segment_bytes
  BufBytes,    \* size of the write buffer of an open segment
  Compress,    \* raw_compress_on_rotate
  MaxCopies,   \* bound: times one record is appended in a behaviour
  MaxCrashes,  \* bound: process crashes in a behaviour
  MaxFaults,   \* bound: disk faults in a behaviour
  NoSeg,       \* no entry in _segments
  NoOp         \* nobody holds the lock

ASSUME RawStoreAssumption ==
  /\ Dir \in [Procs -> [Keys -> Dirs]]
  /\ LineLen \in [Recs -> Nat \ {0}]
  /\ MaxBytes \in Nat /\ BufBytes \in Nat
  /\ MaxCopies \in Nat /\ MaxCrashes \in Nat /\ MaxFaults \in Nat
  /\ Compress \in BOOLEAN

VARIABLES
  file,     \* plain segment files: path |-> contents
  gz,       \* compressed segment files: path |-> contents (empty if partial)
  seg,      \* seg[p][k]: _segments of process p
  lock,     \* lock[p]: the operation holding p's lock, or NoOp
  held,     \* held[p]: locations append returned and p has not indexed yet
  index,    \* committed raw_index rows
  rd,       \* rd[p]: the read in progress in p, and the result of the last
  copies,   \* copies[r]: times r was appended (bounded by MaxCopies)
  crashes, faults

bounds == <<copies, crashes, faults>>
vars == <<file, gz, seg, lock, held, index, rd, bounds>>
-----------------------------------------------------------------------------
Paths   == [dir : Dirs, day : Days, no : Nat \ {0}]
Extent  == [len : Nat, lines : SUBSET [rec : Recs, at : Nat]]
Segment == [path : Paths, size : Nat, buf : Extent, open : BOOLEAN]
Loc     == [rec : Recs, path : Paths, off : Nat]

ASSUME NoSegAssumption == NoSeg \notin Segment

Empty == [len |-> 0, lines |-> {}]

Line(r) == [len |-> LineLen[r], lines |-> {[rec |-> r, at |-> 0]}]

\* The extent a followed by the extent b.
Concat(a, b) ==
  [len   |-> a.len + b.len,
   lines |-> a.lines \cup {[rec |-> x.rec, at |-> x.at + a.len] : x \in b.lines}]

\* The function f with x mapped to v, and f without x.
Put(f, x, v) == [y \in DOMAIN f \cup {x} |-> IF y = x THEN v ELSE f[y]]
Drop(f, x)   == [y \in DOMAIN f \ {x} |-> f[y]]

\* A write through a handle on path: lost once the file has been unlinked.
WriteTo(f, path, x) ==
  [y \in DOMAIN f |-> IF y = path THEN Concat(f[y], x) ELSE f[y]]

\* What a file system reader finds at a path: the plain file if there is one.
View(path) == IF path \in DOMAIN file THEN file[path] ELSE gz[path]

OnDisk(path) == path \in DOMAIN file \/ path \in DOMAIN gz

HoldsLine(x, loc) == [rec |-> loc.rec, at |-> loc.off] \in x.lines

Indexed(r) == \E e \in index : e.rec = r

Idle == [pc |-> "idle"]
Result(res) == [pc |-> "done", res |-> res]
-----------------------------------------------------------------------------
Init ==
  /\ file = [x \in {} |-> Empty]
  /\ gz   = [x \in {} |-> Empty]
  /\ seg  = [p \in Procs |-> [k \in Keys |-> NoSeg]]
  /\ lock = [p \in Procs |-> NoOp]
  /\ held = [p \in Procs |-> {}]
  /\ index = {}
  /\ rd = [p \in Procs |-> Idle]
  /\ copies = [r \in Recs |-> 0] /\ crashes = 0 /\ faults = 0
-----------------------------------------------------------------------------
(***************************************************************************)
(* append                                                                  *)
(***************************************************************************)
Fits(s, r, d) == s.path.day = d /\ s.size + LineLen[r] <= MaxBytes

\* A buffered write of the line of r to the segment s, whose file is in f.
\* The buffer is flushed when the line does not fit in it, and a line larger
\* than the buffer goes straight to the file.
Buffered(s, r)  == s.buf.len + LineLen[r] <= BufBytes
Large(r)        == LineLen[r] > BufBytes
FileAfter(f, s, r) ==
  CASE Buffered(s, r) -> f
    [] ~Buffered(s, r) /\ Large(r)  -> WriteTo(f, s.path, Concat(s.buf, Line(r)))
    [] ~Buffered(s, r) /\ ~Large(r) -> WriteTo(f, s.path, s.buf)
SegAfterSizeKept(s, r) ==   \* mutant: size counts only what is in the buffer
  [s EXCEPT !.size = IF Buffered(s, r) THEN @ + LineLen[r] ELSE LineLen[r],
            !.buf  = IF Buffered(s, r) THEN Concat(@, Line(r))
                     ELSE IF Large(r) THEN Empty ELSE Line(r)]
SegAfter(s, r) ==
  [s EXCEPT !.size = @ + LineLen[r],
            !.buf  = CASE Buffered(s, r) -> Concat(@, Line(r))
                       [] ~Buffered(s, r) /\ Large(r)  -> Empty
                       [] ~Buffered(s, r) /\ ~Large(r) -> Line(r)]

\* seg.fh.write(line); seg.size += len(line); return RawLocation(...)
WriteLine(p, k, s, f, r) ==
  /\ file' = FileAfter(f, s, r)
  /\ seg'  = [seg EXCEPT ![p][k] = SegAfter(s, r)]
  /\ held' = [held EXCEPT ![p] = @ \cup {[rec |-> r, path |-> s.path, off |-> s.size]}]
  /\ copies' = [copies EXCEPT ![r] = @ + 1]

\* The store itself appends whatever it is given: two threads that looked a
\* content hash up before either indexed it append the record twice.
MayAppend(p, r) == lock[p] = NoOp /\ copies[r] < MaxCopies

\* append, the active segment has room.  (On a closed segment the write
\* raises and nothing changes.)
Append(p, k, r, d) ==
  /\ MayAppend(p, r)
  /\ seg[p][k] # NoSeg
  /\ seg[p][k].open
  /\ Fits(seg[p][k], r, d)
  /\ WriteLine(p, k, seg[p][k], file, r)
  /\ UNCHANGED <<gz, lock, index, rd, crashes, faults>>

\* append, first half: _rotate flushes, syncs and closes the old segment.
StartRotate(p, k, r, d) ==
  /\ MayAppend(p, r)
  /\ LET s == seg[p][k]
         op(pc) == [pc |-> pc, key |-> k, rec |-> r, day |-> d, old |-> s # NoSeg]
     IN \/ /\ s = NoSeg
           /\ lock' = [lock EXCEPT ![p] = op("open")]
           /\ UNCHANGED <<file, seg>>
        \/ /\ s # NoSeg
           /\ s.open
           /\ ~Fits(s, r, d)
           /\ file' = WriteTo(file, s.path, s.buf)
           /\ seg'  = [seg EXCEPT ![p][k].buf = Empty, ![p][k].open = FALSE]
           /\ lock' = [lock EXCEPT ![p] = op(IF Compress THEN "compress" ELSE "open")]
  /\ UNCHANGED <<gz, held, index, rd, bounds>>

\* _compress: copy the plain file into the .gz.
CompressSegment(p) ==
  /\ lock[p] # NoOp
  /\ lock[p].pc = "compress"
  /\ LET path == seg[p][lock[p].key].path
     IN \/ /\ path \in DOMAIN file
           /\ gz'   = Put(gz, path, file[path])
           /\ lock' = [lock EXCEPT ![p].pc = "unlink"]
           /\ UNCHANGED faults
        \/ /\ path \notin DOMAIN file        \* another process removed it
           /\ lock' = [lock EXCEPT ![p] = NoOp]
           /\ UNCHANGED <<gz, faults>>
        \/ /\ faults < MaxFaults             \* the copy fails: append raises
           /\ path \in DOMAIN file
           /\ faults' = faults + 1
           /\ gz'   = Put(gz, path, Empty)
           /\ lock' = [lock EXCEPT ![p] = NoOp]
  /\ UNCHANGED <<file, seg, held, index, rd, copies, crashes>>

\* _compress: the .gz re-read has the same hash, so the plain file goes;
\* otherwise the .gz goes.
UnlinkPlain(p) ==
  /\ lock[p] # NoOp
  /\ lock[p].pc = "unlink"
  /\ LET path == seg[p][lock[p].key].path
     IN \/ /\ path \in DOMAIN file
           /\ file' = Drop(file, path)
           /\ lock' = [lock EXCEPT ![p].pc = "open"]
           /\ UNCHANGED <<gz, faults>>
        \/ /\ path \notin DOMAIN file
           /\ lock' = [lock EXCEPT ![p] = NoOp]
           /\ UNCHANGED <<file, gz, faults>>
        \/ /\ faults < MaxFaults
           /\ faults' = faults + 1
           /\ gz'   = Drop(gz, path)
           /\ lock' = [lock EXCEPT ![p].pc = "open"]
           /\ UNCHANGED file
  /\ UNCHANGED <<seg, held, index, rd, copies, crashes>>

\* The number _rotate gives the next segment of directory d on day y: one
\* more than the last name, unless that is a plain file this process did not
\* just close, which is opened again.
Numbers(f, d, y) == {x.no : x \in {z \in DOMAIN f : z.dir = d /\ z.day = y}}
Used(d, y)       == Numbers(file, d, y) \cup Numbers(gz, d, y)
NextNoFromZero(d, y, old) ==   \* mutant: numbering starts at zero
  IF Used(d, y) = {} THEN 0
  ELSE 1 + CHOOSE n \in Used(d, y) : \A m \in Used(d, y) : m <= n
NextNoIgnoringGz(d, y, old) ==   \* mutant: a compressed last segment is taken for an open one
  IF Used(d, y) = {} THEN 1
  ELSE LET last == CHOOSE n \in Used(d, y) : \A m \in Used(d, y) : m <= n
       IN IF old THEN last + 1 ELSE last
NextNo(d, y, old) ==
  IF Used(d, y) = {} THEN 1
  ELSE LET last == CHOOSE n \in Used(d, y) : \A m \in Used(d, y) : m <= n
       IN IF old \/ last \in Numbers(gz, d, y) THEN last + 1 ELSE last

\* append, second half: open the next segment and write the line to it.
OpenSegment(p) ==
  /\ lock[p] # NoOp
  /\ lock[p].pc = "open"
  /\ LET op == lock[p]
         d  == Dir[p][op.key]
         path == [dir |-> d, day |-> op.day, no |-> NextNo(d, op.day, op.old)]
         f  == IF path \in DOMAIN file THEN file ELSE Put(file, path, Empty)
         s  == [path |-> path, size |-> f[path].len, buf |-> Empty, open |-> TRUE]
     IN WriteLine(p, op.key, s, f, op.rec)
  /\ lock' = [lock EXCEPT ![p] = NoOp]
  /\ UNCHANGED <<gz, index, rd, crashes, faults>>

\* index_raw / index_raw_bulk: the row is committed unless its primary key
\* is already there.
IndexRaw(p, loc) ==
  /\ loc \in held[p]
  /\ held'  = [held EXCEPT ![p] = @ \ {loc}]
  /\ index' = IF Indexed(loc.rec) THEN index ELSE index \cup {loc}
  /\ UNCHANGED <<file, gz, seg, lock, rd, bounds>>
-----------------------------------------------------------------------------
(***************************************************************************)
(* read_record: flush every segment under the lock, then, without the      *)
(* lock, look for the plain file and open it, or the .gz.                  *)
(***************************************************************************)
ReadStartNoFlush(p, loc) ==   \* mutant: the read does not flush first
  /\ lock[p] = NoOp
  /\ rd[p].pc \in {"idle", "done"}
  /\ loc \in index
  /\ rd' = [rd EXCEPT ![p] = [pc |-> "probe", loc |-> loc]]
  /\ UNCHANGED <<file, gz, seg, lock, held, index, bounds>>
ReadStart(p, loc) ==
  /\ lock[p] = NoOp
  /\ rd[p].pc \in {"idle", "done"}
  /\ loc \in index
  /\ lock' = [lock EXCEPT ![p] = [pc |-> "flush",
                                  todo |-> {k \in Keys : seg[p][k] # NoSeg}]]
  /\ rd' = [rd EXCEPT ![p] = [pc |-> "flush", loc |-> loc]]
  /\ UNCHANGED <<file, gz, seg, held, index, bounds>>

\* flush of one segment; on a closed one it raises and the read fails.
FlushOne(p, k) ==
  /\ lock[p] # NoOp
  /\ lock[p].pc = "flush"
  /\ k \in lock[p].todo
  /\ IF seg[p][k].open
     THEN /\ file' = WriteTo(file, seg[p][k].path, seg[p][k].buf)
          /\ seg'  = [seg EXCEPT ![p][k].buf = Empty]
          /\ lock' = [lock EXCEPT ![p].todo = @ \ {k}]
          /\ UNCHANGED rd
     ELSE /\ lock' = [lock EXCEPT ![p] = NoOp]
          /\ rd'   = [rd EXCEPT ![p] = Result("error")]
          /\ UNCHANGED <<file, seg>>
  /\ UNCHANGED <<gz, held, index, bounds>>

FlushDone(p) ==
  /\ lock[p] # NoOp
  /\ lock[p].pc = "flush"
  /\ lock[p].todo = {}
  /\ lock' = [lock EXCEPT ![p] = NoOp]
  /\ rd'   = [rd EXCEPT ![p].pc = "probe"]
  /\ UNCHANGED <<file, gz, seg, held, index, bounds>>

\* _open: p.exists(), then gz.exists()
Probe(p) ==
  /\ rd[p].pc = "probe"
  /\ LET path == rd[p].loc.path
     IN rd' = [rd EXCEPT ![p] =
                 IF path \in DOMAIN file THEN [@ EXCEPT !.pc = "plain"]
                 ELSE IF path \in DOMAIN gz THEN [@ EXCEPT !.pc = "gz"]
                 ELSE Result("missing")]
  /\ UNCHANGED <<file, gz, seg, lock, held, index, bounds>>

\* open, seek, read: the original bytes, other bytes, or no such file.
OpenAndRead(p) ==
  /\ rd[p].pc \in {"plain", "gz"}
  /\ LET loc == rd[p].loc
         from == IF rd[p].pc = "plain" THEN file ELSE gz
     IN rd' = [rd EXCEPT ![p] =
                 Result(IF loc.path \notin DOMAIN from THEN "missing"
                        ELSE IF HoldsLine(from[loc.path], loc) THEN "same"
                        ELSE "other")]
  /\ UNCHANGED <<file, gz, seg, lock, held, index, bounds>>
-----------------------------------------------------------------------------
\* A process exits in order: its calls are over, and the interpreter flushes
\* and closes the open segments one after the other.
ExitStart(p) ==
  /\ lock[p] = NoOp
  /\ held[p] = {}
  /\ rd[p].pc \in {"idle", "done"}
  /\ \E k \in Keys : seg[p][k] # NoSeg
  /\ lock' = [lock EXCEPT ![p] = [pc |-> "exit"]]
  /\ rd'   = [rd EXCEPT ![p] = Idle]
  /\ UNCHANGED <<file, gz, seg, held, index, bounds>>

ExitFlush(p, k) ==
  /\ lock[p] # NoOp
  /\ lock[p].pc = "exit"
  /\ seg[p][k] # NoSeg
  /\ file' = WriteTo(file, seg[p][k].path, seg[p][k].buf)
  /\ seg'  = [seg EXCEPT ![p][k] = NoSeg]
  /\ lock' = IF \A j \in Keys \ {k} : seg[p][j] = NoSeg
             THEN [lock EXCEPT ![p] = NoOp] ELSE lock
  /\ UNCHANGED <<gz, held, index, rd, bounds>>

\* A process dies and is started again: buffers, sizes and locations that
\* were not indexed are gone; a .gz being written stays behind.
Crash(p) ==
  /\ crashes < MaxCrashes
  /\ crashes' = crashes + 1
  /\ seg'  = [seg EXCEPT ![p] = [k \in Keys |-> NoSeg]]
  /\ held' = [held EXCEPT ![p] = {}]
  /\ rd'   = [rd EXCEPT ![p] = Idle]
  /\ lock' = [lock EXCEPT ![p] = NoOp]
  /\ \/ UNCHANGED gz
     \/ /\ lock[p] # NoOp
        /\ lock[p].pc = "compress"
        /\ gz' = Put(gz, seg[p][lock[p].key].path, Empty)
  /\ UNCHANGED <<file, index, copies, faults>>
-----------------------------------------------------------------------------
Next ==
  \E p \in Procs :
    \/ \E k \in Keys, r \in Recs, d \in Days : Append(p, k, r, d) \/ StartRotate(p, k, r, d)
    \/ CompressSegment(p)
    \/ UnlinkPlain(p)
    \/ OpenSegment(p)
    \/ \E loc \in held[p] : IndexRaw(p, loc)
    \/ \E loc \in index : ReadStart(p, loc)
    \/ \E k \in Keys : FlushOne(p, k) \/ ExitFlush(p, k)
    \/ ExitStart(p)
    \/ FlushDone(p)
    \/ Probe(p)
    \/ OpenAndRead(p)
    \/ Crash(p)

Spec == Init /\ [][Next]_vars
-----------------------------------------------------------------------------
(***************************************************************************)
(* Properties                                                              *)
(***************************************************************************)
FilesOK(f) == DOMAIN f \subseteq Paths /\ \A x \in DOMAIN f : f[x] \in Extent

AppendOp == [pc : {"compress", "unlink", "open"}, key : Keys, rec : Recs,
             day : Days, old : BOOLEAN]
FlushOp  == [pc : {"flush"}, todo : SUBSET Keys]
ExitOp   == [pc : {"exit"}]
Reading  == [pc : {"flush", "probe", "plain", "gz"}, loc : Loc]
Results  == {"same", "other", "missing", "error"}

\* Every variable holds a value of its kind.
TypeOK ==
  /\ FilesOK(file) /\ FilesOK(gz)
  /\ seg \in [Procs -> [Keys -> Segment \cup {NoSeg}]]
  /\ lock \in [Procs -> AppendOp \cup FlushOp \cup ExitOp \cup {NoOp}]
  /\ held \in [Procs -> SUBSET Loc]
  /\ index \in SUBSET Loc
  /\ rd \in [Procs -> {Idle} \cup Reading \cup [pc : {"done"}, res : Results]]
  /\ copies \in [Recs -> Nat] /\ crashes \in Nat /\ faults \in Nat

\* The line of loc is in a file a reader finds at loc's path.
Stored(loc) == OnDisk(loc.path) /\ HoldsLine(View(loc.path), loc)

\* The line of loc will be there once p flushes its segment for k.
Pending(p, k, loc) ==
  /\ seg[p][k] # NoSeg
  /\ seg[p][k].path = loc.path
  /\ loc.path \in DOMAIN file
  /\ HoldsLine(Concat(file[loc.path], seg[p][k].buf), loc)

\* "Raw is truth" (docs/architecture.md P2): every committed raw_index row
\* points at the line of its record, on disk or in the buffer of a live
\* process, through buffering, rotation, compression, day changes and exits.
RawIsTruth ==
  \A loc \in index : Stored(loc) \/ \E p \in Procs, k \in Keys : Pending(p, k, loc)

\* The same as long as no process has crashed: failed compressions, days that
\* change and segments that fill up exactly never cost an indexed line.
TruthUntilCrash == crashes = 0 => RawIsTruth

\* As long as no process has crashed, GET /raw/{id} never returns bytes other
\* than the record's (docs/architecture.md:103), whatever it interleaves with.
ReadNeverOther ==
  crashes = 0 => \A p \in Procs : rd[p].pc = "done" => rd[p].res # "other"

\* Append-only: once a line is readable from disk at its offset, no step,
\* crash or failed compression included, makes it unreadable or moves it.
StoredStays == [][\A p \in Procs : \A loc \in index \cup held[p] :
                    Stored(loc) => Stored(loc)']_vars
=============================================================================
