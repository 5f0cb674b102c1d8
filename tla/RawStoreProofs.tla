--------------------------- MODULE RawStoreProofs ---------------------------
(***************************************************************************)
(* Theorems about RawStore for any number of processes, keys, days and     *)
(* records, any line lengths, segment size and buffer size: the types; and *)
(* where no two keys share a directory, that a stored line stays, that raw *)
(* is truth until a crash, and, for one process, that no read returns      *)
(* other bytes until then.                                                 *)
(***************************************************************************)
EXTENDS RawStore, SetLemmas

-----------------------------------------------------------------------------
(***************************************************************************)
(* Extents                                                                 *)
(***************************************************************************)
\* The lines of a file are those of its parts, where they belong.
LEMMA ConcatType == \A a, b \in Extent : Concat(a, b) \in Extent
BY DEF Extent, Concat

LEMMA EmptyType == Empty \in Extent
BY DEF Extent, Empty

LEMMA LineType == \A r \in Recs : Line(r) \in Extent
BY RawStoreAssumption DEF Extent, Line

\* Writing nothing changes nothing.
LEMMA ConcatEmpty == \A a \in Extent : Concat(a, Empty) = a
BY DEF Extent, Concat, Empty

LEMMA EmptyConcat == \A b \in Extent : Concat(Empty, b) = b
<1> SUFFICES ASSUME NEW b \in Extent PROVE Concat(Empty, b) = b
  OBVIOUS
<1>1. \A x \in b.lines : [rec |-> x.rec, at |-> x.at + 0] = x
  BY DEF Extent
<1>2. {[rec |-> x.rec, at |-> x.at + 0] : x \in b.lines} = b.lines
  BY <1>1
<1> QED BY <1>2 DEF Extent, Concat, Empty

\* Writing in two pieces is writing at once.
LEMMA ConcatAssoc ==
  \A a, b, c \in Extent : Concat(Concat(a, b), c) = Concat(a, Concat(b, c))
<1> SUFFICES ASSUME NEW a \in Extent, NEW b \in Extent, NEW c \in Extent
             PROVE  Concat(Concat(a, b), c) = Concat(a, Concat(b, c))
  OBVIOUS
<1>1. Concat(a, b).len + c.len = a.len + Concat(b, c).len
  BY DEF Extent, Concat
<1>2. ASSUME NEW y PROVE y \in Concat(Concat(a, b), c).lines => y \in Concat(a, Concat(b, c)).lines
  <2>1. CASE y \in a.lines
    BY <2>1 DEF Concat
  <2>2. ASSUME NEW x \in b.lines, y = [rec |-> x.rec, at |-> x.at + a.len]
        PROVE  y \in Concat(a, Concat(b, c)).lines
    BY <2>2 DEF Concat
  <2>3. ASSUME NEW x \in c.lines, y = [rec |-> x.rec, at |-> x.at + (a.len + b.len)]
        PROVE  y \in Concat(a, Concat(b, c)).lines
    <3> DEFINE z == [rec |-> x.rec, at |-> x.at + b.len]
    <3>1. z \in Concat(b, c).lines
      BY DEF Concat
    <3>2. y = [rec |-> z.rec, at |-> z.at + a.len]
      BY <2>3 DEF Extent
    <3> HIDE DEF z
    <3> QED BY <3>1, <3>2 DEF Concat
  <2> QED BY <2>1, <2>2, <2>3 DEF Concat
<1>3. ASSUME NEW y PROVE y \in Concat(a, Concat(b, c)).lines => y \in Concat(Concat(a, b), c).lines
  <2>1. CASE y \in a.lines
    BY <2>1 DEF Concat
  <2>2. ASSUME NEW z \in Concat(b, c).lines, y = [rec |-> z.rec, at |-> z.at + a.len]
        PROVE  y \in Concat(Concat(a, b), c).lines
    <3>1. CASE z \in b.lines
      BY <2>2, <3>1 DEF Concat
    <3>2. ASSUME NEW x \in c.lines, z = [rec |-> x.rec, at |-> x.at + b.len]
          PROVE  y \in Concat(Concat(a, b), c).lines
      <4>1. y = [rec |-> x.rec, at |-> x.at + (a.len + b.len)]
        BY <2>2, <3>2 DEF Extent
      <4> QED BY <4>1 DEF Concat
    <3> QED BY <3>1, <3>2 DEF Concat
  <2> QED BY <2>1, <2>2 DEF Concat
<1>4. Concat(Concat(a, b), c).lines = Concat(a, Concat(b, c)).lines
  BY <1>2, <1>3
<1> QED BY <1>1, <1>4 DEF Concat

\* What was there stays there; what is written starts where the extent ended.
LEMMA ConcatKeeps ==
  /\ \A a, b \in Extent : a.lines \subseteq Concat(a, b).lines
  /\ \A a \in Extent, r \in Recs : [rec |-> r, at |-> a.len] \in Concat(a, Line(r)).lines
<1>1. ASSUME NEW a \in Extent, NEW r \in Recs
      PROVE  [rec |-> r, at |-> a.len] \in Concat(a, Line(r)).lines
  <2>1. 0 + a.len = a.len
    BY DEF Extent
  <2> QED BY <2>1 DEF Concat, Line
<1> QED BY <1>1 DEF Concat
-----------------------------------------------------------------------------
(***************************************************************************)
(* One write                                                               *)
(***************************************************************************)
\* What a file holds, with what a buffer behind it holds.
Full(f, s) == Concat(f[s.path], s.buf)

\* A write behind a file touches no other file, and loses nothing of this one.
LEMMA WriteToFile ==
  ASSUME NEW f, FilesOK(f), NEW path, NEW x \in Extent
  PROVE  /\ FilesOK(WriteTo(f, path, x))
         /\ DOMAIN WriteTo(f, path, x) = DOMAIN f
         /\ \A y \in DOMAIN f : y # path => WriteTo(f, path, x)[y] = f[y]
         /\ path \in DOMAIN f => WriteTo(f, path, x)[path] = Concat(f[path], x)
BY ConcatType DEF FilesOK, WriteTo

\* Buffered, flushed or written through: the line is behind what file and
\* buffer held, at the offset that append returns, and the size is right.
LEMMA WriteLineOK ==
  ASSUME NEW f, FilesOK(f), NEW s \in Segment, NEW r \in Recs,
         s.path \in DOMAIN f, s.size = f[s.path].len + s.buf.len
  PROVE  LET g == FileAfter(f, s, r)
             u == SegAfter(s, r)
         IN /\ FilesOK(g) /\ DOMAIN g = DOMAIN f
            /\ \A y \in DOMAIN f : y # s.path => g[y] = f[y]
            /\ f[s.path].lines \subseteq g[s.path].lines
            /\ u \in Segment /\ u.path = s.path /\ u.open = s.open
            /\ u.size = g[s.path].len + u.buf.len
            /\ Full(g, u) = Concat(Full(f, s), Line(r))
<1> DEFINE g == FileAfter(f, s, r)
           u == SegAfter(s, r)
           a == f[s.path]
<1>1. a \in Extent /\ s.buf \in Extent /\ Line(r) \in Extent /\ LineLen[r] \in Nat /\ BufBytes \in Nat
      /\ Line(r).len = LineLen[r]
  BY LineType, RawStoreAssumption DEF FilesOK, Segment, Line
<1>2. Concat(s.buf, Line(r)) \in Extent /\ Concat(a, s.buf) \in Extent
  BY <1>1, ConcatType
<1>6. s.size + LineLen[r] \in Nat
  BY <1>1 DEF Segment
<1>3. CASE Buffered(s, r)
  <2>1. g = f /\ u = [s EXCEPT !.size = @ + LineLen[r], !.buf = Concat(@, Line(r))]
    BY <1>3 DEF FileAfter, SegAfter
  <2>2. u \in Segment /\ u.path = s.path /\ u.open = s.open /\ u.size = s.size + LineLen[r]
        /\ u.buf = Concat(s.buf, Line(r))
    <3> DEFINE n == s.size + LineLen[r]
               b == Concat(s.buf, Line(r))
    <3>1. u = [s EXCEPT !.size = n, !.buf = b] /\ n \in Nat /\ b \in Extent
      BY <1>1, <1>2, <1>6, <2>1, EmptyType
    <3> HIDE DEF n, b
    <3> HIDE DEF u
    <3>2. u \in Segment /\ u.path = s.path /\ u.open = s.open /\ u.size = n /\ u.buf = b
      <4>1. u.path = s.path /\ u.size = n /\ u.buf = b
        BY <3>1 DEF Segment
      <4>2. u.open = s.open
        BY <3>1, Zenon DEF Segment
      <4>3. u \in Segment
        BY <3>1 DEF Segment
      <4> QED BY <4>1, <4>2, <4>3
    <3> QED BY <3>2 DEF n, b
  <2>3. u.size = g[s.path].len + u.buf.len
    BY <1>1, <2>1, <2>2 DEF Concat, Extent
  <2>4. Full(g, u) = Concat(Full(f, s), Line(r))
    BY <1>1, <2>1, <2>2, ConcatAssoc DEF Full
  <2> QED BY <2>1, <2>2, <2>3, <2>4
<1>4. CASE ~Buffered(s, r) /\ Large(r)
  <2>1. g = WriteTo(f, s.path, Concat(s.buf, Line(r)))
        /\ u = [s EXCEPT !.size = @ + LineLen[r], !.buf = Empty]
    BY <1>4 DEF FileAfter, SegAfter
  <2>2. u \in Segment /\ u.path = s.path /\ u.open = s.open /\ u.size = s.size + LineLen[r]
        /\ u.buf = Empty
    <3> DEFINE n == s.size + LineLen[r]
               b == Empty
    <3>1. u = [s EXCEPT !.size = n, !.buf = b] /\ n \in Nat /\ b \in Extent
      BY <1>1, <1>2, <1>6, <2>1, EmptyType
    <3> HIDE DEF n, b
    <3> HIDE DEF u
    <3>2. u \in Segment /\ u.path = s.path /\ u.open = s.open /\ u.size = n /\ u.buf = b
      <4>1. u.path = s.path /\ u.size = n /\ u.buf = b
        BY <3>1 DEF Segment
      <4>2. u.open = s.open
        BY <3>1, Zenon DEF Segment
      <4>3. u \in Segment
        BY <3>1 DEF Segment
      <4> QED BY <4>1, <4>2, <4>3
    <3> QED BY <3>2 DEF n, b
  <2>3. /\ FilesOK(g) /\ DOMAIN g = DOMAIN f
        /\ \A y \in DOMAIN f : y # s.path => g[y] = f[y]
        /\ g[s.path] = Concat(a, Concat(s.buf, Line(r)))
    BY <1>2, <2>1, WriteToFile
  <2>4. u.size = g[s.path].len + u.buf.len
    BY <1>1, <2>2, <2>3 DEF Concat, Extent, Empty
  <2>5. a.lines \subseteq g[s.path].lines
    BY <1>1, <1>2, <2>3, ConcatKeeps
  <2>6. g[s.path] \in Extent
    BY <1>1, <1>2, <2>3, ConcatType
  <2>7. Full(g, u) = Concat(Full(f, s), Line(r))
    BY <1>1, <2>2, <2>3, <2>6, ConcatAssoc, ConcatEmpty DEF Full
  <2> QED BY <2>2, <2>3, <2>4, <2>5, <2>7
<1>5. CASE ~Buffered(s, r) /\ ~Large(r)
  <2>1. g = WriteTo(f, s.path, s.buf) /\ u = [s EXCEPT !.size = @ + LineLen[r], !.buf = Line(r)]
    BY <1>5 DEF FileAfter, SegAfter
  <2>2. u \in Segment /\ u.path = s.path /\ u.open = s.open /\ u.size = s.size + LineLen[r]
        /\ u.buf = Line(r)
    <3> DEFINE n == s.size + LineLen[r]
               b == Line(r)
    <3>1. u = [s EXCEPT !.size = n, !.buf = b] /\ n \in Nat /\ b \in Extent
      BY <1>1, <1>2, <1>6, <2>1, EmptyType
    <3> HIDE DEF n, b
    <3> HIDE DEF u
    <3>2. u \in Segment /\ u.path = s.path /\ u.open = s.open /\ u.size = n /\ u.buf = b
      <4>1. u.path = s.path /\ u.size = n /\ u.buf = b
        BY <3>1 DEF Segment
      <4>2. u.open = s.open
        BY <3>1, Zenon DEF Segment
      <4>3. u \in Segment
        BY <3>1 DEF Segment
      <4> QED BY <4>1, <4>2, <4>3
    <3> QED BY <3>2 DEF n, b
  <2>3. /\ FilesOK(g) /\ DOMAIN g = DOMAIN f
        /\ \A y \in DOMAIN f : y # s.path => g[y] = f[y]
        /\ g[s.path] = Concat(a, s.buf)
    BY <1>1, <2>1, WriteToFile
  <2>4. u.size = g[s.path].len + u.buf.len
    BY <1>1, <2>2, <2>3 DEF Concat, Extent
  <2>5. a.lines \subseteq g[s.path].lines
    BY <1>1, <2>3, ConcatKeeps
  <2>6. Full(g, u) = Concat(Full(f, s), Line(r))
    BY <2>2, <2>3 DEF Full
  <2> QED BY <2>2, <2>3, <2>4, <2>5, <2>6
<1> QED BY <1>3, <1>4, <1>5
-----------------------------------------------------------------------------
(***************************************************************************)
(* Type correctness                                                        *)
(*                                                                         *)
(* A segment number exists because a directory holds finitely many files.  *)
(* A compression knows its segment, and a flush the read it serves and the *)
(* segments it has still to flush.                                         *)
(***************************************************************************)
Finite == IsFiniteSet(DOMAIN file) /\ IsFiniteSet(DOMAIN gz)

OpOK(p) ==
  /\ lock[p] # NoOp /\ lock[p].pc \in {"compress", "unlink"} => seg[p][lock[p].key] # NoSeg
  /\ lock[p] # NoOp /\ lock[p].pc = "flush" =>
       /\ rd[p] \in Reading /\ rd[p].pc = "flush"
       /\ \A k \in lock[p].todo : seg[p][k] # NoSeg

TInv == TypeOK /\ Finite /\ \A p \in Procs : OpOK(p)

\* The number of the next segment: never that of a compressed one, and never
\* one in use when a segment was just closed.
LEMMA NextNoOK ==
  ASSUME TypeOK, Finite, NEW d, NEW y, NEW old \in BOOLEAN, NEW path,
         path = [dir |-> d, day |-> y, no |-> NextNo(d, y, old)]
  PROVE  /\ NextNo(d, y, old) \in Nat \ {0}
         /\ path \notin DOMAIN gz
         /\ old => path \notin DOMAIN file
<1> DEFINE N == NextNo(d, y, old)
           last == CHOOSE n \in Used(d, y) : \A m \in Used(d, y) : m <= n
<1>1. Used(d, y) \subseteq Nat \ {0}
  BY DEF Used, Numbers, TypeOK, FilesOK, Paths
<1>2. IsFiniteSet(Used(d, y))
  <2>1. ASSUME NEW f, IsFiniteSet(DOMAIN f) PROVE IsFiniteSet(Numbers(f, d, y))
    <3> DEFINE T == {z \in DOMAIN f : z.dir = d /\ z.day = y}
    <3>1. IsFiniteSet(T)
      BY <2>1, FS_Subset
    <3> HIDE DEF T
    <3>2. [x \in T |-> x.no] \in Surjection(T, {x.no : x \in T})
      BY DEF Surjection
    <3>3. IsFiniteSet({x.no : x \in T})
      BY <3>1, <3>2, FS_Surjection
    <3> QED BY <3>3 DEF Numbers, T
  <2> QED BY <2>1, FS_Union DEF Finite, Used
<1>3. path.no = N /\ path.dir = d /\ path.day = y
  OBVIOUS
<1>4. (path \in DOMAIN gz => N \in Numbers(gz, d, y)) /\ (path \in DOMAIN file => N \in Used(d, y))
      /\ (path \in DOMAIN gz => N \in Used(d, y))
  <2> HIDE DEF N
  <2> QED BY <1>3 DEF Numbers, Used
<1>5. CASE Used(d, y) = {}
  BY <1>4, <1>5 DEF NextNo
<1>6. CASE Used(d, y) # {}
  <2> DEFINE S == Used(d, y)
  <2>1. S \subseteq Int /\ S # {} /\ IsFiniteSet(S)
    BY <1>1, <1>2, <1>6
  <2> HIDE DEF S
  <2>2. \E m \in S : \A n \in S : n <= m
    BY <2>1, MaxExists
  <2>3. last \in Used(d, y) /\ \A m \in Used(d, y) : m <= last
    BY <2>2 DEF S
  <2> HIDE DEF last
  <2>4. last \in Nat \ {0} /\ last + 1 \notin Used(d, y)
    BY <1>1, <2>3
  <2>5. N = IF old \/ last \in Numbers(gz, d, y) THEN last + 1 ELSE last
    BY <1>6 DEF NextNo, last
  <2> HIDE DEF N
  <2> QED BY <1>4, <2>4, <2>5 DEF N
<1> QED BY <1>5, <1>6

\* Replacing one segment.
LEMMA SegPut ==
  ASSUME TypeOK, NEW p \in Procs, NEW k \in Keys, NEW s \in Segment \cup {NoSeg},
         seg' = [seg EXCEPT ![p][k] = s]
  PROVE  /\ seg' \in [Procs -> [Keys -> Segment \cup {NoSeg}]]
         /\ seg'[p][k] = s
         /\ \A q \in Procs, l \in Keys : q # p \/ l # k => seg'[q][l] = seg[q][l]
BY DEF TypeOK

\* Putting a file, or removing one, leaves finitely many files of the right kind.
LEMMA FilesPutDrop ==
  ASSUME NEW f, FilesOK(f), IsFiniteSet(DOMAIN f)
  PROVE  /\ \A path \in Paths, x \in Extent :
              FilesOK(Put(f, path, x)) /\ IsFiniteSet(DOMAIN Put(f, path, x))
         /\ \A path : FilesOK(Drop(f, path)) /\ IsFiniteSet(DOMAIN Drop(f, path))
<1>1. ASSUME NEW path \in Paths, NEW x \in Extent
      PROVE  FilesOK(Put(f, path, x)) /\ IsFiniteSet(DOMAIN Put(f, path, x))
  <2>1. IsFiniteSet(DOMAIN f \cup {path})
    BY FS_Singleton, FS_Union
  <2> QED BY <2>1 DEF FilesOK, Put
<1>2. ASSUME NEW path PROVE FilesOK(Drop(f, path)) /\ IsFiniteSet(DOMAIN Drop(f, path))
  <2>1. IsFiniteSet(DOMAIN f \ {path})
    BY FS_Subset
  <2> QED BY <2>1 DEF FilesOK, Drop
<1> QED BY <1>1, <1>2

\* Wherever a write goes, it leaves files, buffer and location of the right kind.
LEMMA WriteLineType ==
  ASSUME TypeOK, NEW p \in Procs, NEW k \in Keys, NEW s \in Segment, NEW f, FilesOK(f),
         NEW r \in Recs, WriteLine(p, k, s, f, r)
  PROVE  /\ FilesOK(file') /\ DOMAIN file' = DOMAIN f
         /\ SegAfter(s, r) \in Segment
         /\ seg' \in [Procs -> [Keys -> Segment \cup {NoSeg}]]
         /\ held' \in [Procs -> SUBSET Loc] /\ copies' \in [Recs -> Nat]
<1>1. s.buf \in Extent /\ Line(r) \in Extent /\ LineLen[r] \in Nat /\ Concat(s.buf, Line(r)) \in Extent
  BY LineType, ConcatType, RawStoreAssumption DEF Segment
<1>2. FilesOK(file') /\ DOMAIN file' = DOMAIN f
  <2>1. \/ FileAfter(f, s, r) = f
        \/ FileAfter(f, s, r) = WriteTo(f, s.path, Concat(s.buf, Line(r)))
        \/ FileAfter(f, s, r) = WriteTo(f, s.path, s.buf)
    BY DEF FileAfter
  <2> QED BY <1>1, <2>1, WriteToFile DEF WriteLine
<1>3. SegAfter(s, r) \in Segment
  <2>1. PICK b \in Extent : SegAfter(s, r) = [s EXCEPT !.size = @ + LineLen[r], !.buf = b]
    BY <1>1, EmptyType DEF SegAfter
  <2>2. s.size + LineLen[r] \in Nat
    BY <1>1 DEF Segment
  <2> QED BY <2>1, <2>2 DEF Segment
<1>4. [rec |-> r, path |-> s.path, off |-> s.size] \in Loc
  BY DEF Segment, Loc
<1>5. held' \in [Procs -> SUBSET Loc] /\ copies' \in [Recs -> Nat]
  BY <1>4 DEF WriteLine, TypeOK
<1>6. seg' = [seg EXCEPT ![p][k] = SegAfter(s, r)]
  BY DEF WriteLine
<1> QED BY <1>2, <1>3, <1>5, <1>6, SegPut

\* The other processes keep their operations, segments and reads.
Others(p) ==
  \A q \in Procs \ {p} :
    /\ lock'[q] = lock[q] /\ rd'[q] = rd[q] /\ held'[q] = held[q]
    /\ \A k \in Keys : seg'[q][k] = seg[q][k]

LEMMA OthersT ==
  ASSUME TInv, TypeOK', Finite', NEW p \in Procs, Others(p), OpOK(p)'
  PROVE  TInv'
<1>1. ASSUME NEW q \in Procs \ {p} PROVE OpOK(q)'
  <2>1. OpOK(q) /\ lock[q] \in AppendOp \cup FlushOp \cup ExitOp \cup {NoOp}
    BY DEF TInv, TypeOK
  <2>2. CASE lock[q] # NoOp /\ lock[q].pc \in {"compress", "unlink"}
    <3>1. lock[q].key \in Keys
      BY <2>1, <2>2 DEF AppendOp, FlushOp, ExitOp
    <3> QED BY <2>1, <2>2, <3>1 DEF Others, OpOK
  <2>3. CASE lock[q] # NoOp /\ lock[q].pc = "flush"
    <3>1. lock[q].todo \subseteq Keys
      BY <2>1, <2>3 DEF AppendOp, FlushOp, ExitOp
    <3> QED BY <2>1, <2>3, <3>1 DEF Others, OpOK
  <2>4. CASE ~(lock[q] # NoOp /\ lock[q].pc \in {"compress", "unlink", "flush"})
    BY <2>4 DEF Others, OpOK
  <2> QED BY <2>2, <2>3, <2>4
<1> QED BY <1>1 DEF TInv

\* The kinds of operation that hold the lock, by the step they are at.
LEMMA OpKinds ==
  ASSUME TypeOK, NEW p \in Procs, lock[p] # NoOp
  PROVE  /\ lock[p].pc \in {"compress", "unlink", "open"} => lock[p] \in AppendOp
         /\ lock[p].pc = "flush" => lock[p] \in FlushOp
         /\ lock[p].pc = "exit" => lock[p] \in ExitOp
BY DEF TypeOK, AppendOp, FlushOp, ExitOp

LEMMA InitT == Init => TInv
<1> SUFFICES ASSUME Init PROVE TInv
  OBVIOUS
<1>1. Finite
  BY FS_EmptySet DEF Init, Finite
<1>2. TypeOK
  BY DEF Init, TypeOK, FilesOK
<1> QED BY <1>1, <1>2 DEF Init, TInv, OpOK

LEMMA AppendT ==
  ASSUME TInv, NEW p \in Procs, NEW k \in Keys, NEW r \in Recs, NEW d \in Days, Append(p, k, r, d)
  PROVE  TInv'
<1>1. seg[p][k] \in Segment /\ FilesOK(file) /\ WriteLine(p, k, seg[p][k], file, r) /\ lock[p] = NoOp
      /\ UNCHANGED <<gz, lock, index, rd, crashes, faults>> /\ TypeOK
  BY DEF Append, MayAppend, TInv, TypeOK
<1>2. /\ FilesOK(file') /\ DOMAIN file' = DOMAIN file
      /\ SegAfter(seg[p][k], r) \in Segment
      /\ seg' \in [Procs -> [Keys -> Segment \cup {NoSeg}]]
      /\ held' \in [Procs -> SUBSET Loc] /\ copies' \in [Recs -> Nat]
  BY <1>1, WriteLineType
<1>3. TypeOK' /\ Finite'
  BY <1>1, <1>2 DEF TInv, TypeOK, Finite
<1>4. Others(p) /\ OpOK(p)'
  BY <1>1 DEF WriteLine, Others, OpOK, TypeOK
<1> QED BY <1>3, <1>4, OthersT

\* A rotation that has a segment to close flushes and closes it.
Closed(s) == [s EXCEPT !.buf = Empty, !.open = FALSE]

LEMMA ClosedType ==
  \A s \in Segment : /\ Closed(s) \in Segment /\ Closed(s).path = s.path /\ Closed(s).size = s.size
                     /\ Closed(s).buf = Empty /\ Closed(s).open = FALSE
BY EmptyType DEF Closed, Segment

LEMMA StartRotateT ==
  ASSUME TInv, NEW p \in Procs, NEW k \in Keys, NEW r \in Recs, NEW d \in Days, StartRotate(p, k, r, d)
  PROVE  TInv'
<1> DEFINE had == seg[p][k] # NoSeg
           op(pc) == [pc |-> pc, key |-> k, rec |-> r, day |-> d, old |-> had]
<1>1. \A pc \in {"compress", "unlink", "open"} : op(pc) \in AppendOp
  BY DEF AppendOp
<1>2. UNCHANGED <<gz, held, index, rd, bounds>> /\ TypeOK /\ Finite
  BY DEF StartRotate, TInv
<1>3. CASE seg[p][k] = NoSeg /\ lock' = [lock EXCEPT ![p] = op("open")] /\ UNCHANGED <<file, seg>>
  <2>1. lock' \in [Procs -> AppendOp \cup FlushOp \cup ExitOp \cup {NoOp}] /\ lock'[p].pc = "open"
    BY <1>1, <1>2, <1>3 DEF TypeOK
  <2>2. TypeOK' /\ Finite'
    BY <1>2, <1>3, <2>1 DEF TypeOK, Finite, bounds
  <2>3. Others(p) /\ OpOK(p)'
    BY <1>2, <1>3, <2>1 DEF Others, OpOK, TypeOK
  <2> QED BY <2>2, <2>3, OthersT
<1>4. ASSUME seg[p][k] # NoSeg, file' = WriteTo(file, seg[p][k].path, seg[p][k].buf),
             seg' = [seg EXCEPT ![p][k].buf = Empty, ![p][k].open = FALSE],
             NEW pc \in {"compress", "open"}, lock' = [lock EXCEPT ![p] = op(pc)]
      PROVE  TInv'
  <2>1. seg[p][k] \in Segment /\ seg[p][k].buf \in Extent
    BY <1>2, <1>4 DEF TypeOK, Segment
  <2>2. seg' = [seg EXCEPT ![p][k] = Closed(seg[p][k])]
    BY <1>4 DEF Closed
  <2>3. Closed(seg[p][k]) \in Segment
    BY <2>1, ClosedType
  <2>4. /\ seg' \in [Procs -> [Keys -> Segment \cup {NoSeg}]]
        /\ seg'[p][k] = Closed(seg[p][k])
        /\ \A q \in Procs, l \in Keys : q # p \/ l # k => seg'[q][l] = seg[q][l]
    BY <1>2, <2>2, <2>3, SegPut, ZenonT(40)
  <2>5. FilesOK(file') /\ DOMAIN file' = DOMAIN file
    BY <1>2, <1>4, <2>1, WriteToFile DEF TypeOK
  <2>6. lock' \in [Procs -> AppendOp \cup FlushOp \cup ExitOp \cup {NoOp}] /\ lock'[p] = op(pc)
    BY <1>1, <1>2, <1>4 DEF TypeOK
  <2>7. TypeOK' /\ Finite'
    BY <1>2, <2>4, <2>5, <2>6 DEF TypeOK, Finite, bounds
  <2>8. OpOK(p)'
    BY <2>3, <2>4, <2>6, NoSegAssumption DEF OpOK
  <2>9. Others(p)
    BY <1>2, <1>4, <2>4 DEF Others, TypeOK
  <2> QED BY <2>7, <2>8, <2>9, OthersT
<1> QED BY <1>3, <1>4 DEF StartRotate

\* The next step of an append that holds the lock.
LEMMA OpStep ==
  ASSUME TypeOK, NEW p \in Procs, lock[p] # NoOp, lock[p].pc \in {"compress", "unlink", "open"},
         \/ lock' = [lock EXCEPT ![p] = NoOp]
         \/ \E pc \in {"unlink", "open"} : lock' = [lock EXCEPT ![p].pc = pc]
  PROVE  /\ lock' \in [Procs -> AppendOp \cup FlushOp \cup ExitOp \cup {NoOp}]
         /\ \A q \in Procs \ {p} : lock'[q] = lock[q]
         /\ lock'[p] = NoOp \/ (lock'[p].pc \in {"unlink", "open"} /\ lock'[p].key = lock[p].key)
<1>1. lock[p] \in AppendOp
  BY OpKinds
<1>2. CASE lock' = [lock EXCEPT ![p] = NoOp]
  BY <1>2 DEF TypeOK
<1>3. ASSUME NEW pc \in {"unlink", "open"}, lock' = [lock EXCEPT ![p].pc = pc]
      PROVE  /\ lock' \in [Procs -> AppendOp \cup FlushOp \cup ExitOp \cup {NoOp}]
             /\ \A q \in Procs \ {p} : lock'[q] = lock[q]
             /\ lock'[p].pc \in {"unlink", "open"} /\ lock'[p].key = lock[p].key
  <2>1. lock' = [lock EXCEPT ![p] = [lock[p] EXCEPT !.pc = pc]]
    BY <1>3
  <2>2. [lock[p] EXCEPT !.pc = pc] \in AppendOp /\ [lock[p] EXCEPT !.pc = pc].key = lock[p].key
        /\ [lock[p] EXCEPT !.pc = pc].pc = pc
    BY <1>1 DEF AppendOp
  <2> QED BY <2>1, <2>2 DEF TypeOK
<1> QED BY <1>2, <1>3

LEMMA CompressT ==
  ASSUME TInv, NEW p \in Procs, CompressSegment(p) \/ UnlinkPlain(p)
  PROVE  TInv'
<1> DEFINE path == seg[p][lock[p].key].path
<1>1. lock[p] # NoOp /\ lock[p].pc \in {"compress", "unlink"} /\ TypeOK /\ Finite
      /\ UNCHANGED <<seg, held, index, rd, copies, crashes>>
  BY DEF CompressSegment, UnlinkPlain, TInv
<1>2. lock[p].key \in Keys /\ seg[p][lock[p].key] \in Segment /\ path \in Paths
  <2>1. seg[p][lock[p].key] # NoSeg
    BY <1>1 DEF TInv, OpOK
  <2>2. lock[p].key \in Keys
    BY <1>1, OpKinds DEF AppendOp
  <2> QED BY <1>1, <2>1, <2>2 DEF TypeOK, Segment
<1>3. \/ lock' = [lock EXCEPT ![p] = NoOp]
      \/ \E pc \in {"unlink", "open"} : lock' = [lock EXCEPT ![p].pc = pc]
  BY DEF CompressSegment, UnlinkPlain
<1>4. /\ lock' \in [Procs -> AppendOp \cup FlushOp \cup ExitOp \cup {NoOp}]
      /\ \A q \in Procs \ {p} : lock'[q] = lock[q]
      /\ lock'[p] = NoOp \/ (lock'[p].pc \in {"unlink", "open"} /\ lock'[p].key = lock[p].key)
  BY <1>1, <1>3, OpStep
<1>5. FilesOK(gz') /\ IsFiniteSet(DOMAIN gz') /\ FilesOK(file') /\ IsFiniteSet(DOMAIN file')
  <2>1. \/ gz' = gz \/ gz' = Drop(gz, path) \/ gz' = Put(gz, path, Empty)
        \/ (path \in DOMAIN file /\ gz' = Put(gz, path, file[path]))
    BY DEF CompressSegment, UnlinkPlain
  <2>2. file' = file \/ file' = Drop(file, path)
    BY DEF CompressSegment, UnlinkPlain
  <2>3. FilesOK(file) /\ FilesOK(gz) /\ IsFiniteSet(DOMAIN file) /\ IsFiniteSet(DOMAIN gz)
    BY <1>1 DEF TypeOK, Finite
  <2>4. path \in DOMAIN file => file[path] \in Extent
    BY <2>3 DEF FilesOK
  <2> QED BY <1>2, <2>1, <2>2, <2>3, <2>4, FilesPutDrop, EmptyType
<1>6. faults' \in Nat
  BY <1>1 DEF CompressSegment, UnlinkPlain, TypeOK
<1>7. TypeOK' /\ Finite'
  BY <1>1, <1>4, <1>5, <1>6 DEF TypeOK, Finite
<1>8. OpOK(p)'
  BY <1>1, <1>2, <1>4, NoSegAssumption DEF OpOK
<1>9. Others(p)
  BY <1>1, <1>4 DEF Others
<1> QED BY <1>7, <1>8, <1>9, OthersT

\* The next segment: the last plain file opened again, or a new one.
LEMMA OpenSegmentT ==
  ASSUME TInv, NEW p \in Procs, OpenSegment(p)
  PROVE  TInv'
<1> DEFINE op == lock[p]
           d  == Dir[p][op.key]
           path == [dir |-> d, day |-> op.day, no |-> NextNo(d, op.day, op.old)]
           f  == IF path \in DOMAIN file THEN file ELSE Put(file, path, Empty)
           s  == [path |-> path, size |-> f[path].len, buf |-> Empty, open |-> TRUE]
<1>1. op # NoOp /\ op \in AppendOp /\ TypeOK /\ Finite /\ WriteLine(p, op.key, s, f, op.rec)
      /\ lock' = [lock EXCEPT ![p] = NoOp] /\ UNCHANGED <<gz, index, rd, crashes, faults>>
  BY OpKinds DEF OpenSegment, TInv
<1>2. op.key \in Keys /\ op.rec \in Recs /\ d \in Dirs /\ op.day \in Days /\ op.old \in BOOLEAN
  BY <1>1, RawStoreAssumption, ZenonT(40) DEF AppendOp
<1>3. path \in Paths
  BY <1>1, <1>2, NextNoOK DEF Paths
<1>4. FilesOK(f) /\ path \in DOMAIN f /\ IsFiniteSet(DOMAIN f)
  <2>1. FilesOK(file) /\ IsFiniteSet(DOMAIN file)
    BY <1>1 DEF TypeOK, Finite
  <2>2. path \in DOMAIN Put(file, path, Empty)
    BY DEF Put
  <2> HIDE DEF path
  <2> QED BY <1>3, <2>1, <2>2, FilesPutDrop, EmptyType
<1>5. s \in Segment
  BY <1>3, <1>4, EmptyType DEF FilesOK, Segment, Extent
<1> HIDE DEF s, f
<1>6. /\ FilesOK(file') /\ DOMAIN file' = DOMAIN f
      /\ SegAfter(s, op.rec) \in Segment
      /\ seg' \in [Procs -> [Keys -> Segment \cup {NoSeg}]]
      /\ held' \in [Procs -> SUBSET Loc] /\ copies' \in [Recs -> Nat]
  BY <1>1, <1>2, <1>4, <1>5, WriteLineType
<1>7. TypeOK' /\ Finite'
  BY <1>1, <1>4, <1>6 DEF TypeOK, Finite
<1>8. Others(p) /\ OpOK(p)'
  BY <1>1 DEF WriteLine, Others, OpOK, TypeOK
<1> QED BY <1>7, <1>8, OthersT

\* A committed row is one of the locations that append returned.
LEMMA IndexRawT ==
  ASSUME TInv, NEW p \in Procs, NEW loc \in held[p], IndexRaw(p, loc)
  PROVE  TInv'
<1>1. loc \in Loc /\ TypeOK /\ Finite /\ UNCHANGED <<file, gz, seg, lock, rd, bounds>>
      /\ held' = [held EXCEPT ![p] = @ \ {loc}] /\ (index' = index \/ index' = index \cup {loc})
  BY DEF IndexRaw, TInv, TypeOK
<1>2. held' \in [Procs -> SUBSET Loc] /\ index' \in SUBSET Loc
  BY <1>1 DEF TypeOK
<1>3. TypeOK' /\ Finite'
  BY <1>1, <1>2 DEF TypeOK, Finite, bounds
<1>4. Others(p) /\ OpOK(p)'
  BY <1>1 DEF TInv, Others, OpOK, TypeOK
<1> QED BY <1>3, <1>4, OthersT

\* A read knows the segments it has to flush.
LEMMA ReadStartT ==
  ASSUME TInv, NEW p \in Procs, NEW loc \in index, ReadStart(p, loc)
  PROVE  TInv'
<1> DEFINE op == [pc |-> "flush", todo |-> {k \in Keys : seg[p][k] # NoSeg}]
           r  == [pc |-> "flush", loc |-> loc]
<1>1. loc \in Loc /\ TypeOK /\ Finite /\ UNCHANGED <<file, gz, seg, held, index, bounds>>
      /\ lock' = [lock EXCEPT ![p] = op] /\ rd' = [rd EXCEPT ![p] = r]
  BY DEF ReadStart, TInv, TypeOK
<1>2. op \in FlushOp /\ r \in Reading
  BY <1>1 DEF FlushOp, Reading
<1>3. lock' \in [Procs -> AppendOp \cup FlushOp \cup ExitOp \cup {NoOp}]
      /\ rd' \in [Procs -> {Idle} \cup Reading \cup [pc : {"done"}, res : Results]]
  BY <1>1, <1>2 DEF TypeOK
<1>4. TypeOK' /\ Finite'
  BY <1>1, <1>3 DEF TypeOK, Finite, bounds
<1>5. lock'[p] = op /\ rd'[p] = r /\ seg' = seg
  BY <1>1 DEF TypeOK
<1>6. OpOK(p)'
  BY <1>2, <1>5 DEF OpOK
<1>7. Others(p)
  BY <1>1 DEF Others, TypeOK
<1> QED BY <1>4, <1>6, <1>7, OthersT

\* A flush leaves one segment less to flush; on a closed one the read is over.
LEMMA FlushOneT ==
  ASSUME TInv, NEW p \in Procs, NEW k \in Keys, FlushOne(p, k)
  PROVE  TInv'
<1>1. TypeOK /\ Finite /\ lock[p] # NoOp /\ lock[p].pc = "flush" /\ lock[p] \in FlushOp
      /\ k \in lock[p].todo /\ seg[p][k] \in Segment /\ OpOK(p)
      /\ UNCHANGED <<gz, held, index, bounds>>
  <2>1. seg[p][k] # NoSeg
    BY DEF FlushOne, TInv, OpOK
  <2> QED BY <2>1, OpKinds DEF FlushOne, TInv, TypeOK
<1>2. CASE seg[p][k].open
  <2> DEFINE s == [seg[p][k] EXCEPT !.buf = Empty]
             op == [lock[p] EXCEPT !.todo = @ \ {k}]
  <2>1. file' = WriteTo(file, seg[p][k].path, seg[p][k].buf)
        /\ seg' = [seg EXCEPT ![p][k] = s] /\ lock' = [lock EXCEPT ![p] = op] /\ rd' = rd
    BY <1>2 DEF FlushOne
  <2>2. s \in Segment
    BY <1>1, EmptyType DEF Segment
  <2>3. op \in FlushOp /\ op.pc = "flush" /\ op.todo = lock[p].todo \ {k}
    BY <1>1 DEF FlushOp
  <2>4. FilesOK(file') /\ DOMAIN file' = DOMAIN file
    BY <1>1, <2>1, WriteToFile DEF TypeOK, Segment
  <2> HIDE DEF s, op
  <2>5. /\ seg' \in [Procs -> [Keys -> Segment \cup {NoSeg}]]
        /\ \A q \in Procs, l \in Keys : q # p \/ l # k => seg'[q][l] = seg[q][l]
    BY <1>1, <2>1, <2>2, SegPut, ZenonT(40)
  <2>6. lock' \in [Procs -> AppendOp \cup FlushOp \cup ExitOp \cup {NoOp}] /\ lock'[p] = op
        /\ \A q \in Procs \ {p} : lock'[q] = lock[q]
    BY <1>1, <2>1, <2>3 DEF TypeOK
  <2>7. TypeOK' /\ Finite'
    BY <1>1, <2>1, <2>4, <2>5, <2>6 DEF TypeOK, Finite, bounds
  <2>8. OpOK(p)'
    <3>1. \A l \in op.todo : seg'[p][l] # NoSeg
      BY <1>1, <2>3, <2>5 DEF OpOK, FlushOp
    <3>2. rd'[p] \in Reading /\ rd'[p].pc = "flush"
      BY <1>1, <2>1 DEF OpOK
    <3> QED BY <2>3, <2>6, <3>1, <3>2 DEF OpOK
  <2>9. Others(p)
    BY <1>1, <2>1, <2>5, <2>6 DEF Others
  <2> QED BY <2>7, <2>8, <2>9, OthersT
<1>3. CASE ~seg[p][k].open
  <2>1. lock' = [lock EXCEPT ![p] = NoOp] /\ rd' = [rd EXCEPT ![p] = Result("error")]
        /\ UNCHANGED <<file, seg>>
    BY <1>3 DEF FlushOne
  <2>2. Result("error") \in [pc : {"done"}, res : Results]
    BY DEF Result, Results
  <2>3. rd' \in [Procs -> {Idle} \cup Reading \cup [pc : {"done"}, res : Results]]
    BY <1>1, <2>1, <2>2 DEF TypeOK
  <2>4. TypeOK' /\ Finite'
    BY <1>1, <2>1, <2>3 DEF TypeOK, Finite, bounds
  <2>5. Others(p) /\ OpOK(p)'
    BY <1>1, <2>1 DEF Others, OpOK, TypeOK
  <2> QED BY <2>4, <2>5, OthersT
<1> QED BY <1>2, <1>3

\* The lock is released before the file is looked for.
LEMMA FlushDoneT ==
  ASSUME TInv, NEW p \in Procs, FlushDone(p)
  PROVE  TInv'
<1> DEFINE r == [rd[p] EXCEPT !.pc = "probe"]
<1>1. TypeOK /\ Finite /\ rd[p] \in Reading /\ lock' = [lock EXCEPT ![p] = NoOp]
      /\ rd' = [rd EXCEPT ![p] = r] /\ UNCHANGED <<file, gz, seg, held, index, bounds>>
  BY DEF FlushDone, TInv, OpOK
<1>2. r \in Reading
  BY <1>1 DEF Reading
<1>3. rd' \in [Procs -> {Idle} \cup Reading \cup [pc : {"done"}, res : Results]]
  BY <1>1, <1>2 DEF TypeOK
<1>4. TypeOK' /\ Finite'
  BY <1>1, <1>3 DEF TypeOK, Finite, bounds
<1>5. Others(p) /\ OpOK(p)'
  BY <1>1 DEF Others, OpOK, TypeOK
<1> QED BY <1>4, <1>5, OthersT

\* The steps of a read that need no lock.
LEMMA ReadingT ==
  ASSUME TInv, NEW p \in Procs, Probe(p) \/ OpenAndRead(p)
  PROVE  TInv'
<1>1. TypeOK /\ Finite /\ rd[p].pc \in {"probe", "plain", "gz"} /\ OpOK(p)
      /\ UNCHANGED <<file, gz, seg, lock, held, index, bounds>>
  BY DEF Probe, OpenAndRead, TInv
<1>2. rd[p] \in Reading
  BY <1>1 DEF TypeOK, Idle, Reading
<1>3. ~(lock[p] # NoOp /\ lock[p].pc = "flush")
  BY <1>1 DEF OpOK
<1>4. PICK r \in Reading \cup [pc : {"done"}, res : Results] : rd' = [rd EXCEPT ![p] = r]
  <2>1. \A res \in Results : Result(res) \in [pc : {"done"}, res : Results]
    BY DEF Result
  <2>2. \A pc \in {"plain", "gz"} : [rd[p] EXCEPT !.pc = pc] \in Reading
    BY <1>2 DEF Reading
  <2>3. CASE Probe(p)
    BY <2>1, <2>2, <2>3 DEF Probe, Results
  <2>4. CASE OpenAndRead(p)
    <3>1. PICK res \in Results : rd' = [rd EXCEPT ![p] = Result(res)]
      BY <2>4 DEF OpenAndRead, Results
    <3> QED BY <2>1, <3>1
  <2> QED BY <2>3, <2>4
<1>5. rd' \in [Procs -> {Idle} \cup Reading \cup [pc : {"done"}, res : Results]]
  BY <1>1, <1>4 DEF TypeOK
<1>6. TypeOK' /\ Finite'
  BY <1>1, <1>5 DEF TypeOK, Finite, bounds
<1>7. Others(p) /\ OpOK(p)'
  BY <1>1, <1>3, <1>4 DEF Others, OpOK, TypeOK
<1> QED BY <1>6, <1>7, OthersT

\* An orderly exit flushes what is open.
LEMMA ExitT ==
  ASSUME TInv, NEW p \in Procs, ExitStart(p) \/ \E k \in Keys : ExitFlush(p, k)
  PROVE  TInv'
<1>1. TypeOK /\ Finite
  BY DEF TInv
<1>2. CASE ExitStart(p)
  <2> DEFINE op == [pc |-> "exit"]
  <2>1. lock' = [lock EXCEPT ![p] = op] /\ rd' = [rd EXCEPT ![p] = Idle]
        /\ UNCHANGED <<file, gz, seg, held, index, bounds>>
    BY <1>2 DEF ExitStart
  <2>2. op \in ExitOp /\ op.pc = "exit"
    BY DEF ExitOp
  <2> HIDE DEF op
  <2>3. lock' \in [Procs -> AppendOp \cup FlushOp \cup ExitOp \cup {NoOp}] /\ lock'[p] = op
        /\ rd' \in [Procs -> {Idle} \cup Reading \cup [pc : {"done"}, res : Results]]
    BY <1>1, <2>1, <2>2 DEF TypeOK
  <2>4. TypeOK' /\ Finite'
    BY <1>1, <2>1, <2>3 DEF TypeOK, Finite, bounds
  <2>5. OpOK(p)'
    BY <2>2, <2>3 DEF OpOK
  <2>6. Others(p)
    BY <1>1, <2>1 DEF Others, TypeOK
  <2> QED BY <2>4, <2>5, <2>6, OthersT
<1>3. ASSUME NEW k \in Keys, ExitFlush(p, k)
      PROVE  TInv'
  <2>1. seg[p][k] \in Segment /\ lock[p] # NoOp /\ lock[p].pc = "exit"
        /\ seg' = [seg EXCEPT ![p][k] = NoSeg] /\ UNCHANGED <<gz, held, index, rd, bounds>>
        /\ file' = WriteTo(file, seg[p][k].path, seg[p][k].buf)
        /\ (lock' = [lock EXCEPT ![p] = NoOp] \/ lock' = lock)
    BY <1>1, <1>3 DEF ExitFlush, TypeOK
  <2>2. FilesOK(file') /\ DOMAIN file' = DOMAIN file
    BY <1>1, <2>1, WriteToFile DEF TypeOK, Segment
  <2>3. /\ seg' \in [Procs -> [Keys -> Segment \cup {NoSeg}]]
        /\ \A q \in Procs, l \in Keys : q # p \/ l # k => seg'[q][l] = seg[q][l]
    BY <1>1, <2>1, SegPut, ZenonT(40)
  <2>4. TypeOK' /\ Finite'
    BY <1>1, <2>1, <2>2, <2>3 DEF TypeOK, Finite, bounds
  <2>5. OpOK(p)'
    BY <1>1, <2>1 DEF OpOK, TypeOK
  <2>6. Others(p)
    BY <1>1, <2>1, <2>3 DEF Others, TypeOK
  <2> QED BY <2>4, <2>5, <2>6, OthersT
<1> QED BY <1>2, <1>3

\* A crash leaves nothing of the process, and perhaps a partial .gz.
LEMMA CrashT ==
  ASSUME TInv, NEW p \in Procs, Crash(p)
  PROVE  TInv'
<1>1. TypeOK /\ Finite /\ seg' = [seg EXCEPT ![p] = [k \in Keys |-> NoSeg]]
      /\ held' = [held EXCEPT ![p] = {}] /\ rd' = [rd EXCEPT ![p] = Idle]
      /\ lock' = [lock EXCEPT ![p] = NoOp] /\ UNCHANGED <<file, index, copies, faults>>
      /\ crashes' = crashes + 1
  BY DEF Crash, TInv
<1>2. FilesOK(gz') /\ IsFiniteSet(DOMAIN gz')
  <2>1. CASE gz' = gz
    BY <1>1, <2>1 DEF TypeOK, Finite
  <2>2. CASE lock[p] # NoOp /\ lock[p].pc = "compress" /\ gz' = Put(gz, seg[p][lock[p].key].path, Empty)
    <3>1. seg[p][lock[p].key] # NoSeg /\ lock[p].key \in Keys
      BY <1>1, <2>2, OpKinds DEF TInv, OpOK, AppendOp
    <3>2. seg[p][lock[p].key].path \in Paths
      BY <1>1, <3>1 DEF TypeOK, Segment
    <3> QED BY <1>1, <2>2, <3>2, EmptyType, FilesPutDrop DEF TypeOK, Finite
  <2> QED BY <2>1, <2>2 DEF Crash
<1>3. TypeOK' /\ Finite'
  BY <1>1, <1>2 DEF TypeOK, Finite
<1>4. Others(p) /\ OpOK(p)'
  BY <1>1 DEF Others, OpOK, TypeOK
<1> QED BY <1>3, <1>4, OthersT

LEMMA NextT == TInv /\ [Next]_vars => TInv'
<1> SUFFICES ASSUME TInv, [Next]_vars PROVE TInv'
  OBVIOUS
<1>1. CASE UNCHANGED vars
  <2>1. TypeOK' /\ Finite'
    BY <1>1 DEF TInv, TypeOK, Finite, vars, bounds
  <2>2. \A p \in Procs : OpOK(p)'
    BY <1>1 DEF TInv, OpOK, vars
  <2> QED BY <2>1, <2>2 DEF TInv
<1>2. CASE Next
  BY <1>2, AppendT, StartRotateT, CompressT, OpenSegmentT, IndexRawT, ReadStartT, FlushOneT, ExitT,
     FlushDoneT, ReadingT, CrashT DEF Next
<1> QED BY <1>1, <1>2

\* Every variable of the raw store always holds a value of its kind: segment
\* numbers start at one, and no operation meets a segment that is not there.
THEOREM RawStoreTypeOK == Spec => []TypeOK
<1>1. TInv => TypeOK
  BY DEF TInv
<1> QED BY <1>1, InitT, NextT, PTL DEF Spec
-----------------------------------------------------------------------------
(***************************************************************************)
(* One writer to a directory                                               *)
(*                                                                         *)
(* From here on no two keys of a deployment share a directory, whether of  *)
(* one process or of two: the code keeps sizes per process and key, and    *)
(* slugs of different names may be equal.                                  *)
(*                                                                         *)
(* Then an open segment is in step with its file, of which no compressed   *)
(* copy exists; a closed one has nothing in its buffer; and while the      *)
(* lock is held to remove a plain file, its compressed copy is the same.   *)
(***************************************************************************)
SoleWriters ==
  \A p, q \in Procs, k, l \in Keys : Dir[p][k] = Dir[q][l] => p = q /\ k = l

InStep(s) ==
  s.path \in DOMAIN file /\ s.path \notin DOMAIN gz /\ s.size = file[s.path].len + s.buf.len

SegOK(p, k) ==
  seg[p][k] # NoSeg =>
    /\ seg[p][k].path.dir = Dir[p][k]
    /\ seg[p][k].open => InStep(seg[p][k])
    /\ ~seg[p][k].open => seg[p][k].buf = Empty

HoldOK(p) ==
  lock[p] # NoOp =>
    /\ lock[p].pc \in {"compress", "unlink"} =>
         ~seg[p][lock[p].key].open /\ seg[p][lock[p].key].path \in DOMAIN file
    /\ lock[p].pc = "unlink" =>
         /\ seg[p][lock[p].key].path \in DOMAIN gz
         /\ gz[seg[p][lock[p].key].path] = file[seg[p][lock[p].key].path]
    /\ lock[p].pc = "open" /\ seg[p][lock[p].key] # NoSeg => ~seg[p][lock[p].key].open

SInv == (\A p \in Procs, k \in Keys : SegOK(p, k)) /\ (\A p \in Procs : HoldOK(p))
-----------------------------------------------------------------------------
\* A path keeps what is at it.
SamePath(y) ==
  /\ y \in DOMAIN file' <=> y \in DOMAIN file
  /\ y \in DOMAIN file => file'[y] = file[y]
  /\ y \in DOMAIN gz' <=> y \in DOMAIN gz
  /\ y \in DOMAIN gz => gz'[y] = gz[y]

\* A step in the directory of one key of one process.
Local(p, k) ==
  /\ \A q \in Procs, l \in Keys : q # p \/ l # k => seg'[q][l] = seg[q][l]
  /\ \A q \in Procs \ {p} : lock'[q] = lock[q]
  /\ \A y \in Paths : y.dir # Dir[p][k] => SamePath(y)

\* What a reader finds at a path, it still finds.
Grows ==
  \A y : OnDisk(y) => OnDisk(y)' /\ View(y).lines \subseteq View(y)'.lines

\* What was to be written by this segment still is, or has been.
PendingKept(p, k) ==
  \A loc \in Loc : Pending(p, k, loc) => Pending(p, k, loc)' \/ Stored(loc)'

LEMMA GrowsStored == ASSUME Grows PROVE \A loc : Stored(loc) => Stored(loc)'
BY DEF Grows, Stored, HoldsLine

\* The other segments are none the worse for such a step.
LEMMA OtherSegs ==
  ASSUME SoleWriters, TypeOK, SInv, NEW p \in Procs, NEW k \in Keys, Local(p, k),
         NEW q \in Procs, NEW l \in Keys, q # p \/ l # k
  PROVE  SegOK(q, l)' /\ PendingKept(q, l) /\ (seg[q][l] # NoSeg => SamePath(seg[q][l].path))
<1>1. seg'[q][l] = seg[q][l]
  BY DEF Local
<1>2. CASE seg[q][l] = NoSeg
  BY <1>1, <1>2 DEF SegOK, PendingKept, Pending
<1>3. CASE seg[q][l] # NoSeg
  <2>1. seg[q][l] \in Segment /\ seg[q][l].path \in Paths /\ SegOK(q, l)
    BY <1>3 DEF TypeOK, Segment, SInv
  <2>2. seg[q][l].path.dir # Dir[p][k]
    BY <1>3, <2>1 DEF SoleWriters, SegOK
  <2>3. SamePath(seg[q][l].path)
    BY <2>1, <2>2 DEF Local
  <2>4. SegOK(q, l)'
    BY <1>1, <2>1, <2>3 DEF SegOK, InStep, SamePath
  <2>5. PendingKept(q, l)
    BY <1>1, <2>3 DEF PendingKept, Pending, SamePath
  <2> QED BY <2>3, <2>4, <2>5
<1> QED BY <1>2, <1>3

LEMMA LocalS ==
  ASSUME SoleWriters, TInv, SInv, NEW p \in Procs, NEW k \in Keys, Local(p, k),
         SegOK(p, k)', HoldOK(p)', PendingKept(p, k)
  PROVE  SInv' /\ \A q \in Procs, l \in Keys : PendingKept(q, l)
<1>1. ASSUME NEW q \in Procs, NEW l \in Keys PROVE SegOK(q, l)' /\ PendingKept(q, l)
  BY OtherSegs DEF TInv
<1>2. ASSUME NEW q \in Procs, q # p PROVE HoldOK(q)'
  <2>1. HoldOK(q) /\ OpOK(q) /\ lock'[q] = lock[q] /\ TypeOK
    BY <1>2 DEF SInv, TInv, Local
  <2>2. CASE lock[q] # NoOp /\ lock[q].pc \in {"compress", "unlink", "open"}
    <3>1. lock[q].key \in Keys
      BY <2>1, <2>2, OpKinds DEF AppendOp
    <3>2. seg'[q][lock[q].key] = seg[q][lock[q].key]
      BY <1>2, <3>1 DEF Local
    <3>3. seg[q][lock[q].key] # NoSeg => SamePath(seg[q][lock[q].key].path)
      BY <1>2, <2>1, <3>1, OtherSegs
    <3> QED BY <2>1, <2>2, <3>2, <3>3 DEF HoldOK, OpOK, SamePath
  <2>3. CASE ~(lock[q] # NoOp /\ lock[q].pc \in {"compress", "unlink", "open"})
    BY <2>1, <2>3 DEF HoldOK
  <2> QED BY <2>2, <2>3
<1> QED BY <1>1, <1>2 DEF SInv

\* A step that touches neither file nor segment.
LEMMA QuietS ==
  ASSUME SInv, NEW p \in Procs, UNCHANGED <<file, gz, seg>>,
         \A q \in Procs \ {p} : lock'[q] = lock[q],
         lock'[p] = lock[p] \/ lock'[p] = NoOp \/ lock'[p].pc \in {"flush", "exit"}
  PROVE  SInv' /\ Grows /\ \A q \in Procs, l \in Keys : PendingKept(q, l)
<1>1. ASSUME NEW q \in Procs, NEW l \in Keys PROVE SegOK(q, l)' /\ PendingKept(q, l)
  BY DEF SInv, SegOK, InStep, PendingKept, Pending
<1>2. ASSUME NEW q \in Procs PROVE HoldOK(q)'
  <2>1. HoldOK(q)
    BY DEF SInv
  <2>2. CASE lock'[q] = lock[q]
    BY <2>1, <2>2 DEF HoldOK
  <2>3. CASE lock'[q] = NoOp \/ lock'[q].pc \in {"flush", "exit"}
    BY <2>3 DEF HoldOK
  <2> QED BY <2>2, <2>3
<1>3. Grows
  BY DEF Grows, OnDisk, View
<1> QED BY <1>1, <1>2, <1>3 DEF SInv

\* Flushing a segment writes what was pending, and leaves the rest.
LEMMA FlushTo ==
  ASSUME TypeOK, NEW p \in Procs, NEW k \in Keys, NEW s \in Segment, s = seg[p][k], SegOK(p, k),
         NoSeg # s, file' = WriteTo(file, s.path, s.buf), gz' = gz
  PROVE  /\ Grows
         /\ PendingKept(p, k)
         /\ \A y \in Paths : y.dir # Dir[p][k] => SamePath(y)
         /\ DOMAIN file' = DOMAIN file
         /\ s.path \in DOMAIN file => file'[s.path].len = file[s.path].len + s.buf.len
<1>1. s.buf \in Extent /\ s.path.dir = Dir[p][k] /\ FilesOK(file)
  BY DEF Segment, SegOK, TypeOK
<1>2. /\ DOMAIN file' = DOMAIN file
      /\ \A y \in DOMAIN file : y # s.path => file'[y] = file[y]
      /\ s.path \in DOMAIN file => file'[s.path] = Concat(file[s.path], s.buf)
  BY <1>1, WriteToFile
<1>3. \A y \in DOMAIN file : file[y].lines \subseteq file'[y].lines
  BY <1>1, <1>2, ConcatKeeps DEF FilesOK
<1>4. Grows
  BY <1>2, <1>3 DEF Grows, OnDisk, View
<1>5. PendingKept(p, k)
  BY <1>2 DEF PendingKept, Pending, Stored, OnDisk, View
<1>6. \A y \in Paths : y.dir # Dir[p][k] => SamePath(y)
  BY <1>1, <1>2 DEF SamePath
<1>7. s.path \in DOMAIN file => file'[s.path].len = file[s.path].len + s.buf.len
  BY <1>2 DEF Concat
<1> QED BY <1>2, <1>4, <1>5, <1>6, <1>7

\* A closed segment has nothing pending that is not stored.
LEMMA ClosedStored ==
  ASSUME TypeOK, NEW p \in Procs, NEW k \in Keys, SegOK(p, k), seg[p][k] # NoSeg => ~seg[p][k].open
  PROVE  \A loc : Pending(p, k, loc) => Stored(loc)
<1> SUFFICES ASSUME NEW loc, Pending(p, k, loc) PROVE Stored(loc)
  OBVIOUS
<1>1. seg[p][k].buf = Empty /\ loc.path \in DOMAIN file /\ file[loc.path] \in Extent
  BY DEF Pending, SegOK, TypeOK, FilesOK
<1> QED BY <1>1, ConcatEmpty DEF Pending, Stored, OnDisk, View

\* Writing a line to an open segment in step: the segment stays in step, and
\* the line is where append says it is, in the file or behind it.
LEMMA WriteLineS ==
  ASSUME TypeOK, NEW p \in Procs, NEW k \in Keys, NEW s \in Segment, NEW f, FilesOK(f),
         NEW r \in Recs, WriteLine(p, k, s, f, r), gz' = gz,
         s.path \in DOMAIN f, s.path \notin DOMAIN gz, s.size = f[s.path].len + s.buf.len,
         s.path.dir = Dir[p][k], s.open,
         f = file \/ (s.path \notin DOMAIN file /\ f = Put(file, s.path, Empty)),
         (s = seg[p][k] /\ f = file) \/ \A loc : Pending(p, k, loc) => Stored(loc)
  PROVE  /\ SegOK(p, k)' /\ Grows /\ PendingKept(p, k)
         /\ \A y \in Paths : y.dir # Dir[p][k] => SamePath(y)
         /\ Pending(p, k, [rec |-> r, path |-> s.path, off |-> s.size])'
<1> DEFINE g == FileAfter(f, s, r)
           u == SegAfter(s, r)
           new == [rec |-> r, path |-> s.path, off |-> s.size]
<1>1. /\ FilesOK(g) /\ DOMAIN g = DOMAIN f
      /\ \A y \in DOMAIN f : y # s.path => g[y] = f[y]
      /\ f[s.path].lines \subseteq g[s.path].lines
      /\ u \in Segment /\ u.path = s.path /\ u.open = s.open
      /\ u.size = g[s.path].len + u.buf.len
      /\ Full(g, u) = Concat(Full(f, s), Line(r))
  BY WriteLineOK
<1>2. file' = g /\ seg'[p][k] = u
  BY DEF WriteLine, TypeOK
<1> HIDE DEF g, u
<1>3. u # NoSeg
  BY <1>1, NoSegAssumption
<1>4. SegOK(p, k)'
  BY <1>1, <1>2 DEF SegOK, InStep
<1>5. /\ DOMAIN file \subseteq DOMAIN f /\ DOMAIN f \subseteq DOMAIN file \cup {s.path}
      /\ \A y \in DOMAIN file : f[y] = file[y]
  BY DEF Put
<1>6. Grows
  <2> SUFFICES ASSUME NEW y, OnDisk(y)
               PROVE  OnDisk(y)' /\ View(y).lines \subseteq View(y)'.lines
    BY DEF Grows
  <2>1. CASE y \in DOMAIN file
    <3>1. y \in DOMAIN g /\ file[y].lines \subseteq g[y].lines
      BY <1>1, <1>5, <2>1
    <3> QED BY <1>2, <2>1, <3>1 DEF OnDisk, View
  <2>2. CASE y \notin DOMAIN file
    <3>1. y \in DOMAIN gz /\ y # s.path
      BY <2>2 DEF OnDisk
    <3>2. y \notin DOMAIN g
      BY <1>1, <1>5, <2>2, <3>1
    <3> QED BY <1>2, <2>2, <3>1, <3>2 DEF OnDisk, View
  <2> QED BY <2>1, <2>2
<1>7. Full(f, s) \in Extent /\ Full(f, s).len = s.size
  <2>1. f[s.path] \in Extent /\ s.buf \in Extent
    BY DEF FilesOK, Segment
  <2>2. Concat(f[s.path], s.buf).len = f[s.path].len + s.buf.len
    BY DEF Concat
  <2> QED BY <2>1, <2>2, ConcatType DEF Full
<1>8. Full(f, s).lines \subseteq Full(g, u).lines /\ [rec |-> r, at |-> s.size] \in Full(g, u).lines
  BY <1>1, <1>7, ConcatKeeps, LineType
<1>9. PendingKept(p, k)
  <2> SUFFICES ASSUME NEW loc \in Loc, Pending(p, k, loc)
               PROVE  Pending(p, k, loc)' \/ Stored(loc)'
    BY DEF PendingKept
  <2>1. CASE s = seg[p][k] /\ f = file
    <3>1. loc.path = s.path /\ HoldsLine(Full(f, s), loc)
      BY <2>1 DEF Pending, Full
    <3>2. HoldsLine(Full(g, u), loc)
      BY <1>8, <3>1 DEF HoldsLine
    <3> QED BY <1>1, <1>2, <1>3, <3>1, <3>2 DEF Pending, Full
  <2>2. CASE Stored(loc)
    BY <1>6, <2>2, GrowsStored
  <2> QED BY <2>1, <2>2
<1>10. Pending(p, k, new)'
  <2>1. HoldsLine(Full(g, u), new)
    BY <1>8 DEF HoldsLine
  <2> QED BY <1>1, <1>2, <1>3, <2>1 DEF Pending, Full
<1>11. ASSUME NEW y \in Paths, y.dir # Dir[p][k] PROVE SamePath(y)
  <2>1. y # s.path
    BY <1>11
  <2>2. (y \in DOMAIN g <=> y \in DOMAIN file) /\ (y \in DOMAIN file => g[y] = file[y])
    BY <1>1, <1>5, <2>1
  <2> QED BY <1>2, <2>2 DEF SamePath
<1> QED BY <1>4, <1>6, <1>9, <1>10, <1>11

\* What every step but a crash does: nothing on disk is lost, what was pending
\* still is or has been stored, and new locations tell where their lines are.
Truth(loc) == Stored(loc) \/ \E p \in Procs, k \in Keys : Pending(p, k, loc)

Kept == \A q \in Procs, l \in Keys : PendingKept(q, l)

NewTold == \A q \in Procs : \A loc \in held'[q] : loc \in held[q] \/ Truth(loc)'

LEMMA AppendS ==
  ASSUME SoleWriters, TInv, SInv, NEW p \in Procs, NEW k \in Keys, NEW r \in Recs, NEW d \in Days,
         Append(p, k, r, d)
  PROVE  SInv' /\ Grows /\ Kept /\ NewTold
<1> SUFFICES ASSUME NEW s, s = seg[p][k] PROVE SInv' /\ Grows /\ Kept /\ NewTold
  OBVIOUS
<1> DEFINE new == [rec |-> r, path |-> s.path, off |-> s.size]
<1>1. TypeOK /\ s \in Segment /\ s # NoSeg /\ s.open /\ FilesOK(file) /\ WriteLine(p, k, s, file, r)
      /\ gz' = gz /\ lock' = lock /\ lock[p] = NoOp
  BY DEF Append, MayAppend, TInv, TypeOK
<1>2. s.path.dir = Dir[p][k] /\ InStep(s)
  BY <1>1 DEF SInv, SegOK
<1>3. SegOK(p, k)' /\ Grows /\ PendingKept(p, k)
      /\ (\A y \in Paths : y.dir # Dir[p][k] => SamePath(y)) /\ Pending(p, k, new)'
  <2> HIDE DEF new
  <2>1. s.path \in DOMAIN file /\ s.path \notin DOMAIN gz /\ s.size = file[s.path].len + s.buf.len
    BY <1>2 DEF InStep
  <2> QED BY <1>1, <1>2, <2>1, WriteLineS DEF new
<1>4. Local(p, k)
  BY <1>1, <1>3 DEF Local, WriteLine, TypeOK
<1>5. HoldOK(p)'
  BY <1>1 DEF HoldOK
<1>6. NewTold
  <2>1. held' = [held EXCEPT ![p] = @ \cup {new}] /\ held \in [Procs -> SUBSET Loc]
    BY <1>1 DEF WriteLine, TypeOK
  <2> HIDE DEF new
  <2>2. Truth(new)'
    BY <1>3 DEF Truth
  <2> QED BY <2>1, <2>2 DEF NewTold
<1> QED BY <1>3, <1>4, <1>5, <1>6, LocalS DEF Kept

LEMMA OpenSegmentS ==
  ASSUME SoleWriters, TInv, SInv, NEW p \in Procs, OpenSegment(p)
  PROVE  SInv' /\ Grows /\ Kept /\ NewTold
<1>0. SUFFICES ASSUME NEW op, op = lock[p], NEW k, k = op.key, NEW r, r = op.rec,
                      NEW path, path = [dir |-> Dir[p][k], day |-> op.day,
                                        no |-> NextNo(Dir[p][k], op.day, op.old)],
                      NEW f, f = (IF path \in DOMAIN file THEN file ELSE Put(file, path, Empty)),
                      NEW s, s = [path |-> path, size |-> f[path].len, buf |-> Empty, open |-> TRUE]
               PROVE  SInv' /\ Grows /\ Kept /\ NewTold
  OBVIOUS
<1>1. /\ op # NoOp /\ op.pc = "open" /\ op \in AppendOp /\ TypeOK /\ Finite
      /\ WriteLine(p, k, s, f, r)
      /\ lock' = [lock EXCEPT ![p] = NoOp] /\ gz' = gz
  BY <1>0, OpKinds DEF OpenSegment, TInv
<1>2. k \in Keys /\ r \in Recs /\ Dir[p][k] \in Dirs /\ op.day \in Days /\ op.old \in BOOLEAN
  BY <1>0, <1>1, RawStoreAssumption DEF AppendOp
<1>3. path \in Paths /\ path \notin DOMAIN gz
  BY <1>0, <1>1, <1>2, NextNoOK DEF Paths
<1>4. /\ FilesOK(f) /\ path \in DOMAIN f
      /\ (f = file \/ (path \notin DOMAIN file /\ f = Put(file, path, Empty)))
  <2>1. FilesOK(file) /\ IsFiniteSet(DOMAIN file)
    BY <1>1 DEF TypeOK, Finite
  <2>2. path \in DOMAIN Put(file, path, Empty)
    BY DEF Put
  <2> QED BY <1>0, <1>3, <2>1, <2>2, FilesPutDrop, EmptyType
<1>5. /\ s \in Segment /\ s.path = path /\ s.open /\ s.size = f[path].len + s.buf.len
      /\ path.dir = Dir[p][k]
  <2>1. f[path].len \in Nat
    BY <1>4 DEF FilesOK, Extent
  <2>2. s \in Segment
    BY <1>0, <1>3, <2>1, EmptyType DEF Segment
  <2>3. f[path].len + Empty.len = f[path].len
    BY <2>1 DEF Empty
  <2> QED BY <1>0, <2>2, <2>3
<1>6. \A loc : Pending(p, k, loc) => Stored(loc)
  <2>1. SegOK(p, k) /\ (seg[p][k] # NoSeg => ~seg[p][k].open)
    BY <1>0, <1>1, <1>2 DEF SInv, HoldOK
  <2> QED BY <1>1, <1>2, <2>1, ClosedStored
<1> DEFINE new == [rec |-> r, path |-> s.path, off |-> s.size]
<1>7. SegOK(p, k)' /\ Grows /\ PendingKept(p, k)
      /\ (\A y \in Paths : y.dir # Dir[p][k] => SamePath(y)) /\ Pending(p, k, new)'
  <2>1. /\ s.path \in DOMAIN f /\ s.path \notin DOMAIN gz /\ s.size = f[s.path].len + s.buf.len
        /\ s.path.dir = Dir[p][k] /\ s.open /\ s \in Segment
        /\ f = file \/ (s.path \notin DOMAIN file /\ f = Put(file, s.path, Empty))
    BY <1>3, <1>4, <1>5
  <2>2. TypeOK /\ WriteLine(p, k, s, f, r) /\ gz' = gz /\ FilesOK(f)
    BY <1>1, <1>4
  <2>3. (s = seg[p][k] /\ f = file) \/ \A loc : Pending(p, k, loc) => Stored(loc)
    BY <1>6
  <2>4. k \in Keys /\ r \in Recs
    BY <1>2
  <2> QED BY <2>1, <2>2, <2>3, <2>4, WriteLineS
<1>8. Local(p, k)
  BY <1>1, <1>2, <1>7 DEF Local, WriteLine, TypeOK
<1>9. HoldOK(p)'
  BY <1>1 DEF HoldOK, TypeOK
<1>10. NewTold
  <2>1. held' = [held EXCEPT ![p] = @ \cup {new}] /\ held \in [Procs -> SUBSET Loc]
    BY <1>1 DEF WriteLine, TypeOK
  <2> HIDE DEF new
  <2>2. Truth(new)'
    BY <1>2, <1>7 DEF Truth
  <2> QED BY <2>1, <2>2 DEF NewTold
<1> QED BY <1>2, <1>7, <1>8, <1>9, <1>10, LocalS DEF Kept

\* A step that keeps what every process holds tells nothing new.
LEMMA OldTold == ASSUME held' = held PROVE NewTold
BY DEF NewTold

LEMMA StartRotateS ==
  ASSUME SoleWriters, TInv, SInv, NEW p \in Procs, NEW k \in Keys, NEW r \in Recs, NEW d \in Days,
         StartRotate(p, k, r, d)
  PROVE  SInv' /\ Grows /\ Kept /\ NewTold
<1> SUFFICES ASSUME NEW s, s = seg[p][k] PROVE SInv' /\ Grows /\ Kept /\ NewTold
  OBVIOUS
<1> DEFINE op(pc) == [pc |-> pc, key |-> k, rec |-> r, day |-> d, old |-> s # NoSeg]
<1>1. gz' = gz /\ held' = held /\ TypeOK /\ lock[p] = NoOp
  BY DEF StartRotate, MayAppend, TInv
<1>2. CASE s = NoSeg /\ lock' = [lock EXCEPT ![p] = op("open")] /\ UNCHANGED <<file, seg>>
  <2>1. lock'[p].pc = "open" /\ lock'[p].key = k /\ \A q \in Procs \ {p} : lock'[q] = lock[q]
    BY <1>1, <1>2 DEF TypeOK
  <2>2. Local(p, k) /\ Grows /\ PendingKept(p, k)
    BY <1>1, <1>2, <2>1 DEF Local, SamePath, Grows, OnDisk, View, PendingKept, Pending
  <2>3. SegOK(p, k)' /\ HoldOK(p)'
    BY <1>1, <1>2, <2>1 DEF SegOK, HoldOK
  <2> QED BY <1>1, <2>2, <2>3, LocalS, OldTold DEF Kept
<1>3. ASSUME s # NoSeg, s.open, file' = WriteTo(file, s.path, s.buf),
             seg' = [seg EXCEPT ![p][k].buf = Empty, ![p][k].open = FALSE],
             NEW pc \in {"compress", "open"}, lock' = [lock EXCEPT ![p] = op(pc)]
      PROVE  SInv' /\ Grows /\ Kept /\ NewTold
  <2>1. s \in Segment /\ SegOK(p, k) /\ s.path.dir = Dir[p][k] /\ s.path \in DOMAIN file
    BY <1>1, <1>3 DEF TypeOK, SInv, SegOK, InStep
  <2>2. seg' = [seg EXCEPT ![p][k] = Closed(s)]
    BY <1>3 DEF Closed
  <2>9. Closed(s) \in Segment
    BY <2>1, ClosedType
  <2>3. /\ seg'[p][k] = Closed(s)
        /\ \A q \in Procs, l \in Keys : q # p \/ l # k => seg'[q][l] = seg[q][l]
    BY <1>1, <2>2, <2>9, SegPut, ZenonT(80)
  <2>4. /\ Grows /\ PendingKept(p, k) /\ DOMAIN file' = DOMAIN file
        /\ \A y \in Paths : y.dir # Dir[p][k] => SamePath(y)
    BY <1>1, <1>3, <2>1, FlushTo
  <2>5. lock'[p].pc = pc /\ lock'[p].key = k /\ \A q \in Procs \ {p} : lock'[q] = lock[q]
    BY <1>1, <1>3 DEF TypeOK
  <2>6. Local(p, k)
    BY <2>3, <2>4, <2>5 DEF Local
  <2>7. SegOK(p, k)' /\ HoldOK(p)'
    <3>1. Closed(s).path = s.path /\ Closed(s).buf = Empty /\ ~Closed(s).open
      BY <2>1, ClosedType
    <3> QED BY <2>1, <2>3, <2>4, <2>5, <3>1 DEF SegOK, HoldOK
  <2> QED BY <1>1, <2>4, <2>6, <2>7, LocalS, OldTold DEF Kept
<1> QED BY <1>2, <1>3 DEF StartRotate

\* Compressing a closed segment, and removing the plain file or the copy:
\* whichever is left holds what a reader found before.
LEMMA CompressS ==
  ASSUME SoleWriters, TInv, SInv, NEW p \in Procs, CompressSegment(p) \/ UnlinkPlain(p)
  PROVE  SInv' /\ Grows /\ Kept /\ NewTold
<1>0. SUFFICES ASSUME NEW k, k = lock[p].key, NEW path, path = seg[p][k].path
               PROVE  SInv' /\ Grows /\ Kept /\ NewTold
  OBVIOUS
<1>1. /\ TypeOK /\ lock[p] # NoOp /\ lock[p].pc \in {"compress", "unlink"} /\ k \in Keys
      /\ seg' = seg /\ held' = held /\ seg[p][k] # NoSeg
  <2>1. TypeOK /\ OpOK(p) /\ lock[p] # NoOp /\ lock[p].pc \in {"compress", "unlink"}
        /\ seg' = seg /\ held' = held
    BY DEF CompressSegment, UnlinkPlain, TInv
  <2>2. k \in Keys
    BY <1>0, <2>1, OpKinds DEF AppendOp
  <2> QED BY <1>0, <2>1, <2>2 DEF OpOK
<1>2. /\ ~seg[p][k].open /\ path \in DOMAIN file /\ SegOK(p, k) /\ path.dir = Dir[p][k]
      /\ lock[p].pc = "unlink" => path \in DOMAIN gz /\ gz[path] = file[path]
  BY <1>0, <1>1 DEF SInv, HoldOK, SegOK
<1>3. /\ \A q \in Procs \ {p} : lock'[q] = lock[q]
      /\ lock'[p] = NoOp \/ (lock'[p].pc \in {"unlink", "open"} /\ lock'[p].key = k)
  <2>1. \/ lock' = [lock EXCEPT ![p] = NoOp]
        \/ \E pc \in {"unlink", "open"} : lock' = [lock EXCEPT ![p].pc = pc]
    BY DEF CompressSegment, UnlinkPlain
  <2> QED BY <1>0, <1>1, <2>1, OpStep
<1>4. \/ file' = file /\ gz' = Put(gz, path, file[path])
      \/ file' = file /\ gz' = Put(gz, path, Empty) /\ lock'[p] = NoOp
      \/ file' = Drop(file, path) /\ gz' = gz /\ gz[path] = file[path] /\ path \in DOMAIN gz
         /\ (lock'[p] = NoOp \/ lock'[p].pc = "open")
      \/ file' = file /\ gz' = Drop(gz, path) /\ (lock'[p] = NoOp \/ lock'[p].pc = "open")
  <2>1. lock \in [Procs -> AppendOp \cup FlushOp \cup ExitOp \cup {NoOp}] /\ lock[p] \in AppendOp
    BY <1>1, OpKinds DEF TypeOK
  <2>2. CASE CompressSegment(p)
    BY <1>0, <1>2, <2>1, <2>2 DEF CompressSegment
  <2>3. CASE UnlinkPlain(p)
    <3>1. lock[p].pc = "unlink"
      BY <2>3 DEF UnlinkPlain
    <3>2. lock' = [lock EXCEPT ![p].pc = "open"] => lock'[p].pc = "open"
      BY <2>1 DEF AppendOp
    <3> QED BY <1>0, <1>2, <2>3, <3>1, <3>2 DEF UnlinkPlain
  <2> QED BY <2>2, <2>3
<1>5. Grows
  BY <1>2, <1>4 DEF Grows, OnDisk, View, Put, Drop
<1>6. \A y \in Paths : y.dir # Dir[p][k] => SamePath(y)
  BY <1>2, <1>4 DEF SamePath, Put, Drop
<1>7. Local(p, k)
  BY <1>1, <1>3, <1>6 DEF Local
<1>8. SegOK(p, k)'
  BY <1>1, <1>2 DEF SegOK
<1>9. HoldOK(p)'
  BY <1>0, <1>1, <1>2, <1>3, <1>4, ZenonT(40) DEF HoldOK, Put
<1>10. PendingKept(p, k)
  BY <1>1, <1>2, <1>5, ClosedStored, GrowsStored DEF PendingKept
<1> QED BY <1>1, <1>5, <1>7, <1>8, <1>9, <1>10, LocalS, OldTold DEF Kept

\* Flushing one segment, in a read or at an exit.
LEMMA FlushOneS ==
  ASSUME SoleWriters, TInv, SInv, NEW p \in Procs, NEW k \in Keys,
         FlushOne(p, k) \/ ExitFlush(p, k)
  PROVE  SInv' /\ Grows /\ Kept /\ NewTold
<1> SUFFICES ASSUME NEW s, s = seg[p][k] PROVE SInv' /\ Grows /\ Kept /\ NewTold
  OBVIOUS
<1>1. /\ TypeOK /\ lock[p] # NoOp /\ lock[p].pc \in {"flush", "exit"} /\ gz' = gz /\ held' = held
      /\ s # NoSeg /\ s \in Segment /\ SegOK(p, k)
  BY DEF FlushOne, ExitFlush, TInv, SInv, TypeOK, OpOK
<1>2. /\ \A q \in Procs \ {p} : lock'[q] = lock[q]
      /\ lock'[p] = NoOp \/ lock'[p].pc \in {"flush", "exit"}
  <2>1. lock \in [Procs -> AppendOp \cup FlushOp \cup ExitOp \cup {NoOp}]
    BY <1>1 DEF TypeOK
  <2>2. CASE ExitFlush(p, k)
    BY <1>1, <2>1, <2>2 DEF ExitFlush
  <2>3. CASE FlushOne(p, k)
    <3>1. lock[p] \in FlushOp /\ lock[p].pc = "flush"
      BY <1>1, <2>3, OpKinds DEF FlushOne
    <3>2. [lock[p] EXCEPT !.todo = @ \ {k}].pc = "flush"
      BY <3>1 DEF FlushOp
    <3> QED BY <2>1, <2>3, <3>2 DEF FlushOne
  <2> QED BY <2>2, <2>3
<1>3. CASE file' = file /\ seg' = seg
  BY <1>1, <1>2, <1>3, QuietS, OldTold DEF Kept
<1>4. ASSUME file' = WriteTo(file, s.path, s.buf),
             \/ seg' = [seg EXCEPT ![p][k] = NoSeg]
             \/ s.open /\ seg' = [seg EXCEPT ![p][k].buf = Empty]
      PROVE  SInv' /\ Grows /\ Kept /\ NewTold
  <2>1. PICK u \in Segment \cup {NoSeg} :
          /\ seg' = [seg EXCEPT ![p][k] = u]
          /\ u = NoSeg \/ (s.open /\ u = [s EXCEPT !.buf = Empty])
    <3>1. [s EXCEPT !.buf = Empty] \in Segment
      BY <1>1, EmptyType DEF Segment
    <3> QED BY <1>4, <3>1
  <2>2. /\ seg'[p][k] = u
        /\ \A q \in Procs, l \in Keys : q # p \/ l # k => seg'[q][l] = seg[q][l]
    BY <1>1, <2>1, SegPut, ZenonT(80)
  <2>3. /\ Grows /\ PendingKept(p, k) /\ DOMAIN file' = DOMAIN file
        /\ \A y \in Paths : y.dir # Dir[p][k] => SamePath(y)
        /\ s.path \in DOMAIN file => file'[s.path].len = file[s.path].len + s.buf.len
    BY <1>1, <1>4, FlushTo
  <2>4. Local(p, k)
    BY <1>2, <2>2, <2>3 DEF Local
  <2>5. HoldOK(p)'
    BY <1>2 DEF HoldOK
  <2>6. SegOK(p, k)'
    <3>1. CASE u = NoSeg
      BY <2>2, <3>1 DEF SegOK
    <3>2. CASE s.open /\ u = [s EXCEPT !.buf = Empty]
      <4>1. u.path = s.path /\ u.size = s.size /\ u.buf = Empty /\ u.open = s.open
        BY <1>1, <3>2 DEF Segment
      <4>2. InStep(s) /\ s.path.dir = Dir[p][k]
        BY <1>1, <3>2 DEF SegOK
      <4>3. file'[s.path].len = s.size /\ s.size \in Nat
        BY <1>1, <2>3, <4>2 DEF InStep, Segment
      <4>4. u.size = file'[u.path].len + u.buf.len
        BY <4>1, <4>3 DEF Empty
      <4>5. u.path \in DOMAIN file' /\ u.path \notin DOMAIN gz'
        BY <1>1, <2>3, <4>1, <4>2 DEF InStep
      <4> QED BY <2>2, <3>2, <4>1, <4>2, <4>4, <4>5 DEF SegOK, InStep
    <3> QED BY <2>1, <3>1, <3>2
  <2> QED BY <1>1, <2>3, <2>4, <2>5, <2>6, LocalS, OldTold DEF Kept
<1> QED BY <1>3, <1>4 DEF FlushOne, ExitFlush

\* The steps that touch neither file nor segment.
LEMMA QuietActions ==
  ASSUME TInv, SInv, NEW p \in Procs,
         \/ \E loc \in held[p] : IndexRaw(p, loc)
         \/ \E loc \in index : ReadStart(p, loc)
         \/ FlushDone(p) \/ Probe(p) \/ OpenAndRead(p) \/ ExitStart(p)
  PROVE  SInv' /\ Grows /\ Kept /\ NewTold
<1>1. UNCHANGED <<file, gz, seg>>
  BY DEF IndexRaw, ReadStart, FlushDone, Probe, OpenAndRead, ExitStart
<1>2. /\ \A q \in Procs \ {p} : lock'[q] = lock[q]
      /\ lock'[p] = lock[p] \/ lock'[p] = NoOp \/ lock'[p].pc \in {"flush", "exit"}
  BY DEF IndexRaw, ReadStart, FlushDone, Probe, OpenAndRead, ExitStart, TInv, TypeOK
<1>3. NewTold
  <2>1. \A q \in Procs : held'[q] \subseteq held[q]
    BY DEF IndexRaw, ReadStart, FlushDone, Probe, OpenAndRead, ExitStart, TInv, TypeOK
  <2> QED BY <2>1 DEF NewTold
<1> QED BY <1>1, <1>2, <1>3, QuietS DEF Kept

\* A crash loses what was buffered, and nothing else.
LEMMA CrashS ==
  ASSUME SoleWriters, TInv, SInv, NEW p \in Procs, Crash(p)
  PROVE  SInv' /\ Grows /\ crashes' # 0
<1>1. TypeOK /\ file' = file /\ seg' = [seg EXCEPT ![p] = [k \in Keys |-> NoSeg]]
      /\ lock' = [lock EXCEPT ![p] = NoOp] /\ crashes' = crashes + 1
  BY DEF Crash, TInv
<1>2. PICK y : /\ gz' = gz \/ (y \in DOMAIN file /\ gz' = Put(gz, y, Empty))
               /\ \A q \in Procs \ {p}, l \in Keys : seg[q][l] # NoSeg => seg[q][l].path # y
  <2>1. CASE lock[p] # NoOp /\ lock[p].pc = "compress"
    <3>0. SUFFICES ASSUME NEW k, k = lock[p].key, NEW y, y = seg[p][k].path
                   PROVE  /\ gz' = gz \/ (y \in DOMAIN file /\ gz' = Put(gz, y, Empty))
                          /\ \A q \in Procs \ {p}, l \in Keys :
                               seg[q][l] # NoSeg => seg[q][l].path # y
      OBVIOUS
    <3>1. k \in Keys /\ seg[p][k] # NoSeg /\ y \in DOMAIN file
      BY <1>1, <2>1, <3>0, OpKinds DEF TInv, OpOK, SInv, HoldOK, AppendOp
    <3>2. y.dir = Dir[p][k]
      BY <3>0, <3>1 DEF SInv, SegOK
    <3>3. \A q \in Procs \ {p}, l \in Keys : seg[q][l] # NoSeg => seg[q][l].path # y
      BY <3>1, <3>2 DEF SoleWriters, SInv, SegOK
    <3> QED BY <3>0, <3>1, <3>3 DEF Crash
  <2>2. CASE ~(lock[p] # NoOp /\ lock[p].pc = "compress")
    <3>1. gz' = gz
      BY <2>2 DEF Crash
    <3>2. \E y : \A q \in Procs \ {p}, l \in Keys : seg[q][l] # NoSeg => seg[q][l].path # y
      <4>1. PICK y : y \notin Paths
        <5>1. \E y : y \notin Paths
          BY NoSetContainsEverything
        <5> QED BY <5>1
      <4>2. \A q \in Procs \ {p}, l \in Keys : seg[q][l] # NoSeg => seg[q][l].path # y
        BY <1>1, <4>1 DEF TypeOK, Segment
      <4> QED BY <4>2
    <3> QED BY <3>1, <3>2
  <2> QED BY <2>1, <2>2
<1>3. Grows
  BY <1>1, <1>2 DEF Grows, OnDisk, View, Put
<1>4. ASSUME NEW q \in Procs, NEW l \in Keys PROVE SegOK(q, l)'
  <2>1. CASE q = p
    BY <1>1, <2>1 DEF SegOK, TypeOK
  <2>2. CASE q # p
    <3>1. seg'[q][l] = seg[q][l] /\ SegOK(q, l)
      BY <1>1, <2>2 DEF SInv, TypeOK
    <3> QED BY <1>1, <1>2, <2>2, <3>1 DEF SegOK, InStep, Put
  <2> QED BY <2>1, <2>2
<1>5. ASSUME NEW q \in Procs PROVE HoldOK(q)'
  <2>1. CASE q = p
    BY <1>1, <2>1 DEF HoldOK, TypeOK
  <2>2. CASE q # p
    <3>1. lock'[q] = lock[q] /\ seg'[q] = seg[q] /\ HoldOK(q) /\ OpOK(q) /\ TypeOK
      BY <1>1, <2>2 DEF SInv, TypeOK, TInv
    <3>2. CASE lock[q] # NoOp /\ lock[q].pc \in {"compress", "unlink", "open"}
      <4>1. lock[q].key \in Keys
        BY <3>1, <3>2, OpKinds DEF AppendOp
      <4>2. seg[q][lock[q].key] # NoSeg => seg[q][lock[q].key].path # y
        BY <1>2, <2>2, <4>1
      <4> QED BY <1>1, <1>2, <3>1, <4>1, <4>2, ZenonT(40) DEF HoldOK, OpOK, Put
    <3>3. CASE ~(lock[q] # NoOp /\ lock[q].pc \in {"compress", "unlink", "open"})
      BY <3>1, <3>3 DEF HoldOK
    <3> QED BY <3>2, <3>3
  <2> QED BY <2>1, <2>2
<1>6. crashes' # 0
  BY <1>1 DEF TypeOK
<1> QED BY <1>3, <1>4, <1>5, <1>6 DEF SInv

LEMMA StutterS == ASSUME SInv, UNCHANGED vars PROVE SInv' /\ Grows /\ Kept /\ NewTold
<1>1. UNCHANGED <<file, gz, seg, lock, held>>
  BY DEF vars
<1>2. SInv'
  BY <1>1 DEF SInv, SegOK, HoldOK, InStep
<1>3. Grows
  BY <1>1 DEF Grows, OnDisk, View
<1>4. Kept
  BY <1>1 DEF Kept, PendingKept, Pending
<1> QED BY <1>1, <1>2, <1>3, <1>4, OldTold

\* Every step keeps what is on disk; every step but a crash keeps the rest.
LEMMA NextS ==
  ASSUME SoleWriters, TInv, SInv, [Next]_vars
  PROVE  SInv' /\ Grows /\ ((Kept /\ NewTold) \/ crashes' # 0)
<1>1. CASE UNCHANGED vars
  BY <1>1, StutterS
<1>2. ASSUME NEW p \in Procs, NEW k \in Keys, NEW r \in Recs, NEW d \in Days,
             Append(p, k, r, d) \/ StartRotate(p, k, r, d)
      PROVE  SInv' /\ Grows /\ Kept /\ NewTold
  BY <1>2, AppendS, StartRotateS
<1>3. ASSUME NEW p \in Procs, CompressSegment(p) \/ UnlinkPlain(p) \/ OpenSegment(p)
      PROVE  SInv' /\ Grows /\ Kept /\ NewTold
  BY <1>3, CompressS, OpenSegmentS
<1>4. ASSUME NEW p \in Procs, NEW k \in Keys, FlushOne(p, k) \/ ExitFlush(p, k)
      PROVE  SInv' /\ Grows /\ Kept /\ NewTold
  BY <1>4, FlushOneS
<1>5. ASSUME NEW p \in Procs,
             \/ \E loc \in held[p] : IndexRaw(p, loc)
             \/ \E loc \in index : ReadStart(p, loc)
             \/ FlushDone(p) \/ Probe(p) \/ OpenAndRead(p) \/ ExitStart(p)
      PROVE  SInv' /\ Grows /\ Kept /\ NewTold
  BY <1>5, QuietActions
<1>6. ASSUME NEW p \in Procs, Crash(p) PROVE SInv' /\ Grows /\ crashes' # 0
  BY <1>6, CrashS
<1> QED BY <1>1, <1>2, <1>3, <1>4, <1>5, <1>6 DEF Next

LEMMA InitS == Init => SInv
BY DEF Init, SInv, SegOK, HoldOK

\* With one writer to a directory no line that a reader can find is ever lost
\* or moved: not by a rotation, a compression that fails, an exit, a crash or
\* a restart (raw_store.py: append, _rotate, _compress).
THEOREM RawStoreKeepsStored == ASSUME SoleWriters PROVE Spec => StoredStays
<1>1. TInv /\ SInv /\ [Next]_vars => [\A p \in Procs : \A loc \in index \cup held[p] :
                                           Stored(loc) => Stored(loc)']_vars
  <2> SUFFICES ASSUME TInv, SInv, [Next]_vars
               PROVE  \A loc : Stored(loc) => Stored(loc)'
    OBVIOUS
  <2> QED BY NextS, GrowsStored
<1>2. SInv /\ TInv /\ [Next]_vars => SInv'
  BY NextS
<1> QED BY <1>1, <1>2, InitT, InitS, NextT, PTL DEF Spec, StoredStays
-----------------------------------------------------------------------------
(***************************************************************************)
(* Raw is truth until a crash: so is every location that append returned   *)
(* and the pipeline has not committed yet, which is what makes the         *)
(* invariant inductive.                                                    *)
(***************************************************************************)
HeldTrue == \A p \in Procs : \A loc \in held[p] : Truth(loc)

TrInv == crashes = 0 => RawIsTruth /\ HeldTrue

LEMMA TruthKept ==
  ASSUME Grows, Kept, NEW loc \in Loc, Truth(loc)
  PROVE  Truth(loc)'
BY GrowsStored DEF Truth, Kept, PendingKept

\* No crash is undone, and a committed row is a location that was held.
LEMMA Rows ==
  ASSUME TInv, [Next]_vars
  PROVE  /\ crashes' = 0 => crashes = 0
         /\ \A loc \in index' : loc \in index \/ \E p \in Procs : loc \in held[p]
         /\ index \subseteq index'
<1> DEFINE Same == crashes' = crashes /\ index' = index
           More == \E p \in Procs : \E loc \in held[p] : index' = index \cup {loc}
<1>1. ASSUME UNCHANGED vars PROVE Same
  BY <1>1 DEF vars, bounds
<1>2. ASSUME NEW p \in Procs, NEW k \in Keys, NEW r \in Recs, NEW d \in Days,
             Append(p, k, r, d) \/ StartRotate(p, k, r, d)
      PROVE  Same
  BY <1>2 DEF Append, StartRotate, bounds
<1>3. ASSUME NEW p \in Procs, CompressSegment(p) \/ UnlinkPlain(p) \/ OpenSegment(p)
      PROVE  Same
  BY <1>3 DEF CompressSegment, UnlinkPlain, OpenSegment
<1>4. ASSUME NEW p \in Procs, NEW k \in Keys, FlushOne(p, k) \/ ExitFlush(p, k)
      PROVE  Same
  BY <1>4 DEF FlushOne, ExitFlush, bounds
<1>5. ASSUME NEW p \in Procs,
             \/ \E loc \in index : ReadStart(p, loc)
             \/ FlushDone(p) \/ Probe(p) \/ OpenAndRead(p) \/ ExitStart(p)
      PROVE  Same
  BY <1>5 DEF ReadStart, FlushDone, Probe, OpenAndRead, ExitStart, bounds
<1>6. ASSUME NEW p \in Procs, NEW loc \in held[p], IndexRaw(p, loc)
      PROVE  crashes' = crashes /\ (index' = index \/ More)
  BY <1>6 DEF IndexRaw, bounds
<1>7. ASSUME NEW p \in Procs, Crash(p) PROVE crashes' # 0 /\ index' = index
  BY <1>7 DEF Crash, TInv, TypeOK
<1>8. (crashes' = crashes \/ crashes' # 0) /\ (index' = index \/ More)
  <2> HIDE DEF More
  <2>1. ASSUME Next
        PROVE  (crashes' = crashes \/ crashes' # 0) /\ (index' = index \/ More)
    <3>1. PICK p \in Procs :
            \/ \E k \in Keys, r \in Recs, d \in Days : Append(p, k, r, d) \/ StartRotate(p, k, r, d)
            \/ CompressSegment(p) \/ UnlinkPlain(p) \/ OpenSegment(p)
            \/ \E loc \in held[p] : IndexRaw(p, loc)
            \/ \/ \E loc \in index : ReadStart(p, loc)
               \/ FlushDone(p) \/ Probe(p) \/ OpenAndRead(p) \/ ExitStart(p)
            \/ \E k \in Keys : FlushOne(p, k) \/ ExitFlush(p, k)
            \/ Crash(p)
      BY <2>1 DEF Next
    <3> QED BY <3>1, <1>2, <1>3, <1>4, <1>5, <1>6, <1>7
  <2> QED BY <1>1, <2>1
<1> QED BY <1>8

LEMMA NextTr ==
  ASSUME SoleWriters, TInv, SInv, TrInv, [Next]_vars
  PROVE  TrInv'
<1> SUFFICES ASSUME crashes' = 0 PROVE RawIsTruth' /\ HeldTrue'
  BY DEF TrInv
<1>1. Grows /\ Kept /\ NewTold
  BY NextS
<1>2. RawIsTruth /\ HeldTrue /\ index \subseteq Loc /\ \A p \in Procs : held[p] \subseteq Loc
  BY Rows DEF TrInv, TInv, TypeOK
<1>3. ASSUME NEW loc \in index' PROVE Truth(loc)'
  <2>1. loc \in Loc /\ Truth(loc)
    BY <1>2, <1>3, Rows DEF RawIsTruth, HeldTrue, Truth
  <2> QED BY <1>1, <2>1, TruthKept
<1>4. ASSUME NEW p \in Procs, NEW loc \in held'[p] PROVE Truth(loc)'
  <2>1. CASE loc \in held[p]
    BY <1>1, <1>2, <2>1, TruthKept DEF HeldTrue
  <2>2. CASE Truth(loc)'
    BY <2>2
  <2> QED BY <1>1, <2>1, <2>2 DEF NewTold
<1> QED BY <1>3, <1>4 DEF RawIsTruth, HeldTrue, Truth

LEMMA InitTr == Init => TrInv
BY DEF Init, TrInv, RawIsTruth, HeldTrue

\* Until a process crashes, every committed raw_index row points at the line
\* of its record, on disk or in a live process (docs/architecture.md P2).
THEOREM RawStoreTruth == ASSUME SoleWriters PROVE Spec => []TruthUntilCrash
<1>1. TrInv => TruthUntilCrash
  BY DEF TrInv, TruthUntilCrash
<1> QED BY <1>1, InitT, InitS, InitTr, NextT, NextS, NextTr, PTL DEF Spec
-----------------------------------------------------------------------------
(***************************************************************************)
(* Reads by the process that writes: once its segments are flushed, the    *)
(* line it looks for is on disk; the plain file may give way to the        *)
(* compressed one, never the other way round.                              *)
(***************************************************************************)
OneProcess == \A p, q \in Procs : p = q

Flushed(p, k) == seg[p][k] # NoSeg => seg[p][k].buf = Empty

ReadOK(p) ==
  /\ lock[p] # NoOp /\ lock[p].pc = "flush" =>
       rd[p].loc \in index /\ \A k \in Keys \ lock[p].todo : Flushed(p, k)
  /\ rd[p].pc \in {"probe", "plain"} => Stored(rd[p].loc)
  /\ rd[p].pc = "gz" => rd[p].loc.path \notin DOMAIN file /\ Stored(rd[p].loc)
  /\ rd[p].pc = "done" => rd[p].res # "other"

RdInv == crashes = 0 => \A p \in Procs : ReadOK(p)


\* Only opening a segment makes a plain file, and never where there is a
\* compressed one: a compressed segment is never a plain one again.
LEMMA NoneBack ==
  ASSUME TInv, [Next]_vars, NEW y, y \in DOMAIN gz, y \notin DOMAIN file
  PROVE  y \notin DOMAIN file'
<1>1. ASSUME NEW p \in Procs, OpenSegment(p) PROVE y \notin DOMAIN file'
  <2>0. SUFFICES ASSUME NEW op, op = lock[p],
                        NEW path, path = [dir |-> Dir[p][op.key], day |-> op.day,
                                          no |-> NextNo(Dir[p][op.key], op.day, op.old)],
                        NEW f, f = (IF path \in DOMAIN file THEN file ELSE Put(file, path, Empty)),
                        NEW s, s = [path |-> path, size |-> f[path].len, buf |-> Empty, open |-> TRUE]
                 PROVE  y \notin DOMAIN file'
    OBVIOUS
  <2>1. TypeOK /\ Finite /\ op \in AppendOp /\ WriteLine(p, op.key, s, f, op.rec)
    BY <1>1, <2>0, OpKinds DEF OpenSegment, TInv
  <2>2. path \notin DOMAIN gz
    BY <2>0, <2>1, NextNoOK DEF AppendOp
  <2>3. y \notin DOMAIN f
    BY <2>0, <2>2 DEF Put
  <2>4. DOMAIN file' = DOMAIN f
    BY <2>1 DEF WriteLine, FileAfter, WriteTo
  <2> QED BY <2>3, <2>4
<1>2. ASSUME NEW p \in Procs, NEW k \in Keys, NEW r \in Recs, NEW d \in Days,
             Append(p, k, r, d) \/ StartRotate(p, k, r, d)
      PROVE  y \notin DOMAIN file'
  BY <1>2 DEF Append, StartRotate, WriteLine, FileAfter, WriteTo
<1>3. ASSUME NEW p \in Procs, CompressSegment(p) \/ UnlinkPlain(p) PROVE y \notin DOMAIN file'
  BY <1>3 DEF CompressSegment, UnlinkPlain, Drop
<1>4. ASSUME NEW p \in Procs, NEW k \in Keys, FlushOne(p, k) \/ ExitFlush(p, k)
      PROVE  y \notin DOMAIN file'
  BY <1>4 DEF FlushOne, ExitFlush, WriteTo
<1>5. ASSUME NEW p \in Procs,
             \/ \E loc \in held[p] : IndexRaw(p, loc)
             \/ \E loc \in index : ReadStart(p, loc)
             \/ FlushDone(p) \/ Probe(p) \/ OpenAndRead(p) \/ ExitStart(p) \/ Crash(p)
      PROVE  y \notin DOMAIN file'
  BY <1>5 DEF IndexRaw, ReadStart, FlushDone, Probe, OpenAndRead, ExitStart, Crash
<1>6. ASSUME Next PROVE y \notin DOMAIN file'
  BY <1>1, <1>2, <1>3, <1>4, <1>5, <1>6 DEF Next
<1> QED BY <1>6 DEF vars

\* A read that another step leaves alone.
LEMMA ReadLeft ==
  ASSUME TInv, Grows, [Next]_vars, NEW p \in Procs, ReadOK(p), rd'[p] = rd[p],
         \/ lock'[p] = NoOp \/ lock'[p].pc # "flush"
         \/ lock'[p] = lock[p] /\ \A k \in Keys : seg'[p][k] = seg[p][k]
  PROVE  ReadOK(p)'
<1>1. rd[p].pc \in {"probe", "plain"} => Stored(rd[p].loc)'
  BY GrowsStored DEF ReadOK
<1>2. rd[p].pc = "gz" => rd[p].loc.path \notin DOMAIN file' /\ Stored(rd[p].loc)'
  <2> SUFFICES ASSUME rd[p].pc = "gz", NEW loc, loc = rd[p].loc
               PROVE  loc.path \notin DOMAIN file' /\ Stored(loc)'
    OBVIOUS
  <2>1. loc.path \notin DOMAIN file /\ Stored(loc)
    BY DEF ReadOK
  <2>2. loc.path \in DOMAIN gz
    BY <2>1 DEF Stored, OnDisk
  <2> QED BY <2>1, <2>2, NoneBack, GrowsStored
<1>3. lock'[p] # NoOp /\ lock'[p].pc = "flush" =>
        rd[p].loc \in index' /\ \A k \in Keys \ lock'[p].todo : Flushed(p, k)'
  BY Rows DEF ReadOK, Flushed
<1> QED BY <1>1, <1>2, <1>3 DEF ReadOK

\* The steps of a read: the flush of a segment, of the last one, the look for
\* a file and the read itself.
LEMMA FlushOneRd ==
  ASSUME TInv, Grows, [Next]_vars, NEW p \in Procs, ReadOK(p), NEW k \in Keys, FlushOne(p, k)
  PROVE  ReadOK(p)'
<1>1. TypeOK /\ lock[p] # NoOp /\ lock[p].pc = "flush" /\ lock[p] \in FlushOp /\ seg[p][k] \in Segment
      /\ rd[p] \in Reading /\ rd[p].pc = "flush" /\ index' = index
  BY OpKinds DEF FlushOne, TInv, TypeOK, OpOK
<1>2. CASE seg[p][k].open
  <2>1. /\ lock' = [lock EXCEPT ![p].todo = @ \ {k}] /\ rd' = rd
        /\ seg' = [seg EXCEPT ![p][k].buf = Empty]
    BY <1>2 DEF FlushOne
  <2>2. lock' = [lock EXCEPT ![p] = [lock[p] EXCEPT !.todo = lock[p].todo \ {k}]]
    BY <2>1
  <2>3. lock'[p] = [lock[p] EXCEPT !.todo = lock[p].todo \ {k}]
    BY <1>1, <2>2 DEF TypeOK
  <2>4. lock'[p].todo = lock[p].todo \ {k}
    BY <1>1, <2>3 DEF FlushOp
  <2>5. seg'[p][k] = [seg[p][k] EXCEPT !.buf = Empty] /\ \A l \in Keys \ {k} : seg'[p][l] = seg[p][l]
    BY <1>1, <2>1 DEF TypeOK
  <2>6. seg'[p][k].buf = Empty
    BY <1>1, <2>5 DEF Segment
  <2>7. \A l \in Keys \ lock[p].todo : Flushed(p, l)
    BY <1>1 DEF ReadOK
  <2>8. \A l \in Keys \ lock'[p].todo : Flushed(p, l)'
    BY <2>4, <2>5, <2>6, <2>7 DEF Flushed
  <2> QED BY <1>1, <2>1, <2>8 DEF ReadOK
<1>3. CASE ~seg[p][k].open
  <2>1. lock'[p] = NoOp /\ rd'[p] = Result("error")
    BY <1>1, <1>3 DEF FlushOne, TypeOK
  <2> QED BY <2>1 DEF ReadOK, Result
<1> QED BY <1>2, <1>3

LEMMA FlushDoneRd ==
  ASSUME OneProcess, TInv, SInv, RawIsTruth, NEW p \in Procs, ReadOK(p), FlushDone(p)
  PROVE  ReadOK(p)'
<1> SUFFICES ASSUME NEW loc, loc = rd[p].loc PROVE ReadOK(p)'
  OBVIOUS
<1>1. TypeOK /\ lock[p] # NoOp /\ lock[p].pc = "flush" /\ lock[p].todo = {} /\ rd[p] \in Reading
      /\ UNCHANGED <<file, gz, seg, index>> /\ lock'[p] = NoOp
      /\ rd' = [rd EXCEPT ![p].pc = "probe"]
  BY DEF FlushDone, TInv, TypeOK, OpOK
<1>2. loc \in index /\ \A k \in Keys : Flushed(p, k)
  BY <1>1 DEF ReadOK
<1>3. Stored(loc)
  <2> SUFFICES ASSUME NEW q \in Procs, NEW k \in Keys, Pending(q, k, loc) PROVE Stored(loc)
    BY <1>2 DEF RawIsTruth
  <2>1. q = p
    BY DEF OneProcess
  <2>2. seg[p][k].buf = Empty /\ loc.path \in DOMAIN file /\ file[loc.path] \in Extent
    BY <1>1, <1>2, <2>1 DEF Pending, Flushed, TypeOK, FilesOK
  <2> QED BY <2>1, <2>2, ConcatEmpty DEF Pending, Stored, OnDisk, View
<1>4. rd'[p] = [rd[p] EXCEPT !.pc = "probe"]
  BY <1>1 DEF TypeOK
<1>5. rd'[p].pc = "probe" /\ rd'[p].loc = loc
  BY <1>1, <1>4 DEF Reading
<1>6. Stored(loc)'
  BY <1>1, <1>3 DEF Stored, OnDisk, View
<1> QED BY <1>1, <1>5, <1>6 DEF ReadOK

LEMMA ProbeRd ==
  ASSUME TInv, NEW p \in Procs, ReadOK(p), Probe(p)
  PROVE  ReadOK(p)'
<1> SUFFICES ASSUME NEW loc, loc = rd[p].loc PROVE ReadOK(p)'
  OBVIOUS
<1>1. TypeOK /\ UNCHANGED <<file, gz, seg, lock, index>> /\ rd[p].pc = "probe" /\ Stored(loc)
  BY DEF Probe, TInv, ReadOK
<1>2. rd[p] \in Reading
  BY <1>1 DEF TypeOK, Idle
<1>3. lock[p] # NoOp => lock[p].pc # "flush"
  BY <1>1 DEF TInv, OpOK
<1>4. Stored(loc)'
  BY <1>1 DEF Stored, OnDisk, View
<1>5. CASE loc.path \in DOMAIN file
  <2>1. rd'[p] = [rd[p] EXCEPT !.pc = "plain"]
    BY <1>1, <1>5 DEF Probe, TypeOK
  <2>2. rd'[p].pc = "plain" /\ rd'[p].loc = loc
    BY <1>2, <2>1 DEF Reading
  <2> QED BY <1>1, <1>3, <1>4, <2>2 DEF ReadOK
<1>6. CASE loc.path \notin DOMAIN file
  <2>1. loc.path \in DOMAIN gz
    BY <1>1, <1>6 DEF Stored, OnDisk
  <2>2. rd'[p] = [rd[p] EXCEPT !.pc = "gz"]
    BY <1>1, <1>6, <2>1 DEF Probe, TypeOK
  <2>3. rd'[p].pc = "gz" /\ rd'[p].loc = loc
    BY <1>2, <2>2 DEF Reading
  <2> QED BY <1>1, <1>3, <1>4, <1>6, <2>3 DEF ReadOK
<1> QED BY <1>5, <1>6

LEMMA OpenAndReadRd ==
  ASSUME TInv, NEW p \in Procs, ReadOK(p), OpenAndRead(p)
  PROVE  ReadOK(p)'
<1>1. TypeOK /\ lock' = lock /\ rd[p].pc \in {"plain", "gz"}
  BY DEF OpenAndRead, TInv
<1>2. lock[p] # NoOp => lock[p].pc # "flush"
  BY <1>1 DEF TInv, OpOK
<1>3. PICK res \in {"same", "missing"} : rd'[p] = Result(res)
  <2>1. CASE rd[p].pc = "plain"
    BY <1>1, <2>1 DEF OpenAndRead, ReadOK, Stored, View, TypeOK
  <2>2. CASE rd[p].pc = "gz"
    BY <1>1, <2>2 DEF OpenAndRead, ReadOK, Stored, View, OnDisk, TypeOK
  <2> QED BY <1>1, <2>1, <2>2
<1>4. rd'[p].pc = "done" /\ rd'[p].res # "other"
  BY <1>3 DEF Result
<1> QED BY <1>1, <1>2, <1>4 DEF ReadOK

LEMMA NextRd ==
  ASSUME OneProcess, SoleWriters, TInv, SInv, TrInv, RdInv, [Next]_vars
  PROVE  RdInv'
<1> SUFFICES ASSUME crashes' = 0, NEW p \in Procs PROVE ReadOK(p)'
  BY DEF RdInv
<1>1. Grows /\ RawIsTruth /\ ReadOK(p) /\ TypeOK
  BY NextS, Rows DEF TrInv, RdInv, TInv
<1>2. CASE UNCHANGED vars
  <2>1. rd' = rd /\ lock' = lock /\ seg' = seg
    BY <1>2 DEF vars
  <2> QED BY <1>1, <2>1, ReadLeft
<1>3. ASSUME NEW k \in Keys, NEW r \in Recs, NEW d \in Days,
             Append(p, k, r, d) \/ StartRotate(p, k, r, d)
      PROVE  ReadOK(p)'
  <2>1. rd'[p] = rd[p] /\ (lock'[p] = NoOp \/ lock'[p].pc # "flush")
    BY <1>1, <1>3 DEF Append, StartRotate, MayAppend, TypeOK
  <2> QED BY <1>1, <2>1, ReadLeft
<1>4. ASSUME CompressSegment(p) \/ UnlinkPlain(p) \/ OpenSegment(p) PROVE ReadOK(p)'
  <2>1. lock'[p] = NoOp \/ lock'[p].pc # "flush"
    <3>1. CASE OpenSegment(p)
      BY <1>1, <3>1 DEF OpenSegment, TypeOK
    <3>2. CASE CompressSegment(p) \/ UnlinkPlain(p)
      <4>1. lock[p] # NoOp /\ lock[p].pc \in {"compress", "unlink", "open"}
        BY <3>2 DEF CompressSegment, UnlinkPlain
      <4>2. \/ lock' = [lock EXCEPT ![p] = NoOp]
            \/ \E pc \in {"unlink", "open"} : lock' = [lock EXCEPT ![p].pc = pc]
        BY <3>2 DEF CompressSegment, UnlinkPlain
      <4>3. lock'[p] = NoOp \/ lock'[p].pc \in {"unlink", "open"}
        BY <1>1, <4>1, <4>2, OpStep
      <4> QED BY <4>3
    <3> QED BY <1>4, <3>1, <3>2
  <2>2. rd'[p] = rd[p]
    BY <1>4 DEF CompressSegment, UnlinkPlain, OpenSegment
  <2> QED BY <1>1, <2>1, <2>2, ReadLeft
<1>5. ASSUME NEW loc \in held[p], IndexRaw(p, loc) PROVE ReadOK(p)'
  <2>1. rd'[p] = rd[p] /\ lock' = lock /\ seg' = seg
    BY <1>5 DEF IndexRaw
  <2> QED BY <1>1, <2>1, ReadLeft
<1>6. ASSUME NEW loc \in index, ReadStart(p, loc) PROVE ReadOK(p)'
  <2>1. /\ lock'[p] = [pc |-> "flush", todo |-> {k \in Keys : seg[p][k] # NoSeg}]
        /\ rd'[p] = [pc |-> "flush", loc |-> loc] /\ UNCHANGED <<seg, index>>
    BY <1>1, <1>6 DEF ReadStart, TypeOK
  <2> QED BY <2>1 DEF ReadOK, Flushed
<1>7. ASSUME NEW k \in Keys, FlushOne(p, k) PROVE ReadOK(p)'
  BY <1>1, <1>7, FlushOneRd
<1>8. ASSUME NEW k \in Keys, ExitFlush(p, k) PROVE ReadOK(p)'
  <2>1. rd'[p] = rd[p] /\ (lock'[p] = NoOp \/ lock'[p].pc # "flush")
    BY <1>1, <1>8 DEF ExitFlush, TypeOK
  <2> QED BY <1>1, <2>1, ReadLeft
<1>9. CASE ExitStart(p)
  BY <1>1, <1>9 DEF ExitStart, ReadOK, Idle, TypeOK
<1>10. CASE FlushDone(p) \/ Probe(p) \/ OpenAndRead(p)
  BY <1>1, <1>10, FlushDoneRd, ProbeRd, OpenAndReadRd
<1>11. ~Crash(p)
  BY CrashS
<1>12. CASE Next
  <2>1. PICK q \in Procs :
          \/ \E k \in Keys, r \in Recs, d \in Days : Append(q, k, r, d) \/ StartRotate(q, k, r, d)
          \/ CompressSegment(q) \/ UnlinkPlain(q) \/ OpenSegment(q)
          \/ \E loc \in held[q] : IndexRaw(q, loc)
          \/ \E loc \in index : ReadStart(q, loc)
          \/ FlushDone(q) \/ Probe(q) \/ OpenAndRead(q) \/ ExitStart(q) \/ Crash(q)
          \/ \E k \in Keys : FlushOne(q, k) \/ ExitFlush(q, k)
    BY <1>12 DEF Next
  <2>2. q = p
    BY DEF OneProcess
  <2> QED BY <1>3, <1>4, <1>5, <1>6, <1>7, <1>8, <1>9, <1>10, <1>11, <2>1, <2>2
<1> QED BY <1>2, <1>12

LEMMA InitRd == Init => RdInv
BY DEF Init, RdInv, ReadOK, Idle

\* In a deployment of one process no read returns bytes other than the
\* record's until it crashes (docs/architecture.md:103), whatever rotation,
\* compression or flush it interleaves with.
THEOREM RawStoreReads == ASSUME SoleWriters, OneProcess PROVE Spec => []ReadNeverOther
<1>1. RdInv => ReadNeverOther
  BY DEF RdInv, ReadOK, ReadNeverOther
<1>2. TrInv /\ SInv /\ TInv /\ RdInv /\ [Next]_vars => RdInv'
  BY NextRd
<1> QED BY <1>1, <1>2, InitT, InitS, InitTr, InitRd, NextT, NextS, NextTr, PTL DEF Spec
=============================================================================
