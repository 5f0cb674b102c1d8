--------------------------- MODULE CollectorProofs --------------------------
(***************************************************************************)
(* Theorems about Collector for every number of listeners and sources,     *)
(* every batch size and every bound; from "pieces of a file" on, about     *)
(* tailFile in Intake for every file; and from "functions by recursion"    *)
(* on, about handleTCP there for every connection.                         *)
(***************************************************************************)
EXTENDS Collector, Intake, SetLemmas, SequenceTheorems, FiniteSetTheorems, TLAPS

-----------------------------------------------------------------------------
(***************************************************************************)
(* The lines of a sequence.                                                *)
(***************************************************************************)
LEMMA SeqSetEmpty == SeqSet(<<>>) = {}
BY DEF SeqSet

LEMMA SeqSetAppend ==
  ASSUME NEW q \in Seq(Nat), NEW x \in Nat
  PROVE  Append(q, x) \in Seq(Nat) /\ SeqSet(Append(q, x)) = SeqSet(q) \cup {x}
<1> DEFINE c == Append(q, x)
<1>1. /\ c \in Seq(Nat) /\ Len(c) = Len(q) + 1 /\ c[Len(q) + 1] = x
      /\ \A i \in 1 .. Len(q) : c[i] = q[i]
  BY AppendProperties
<1>2. Len(q) \in Nat /\ DOMAIN q = 1 .. Len(q) /\ DOMAIN c = 1 .. Len(q) + 1
  BY <1>1, LenProperties
<1>3. \A i \in DOMAIN c : i \in DOMAIN q \/ i = Len(q) + 1
  BY <1>2
<1>4. Len(q) + 1 \in DOMAIN c /\ \A i \in DOMAIN q : i \in DOMAIN c
  BY <1>2
<1> HIDE DEF c
<1>5. SeqSet(c) \subseteq SeqSet(q) \cup {x}
  BY <1>1, <1>2, <1>3 DEF SeqSet
<1>6. SeqSet(q) \cup {x} \subseteq SeqSet(c)
  BY <1>1, <1>2, <1>4 DEF SeqSet
<1> QED BY <1>1, <1>5, <1>6 DEF c

LEMMA SeqSetConcat ==
  ASSUME NEW q \in Seq(Nat), NEW r \in Seq(Nat)
  PROVE  q \o r \in Seq(Nat) /\ SeqSet(q \o r) = SeqSet(q) \cup SeqSet(r)
<1>1. /\ q \o r \in Seq(Nat) /\ Len(q \o r) = Len(q) + Len(r)
      /\ \A i \in 1 .. Len(q) + Len(r) :
           (q \o r)[i] = IF i <= Len(q) THEN q[i] ELSE r[i - Len(q)]
  BY ConcatProperties
<1>2. /\ DOMAIN q = 1 .. Len(q) /\ DOMAIN r = 1 .. Len(r)
      /\ DOMAIN (q \o r) = 1 .. Len(q) + Len(r)
  BY <1>1, LenProperties
<1>3. Len(q) \in Nat /\ Len(r) \in Nat
  BY LenProperties
<1> DEFINE c == q \o r
<1>4. SeqSet(c) \subseteq SeqSet(q) \cup SeqSet(r)
  BY <1>1, <1>2, <1>3 DEF SeqSet
<1>5. SeqSet(q) \subseteq SeqSet(c)
  BY <1>1, <1>2, <1>3 DEF SeqSet
<1>6. ASSUME NEW i \in DOMAIN r PROVE r[i] \in SeqSet(c)
  <2>1. i \in Nat /\ Len(q) + i \in 1 .. Len(q) + Len(r) /\ ~(Len(q) + i <= Len(q))
        /\ Len(q) + i - Len(q) = i
    BY <1>2, <1>3
  <2>2. Len(q) + i \in DOMAIN c /\ c[Len(q) + i] = r[i]
    BY <1>1, <1>2, <2>1
  <2> QED BY <2>2 DEF SeqSet
<1> QED BY <1>1, <1>4, <1>5, <1>6 DEF SeqSet

LEMMA SeqSetSubSeq ==
  ASSUME NEW q \in Seq(Nat), NEW k \in 0 .. Len(q)
  PROVE  SubSeq(q, 1, k) \in Seq(Nat) /\ SeqSet(SubSeq(q, 1, k)) \subseteq SeqSet(q)
<1>1. Len(q) \in Nat /\ DOMAIN q = 1 .. Len(q) /\ \A i \in 1 .. k : q[i] \in Nat
  BY LenProperties, ElementOfSeq
<1>2. /\ SubSeq(q, 1, k) \in Seq(Nat)
      /\ Len(SubSeq(q, 1, k)) = IF 1 <= k THEN k - 1 + 1 ELSE 0
      /\ \A i \in 1 .. k - 1 + 1 : SubSeq(q, 1, k)[i] = q[1 + i - 1]
  BY <1>1, SubSeqProperties
<1>3. DOMAIN SubSeq(q, 1, k) = 1 .. k
  BY <1>1, <1>2, LenProperties
<1> QED BY <1>1, <1>2, <1>3 DEF SeqSet

LEMMA SeqSetType ==
  ASSUME NEW q \in Seq(Nat), NEW S, SeqSet(q) \subseteq S
  PROVE  q \in Seq(S)
<1>1. q \in [1 .. Len(q) -> S] /\ Len(q) \in Nat
  BY LenProperties DEF SeqSet
<1> QED BY <1>1, SeqDef

\* No line is in the sequence twice.
Distinct(q) == \A i, j \in DOMAIN q : i # j => q[i] # q[j]

LEMMA DistinctAppend ==
  ASSUME NEW q \in Seq(Nat), NEW x \in Nat, x \notin SeqSet(q), Distinct(q)
  PROVE  Distinct(Append(q, x))
<1> DEFINE c == Append(q, x)
<1>1. /\ c \in Seq(Nat) /\ Len(c) = Len(q) + 1 /\ c[Len(q) + 1] = x
      /\ \A i \in 1 .. Len(q) : c[i] = q[i]
  BY AppendProperties
<1>2. Len(q) \in Nat /\ DOMAIN q = 1 .. Len(q) /\ DOMAIN c = 1 .. Len(q) + 1
  BY <1>1, LenProperties
<1>3. \A i \in DOMAIN c : (i \in DOMAIN q /\ c[i] = q[i]) \/ (i = Len(q) + 1 /\ c[i] = x)
  BY <1>1, <1>2
<1>4. \A i \in DOMAIN q : q[i] # x
  BY DEF SeqSet
<1> HIDE DEF c
<1>5. Distinct(c)
  BY <1>3, <1>4 DEF Distinct
<1> QED BY <1>5 DEF c

LEMMA DistinctConcat ==
  ASSUME NEW q \in Seq(Nat), NEW r \in Seq(Nat), Distinct(q), Distinct(r),
         SeqSet(q) \cap SeqSet(r) = {}
  PROVE  Distinct(q \o r)
<1> DEFINE c == q \o r
<1>1. /\ c \in Seq(Nat) /\ Len(c) = Len(q) + Len(r)
      /\ \A i \in 1 .. Len(q) + Len(r) : c[i] = IF i <= Len(q) THEN q[i] ELSE r[i - Len(q)]
  BY ConcatProperties
<1>2. /\ Len(q) \in Nat /\ Len(r) \in Nat /\ DOMAIN q = 1 .. Len(q) /\ DOMAIN r = 1 .. Len(r)
      /\ DOMAIN c = 1 .. Len(q) + Len(r)
  BY <1>1, LenProperties
<1> HIDE DEF c
<1>3. ASSUME NEW i \in DOMAIN c
      PROVE  \/ i \in DOMAIN q /\ c[i] = q[i]
             \/ i \in Nat /\ i > Len(q) /\ i - Len(q) \in DOMAIN r /\ c[i] = r[i - Len(q)]
  BY <1>1, <1>2
<1>4. \A i \in DOMAIN q, j \in DOMAIN r : q[i] # r[j]
  BY DEF SeqSet
<1>5. ASSUME NEW i \in DOMAIN c, NEW j \in DOMAIN c, i # j PROVE c[i] # c[j]
  <2>1. CASE i \in DOMAIN q /\ j \in DOMAIN q /\ c[i] = q[i] /\ c[j] = q[j]
    BY <1>5, <2>1 DEF Distinct
  <2>2. CASE i > Len(q) /\ j > Len(q) /\ i \in Nat /\ j \in Nat
             /\ i - Len(q) \in DOMAIN r /\ j - Len(q) \in DOMAIN r
             /\ c[i] = r[i - Len(q)] /\ c[j] = r[j - Len(q)]
    <3>1. i - Len(q) # j - Len(q)
      BY <1>2, <1>5, <2>2
    <3> QED BY <2>2, <3>1 DEF Distinct
  <2> QED BY <1>3, <1>4, <2>1, <2>2
<1>6. Distinct(c)
  BY <1>5 DEF Distinct
<1> QED BY <1>6 DEF c
-----------------------------------------------------------------------------
(***************************************************************************)
(* The inductive invariant, in parts.                                      *)
(***************************************************************************)
\* What kind of value each variable holds, the lines being any numbers.
Shape ==
  /\ read \in [Sources -> Nat] /\ buf \in [Sources -> Seq(Nat)]
  /\ pc \in [Actors -> {"idle", "flush", "post"}]
  /\ src \in [Actors -> Sources \cup {NoSource}]
  /\ flight \in [Actors -> Seq(Nat)] /\ attempt \in [Actors -> 0 .. Attempts - 1]
  /\ todo \subseteq Sources
  /\ late \subseteq [src : Sources, lines : Seq(Nat), no : Nat]
  /\ stored \in [Sources -> Seq(Nat)]
  /\ dropped \subseteq Sources \X Nat /\ lost \subseteq Sources \X Nat
  /\ faults \in 0 .. MaxFaults /\ crashes \in 0 .. MaxCrashes

\* A goroutine has a source while it flushes and lines while it posts.
ControlOK ==
  \A a \in Actors :
    /\ pc[a] # "idle" => src[a] \in Sources
    /\ pc[a] # "post" => flight[a] = <<>>

\* Nobody has a line that was not read.
OnlyRead ==
  /\ \A s \in Sources : /\ read[s] <= MaxLines[s]
                        /\ SeqSet(buf[s]) \subseteq Lines(s)
                        /\ SeqSet(stored[s]) \subseteq Lines(s)
  /\ \A a \in Actors : pc[a] = "post" => SeqSet(flight[a]) \subseteq Lines(src[a])
  /\ \A r \in late : SeqSet(r.lines) \subseteq Lines(r.src)
  /\ \A x \in dropped \cup lost : x[2] \in Lines(x[1])

\* A buffer is full only while the listener that filled it is about to flush
\* it, so nobody adds to a full buffer.
SizesOK ==
  /\ \A s \in Sources :
       /\ Len(buf[s]) <= MaxBatch
       /\ Len(buf[s]) = MaxBatch => pc[ReaderOf[s]] = "flush" /\ src[ReaderOf[s]] = s
  /\ \A a \in Actors : Len(flight[a]) <= MaxBatch

\* Goroutine a has line n of s.
Has(a, s, n) == src[a] = s /\ n \in SeqSet(flight[a])

\* NoLineVanishes, with the goroutine that has a line named: a goroutine that
\* has a line is the only one, and the line is not in the buffer.
OnePlace ==
  \A s \in Sources : \A n \in Lines(s) :
    /\ \A a, b \in Actors : Has(a, s, n) /\ Has(b, s, n) => a = b
    /\ \A a \in Actors : Has(a, s, n) => ~InBuf(s, n)
    /\ InBuf(s, n) \/ Out(s, n) \/ \E a \in Actors : Has(a, s, n)

TInv == Shape /\ ControlOK /\ OnlyRead /\ SizesOK
IInv == TInv /\ OnePlace

\* As long as no post fails a line is at most once in a buffer, with a
\* goroutine and in the store, and a stored line is nowhere else.
OnceOK ==
  faults = 0 =>
    /\ late = {}
    /\ \A s \in Sources : Distinct(buf[s]) /\ Distinct(stored[s])
    /\ \A a \in Actors : Distinct(flight[a])
    /\ \A s \in Sources : \A n \in SeqSet(stored[s]) :
         ~InBuf(s, n) /\ \A a \in Actors : ~Has(a, s, n)

LEMMA TInvImpliesTypeOK == TInv => TypeOK
<1> SUFFICES ASSUME TInv PROVE TypeOK
  OBVIOUS
<1> USE DEF TInv
<1>1. \A s \in Sources : /\ buf[s] \in Seq(Lines(s)) /\ stored[s] \in Seq(Lines(s))
                         /\ read[s] \in 0 .. MaxLines[s]
  BY SeqSetType, CollectorAssumption DEF Shape, OnlyRead
<1>2. \A a \in Actors : flight[a] # <<>> => src[a] \in Sources /\ flight[a] \in Seq(Lines(src[a]))
  BY SeqSetType DEF Shape, OnlyRead, ControlOK
<1>3. \A r \in late : r.src \in Sources /\ r.lines \in Seq(Lines(r.src))
  BY SeqSetType DEF Shape, OnlyRead
<1>4. \A x \in dropped \cup lost : x[1] \in Sources /\ x[2] \in Lines(x[1])
  BY DEF Shape, OnlyRead
<1> QED BY <1>1, <1>2, <1>3, <1>4 DEF Shape, SizesOK, TypeOK

LEMMA InitOK == Init => IInv
<1> SUFFICES ASSUME Init PROVE IInv
  OBVIOUS
<1>1. <<>> \in Seq(Nat) /\ Len(<<>>) = 0
  BY EmptySeq
<1>2. Shape
  BY <1>1, CollectorAssumption DEF Init, Shape
<1>3. ControlOK
  BY DEF Init, ControlOK
<1>4. OnlyRead
  BY SeqSetEmpty, CollectorAssumption DEF Init, OnlyRead
<1>5. SizesOK
  BY <1>1, CollectorAssumption DEF Init, SizesOK
<1>6. OnePlace
  BY CollectorAssumption DEF Init, OnePlace, Lines
<1> QED BY <1>2, <1>3, <1>4, <1>5, <1>6 DEF IInv, TInv
-----------------------------------------------------------------------------
(***************************************************************************)
(* The server stores the beginning of a batch.                             *)
(***************************************************************************)
LEMMA StoreFacts ==
  ASSUME Shape, NEW s \in Sources, NEW q \in Seq(Nat), NEW k \in 0 .. Len(q), Store(s, q, k)
  PROVE  /\ stored' \in [Sources -> Seq(Nat)]
         /\ \A u \in Sources : u # s => stored'[u] = stored[u]
         /\ SeqSet(stored[s]) \subseteq SeqSet(stored'[s])
         /\ SeqSet(stored'[s]) \subseteq SeqSet(stored[s]) \cup SeqSet(q)
         /\ k = Len(q) => SeqSet(q) \subseteq SeqSet(stored'[s])
<1> DEFINE p == SubSeq(q, 1, k)
<1>1. p \in Seq(Nat) /\ SeqSet(p) \subseteq SeqSet(q) /\ (k = Len(q) => p = q)
  BY SeqSetSubSeq, SubSeqFull
<1>2. stored[s] \in Seq(Nat)
  BY DEF Shape
<1>3. stored' = [stored EXCEPT ![s] = stored[s] \o p]
  BY DEF Store
<1> HIDE DEF p
<1>4. stored[s] \o p \in Seq(Nat) /\ SeqSet(stored[s] \o p) = SeqSet(stored[s]) \cup SeqSet(p)
  BY <1>1, <1>2, SeqSetConcat
<1> QED BY <1>1, <1>3, <1>4 DEF Shape
-----------------------------------------------------------------------------
(***************************************************************************)
(* Every step keeps TInv.                                                  *)
(***************************************************************************)
LEMMA AddTInv ==
  ASSUME TInv, NEW s \in Sources, Add(s)
  PROVE  TInv'
<1> DEFINE l == ReaderOf[s]
<1> USE DEF TInv
<1>1. l \in Listeners /\ l \in Actors /\ read[s] \in Nat /\ buf[s] \in Seq(Nat)
      /\ MaxBatch \in Nat /\ MaxLines[s] \in Nat
  BY CollectorAssumption DEF Shape, Actors
<1>2. /\ Append(buf[s], read[s] + 1) \in Seq(Nat)
      /\ SeqSet(Append(buf[s], read[s] + 1)) = SeqSet(buf[s]) \cup {read[s] + 1}
      /\ Len(Append(buf[s], read[s] + 1)) = Len(buf[s]) + 1
  BY <1>1, SeqSetAppend, AppendProperties
<1>3. /\ pc[l] = "idle" /\ read[s] < MaxLines[s]
      /\ read' = [read EXCEPT ![s] = read[s] + 1]
      /\ buf' = [buf EXCEPT ![s] = Append(buf[s], read[s] + 1)]
      /\ pc' = [pc EXCEPT ![l] = IF Len(buf[s]) + 1 >= MaxBatch THEN "flush" ELSE "idle"]
      /\ src' = [src EXCEPT ![l] = IF Len(buf[s]) + 1 >= MaxBatch THEN s ELSE src[l]]
      /\ UNCHANGED <<flight, attempt, todo, late, stored, dropped, lost, faults, crashes>>
  BY DEF Add
<1>4. Shape'
  <2>1. read[s] + 1 \in Nat /\ read' \in [Sources -> Nat]
    BY <1>1, <1>3 DEF Shape
  <2>2. buf' \in [Sources -> Seq(Nat)]
    BY <1>2, <1>3 DEF Shape
  <2>3. /\ pc' \in [Actors -> {"idle", "flush", "post"}]
        /\ src' \in [Actors -> Sources \cup {NoSource}]
    BY <1>1, <1>3 DEF Shape
  <2> QED BY <1>3, <2>1, <2>2, <2>3 DEF Shape
<1>5. ControlOK'
  BY <1>1, <1>3 DEF ControlOK, Shape
<1>6. OnlyRead'
  <2>1. \A u \in Sources : read'[u] \in Nat /\ read[u] \in Nat /\ read[u] <= read'[u]
    BY <1>1, <1>3 DEF Shape
  <2>2. \A u \in Sources : Lines(u) \subseteq 1 .. read'[u]
    BY <2>1 DEF Lines
  <2>3. read[s] + 1 \in 1 .. read'[s] /\ read'[s] <= MaxLines[s]
    BY <1>1, <1>3 DEF Lines, Shape
  <2>4. \A u \in Sources : /\ read'[u] <= MaxLines[u]
                           /\ SeqSet(buf'[u]) \subseteq 1 .. read'[u]
                           /\ SeqSet(stored'[u]) \subseteq 1 .. read'[u]
    <3> SUFFICES ASSUME NEW u \in Sources
                 PROVE  /\ read'[u] <= MaxLines[u]
                        /\ SeqSet(buf'[u]) \subseteq 1 .. read'[u]
                        /\ SeqSet(stored'[u]) \subseteq 1 .. read'[u]
      OBVIOUS
    <3>1. CASE u = s
      BY <1>2, <1>3, <2>2, <2>3, <3>1 DEF Shape, OnlyRead
    <3>2. CASE u # s
      BY <1>3, <2>2, <3>2 DEF Shape, OnlyRead
    <3> QED BY <3>1, <3>2
  <2>5. \A a \in Actors : pc'[a] = "post" => SeqSet(flight'[a]) \subseteq 1 .. read'[src'[a]]
    <3> SUFFICES ASSUME NEW a \in Actors, pc'[a] = "post"
                 PROVE  SeqSet(flight[a]) \subseteq 1 .. read'[src'[a]]
      BY <1>3
    <3>1. a # l /\ pc[a] = "post" /\ src'[a] = src[a]
      BY <1>1, <1>3 DEF Shape
    <3>2. src[a] \in Sources /\ SeqSet(flight[a]) \subseteq Lines(src[a])
      BY <3>1 DEF ControlOK, OnlyRead
    <3> QED BY <2>2, <3>1, <3>2 DEF Lines
  <2>6. \A r \in late : SeqSet(r.lines) \subseteq 1 .. read'[r.src]
    BY <2>2 DEF Shape, OnlyRead
  <2>7. \A x \in dropped \cup lost : x[2] \in 1 .. read'[x[1]]
    BY <2>2 DEF Shape, OnlyRead
  <2> QED BY <1>3, <2>4, <2>5, <2>6, <2>7 DEF OnlyRead, Lines
<1>7. SizesOK'
  <2>1. Len(buf[s]) \in Nat /\ Len(buf[s]) < MaxBatch
    BY <1>1, <1>3, LenProperties DEF SizesOK
  <2> QED BY <1>1, <1>2, <1>3, <2>1, SMTT(30) DEF SizesOK, Shape
<1> QED BY <1>4, <1>5, <1>6, <1>7

LEMMA LoopTInv ==
  ASSUME TInv, Tick \/ \E s \in Sources : LoopNext(s)
  PROVE  TInv'
<1> USE DEF TInv
<1>1. CASE Tick
  <2>1. todo' \subseteq Sources /\ UNCHANGED <<read, buf, pc, src, flight, attempt, late, stored, dropped, lost, faults, crashes>>
    BY <1>1 DEF Tick
  <2> QED BY <2>1 DEF Shape, ControlOK, OnlyRead, SizesOK, Lines
<1>2. ASSUME NEW s \in Sources, LoopNext(s) PROVE TInv'
  <2>1. /\ pc[Loop] = "idle" /\ todo' \subseteq Sources
        /\ pc' = [pc EXCEPT ![Loop] = "flush"] /\ src' = [src EXCEPT ![Loop] = s]
        /\ UNCHANGED <<read, buf, flight, attempt, late, stored, dropped, lost, faults, crashes>>
    BY <1>2 DEF LoopNext, Shape
  <2>2. Loop \in Actors /\ \A u \in Sources : ReaderOf[u] # Loop /\ ReaderOf[u] \in Actors
    BY CollectorAssumption DEF Actors
  <2>3. Shape'
    BY <2>1, <2>2 DEF Shape
  <2>4. ControlOK'
    BY <2>1, <2>2 DEF Shape, ControlOK
  <2>5. OnlyRead'
    <3>1. \A a \in Actors : pc'[a] = "post" => pc[a] = "post" /\ src'[a] = src[a]
      BY <2>1, <2>2 DEF Shape
    <3> QED BY <2>1, <3>1 DEF OnlyRead, Lines
  <2>6. SizesOK'
    BY <2>1, <2>2 DEF Shape, SizesOK
  <2> QED BY <2>3, <2>4, <2>5, <2>6
<1> QED BY <1>1, <1>2

LEMMA TakeTInv ==
  ASSUME TInv, NEW a \in Actors, Take(a)
  PROVE  TInv'
<1> DEFINE s == src[a]
           empty == buf[s] = <<>>
<1> USE DEF TInv
<1>1. s \in Sources /\ flight[a] = <<>> /\ buf[s] \in Seq(Nat) /\ pc[a] = "flush"
  BY DEF Take, Shape, ControlOK
<1>2. /\ flight' = [flight EXCEPT ![a] = buf[s]] /\ attempt' = [attempt EXCEPT ![a] = 0]
      /\ buf' = [buf EXCEPT ![s] = <<>>]
      /\ pc' = [pc EXCEPT ![a] = IF empty THEN "idle" ELSE "post"]
      /\ src' = [src EXCEPT ![a] = IF empty THEN NoSource ELSE s]
      /\ UNCHANGED <<read, todo, late, stored, dropped, lost, faults, crashes>>
  BY DEF Take
<1>3. <<>> \in Seq(Nat) /\ Len(<<>>) = 0 /\ SeqSet(<<>>) = {} /\ 0 \in 0 .. Attempts - 1
  BY EmptySeq, SeqSetEmpty, CollectorAssumption
<1>4. Shape'
  BY <1>1, <1>2, <1>3 DEF Shape
<1>5. ControlOK'
  BY <1>1, <1>2 DEF Shape, ControlOK
<1>6. OnlyRead'
  <2>1. \A u \in Sources : SeqSet(buf'[u]) \subseteq Lines(u)
    BY <1>1, <1>2, <1>3 DEF Shape, OnlyRead
  <2>2. ASSUME NEW b \in Actors, pc'[b] = "post"
        PROVE  SeqSet(flight'[b]) \subseteq Lines(src'[b])
    <3>1. CASE b = a
      BY <1>1, <1>2, <2>2, <3>1 DEF Shape, OnlyRead
    <3>2. CASE b # a
      BY <1>2, <2>2, <3>2 DEF Shape, OnlyRead
    <3> QED BY <3>1, <3>2
  <2> QED BY <1>2, <2>1, <2>2 DEF OnlyRead, Lines
<1>7. SizesOK'
  <2>1. \A b \in Actors : Len(flight'[b]) <= MaxBatch
    BY <1>1, <1>2 DEF Shape, SizesOK
  <2>2. ASSUME NEW u \in Sources
        PROVE  /\ Len(buf'[u]) <= MaxBatch
               /\ Len(buf'[u]) = MaxBatch => pc'[ReaderOf[u]] = "flush" /\ src'[ReaderOf[u]] = u
    <3>1. CASE u = s
      BY <1>1, <1>2, <1>3, <3>1, CollectorAssumption DEF Shape
    <3>2. CASE u # s
      <4>1. buf'[u] = buf[u]
        BY <1>2, <3>2 DEF Shape
      <4>2. Len(buf[u]) = MaxBatch => ReaderOf[u] # a
        BY <3>2 DEF SizesOK
      <4> QED BY <1>2, <4>1, <4>2 DEF SizesOK, Shape
    <3> QED BY <3>1, <3>2
  <2> QED BY <2>1, <2>2 DEF SizesOK
<1> QED BY <1>4, <1>5, <1>6, <1>7

\* Whatever becomes of a post, its goroutine goes on posting or is idle, and
\* what it has reaches the server, a late request or the dropped lines only.
LEMMA PostEffect ==
  ASSUME TInv, NEW a \in Actors, pc[a] = "post",
         Return(a) \/ (UNCHANGED <<pc, src, flight>> /\ attempt' \in [Actors -> 0 .. Attempts - 1]),
         UNCHANGED <<read, buf, todo, lost, crashes>>, faults' \in 0 .. MaxFaults,
         stored' \in [Sources -> Seq(Nat)],
         \A u \in Sources : SeqSet(stored'[u]) \subseteq Lines(u),
         late' \subseteq late \cup {[src |-> src[a], lines |-> flight[a], no |-> attempt[a]]},
         dropped' \subseteq dropped \cup Of(src[a], flight[a])
  PROVE  TInv'
<1> USE DEF TInv
<1>1. /\ src[a] \in Sources /\ flight[a] \in Seq(Nat) /\ SeqSet(flight[a]) \subseteq Lines(src[a])
      /\ attempt[a] \in Nat /\ \A n \in SeqSet(flight[a]) : n \in Nat
  <2>1. Lines(src[a]) \subseteq Nat
    BY DEF Lines
  <2> QED BY <2>1, CollectorAssumption DEF Shape, ControlOK, OnlyRead
<1>2. <<>> \in Seq(Nat) /\ Len(<<>>) = 0 /\ SeqSet(<<>>) = {} /\ 0 \in 0 .. Attempts - 1
  BY EmptySeq, SeqSetEmpty, CollectorAssumption
<1>3. /\ flight' \in [Actors -> Seq(Nat)] /\ attempt' \in [Actors -> 0 .. Attempts - 1]
      /\ pc' \in [Actors -> {"idle", "flush", "post"}]
      /\ src' \in [Actors -> Sources \cup {NoSource}]
      /\ pc'[a] \in {"idle", "post"}
      /\ pc'[a] = "post" => src'[a] = src[a] /\ flight'[a] = flight[a]
      /\ pc'[a] = "idle" => flight'[a] = <<>>
      /\ \A b \in Actors : b # a => /\ pc'[b] = pc[b] /\ src'[b] = src[b]
                                    /\ flight'[b] = flight[b]
  BY <1>2, ZenonT(40) DEF Return, Shape
<1>4. Shape'
  <2>1. late' \subseteq [src : Sources, lines : Seq(Nat), no : Nat]
    BY <1>1 DEF Shape
  <2>2. dropped' \subseteq Sources \X Nat
    BY <1>1 DEF Shape, Of
  <2> QED BY <1>3, <2>1, <2>2 DEF Shape
<1>5. ControlOK'
  BY <1>3 DEF ControlOK
<1>6. OnlyRead'
  <2>1. ASSUME NEW r \in late' PROVE SeqSet(r.lines) \subseteq Lines(r.src)
    <3>1. CASE r \in late
      BY <3>1 DEF OnlyRead
    <3>2. CASE r = [src |-> src[a], lines |-> flight[a], no |-> attempt[a]]
      <4>1. r.src = src[a] /\ r.lines = flight[a]
        BY <3>2
      <4> QED BY <1>1, <4>1
    <3> QED BY <3>1, <3>2
  <2>2. \A x \in dropped' \cup lost' : x[2] \in Lines(x[1])
    BY <1>1 DEF OnlyRead, Of
  <2>3. \A b \in Actors : pc'[b] = "post" => SeqSet(flight'[b]) \subseteq Lines(src'[b])
    BY <1>1, <1>3 DEF OnlyRead
  <2> QED BY <2>1, <2>2, <2>3 DEF OnlyRead, Lines
<1>7. SizesOK'
  <2>1. ASSUME NEW b \in Actors PROVE Len(flight'[b]) <= MaxBatch
    <3>1. flight'[b] = flight[b] \/ flight'[b] = <<>>
      BY <1>3
    <3> QED BY <1>2, <3>1, CollectorAssumption DEF SizesOK
  <2>2. \A u \in Sources : Len(buf[u]) = MaxBatch => ReaderOf[u] \in Actors /\ ReaderOf[u] # a
    BY CollectorAssumption DEF SizesOK, Actors
  <2> QED BY <1>3, <2>1, <2>2 DEF SizesOK
<1> QED BY <1>4, <1>5, <1>6, <1>7

\* Of a batch of a source only lines that were read are stored.
LEMMA StoredRead ==
  ASSUME TInv, NEW s \in Sources, NEW q \in Seq(Nat), SeqSet(q) \subseteq Lines(s),
         NEW k \in 0 .. Len(q), Store(s, q, k)
  PROVE  stored' \in [Sources -> Seq(Nat)] /\ \A u \in Sources : SeqSet(stored'[u]) \subseteq Lines(u)
BY StoreFacts DEF TInv, OnlyRead

\* After a failed post the goroutine posts again or has dropped its batch.
LEMMA RetryEffect ==
  ASSUME TInv, NEW a \in Actors, pc[a] = "post", Retry(a)
  PROVE  \/ UNCHANGED <<pc, src, flight, dropped>> /\ attempt' \in [Actors -> 0 .. Attempts - 1]
         \/ Return(a) /\ dropped' = dropped \cup Of(src[a], flight[a])
<1>1. CASE UNCHANGED <<pc, src, flight, dropped>> /\ attempt[a] + 1 < Attempts
           /\ attempt' = [attempt EXCEPT ![a] = attempt[a] + 1]
  BY <1>1, CollectorAssumption DEF TInv, Shape
<1> QED BY <1>1 DEF Retry

LEMMA PostTInv ==
  ASSUME TInv, NEW a \in Actors, Post(a)
  PROVE  TInv'
<1>1. /\ pc[a] = "post" /\ src[a] \in Sources /\ flight[a] \in Seq(Nat)
      /\ SeqSet(flight[a]) \subseteq Lines(src[a]) /\ Len(flight[a]) \in Nat
  BY LenProperties DEF Post, PostOK, PostFails, PostTimesOut, TInv, Shape, ControlOK, OnlyRead
<1>2. CASE PostOK(a)
  <2>1. stored' \in [Sources -> Seq(Nat)] /\ \A u \in Sources : SeqSet(stored'[u]) \subseteq Lines(u)
    BY <1>1, <1>2, StoredRead DEF PostOK
  <2>2. faults' \in 0 .. MaxFaults
    BY <1>2 DEF PostOK, TInv, Shape
  <2>3. /\ Return(a) /\ UNCHANGED <<read, buf, todo, lost, crashes>>
        /\ late' \subseteq late \cup {[src |-> src[a], lines |-> flight[a], no |-> attempt[a]]}
        /\ dropped' \subseteq dropped \cup Of(src[a], flight[a])
    BY <1>2 DEF PostOK
  <2> QED BY <1>1, <2>1, <2>2, <2>3, PostEffect
<1>3. ASSUME NEW k \in 0 .. MaxBatch, PostFails(a, k) PROVE TInv'
  <2>1. stored' \in [Sources -> Seq(Nat)] /\ \A u \in Sources : SeqSet(stored'[u]) \subseteq Lines(u)
    BY <1>1, <1>3, StoredRead DEF PostFails
  <2>2. faults' \in 0 .. MaxFaults
    BY <1>3, CollectorAssumption DEF PostFails, TInv, Shape
  <2>3. /\ Retry(a) /\ UNCHANGED <<read, buf, todo, lost, crashes>>
        /\ late' \subseteq late \cup {[src |-> src[a], lines |-> flight[a], no |-> attempt[a]]}
    BY <1>3 DEF PostFails
  <2>4. /\ \/ Return(a)
           \/ UNCHANGED <<pc, src, flight>> /\ attempt' \in [Actors -> 0 .. Attempts - 1]
        /\ dropped' \subseteq dropped \cup Of(src[a], flight[a])
    BY <1>1, <2>3, RetryEffect
  <2> QED BY <1>1, <2>1, <2>2, <2>3, <2>4, PostEffect
<1>4. CASE PostTimesOut(a)
  <2>1. stored' \in [Sources -> Seq(Nat)] /\ \A u \in Sources : SeqSet(stored'[u]) \subseteq Lines(u)
    BY <1>4 DEF PostTimesOut, TInv, Shape, OnlyRead
  <2>2. faults' \in 0 .. MaxFaults
    BY <1>4, CollectorAssumption DEF PostTimesOut, TInv, Shape
  <2>3. /\ Retry(a) /\ UNCHANGED <<read, buf, todo, lost, crashes>>
        /\ late' \subseteq late \cup {[src |-> src[a], lines |-> flight[a], no |-> attempt[a]]}
    BY <1>4 DEF PostTimesOut
  <2>4. /\ \/ Return(a)
           \/ UNCHANGED <<pc, src, flight>> /\ attempt' \in [Actors -> 0 .. Attempts - 1]
        /\ dropped' \subseteq dropped \cup Of(src[a], flight[a])
    BY <1>1, <2>3, RetryEffect
  <2> QED BY <1>1, <2>1, <2>2, <2>3, <2>4, PostEffect
<1> QED BY <1>2, <1>3, <1>4 DEF Post

LEMMA LateTInv ==
  ASSUME TInv, NEW r \in late, NEW k \in 0 .. MaxBatch, Late(r, k)
  PROVE  TInv'
<1>1. /\ r.src \in Sources /\ r.lines \in Seq(Nat) /\ SeqSet(r.lines) \subseteq Lines(r.src)
      /\ k \in 0 .. Len(r.lines)
  BY DEF Late, TInv, Shape, OnlyRead
<1>2. stored' \in [Sources -> Seq(Nat)] /\ \A u \in Sources : SeqSet(stored'[u]) \subseteq Lines(u)
  BY <1>1, StoredRead DEF Late
<1>3. late' \subseteq late
      /\ UNCHANGED <<read, buf, pc, src, flight, attempt, todo, dropped, lost, faults, crashes>>
  BY DEF Late
<1> QED BY <1>2, <1>3 DEF TInv, Shape, ControlOK, OnlyRead, SizesOK, Lines

LEMMA CrashTInv ==
  ASSUME TInv, Crash
  PROVE  TInv'
<1> USE DEF TInv
<1>1. /\ crashes < MaxCrashes /\ crashes' = crashes + 1 /\ lost' = lost \cup InMemory
      /\ buf' = [s \in Sources |-> <<>>] /\ pc' = [a \in Actors |-> "idle"]
      /\ src' = [a \in Actors |-> NoSource] /\ flight' = [a \in Actors |-> <<>>]
      /\ attempt' = [a \in Actors |-> 0] /\ todo' = {}
      /\ UNCHANGED <<read, late, stored, dropped, faults>>
  BY DEF Crash
<1>2. <<>> \in Seq(Nat) /\ Len(<<>>) = 0 /\ SeqSet(<<>>) = {} /\ 0 \in 0 .. Attempts - 1
  BY EmptySeq, SeqSetEmpty, CollectorAssumption
<1>3. \A x \in InMemory : x \in Sources \X Nat /\ x[2] \in Lines(x[1])
  <2>1. ASSUME NEW s \in Sources, NEW x \in Of(s, buf[s])
        PROVE  x \in Sources \X Nat /\ x[2] \in Lines(x[1])
    BY DEF Of, OnlyRead, Lines
  <2>2. ASSUME NEW a \in Actors, NEW x \in Of(src[a], flight[a])
        PROVE  x \in Sources \X Nat /\ x[2] \in Lines(x[1])
    <3>1. pc[a] = "post"
      BY <2>2, <1>2 DEF Of, Shape, ControlOK
    <3> QED BY <2>2, <3>1 DEF Of, OnlyRead, ControlOK, Lines
  <2>3. ASSUME NEW x \in InMemory PROVE x \in Sources \X Nat /\ x[2] \in Lines(x[1])
    <3>1. CASE \E s \in Sources : x \in Of(s, buf[s])
      BY <2>1, <3>1
    <3>2. CASE \E a \in Actors : x \in Of(src[a], flight[a])
      BY <2>2, <3>2
    <3>3. x \in UNION {Of(s, buf[s]) : s \in Sources} \/ x \in UNION {Of(src[a], flight[a]) : a \in Actors}
      BY <2>3 DEF InMemory, Of
    <3> HIDE DEF TInv
    <3> QED BY <3>1, <3>2, <3>3
  <2> QED BY <2>3
<1>4. Shape'
  <2>1. lost' \subseteq Sources \X Nat
    BY <1>1, <1>3 DEF Shape
  <2>2. crashes' \in 0 .. MaxCrashes
    BY <1>1, CollectorAssumption DEF Shape
  <2>3. UNCHANGED <<read, late, stored, dropped, faults>>
    BY <1>1
  <2>4. /\ buf' \in [Sources -> Seq(Nat)] /\ flight' \in [Actors -> Seq(Nat)]
        /\ attempt' \in [Actors -> 0 .. Attempts - 1]
    BY <1>1, <1>2
  <2>5. /\ pc' \in [Actors -> {"idle", "flush", "post"}]
        /\ src' \in [Actors -> Sources \cup {NoSource}] /\ todo' \subseteq Sources
    BY <1>1
  <2> QED BY <2>1, <2>2, <2>3, <2>4, <2>5 DEF Shape
<1>5. ControlOK' /\ SizesOK'
  BY <1>1, <1>2, CollectorAssumption DEF ControlOK, SizesOK
<1>6. OnlyRead'
  <2>1. \A x \in lost' \cup dropped' : x[2] \in Lines(x[1])
    BY <1>1, <1>3 DEF OnlyRead
  <2> QED BY <1>1, <1>2, <2>1 DEF OnlyRead, Lines
<1> QED BY <1>4, <1>5, <1>6
-----------------------------------------------------------------------------
(***************************************************************************)
(* Every step keeps OnePlace.                                              *)
(***************************************************************************)
\* A line that was read is a number, and what a goroutine has was read.
LEMMA HasRead ==
  ASSUME TInv, NEW a \in Actors, NEW s \in Sources, NEW n, Has(a, s, n)
  PROVE  pc[a] = "post" /\ n \in Lines(s)
<1>1. flight[a] # <<>>
  BY SeqSetEmpty DEF Has
<1>2. pc[a] = "post"
  BY <1>1 DEF TInv, ControlOK
<1> QED BY <1>2 DEF TInv, OnlyRead, Has

LEMMA AddOnePlace ==
  ASSUME IInv, NEW s \in Sources, Add(s)
  PROVE  OnePlace'
<1> DEFINE l == ReaderOf[s]
<1> USE DEF IInv
<1>1. l \in Actors /\ read[s] \in Nat /\ buf[s] \in Seq(Nat)
  BY CollectorAssumption DEF TInv, Shape, Actors
<1>2. SeqSet(Append(buf[s], read[s] + 1)) = SeqSet(buf[s]) \cup {read[s] + 1}
  BY <1>1, SeqSetAppend
<1>3. /\ pc[l] = "idle"
      /\ \A u \in Sources : read'[u] = IF u = s THEN read[s] + 1 ELSE read[u]
      /\ \A u \in Sources : buf'[u] = IF u = s THEN Append(buf[s], read[s] + 1) ELSE buf[u]
      /\ \A a \in Actors : a # l => src'[a] = src[a]
      /\ UNCHANGED <<flight, stored, dropped, lost>>
  BY <1>1 DEF Add, TInv, Shape
<1>4. \A a \in Actors : \A u, n : Has(a, u, n)' <=> Has(a, u, n)
  <2>1. flight[l] = <<>> /\ SeqSet(flight[l]) = {}
    BY <1>1, <1>3, SeqSetEmpty DEF TInv, ControlOK
  <2> QED BY <1>3, <2>1 DEF Has
<1>5. \A u, n : Out(u, n)' <=> Out(u, n)
  BY <1>3 DEF Out
<1>6. ASSUME NEW u \in Sources, NEW n \in 1 .. read'[u]
      PROVE  /\ \A a, b \in Actors : Has(a, u, n) /\ Has(b, u, n) => a = b
             /\ \A a \in Actors : Has(a, u, n) => ~(n \in SeqSet(buf'[u]))
             /\ n \in SeqSet(buf'[u]) \/ Out(u, n) \/ \E a \in Actors : Has(a, u, n)
  <2>1. CASE n \in Lines(u)
    <3>1. n \in SeqSet(buf'[u]) <=> InBuf(u, n)
      BY <1>1, <1>2, <1>3, <2>1 DEF InBuf, Lines
    <3> QED BY <2>1, <3>1 DEF OnePlace
  <2>2. CASE u = s /\ n = read[s] + 1
    <3>1. n \in SeqSet(buf'[u]) /\ ~(n \in Lines(u))
      BY <1>1, <1>2, <1>3, <2>2 DEF Lines
    <3>2. \A a \in Actors : ~Has(a, u, n)
      BY <3>1, HasRead
    <3> QED BY <3>1, <3>2
  <2> QED BY <1>1, <1>3, <2>1, <2>2 DEF Lines
<1> QED BY <1>4, <1>5, <1>6 DEF OnePlace, Lines, InBuf

LEMMA LoopOnePlace ==
  ASSUME IInv, Tick \/ \E s \in Sources : LoopNext(s)
  PROVE  OnePlace'
<1> USE DEF IInv
<1>1. CASE Tick
  <2>1. UNCHANGED <<read, buf, src, flight, stored, dropped, lost>>
    BY <1>1 DEF Tick
  <2>2. \A a, u, n : Has(a, u, n)' <=> Has(a, u, n)
    BY <2>1 DEF Has
  <2>3. \A u, n : (InBuf(u, n)' <=> InBuf(u, n)) /\ (Out(u, n)' <=> Out(u, n)) /\ Lines(u)' = Lines(u)
    BY <2>1 DEF InBuf, Out, Lines
  <2> QED BY <2>2, <2>3 DEF OnePlace
<1>2. ASSUME NEW s \in Sources, LoopNext(s) PROVE OnePlace'
  <2>1. /\ pc[Loop] = "idle" /\ Loop \in Actors
        /\ UNCHANGED <<read, buf, flight, stored, dropped, lost>>
        /\ \A a \in Actors : a # Loop => src'[a] = src[a]
    BY <1>2 DEF LoopNext, TInv, Shape, Actors
  <2>2. SeqSet(flight[Loop]) = {}
    BY <2>1, SeqSetEmpty DEF TInv, ControlOK
  <2>3. \A a \in Actors : \A u, n : Has(a, u, n)' <=> Has(a, u, n)
    BY <2>1, <2>2 DEF Has
  <2>4. \A u, n : (InBuf(u, n)' <=> InBuf(u, n)) /\ (Out(u, n)' <=> Out(u, n)) /\ Lines(u)' = Lines(u)
    BY <2>1 DEF InBuf, Out, Lines
  <2> QED BY <2>3, <2>4 DEF OnePlace
<1> QED BY <1>1, <1>2

LEMMA TakeOnePlace ==
  ASSUME IInv, NEW a \in Actors, Take(a)
  PROVE  OnePlace'
<1> DEFINE s == src[a]
<1> USE DEF IInv
<1>1. s \in Sources /\ flight[a] = <<>> /\ pc[a] = "flush"
  BY DEF Take, TInv, ControlOK
<1>2. /\ flight'[a] = buf[s] /\ \A b \in Actors : b # a => flight'[b] = flight[b] /\ src'[b] = src[b]
      /\ src'[a] = IF buf[s] = <<>> THEN NoSource ELSE s
      /\ buf'[s] = <<>> /\ \A u \in Sources : u # s => buf'[u] = buf[u]
      /\ UNCHANGED <<read, stored, dropped, lost>>
  BY <1>1 DEF Take, TInv, Shape
<1>3. \A u \in Sources : \A n : ~Has(a, u, n)
  BY <1>1, SeqSetEmpty DEF Has
<1>4. \A u \in Sources : \A n : Has(a, u, n)' <=> u = s /\ InBuf(s, n)
  <2>1. buf[s] = <<>> => SeqSet(buf[s]) = {}
    BY SeqSetEmpty
  <2> QED BY <1>2, <2>1 DEF Has, InBuf
<1>5. \A b \in Actors : \A u, n : b # a => (Has(b, u, n)' <=> Has(b, u, n))
  BY <1>2 DEF Has
<1>6. \A u \in Sources : \A n : InBuf(u, n)' <=> u # s /\ InBuf(u, n)
  BY <1>1, <1>2, SeqSetEmpty DEF InBuf
<1>7. \A u, n : (Out(u, n)' <=> Out(u, n)) /\ Lines(u)' = Lines(u)
  BY <1>2 DEF Out, Lines
<1> QED BY <1>3, <1>4, <1>5, <1>6, <1>7 DEF OnePlace

\* A goroutine keeps what it posts, or is rid of it and it is out.
LEMMA PostOnePlaceEffect ==
  ASSUME IInv, NEW a \in Actors, NEW s \in Sources, src[a] = s, UNCHANGED <<read, buf>>,
         UNCHANGED <<src, flight>> \/ (Return(a) /\ \A n \in SeqSet(flight[a]) : Out(s, n)'),
         \A u \in Sources, n \in Nat : Out(u, n) => Out(u, n)'
  PROVE  OnePlace'
<1> USE DEF IInv
<1>1. \A u, n : (InBuf(u, n)' <=> InBuf(u, n)) /\ Lines(u)' = Lines(u)
  BY DEF InBuf, Lines
<1>2. \A u \in Sources : Lines(u) \subseteq Nat
  BY DEF Lines
<1>3. CASE UNCHANGED <<src, flight>>
  <2>1. \A b, u, n : Has(b, u, n)' <=> Has(b, u, n)
    BY <1>3 DEF Has
  <2> QED BY <1>1, <1>2, <2>1 DEF OnePlace
<1>4. CASE Return(a) /\ \A n \in SeqSet(flight[a]) : Out(s, n)'
  <2>1. flight'[a] = <<>> /\ \A b \in Actors : b # a => flight'[b] = flight[b] /\ src'[b] = src[b]
    BY <1>4 DEF Return, TInv, Shape
  <2>2. \A u, n : ~Has(a, u, n)'
    BY <2>1, SeqSetEmpty DEF Has
  <2>3. \A b \in Actors : \A u, n : b # a => (Has(b, u, n)' <=> Has(b, u, n))
    BY <2>1 DEF Has
  <2>4. \A u, n : Has(a, u, n) => Out(u, n)'
    BY <1>4 DEF Has
  <2> QED BY <1>1, <1>2, <2>2, <2>3, <2>4 DEF OnePlace
<1> QED BY <1>3, <1>4

\* What was out stays out when the server stores more.
LEMMA StoreKeepsOut ==
  ASSUME TInv, NEW s \in Sources, NEW q \in Seq(Nat), NEW k \in 0 .. Len(q), Store(s, q, k),
         dropped \subseteq dropped', lost \subseteq lost'
  PROVE  \A u \in Sources : \A n : Out(u, n) => Out(u, n)'
<1>1. \A u \in Sources : SeqSet(stored[u]) \subseteq SeqSet(stored'[u])
  BY StoreFacts DEF TInv
<1> QED BY <1>1 DEF Out

LEMMA PostOnePlace ==
  ASSUME IInv, NEW a \in Actors, Post(a)
  PROVE  OnePlace'
<1> USE DEF IInv
<1>1. PICK s \in Sources : src[a] = s
  BY DEF Post, PostOK, PostFails, PostTimesOut, TInv, ControlOK
<1>2. flight[a] \in Seq(Nat) /\ Len(flight[a]) \in Nat
  BY LenProperties DEF TInv, Shape
<1>3. ASSUME Retry(a), dropped' = dropped \/ dropped' = dropped \cup Of(s, flight[a])
      PROVE  \/ UNCHANGED <<src, flight>>
             \/ Return(a) /\ \A n \in SeqSet(flight[a]) : Out(s, n)'
  BY <1>1, <1>3 DEF Retry, Out, Of
<1>4. Retry(a) => /\ dropped' = dropped \/ dropped' = dropped \cup Of(s, flight[a])
                  /\ dropped \subseteq dropped'
  BY <1>1 DEF Retry
<1>5. CASE PostOK(a)
  <2>1. /\ Store(s, flight[a], Len(flight[a])) /\ Len(flight[a]) \in 0 .. Len(flight[a])
        /\ Return(a) /\ UNCHANGED <<read, buf, dropped, lost>>
    BY <1>1, <1>2, <1>5 DEF PostOK
  <2>2. SeqSet(flight[a]) \subseteq SeqSet(stored'[s])
    BY <1>2, <2>1, StoreFacts DEF TInv
  <2>3. \A n \in SeqSet(flight[a]) : Out(s, n)'
    BY <2>2 DEF Out
  <2>4. \A u \in Sources, n \in Nat : Out(u, n) => Out(u, n)'
    BY <1>2, <2>1, StoreKeepsOut
  <2> QED BY <1>1, <2>1, <2>3, <2>4, PostOnePlaceEffect
<1>6. ASSUME NEW k \in 0 .. MaxBatch, PostFails(a, k) PROVE OnePlace'
  <2>1. /\ Store(s, flight[a], k) /\ k \in 0 .. Len(flight[a])
        /\ Retry(a) /\ UNCHANGED <<read, buf, lost>>
    BY <1>1, <1>6 DEF PostFails
  <2>2. \A u \in Sources, n \in Nat : Out(u, n) => Out(u, n)'
    BY <1>2, <1>4, <2>1, StoreKeepsOut
  <2> QED BY <1>1, <1>3, <1>4, <2>1, <2>2, PostOnePlaceEffect
<1>7. CASE PostTimesOut(a)
  <2>1. Retry(a) /\ UNCHANGED <<read, buf, stored, lost>>
    BY <1>7 DEF PostTimesOut
  <2>2. \A u \in Sources, n \in Nat : Out(u, n) => Out(u, n)'
    BY <1>4, <2>1 DEF Out
  <2> QED BY <1>1, <1>3, <1>4, <2>1, <2>2, PostOnePlaceEffect
<1> QED BY <1>5, <1>6, <1>7 DEF Post

LEMMA LateOnePlace ==
  ASSUME IInv, NEW r \in late, NEW k \in 0 .. MaxBatch, Late(r, k)
  PROVE  OnePlace'
<1> USE DEF IInv
<1>1. /\ r.src \in Sources /\ r.lines \in Seq(Nat) /\ k \in 0 .. Len(r.lines)
      /\ Store(r.src, r.lines, k) /\ UNCHANGED <<read, buf, src, flight, dropped, lost>>
  BY DEF Late, TInv, Shape
<1>2. \A u \in Sources : \A n : Out(u, n) => Out(u, n)'
  BY <1>1, StoreKeepsOut
<1>3. \A a, u, n : Has(a, u, n)' <=> Has(a, u, n)
  BY <1>1 DEF Has
<1>4. \A u, n : (InBuf(u, n)' <=> InBuf(u, n)) /\ Lines(u)' = Lines(u)
  BY <1>1 DEF InBuf, Lines
<1> QED BY <1>2, <1>3, <1>4 DEF OnePlace

LEMMA CrashOnePlace ==
  ASSUME IInv, Crash
  PROVE  OnePlace'
<1> USE DEF IInv
<1>1. /\ lost' = lost \cup InMemory /\ UNCHANGED <<read, stored, dropped>>
      /\ \A s \in Sources : buf'[s] = <<>>
      /\ \A a \in Actors : flight'[a] = <<>>
  BY DEF Crash
<1>2. \A u \in Sources : \A n : InBuf(u, n) => <<u, n>> \in InMemory
  BY DEF InBuf, InMemory, Of
<1>3. \A a \in Actors, u \in Sources : \A n : Has(a, u, n) => <<u, n>> \in InMemory
  BY DEF Has, InMemory, Of
<1>4. \A u \in Sources : \A n : Out(u, n) \/ InBuf(u, n) \/ (\E a \in Actors : Has(a, u, n)) => Out(u, n)'
  BY <1>1, <1>2, <1>3 DEF Out
<1>5. \A u \in Sources : \A n : ~InBuf(u, n)' /\ \A a \in Actors : ~Has(a, u, n)'
  BY <1>1, SeqSetEmpty DEF InBuf, Has
<1>6. \A u : Lines(u)' = Lines(u)
  BY <1>1 DEF Lines
<1> QED BY <1>4, <1>5, <1>6 DEF OnePlace
-----------------------------------------------------------------------------
(***************************************************************************)
(* Every step keeps OnceOK.                                                *)
(***************************************************************************)
LEMMA DistinctEmpty == Distinct(<<>>)
BY DEF Distinct

LEMMA AddOnce ==
  ASSUME IInv, OnceOK, NEW s \in Sources, Add(s)
  PROVE  OnceOK'
<1> DEFINE l == ReaderOf[s]
           x == read[s] + 1
<1>1. l \in Actors /\ read[s] \in Nat /\ buf[s] \in Seq(Nat) /\ x \in Nat /\ x \notin Lines(s)
  BY CollectorAssumption DEF IInv, TInv, Shape, Actors, Lines
<1>2. SeqSet(Append(buf[s], x)) = SeqSet(buf[s]) \cup {x}
  BY <1>1, SeqSetAppend
<1>3. /\ pc[l] = "idle" /\ buf'[s] = Append(buf[s], x)
      /\ \A u \in Sources : u # s => buf'[u] = buf[u]
      /\ \A a \in Actors : a # l => src'[a] = src[a]
      /\ UNCHANGED <<flight, stored, late, faults>>
  BY <1>1 DEF Add, IInv, TInv, Shape
<1>4. SeqSet(flight[l]) = {}
  BY <1>1, <1>3, SeqSetEmpty DEF IInv, TInv, ControlOK
<1>5. \A a \in Actors : \A u, n : Has(a, u, n)' <=> Has(a, u, n)
  BY <1>3, <1>4 DEF Has
<1>6. x \notin SeqSet(buf[s]) /\ x \notin SeqSet(stored[s])
  BY <1>1 DEF IInv, TInv, OnlyRead
<1>7. Distinct(buf[s]) => Distinct(Append(buf[s], x))
  BY <1>1, <1>6, DistinctAppend
<1>8. \A u \in Sources : \A n : InBuf(u, n)' <=> InBuf(u, n) \/ (u = s /\ n = x)
  BY <1>2, <1>3 DEF InBuf
<1> QED
  BY <1>3, <1>5, <1>6, <1>7, <1>8 DEF OnceOK

LEMMA LoopOnce ==
  ASSUME IInv, OnceOK, Tick \/ \E s \in Sources : LoopNext(s)
  PROVE  OnceOK'
<1>1. /\ UNCHANGED <<buf, flight, stored, late, faults>>
      /\ src' = src \/ (pc[Loop] = "idle" /\ \A a \in Actors : a # Loop => src'[a] = src[a])
  BY DEF Tick, LoopNext, IInv, TInv, Shape
<1>2. pc[Loop] = "idle" => SeqSet(flight[Loop]) = {}
  BY SeqSetEmpty DEF IInv, TInv, ControlOK, Actors
<1>3. \A a \in Actors : \A u, n : Has(a, u, n)' <=> Has(a, u, n)
  BY <1>1, <1>2 DEF Has
<1>4. \A u, n : InBuf(u, n)' <=> InBuf(u, n)
  BY <1>1 DEF InBuf
<1> QED BY <1>1, <1>3, <1>4 DEF OnceOK

LEMMA TakeOnce ==
  ASSUME IInv, OnceOK, NEW a \in Actors, Take(a)
  PROVE  OnceOK'
<1> DEFINE s == src[a]
<1>1. s \in Sources
  BY DEF Take, IInv, TInv, ControlOK
<1>2. /\ flight'[a] = buf[s] /\ \A b \in Actors : b # a => flight'[b] = flight[b] /\ src'[b] = src[b]
      /\ src'[a] = IF buf[s] = <<>> THEN NoSource ELSE s
      /\ buf'[s] = <<>> /\ \A u \in Sources : u # s => buf'[u] = buf[u]
      /\ UNCHANGED <<stored, late, faults>>
  BY <1>1 DEF Take, IInv, TInv, Shape
<1>3. \A b \in Actors, u \in Sources : \A n : Has(b, u, n)' => Has(b, u, n) \/ InBuf(u, n)
  <2>1. buf[s] = <<>> => SeqSet(buf[s]) = {}
    BY SeqSetEmpty
  <2> QED BY <1>2, <2>1 DEF Has, InBuf
<1>4. \A u \in Sources : \A n : InBuf(u, n)' => InBuf(u, n)
  BY <1>1, <1>2, SeqSetEmpty DEF InBuf
<1> QED BY <1>1, <1>2, <1>3, <1>4, DistinctEmpty DEF OnceOK

LEMMA PostOnce ==
  ASSUME IInv, OnceOK, NEW a \in Actors, Post(a)
  PROVE  OnceOK'
<1>1. PICK s \in Sources : src[a] = s
  BY DEF Post, PostOK, PostFails, PostTimesOut, IInv, TInv, ControlOK
<1>2. flight[a] \in Seq(Nat) /\ Len(flight[a]) \in Nat /\ stored[s] \in Seq(Nat) /\ faults \in Nat
  BY LenProperties, CollectorAssumption DEF IInv, TInv, Shape
<1>3. CASE PostOK(a) /\ faults = 0
  <2>1. /\ Store(s, flight[a], Len(flight[a])) /\ Len(flight[a]) \in 0 .. Len(flight[a])
        /\ Return(a) /\ UNCHANGED <<read, buf, late, dropped, lost, faults>>
    BY <1>1, <1>2, <1>3 DEF PostOK
  <2>2. SubSeq(flight[a], 1, Len(flight[a])) = flight[a]
    BY <1>2, SubSeqFull
  <2>3. stored' = [stored EXCEPT ![s] = stored[s] \o flight[a]]
    BY <2>1, <2>2 DEF Store
  <2>4. stored'[s] = stored[s] \o flight[a] /\ \A u \in Sources : u # s => stored'[u] = stored[u]
    BY <2>3 DEF IInv, TInv, Shape
  <2>5. SeqSet(stored'[s]) = SeqSet(stored[s]) \cup SeqSet(flight[a])
    BY <1>2, <2>4, SeqSetConcat
  <2>6. SeqSet(stored[s]) \cap SeqSet(flight[a]) = {}
    BY <1>1, <1>3 DEF OnceOK, Has
  <2>7. Distinct(stored'[s])
    BY <1>2, <1>3, <2>4, <2>6, DistinctConcat DEF OnceOK
  <2>8. /\ flight'[a] = <<>> /\ \A b \in Actors : b # a => flight'[b] = flight[b] /\ src'[b] = src[b]
    BY <2>1 DEF Return, IInv, TInv, Shape
  <2>9. \A u, n : ~Has(a, u, n)'
    BY <2>8, SeqSetEmpty DEF Has
  <2>10. \A b \in Actors : \A u, n : b # a => (Has(b, u, n)' <=> Has(b, u, n))
    BY <2>8 DEF Has
  <2>11. \A u, n : InBuf(u, n)' <=> InBuf(u, n)
    BY <2>1 DEF InBuf
  <2>12. \A n \in SeqSet(flight[a]) : ~InBuf(s, n) /\ \A b \in Actors : b # a => ~Has(b, s, n)
    <3>1. \A n \in SeqSet(flight[a]) : Has(a, s, n) /\ n \in Lines(s)
      BY <1>1, HasRead DEF Has, IInv
    <3> QED BY <3>1 DEF IInv, OnePlace
  <2>13. \A u \in Sources : Distinct(buf'[u]) /\ Distinct(stored'[u])
    BY <1>3, <2>1, <2>4, <2>7 DEF OnceOK
  <2>14. \A b \in Actors : Distinct(flight'[b])
    BY <1>3, <2>8, DistinctEmpty DEF OnceOK
  <2>15. \A u \in Sources : \A n \in SeqSet(stored'[u]) :
           ~InBuf(u, n)' /\ \A b \in Actors : ~Has(b, u, n)'
    <3> SUFFICES ASSUME NEW u \in Sources, NEW n \in SeqSet(stored'[u])
                 PROVE  ~InBuf(u, n) /\ \A b \in Actors : b # a => ~Has(b, u, n)
      BY <2>9, <2>10, <2>11
    <3>1. n \in SeqSet(stored[u]) \/ (u = s /\ n \in SeqSet(flight[a]))
      BY <2>4, <2>5
    <3> QED BY <1>3, <2>12, <3>1 DEF OnceOK
  <2> QED BY <1>3, <2>1, <2>13, <2>14, <2>15 DEF OnceOK
<1>4. PostOK(a) => faults' = faults
  BY DEF PostOK
<1>5. \A k : PostFails(a, k) \/ PostTimesOut(a) => faults' # 0
  BY <1>2 DEF PostFails, PostTimesOut
<1> QED BY <1>3, <1>4, <1>5 DEF Post, OnceOK

LEMMA CrashOnce ==
  ASSUME IInv, OnceOK, Crash
  PROVE  OnceOK'
<1>1. /\ UNCHANGED <<stored, late, faults>>
      /\ \A s \in Sources : buf'[s] = <<>>
      /\ \A a \in Actors : flight'[a] = <<>>
  BY DEF Crash
<1>2. \A u \in Sources : \A n : ~InBuf(u, n)' /\ \A a \in Actors : ~Has(a, u, n)'
  BY <1>1, SeqSetEmpty DEF InBuf, Has
<1> QED BY <1>1, <1>2, DistinctEmpty DEF OnceOK
-----------------------------------------------------------------------------
LEMMA NextOK == IInv /\ OnceOK /\ [Next]_vars => (IInv /\ OnceOK)'
<1> SUFFICES ASSUME IInv, OnceOK, [Next]_vars PROVE IInv' /\ OnceOK'
  OBVIOUS
<1>1. ASSUME NEW s \in Sources, Add(s) PROVE IInv' /\ OnceOK'
  BY <1>1, AddTInv, AddOnePlace, AddOnce DEF IInv
<1>2. CASE Tick \/ \E s \in Sources : LoopNext(s)
  BY <1>2, LoopTInv, LoopOnePlace, LoopOnce DEF IInv
<1>3. ASSUME NEW a \in Actors, Take(a) PROVE IInv' /\ OnceOK'
  BY <1>3, TakeTInv, TakeOnePlace, TakeOnce DEF IInv
<1>4. ASSUME NEW a \in Actors, Post(a) PROVE IInv' /\ OnceOK'
  BY <1>4, PostTInv, PostOnePlace, PostOnce DEF IInv
<1>5. ASSUME NEW r \in late, NEW k \in 0 .. MaxBatch, Late(r, k) PROVE IInv' /\ OnceOK'
  <2>1. faults' = faults
    BY <1>5 DEF Late
  <2>2. faults # 0
    BY DEF OnceOK
  <2> QED BY <1>5, <2>1, <2>2, LateTInv, LateOnePlace DEF IInv, OnceOK
<1>6. CASE Crash
  BY <1>6, CrashTInv, CrashOnePlace, CrashOnce DEF IInv
<1>7. CASE UNCHANGED vars
  <2>1. TInv'
    BY <1>7 DEF vars, IInv, TInv, Shape, ControlOK, OnlyRead, SizesOK, Lines
  <2>2. \A a, u, n : Has(a, u, n)' <=> Has(a, u, n)
    BY <1>7 DEF vars, Has
  <2>3. \A u, n : (InBuf(u, n)' <=> InBuf(u, n)) /\ (Out(u, n)' <=> Out(u, n)) /\ Lines(u)' = Lines(u)
    BY <1>7 DEF vars, InBuf, Out, Lines
  <2>4. OnePlace'
    BY <2>2, <2>3 DEF IInv, OnePlace
  <2>5. OnceOK'
    BY <1>7, <2>2, <2>3 DEF vars, OnceOK
  <2> QED BY <2>1, <2>4, <2>5 DEF IInv
<1> QED BY <1>1, <1>2, <1>3, <1>4, <1>5, <1>6, <1>7 DEF Next

LEMMA InvOK == Spec => [](IInv /\ OnceOK)
<1>1. Init => OnceOK
  <2>1. Init => /\ late = {} /\ \A s \in Sources : buf[s] = <<>> /\ stored[s] = <<>>
                /\ \A a \in Actors : flight[a] = <<>>
    BY DEF Init
  <2> QED BY <2>1, DistinctEmpty, SeqSetEmpty DEF OnceOK
<1> QED BY <1>1, InitOK, NextOK, PTL DEF Spec

\* Every variable holds a value of its kind: in particular a buffer never
\* exceeds maxBatch, however the loop and the listeners interleave
\* (batcher.add and loop, collector/cmd/uli-collector/main.go).
THEOREM CollectorTypeOK == Spec => []TypeOK
<1>1. IInv => TypeOK
  BY TInvImpliesTypeOK DEF IInv
<1> QED BY <1>1, InvOK, PTL

\* A line that was read is in its buffer, or with exactly one goroutine, or it
\* was stored, dropped after the retries or lost in a crash (flushSource).
THEOREM CollectorLosesNoLine == Spec => []NoLineVanishes
<1>1. ASSUME IInv PROVE NoLineVanishes
  <2>1. ASSUME NEW s \in Sources, NEW n \in Lines(s), NEW a \in Actors, Has(a, s, n)
        PROVE  ~InBuf(s, n) /\ Cardinality(Carriers(s, n)) = 1
    <3>1. ~InBuf(s, n) /\ \A b \in Actors : Has(b, s, n) => b = a
      BY <1>1, <2>1 DEF IInv, OnePlace
    <3>2. Carriers(s, n) = {a}
      BY <2>1, <3>1 DEF Carriers, Has
    <3> QED BY <3>1, <3>2, FS_Singleton
  <2>2. ASSUME NEW s \in Sources, NEW n \in Lines(s), ~(\E a \in Actors : Has(a, s, n))
        PROVE  Carriers(s, n) = {} /\ (InBuf(s, n) \/ Out(s, n))
    BY <1>1, <2>2 DEF IInv, OnePlace, Carriers, Has
  <2> QED BY <2>1, <2>2 DEF NoLineVanishes
<1> QED BY <1>1, InvOK, PTL

\* As long as no post fails the server stores every line at most once: the
\* loop and a listener that flush one source never send a line both.
THEOREM CollectorStoresOnce == Spec => []StoredOnce
<1>1. OnceOK => StoredOnce
  BY DEF OnceOK, StoredOnce, Distinct
<1> QED BY <1>1, InvOK, PTL
-----------------------------------------------------------------------------
(***************************************************************************)
(* tailFile: pieces of a file and their order                              *)
(***************************************************************************)
Piece == Nat \X {"a", "b", NL}
Before(p, q) == p[1] < q[1] \/ (p[1] = q[1] /\ <<p[2], q[2]>> \in {<<"a", "b">>, <<"a", NL>>, <<"b", NL>>})
Precede(S, T) == \A p \in S, q \in T : Before(p, q)
Ordered(q) == \A i, j \in DOMAIN q : i < j => Before(q[i], q[j])
Piecewise(q) == q \in Seq(Piece) /\ Ordered(q)

\* What a reader at n has before it in q; it begins anew in one that is shorter.
Rest(q, n) == {q[k] : k \in n + 1 .. Len(q)}
Ahead(q, n) == Rest(q, IF Len(q) < n THEN 0 ELSE n)

\* The first n pieces of q, as a set.
Part(q, n) == {q[k] : k \in 1..n}

\* The pieces of the lines a from one on, and the order of all of them.
TextsOf(a, from) == UNION {Range(a[i]) : i \in from .. Len(a)}
TextsOrdered(a) ==
  /\ \A i, j \in DOMAIN a : i < j => Precede(Range(a[i]), Range(a[j]))
  /\ \A i \in DOMAIN a : Ordered(a[i]) /\ \A p \in Range(a[i]) : p[2] # NL
Unended(S) == {p \in S : p[2] # NL}

LEMMA SeqIs ==
  ASSUME NEW S, NEW q \in Seq(S)
  PROVE  /\ Len(q) \in Nat /\ DOMAIN q = 1 .. Len(q) /\ \A k \in 1 .. Len(q) : q[k] \in S
         /\ Range(q) = Part(q, Len(q)) /\ Range(q) \subseteq S
<1>1. Len(q) \in Nat /\ DOMAIN q = 1 .. Len(q) /\ \A k \in 1 .. Len(q) : q[k] \in S
  BY LenProperties, ElementOfSeq
<1> QED BY <1>1 DEF Range, Part

LEMMA JoinPieces ==
  ASSUME NEW q, Piecewise(q), NEW r, Piecewise(r), Precede(Range(q), Range(r))
  PROVE  /\ Piecewise(q \o r) /\ Len(q \o r) = Len(q) + Len(r) /\ Range(q \o r) = Range(q) \cup Range(r)
         /\ \A k \in 1 .. Len(q) : (q \o r)[k] = q[k]
         /\ \A n \in Nat : Ahead(q \o r, n) \subseteq Ahead(q, n) \cup Range(r)
<1> DEFINE c == q \o r
           l == Len(q)
           m == Len(r)
<1>1. l \in Nat /\ DOMAIN q = 1..l /\ Range(q) = {q[k] : k \in 1..l}
  BY SeqIs DEF Piecewise, Part
<1>2. m \in Nat /\ DOMAIN r = 1..m /\ Range(r) = {r[k] : k \in 1..m}
  BY SeqIs DEF Piecewise, Part
<1>3. c \in Seq(Piece) /\ Len(c) = l + m /\ \A i \in 1..l + m : c[i] = IF i <= l THEN q[i] ELSE r[i - l]
  BY ConcatProperties DEF Piecewise
<1>4. DOMAIN c = 1..l + m /\ Range(c) = {c[k] : k \in 1..l + m}
  BY <1>3, SeqIs DEF Part
<1> HIDE DEF c, l, m
<1>5. /\ \A k \in 1..l : k \in 1..l + m /\ c[k] = q[k]
      /\ \A k \in 1..m : l + k \in 1..l + m /\ c[l + k] = r[k]
      /\ \A i \in 1..l + m : (i \in 1..l /\ c[i] = q[i]) \/ (~(i <= l) /\ i - l \in 1..m /\ c[i] = r[i - l])
  <2>1. \A k \in 1..l : k \in 1..l + m /\ k <= l
    BY <1>1, <1>2
  <2>2. \A i \in 1..l + m : i \in 1..l \/ (~(i <= l) /\ i - l \in 1..m)
    BY <1>1, <1>2
  <2>4. \A k \in 1..l : k \in 1..l + m /\ c[k] = q[k]
    BY <1>3, <2>1
  <2>5. ASSUME NEW k \in 1..m PROVE l + k \in 1..l + m /\ c[l + k] = r[k]
    <3> DEFINE i == l + k
    <3>1. i \in 1..l + m /\ ~(i <= l) /\ i - l = k
      BY <1>1, <1>2
    <3> HIDE DEF i
    <3>2. c[i] = r[k]
      BY <1>3, <3>1
    <3> QED BY <3>1, <3>2 DEF i
  <2>6. \A i \in 1..l + m : (i \in 1..l /\ c[i] = q[i]) \/ (~(i <= l) /\ i - l \in 1..m /\ c[i] = r[i - l])
    BY <2>2, <2>4, <1>3
  <2> QED BY <2>4, <2>5, <2>6
<1>6. Range(c) = Range(q) \cup Range(r)
  <2>1. Range(c) \subseteq Range(q) \cup Range(r)
    BY <1>1, <1>2, <1>4, <1>5
  <2>2. Range(q) \subseteq Range(c)
    BY <1>1, <1>4, <1>5
  <2>3. Range(r) \subseteq Range(c)
    BY <1>2, <1>4, <1>5
  <2> QED BY <2>1, <2>2, <2>3
<1>7. Ordered(c)
  <2> SUFFICES ASSUME NEW i \in 1..l + m, NEW j \in 1..l + m, i < j PROVE Before(c[i], c[j])
    BY <1>4 DEF Ordered
  <2>1. CASE i \in 1..l /\ j \in 1..l
    BY <1>1, <1>5, <2>1 DEF Piecewise, Ordered
  <2>2. CASE i \in 1..l /\ j \notin 1..l
    <3>1. c[i] \in Range(q)
      BY <1>1, <1>5, <2>2
    <3>2. c[j] \in Range(r)
      BY <1>2, <1>5, <2>2
    <3> QED BY <3>1, <3>2 DEF Precede
  <2>3. CASE i \notin 1..l
    <3>1. i - l \in 1..m /\ j - l \in 1..m /\ i - l < j - l /\ c[i] = r[i - l] /\ c[j] = r[j - l]
      BY <1>1, <1>2, <1>5, <2>3
    <3> QED BY <1>2, <3>1 DEF Piecewise, Ordered
  <2> QED BY <2>1, <2>2, <2>3
<1>8. ASSUME NEW n \in Nat PROVE Ahead(c, n) \subseteq Ahead(q, n) \cup Range(r)
  <2> DEFINE w == IF l + m < n THEN 0 ELSE n
             v == IF l < n THEN 0 ELSE n
  <2>1. Ahead(c, n) = {c[k] : k \in w + 1 .. l + m} /\ Ahead(q, n) = {q[k] : k \in v + 1 .. l}
    BY <1>3 DEF Ahead, Rest, l
  <2>2. ASSUME NEW k \in w + 1 .. l + m PROVE c[k] \in {q[i] : i \in v + 1 .. l} \cup Range(r)
    <3>1. k \in 1..l + m
      BY <1>1, <1>2
    <3>2. CASE k \in 1..l
      <4>1. k \in v + 1 .. l
        BY <1>1, <1>2, <3>2
      <4> HIDE DEF v, w
      <4> QED BY <1>5, <3>1, <3>2, <4>1
    <3>3. CASE k \notin 1..l
      <4> HIDE DEF v, w
      <4> QED BY <1>2, <1>5, <3>1, <3>3
    <3> QED BY <3>2, <3>3
  <2> HIDE DEF v, w
  <2> QED BY <2>1, <2>2
<1> QED BY <1>3, <1>5, <1>6, <1>7, <1>8 DEF Piecewise, c, l, m

\* The first m pieces of a sequence and the others.
LEMMA CutPieces ==
  ASSUME NEW q, Piecewise(q), NEW m \in 0 .. Len(q)
  PROVE  LET s == SubSeq(q, 1, m)  r == SubSeq(q, m + 1, Len(q))
         IN /\ Piecewise(s) /\ Len(s) = m /\ \A k \in 1..m : s[k] = q[k]
            /\ Range(s) = Part(q, m)
            /\ Piecewise(r) /\ Len(r) = Len(q) - m /\ \A k \in 1 .. Len(q) - m : r[k] = q[m + k]
            /\ Range(r) = Rest(q, m)
            /\ Precede(Part(q, m), Range(r))
            /\ Range(q) = Part(q, m) \cup Range(r)
<1> DEFINE s == SubSeq(q, 1, m)
           r == SubSeq(q, m + 1, Len(q))
           l == Len(q)
<1>1. l \in Nat /\ DOMAIN q = 1..l /\ Range(q) = {q[k] : k \in 1..l} /\ \A k \in 1..l : q[k] \in Piece
  BY SeqIs DEF Piecewise, Part
<1>2. m \in Nat /\ m <= l /\ l - m \in Nat
  BY <1>1
<1>3. s \in Seq(Piece) /\ Len(s) = m /\ \A k \in 1..m : s[k] = q[k]
  <2>1. \A i \in 1..m : q[i] \in Piece
    BY <1>1, <1>2
  <2>2. s \in Seq(Piece) /\ Len(s) = (IF 1 <= m THEN m - 1 + 1 ELSE 0) /\ \A i \in 1 .. m - 1 + 1 : s[i] = q[1 + i - 1]
    BY <1>2, <2>1, SubSeqProperties
  <2>3. m - 1 + 1 = m /\ (~(1 <= m) => m = 0) /\ \A i \in 1..m : 1 + i - 1 = i
    BY <1>2
  <2> HIDE DEF s
  <2> QED BY <2>2, <2>3
<1>4. r \in Seq(Piece) /\ Len(r) = l - m /\ \A k \in 1..l - m : r[k] = q[m + k]
  <2>1. \A i \in m + 1 .. l : q[i] \in Piece
    BY <1>1, <1>2
  <2>2. /\ r \in Seq(Piece) /\ Len(r) = (IF m + 1 <= l THEN l - (m + 1) + 1 ELSE 0)
        /\ \A i \in 1 .. l - (m + 1) + 1 : r[i] = q[m + 1 + i - 1]
    BY <1>1, <1>2, <2>1, SubSeqProperties
  <2>3. l - (m + 1) + 1 = l - m /\ (~(m + 1 <= l) => l - m = 0) /\ \A i \in 1..l - m : m + 1 + i - 1 = m + i
    <3>1. \A x, y \in Nat : y <= x => /\ x - (y + 1) + 1 = x - y /\ (~(y + 1 <= x) => x - y = 0)
                                     /\ \A i \in 1..x - y : y + 1 + i - 1 = y + i
      OBVIOUS
    <3> HIDE DEF l
    <3> QED BY <1>1, <1>2, <3>1
  <2> HIDE DEF r
  <2> QED BY <2>2, <2>3
<1> HIDE DEF s, r, l
<1>5. DOMAIN s = 1..m /\ Range(s) = Part(q, m)
  <2>1. DOMAIN s = 1..m /\ Range(s) = Part(s, m)
    BY <1>3, SeqIs
  <2> QED BY <1>3, <2>1 DEF Part
<1>6. DOMAIN r = 1..l - m /\ Range(r) = {r[k] : k \in 1..l - m}
  BY <1>4, SeqIs DEF Part
<1>7. \A i, j \in 1..l : i < j => Before(q[i], q[j])
  BY <1>1 DEF Piecewise, Ordered
<1>8. Ordered(s)
  BY <1>1, <1>2, <1>3, <1>5, <1>7 DEF Ordered
<1>9. Ordered(r)
  <2> SUFFICES ASSUME NEW i \in 1..l - m, NEW j \in 1..l - m, i < j PROVE Before(r[i], r[j])
    BY <1>6 DEF Ordered
  <2>1. m + i \in 1..l /\ m + j \in 1..l /\ m + i < m + j
    BY <1>1, <1>2
  <2> QED BY <1>4, <1>7, <2>1
<1>10. Range(r) = {q[k] : k \in m + 1 .. l}
  <2>1. ASSUME NEW k \in 1..l - m PROVE m + k \in m + 1 .. l /\ r[k] = q[m + k]
    BY <1>1, <1>2, <1>4
  <2>2. ASSUME NEW k \in m + 1 .. l PROVE k - m \in 1..l - m /\ r[k - m] = q[k]
    <3>1. k - m \in 1..l - m /\ m + (k - m) = k
      BY <1>1, <1>2
    <3> QED BY <1>4, <3>1
  <2> QED BY <1>6, <2>1, <2>2
<1>11. Precede(Part(q, m), Range(r))
  <2>1. ASSUME NEW i \in 1..m, NEW j \in m + 1 .. l PROVE Before(q[i], q[j])
    <3>1. i \in 1..l /\ j \in 1..l /\ i < j
      BY <1>1, <1>2
    <3> QED BY <1>7, <3>1
  <2> QED BY <1>10, <2>1 DEF Precede, Part
<1>12. Range(q) = Part(q, m) \cup Range(r)
  <2>1. \A k : k \in 1..l <=> k \in 1..m \/ k \in m + 1 .. l
    BY <1>1, <1>2
  <2> QED BY <1>1, <1>10, <2>1 DEF Part
<1>13. Rest(q, m) = Range(r)
  BY <1>10 DEF Rest, l
<1> QED BY <1>3, <1>4, <1>5, <1>8, <1>9, <1>11, <1>12, <1>13 DEF Piecewise, s, r, l

LEMMA AppendLine ==
  ASSUME NEW a \in Seq(Seq(Piece)), NEW t \in Seq(Piece)
  PROVE  /\ Append(a, t) \in Seq(Seq(Piece)) /\ Len(Append(a, t)) = Len(a) + 1
         /\ \A from \in 1 .. Len(a) + 1 : TextsOf(Append(a, t), from) = TextsOf(a, from) \cup Range(t)
         /\ TextsOrdered(a) /\ Ordered(t) /\ (\A p \in Range(t) : p[2] # NL) /\ Precede(TextsOf(a, 1), Range(t)) =>
              TextsOrdered(Append(a, t))
<1> DEFINE c == Append(a, t)
           l == Len(a)
<1>1. l \in Nat /\ DOMAIN a = 1..l
  BY SeqIs
<1>2. c \in Seq(Seq(Piece)) /\ Len(c) = l + 1 /\ c[l + 1] = t /\ \A i \in 1..l : c[i] = a[i]
  BY AppendProperties
<1> HIDE DEF c
<1>3. DOMAIN c = 1..l + 1
  BY <1>2, SeqIs
<1> HIDE DEF l
<1>4. ASSUME NEW from \in 1..l + 1 PROVE TextsOf(c, from) = TextsOf(a, from) \cup Range(t)
  <2>1. TextsOf(c, from) = UNION {Range(c[i]) : i \in from .. l + 1} /\ TextsOf(a, from) = UNION {Range(a[i]) : i \in from .. l}
    BY <1>2 DEF TextsOf, l
  <2>2. \A i : i \in from .. l + 1 <=> i \in from .. l \/ i = l + 1
    BY <1>1
  <2>3. \A i \in from .. l : c[i] = a[i]
    BY <1>1, <1>2
  <2>4. UNION {Range(c[i]) : i \in from .. l + 1} = (UNION {Range(a[i]) : i \in from .. l}) \cup Range(t)
    <3>1. \A i \in from .. l : Range(c[i]) = Range(a[i])
      BY <2>3
    <3>2. from .. l + 1 = from .. l \cup {l + 1}
      BY <1>1
    <3>3. Range(c[l + 1]) = Range(t)
      BY <1>2
    <3> QED BY <3>1, <3>2, <3>3
  <2> QED BY <2>1, <2>4
<1>5. ASSUME TextsOrdered(a), Ordered(t), \A p \in Range(t) : p[2] # NL, Precede(TextsOf(a, 1), Range(t))
      PROVE  TextsOrdered(c)
  <2>1. \A i \in 1..l + 1 : i \in 1..l \/ i = l + 1
    BY <1>1
  <2>2. ASSUME NEW i \in 1..l + 1 PROVE Ordered(c[i]) /\ \A p \in Range(c[i]) : p[2] # NL
    BY <1>1, <1>2, <1>5, <2>1 DEF TextsOrdered
  <2>3. ASSUME NEW i \in 1..l + 1, NEW j \in 1..l + 1, i < j PROVE Precede(Range(c[i]), Range(c[j]))
    <3>1. i \in 1..l
      BY <1>1, <2>3
    <3>2. CASE j \in 1..l
      BY <1>1, <1>2, <1>5, <2>3, <3>1, <3>2 DEF TextsOrdered
    <3>3. CASE j = l + 1
      <4>1. Range(a[i]) \subseteq TextsOf(a, 1)
        BY <3>1 DEF TextsOf, l
      <4> QED BY <1>2, <1>5, <3>1, <3>3, <4>1 DEF Precede
    <3> QED BY <2>1, <3>2, <3>3
  <2> QED BY <1>3, <2>2, <2>3 DEF TextsOrdered
<1> QED BY <1>2, <1>4, <1>5 DEF c, l
-----------------------------------------------------------------------------
(***************************************************************************)
(* tailFile: the invariant                                                 *)
(*                                                                         *)
(* All that has been added or waits in the buffer was written before what  *)
(* the reader has ahead of it: in the file that is open, when that is the  *)
(* one with the path; in the whole of the one with the path, when another  *)
(* is open; and in what the next pass will read, when none is.             *)
(***************************************************************************)
Old(p) == p[1] <= written /\ (half => Before(p, <<written, "b">>))
Texts == TextsOf(added, 1)
Pieces == Range(file) \cup Range(held) \cup Range(buffer) \cup Texts

TailTypes ==
  /\ Piecewise(file) /\ Piecewise(held) /\ Piecewise(buffer)
  /\ added \in Seq(Seq(Piece)) /\ TextsOrdered(added) /\ base \in 0 .. Len(added)
  /\ offset \in Nat /\ pos \in Nat /\ written \in Nat
  /\ opened \in Nat /\ inode \in Nat \ {0} /\ opened <= inode
  /\ \A p \in Pieces : Old(p)
Pass ==
  /\ opened # 0 => /\ offset + Len(buffer) = pos
                   /\ Precede(Texts, Range(buffer))
                   /\ Precede(Texts \cup Range(buffer), Ahead(held, pos))
  /\ opened = inode => held = file
  /\ opened \notin {0, inode} => Precede(Texts \cup Range(buffer) \cup Range(held), Range(file))
  /\ opened = 0 => Precede(Texts, Ahead(file, offset))
Clean ==
  clean =>
    /\ TextsOf(added, base + 1) = Unended(Part(file, offset))
    /\ offset <= Len(file)
    /\ opened # 0 => /\ opened = inode /\ pos <= Len(file)
                     /\ \A k \in 1 .. Len(buffer) : buffer[k] = file[offset + k]
TailInv == TailTypes /\ Pass /\ Clean

LEMMA SameTexts ==
  ASSUME UNCHANGED added
  PROVE  Texts' = Texts /\ \A n : TextsOf(added, n)' = TextsOf(added, n)
BY DEF Texts

\* What is written is newer than all there is.
LEMMA GrowF ==
  ASSUME TailInv, NEW r, Piecewise(r), Grow(r), \A p \in Pieces, q \in Range(r) : Before(p, q),
         written' \in Nat, \A p \in Pieces \cup Range(r) : Old(p)',
         UNCHANGED <<inode, offset, opened, pos, buffer, added, clean, base>>
  PROVE  TailInv'
<1>1. file' = file \o r /\ held' = IF opened = inode THEN file' ELSE held
  BY DEF Grow, TailInv, Pass
<1>2. Piecewise(file) /\ Precede(Range(file), Range(r))
  BY DEF TailInv, TailTypes, Pieces, Precede
<1>3. /\ Piecewise(file') /\ Len(file') = Len(file) + Len(r) /\ Range(file') = Range(file) \cup Range(r)
      /\ \A k \in 1 .. Len(file) : file'[k] = file[k]
      /\ \A n \in Nat : Ahead(file', n) \subseteq Ahead(file, n) \cup Range(r)
  BY <1>1, <1>2, JoinPieces
<1>4. Len(file) \in Nat /\ Len(r) \in Nat /\ Len(file) <= Len(file')
  <2>1. Len(file) \in Nat
    BY <1>2, SeqIs DEF Piecewise
  <2>2. Len(r) \in Nat
    BY SeqIs DEF Piecewise
  <2>3. \A x, y \in Nat : x <= x + y
    OBVIOUS
  <2> QED BY <1>3, <2>1, <2>2, <2>3
<1>5. Texts' = Texts /\ Range(buffer)' = Range(buffer) /\ TextsOf(added, base + 1)' = TextsOf(added, base + 1)
  BY DEF Texts
<1>6. opened = inode => held = file
  BY DEF TailInv, Pass
<1>7. TailTypes'
  <2>1. Piecewise(held)'
    BY <1>1, <1>3 DEF TailInv, TailTypes
  <2>2. Pieces' \subseteq Pieces \cup Range(r)
    BY <1>1, <1>3, <1>5 DEF Pieces
  <2>3. \A p \in Pieces' : Old(p)'
    BY <2>2
  <2> QED BY <1>3, <2>1, <2>3 DEF TailInv, TailTypes
<1>8. \A p \in Texts \cup Range(buffer) \cup Range(held), q \in Range(r) : Before(p, q)
  BY DEF Pieces
<1>9. Pass'
  <2>1. ASSUME opened # 0, opened = inode PROVE Precede(Texts \cup Range(buffer), Ahead(file', pos))
    <3>1. Precede(Texts \cup Range(buffer), Ahead(file, pos))
      BY <1>6, <2>1 DEF TailInv, Pass
    <3>2. Ahead(file', pos) \subseteq Ahead(file, pos) \cup Range(r)
      BY <1>3 DEF TailInv, TailTypes
    <3> QED BY <1>8, <3>1, <3>2 DEF Precede
  <2>2. ASSUME opened = 0 PROVE Precede(Texts, Ahead(file', offset))
    <3>1. Precede(Texts, Ahead(file, offset))
      BY <2>2 DEF TailInv, Pass
    <3>2. Ahead(file', offset) \subseteq Ahead(file, offset) \cup Range(r)
      BY <1>3 DEF TailInv, TailTypes
    <3> QED BY <1>8, <3>1, <3>2 DEF Precede
  <2>3. ASSUME opened \notin {0, inode} PROVE Precede(Texts \cup Range(buffer) \cup Range(held), Range(file'))
    <3>1. Precede(Texts \cup Range(buffer) \cup Range(held), Range(file))
      BY <2>3 DEF TailInv, Pass
    <3> QED BY <1>3, <1>8, <3>1 DEF Precede
  <2> QED BY <1>1, <1>5, <2>1, <2>2, <2>3 DEF TailInv, Pass
<1>10. Clean'
  <2> SUFFICES ASSUME clean
               PROVE  /\ TextsOf(added, base + 1) = Unended(Part(file', offset))
                      /\ offset <= Len(file')
                      /\ opened # 0 => /\ opened = inode /\ pos <= Len(file')
                                       /\ \A k \in 1 .. Len(buffer) : buffer[k] = file'[offset + k]
    BY <1>5 DEF Clean
  <2>1. /\ TextsOf(added, base + 1) = Unended(Part(file, offset)) /\ offset <= Len(file)
        /\ opened # 0 => /\ opened = inode /\ pos <= Len(file)
                         /\ \A k \in 1 .. Len(buffer) : buffer[k] = file[offset + k]
    BY DEF TailInv, Clean
  <2>2. offset \in Nat /\ pos \in Nat /\ Len(buffer) \in Nat
    BY SeqIs DEF TailInv, TailTypes, Piecewise
  <2>3. \A k \in 1 .. offset : file'[k] = file[k]
    BY <1>3, <1>4, <2>1, <2>2
  <2>4. offset <= Len(file') /\ (opened # 0 => pos <= Len(file'))
    BY <1>3, <1>4, <2>1, <2>2
  <2>5. ASSUME opened # 0, NEW k \in 1 .. Len(buffer) PROVE buffer[k] = file'[offset + k]
    <3>1. offset + Len(buffer) = pos
      BY <2>5 DEF TailInv, Pass
    <3>2. offset + k \in 1 .. Len(file)
      BY <1>4, <2>1, <2>2, <2>5, <3>1
    <3> QED BY <1>3, <2>1, <2>5, <3>2
  <2>6. Part(file', offset) = Part(file, offset)
    BY <2>3 DEF Part
  <2> QED BY <2>1, <2>4, <2>5, <2>6
<1> QED BY <1>7, <1>9, <1>10 DEF TailInv

LEMMA InitF == InitIntake => TailInv
<1> SUFFICES ASSUME InitIntake PROVE TailInv
  OBVIOUS
<1>1. Piecewise(<<>>) /\ Range(<<>>) = {} /\ Len(<<>>) = 0
  BY DEF Piecewise, Ordered, Range
<1>2. <<>> \in Seq(Seq(Piece)) /\ TextsOrdered(<<>>)
  BY DEF TextsOrdered
<1>3. \A n \in Nat : Ahead(<<>>, n) = {}
  BY <1>1 DEF Ahead, Rest
<1>4. \A n \in 1..1 : TextsOf(<<>>, n) = {}
  BY <1>1 DEF TextsOf
<1>5. Texts = {} /\ Pieces = {} /\ TextsOf(added, base + 1) = {}
  BY <1>1, <1>4 DEF InitIntake, Texts, Pieces
<1>6. Part(file, offset) = {}
  BY DEF InitIntake, Part
<1>7. TailTypes /\ Pass
  BY <1>1, <1>2, <1>3, <1>5 DEF InitIntake, TailTypes, Pass, Precede
<1>8. Clean
  BY <1>1, <1>5, <1>6 DEF InitIntake, Clean, Unended
<1> QED BY <1>7, <1>8 DEF TailInv

\* The first newline of the buffer.
LEMMA EndIs ==
  ASSUME NEW n \in Nat, NEW I \in SUBSET (1..n), I # {}
  PROVE  Min(I) \in I /\ \A k \in I : Min(I) <= k
<1>1. IsFiniteSet(I)
  <2>1. IsFiniteSet(1..n)
    BY FS_Interval
  <2> QED BY <2>1, FS_Subset
<1>5. I \subseteq Int
  OBVIOUS
<1>2. PICK m \in I : \A k \in I : m <= k
  BY <1>1, <1>5, MinExists
<1> DEFINE P(x) == x \in I /\ \A k \in I : x =< k
<1>3. P(CHOOSE x : P(x))
  BY <1>2
<1>4. (CHOOSE x : P(x)) = Min(I)
  BY DEF Min
<1> QED BY <1>3, <1>4

LEMMA EmptyIs ==
  /\ Piecewise(<<>>) /\ Range(<<>>) = {} /\ Len(<<>>) = 0
  /\ \A n \in Nat : Ahead(<<>>, n) = {} /\ \A S : Precede(S, {})
<1>1. Piecewise(<<>>) /\ Range(<<>>) = {} /\ Len(<<>>) = 0
  BY DEF Piecewise, Ordered, Range
<1>2. \A n \in Nat : Ahead(<<>>, n) = {}
  BY <1>1 DEF Ahead, Rest
<1> QED BY <1>1, <1>2 DEF Precede

LEMMA TrimmedIs ==
  ASSUME NEW line, Piecewise(line), \A k \in 1 .. Len(line) : k < Len(line) => line[k][2] # NL
  PROVE  Piecewise(Trimmed(line)) /\ Range(Trimmed(line)) = Unended(Range(line))
<1> DEFINE l == Len(line)
<1>1. l \in Nat /\ Range(line) = {line[k] : k \in 1..l} /\ line \in Seq(Piece)
  BY SeqIs DEF Piecewise, Part
<1>2. CASE line # <<>> /\ line[l][2] = NL
  <2>1. l \in Nat \ {0}
    BY <1>1, <1>2, EmptySeq
  <2>2. l - 1 \in 0..l
    BY <2>1
  <2> DEFINE s == SubSeq(line, 1, l - 1)
  <2>3. Trimmed(line) = s
    BY <1>2 DEF Trimmed
  <2>4. Piecewise(s) /\ Len(s) = l - 1 /\ \A k \in 1..l - 1 : s[k] = line[k]
    BY <2>2, CutPieces
  <2> HIDE DEF s
  <2>5. Range(s) = {s[k] : k \in 1..l - 1}
    BY <2>4, SeqIs DEF Piecewise, Part
  <2>6. \A k \in 1..l : (k \in 1..l - 1 /\ k < l) \/ k = l
    BY <2>1
  <2>7. \A k \in 1..l - 1 : k \in 1..l /\ k < l
    BY <2>1
  <2>8. Range(s) \subseteq Unended(Range(line))
    <3> SUFFICES ASSUME NEW k \in 1..l - 1 PROVE s[k] \in Unended(Range(line))
      BY <2>5
    <3>1. k \in 1..l /\ line[k][2] # NL /\ s[k] = line[k]
      BY <2>4, <2>7
    <3> QED BY <1>1, <3>1 DEF Unended
  <2>9. Unended(Range(line)) \subseteq Range(s)
    <3> SUFFICES ASSUME NEW k \in 1..l, line[k][2] # NL PROVE line[k] \in Range(s)
      BY <1>1 DEF Unended
    <3>1. k \in 1..l - 1
      BY <1>2, <2>6
    <3> QED BY <2>4, <2>5, <3>1
  <2> QED BY <2>3, <2>4, <2>8, <2>9
<1>3. CASE ~(line # <<>> /\ line[l][2] = NL)
  <2>1. Trimmed(line) = line
    BY <1>3 DEF Trimmed
  <2>2. ASSUME NEW k \in 1..l PROVE line[k][2] # NL
    <3>1. CASE k < l
      BY <3>1
    <3>2. CASE k = l
      <4>1. line # <<>>
        BY <1>1, EmptyIs
      <4> QED BY <1>3, <3>2, <4>1
    <3> QED BY <1>1, <3>1, <3>2
  <2> QED BY <1>1, <2>1, <2>2 DEF Unended
<1> QED BY <1>2, <1>3

\* A line out of the buffer is added without its newline.
LEMMA ConsumeIs ==
  ASSUME TailInv, opened # 0, NEW line, Piecewise(line), Range(line) \subseteq Range(buffer),
         \A k \in 1 .. Len(line) : k < Len(line) => line[k][2] # NL, Consume(line)
  PROVE  /\ offset' = offset + Len(line)
         /\ added' \in Seq(Seq(Piece)) /\ TextsOrdered(added') /\ base \in 0 .. Len(added')
         /\ \A from \in 1 .. Len(added) + 1 : TextsOf(added, from)' = TextsOf(added, from) \cup Unended(Range(line))
         /\ Texts' = Texts \cup Unended(Range(line))
<1> DEFINE t == Trimmed(line)
           l == Len(added)
<1>1. Piecewise(t) /\ Range(t) = Unended(Range(line))
  BY TrimmedIs
<1>2. offset' = offset + Len(line) /\ added' = IF t = <<>> THEN added ELSE Append(added, t)
  BY DEF Consume, Advance
<1> HIDE DEF t
<1>3. added \in Seq(Seq(Piece)) /\ TextsOrdered(added) /\ base \in 0..l /\ Precede(Texts, Range(buffer))
  BY DEF TailInv, TailTypes, Pass
<1>4. l \in Nat
  BY <1>3, SeqIs
<1>5. Precede(Texts, Range(t)) /\ (\A p \in Range(t) : p[2] # NL) /\ Ordered(t) /\ t \in Seq(Piece)
  BY <1>1, <1>3 DEF Precede, Unended, Piecewise
<1> HIDE DEF l
<1>6. 1 \in 1..l + 1
  BY <1>4
<1>7. \A from : TextsOf(added, from)' = TextsOf(added', from)
  BY DEF TextsOf
<1>8. CASE t = <<>>
  <2>1. Range(t) = {}
    BY <1>8, EmptyIs
  <2> QED BY <1>1, <1>2, <1>3, <1>6, <1>7, <1>8, <2>1 DEF l, Texts
<1>9. CASE t # <<>>
  <2>1. added' = Append(added, t)
    BY <1>2, <1>9
  <2>2. /\ added' \in Seq(Seq(Piece)) /\ Len(added') = l + 1 /\ TextsOrdered(added')
        /\ \A from \in 1..l + 1 : TextsOf(added', from) = TextsOf(added, from) \cup Range(t)
    BY <1>3, <1>5, <2>1, AppendLine DEF l, Texts
  <2>3. base \in 0..l + 1
    BY <1>3, <1>4
  <2> QED BY <1>1, <1>2, <1>6, <1>7, <2>2, <2>3 DEF l, Texts
<1> QED BY <1>8, <1>9
-----------------------------------------------------------------------------
(***************************************************************************)
(* tailFile: the steps                                                     *)
(***************************************************************************)
LEMMA WriteF == TailInv /\ Write => TailInv'
<1> SUFFICES ASSUME TailInv, Write PROVE TailInv'
  OBVIOUS
<1>1. written \in Nat /\ (\A p \in Pieces : Old(p)) /\ Pieces \subseteq Piece
  <2>1. Range(file) \subseteq Piece /\ Range(held) \subseteq Piece /\ Range(buffer) \subseteq Piece
    BY SeqIs DEF TailInv, TailTypes, Piecewise
  <2>2. Texts \subseteq Piece
    <3>1. \A i \in 1 .. Len(added) : added[i] \in Seq(Piece)
      BY SeqIs DEF TailInv, TailTypes
    <3>2. \A i \in 1 .. Len(added) : Range(added[i]) \subseteq Piece
      BY <3>1, SeqIs
    <3> QED BY <3>2 DEF Texts, TextsOf
  <2> QED BY <2>1, <2>2 DEF TailInv, TailTypes, Pieces
<1>2. UNCHANGED <<inode, offset, opened, pos, buffer, added, clean, base>>
  BY DEF Write
<1>3. ASSUME ~half, written' = written + 1
      PROVE  /\ written' \in Nat /\ \A p \in Pieces : p[1] < written' /\ p[1] <= written'
             /\ \A x \in {"a", "b", NL} : <<written', x>> \in Piece
  <2>1. \A x, y \in Nat : x <= y => x < y + 1 /\ x <= y + 1
    OBVIOUS
  <2> QED BY <1>1, <1>3, <2>1 DEF Old, Piece
<1>4. CASE /\ ~half /\ written' = written + 1 /\ UNCHANGED half
           /\ Grow(<<<<written', "a">>, <<written', "b">>, <<written', NL>>>>)
  <2> DEFINE r == <<<<written', "a">>, <<written', "b">>, <<written', NL>>>>
  <2>1. r \in Seq(Piece) /\ Len(r) = 3 /\ DOMAIN r = 1..3
    BY <1>3, <1>4
  <2>2. r[1] = <<written', "a">> /\ r[2] = <<written', "b">> /\ r[3] = <<written', NL>>
    OBVIOUS
  <2> HIDE DEF r
  <2>3. Ordered(r)
    <3>1. \A i, j \in 1..3 : i < j => (i = 1 /\ j = 2) \/ (i = 1 /\ j = 3) \/ (i = 2 /\ j = 3)
      OBVIOUS
    <3>2. Before(r[1], r[2]) /\ Before(r[1], r[3]) /\ Before(r[2], r[3])
      BY <2>2 DEF Before
    <3> QED BY <2>1, <3>1, <3>2 DEF Ordered
  <2>4. \A q \in Range(r) : q[1] = written'
    <3>1. \A i \in 1..3 : i = 1 \/ i = 2 \/ i = 3
      OBVIOUS
    <3> QED BY <2>1, <2>2, <3>1 DEF Range
  <2>5. \A p \in Pieces, q \in Range(r) : Before(p, q)
    BY <1>3, <1>4, <2>4 DEF Before
  <2>6. \A p \in Pieces \cup Range(r) : Old(p)'
    BY <1>3, <1>4, <2>4 DEF Old
  <2>7. Grow(r)
    BY <1>4 DEF r
  <2> QED BY <1>2, <1>3, <1>4, <2>1, <2>3, <2>5, <2>6, <2>7, GrowF DEF Piecewise
<1>5. CASE /\ ~half /\ written' = written + 1 /\ half' = TRUE
           /\ Grow(<<<<written', "a">>>>)
  <2> DEFINE r == <<<<written', "a">>>>
  <2>1. r \in Seq(Piece) /\ Len(r) = 1 /\ DOMAIN r = 1..1
    BY <1>3, <1>5
  <2>2. r[1] = <<written', "a">>
    OBVIOUS
  <2> HIDE DEF r
  <2>3. Ordered(r)
    BY <2>1 DEF Ordered
  <2>4. \A q \in Range(r) : q = <<written', "a">>
    <3>1. Range(r) = {r[1]}
      <4>1. Range(r) = {r[i] : i \in 1..1}
        BY <2>1 DEF Range
      <4> QED BY <4>1
    <3> QED BY <2>2, <3>1
  <2>5. \A p \in Pieces, q \in Range(r) : Before(p, q)
    BY <1>3, <1>5, <2>4 DEF Before
  <2>6. \A p \in Pieces \cup Range(r) : Old(p)'
    <3>1. ASSUME NEW p \in Pieces PROVE Old(p)'
      BY <1>3, <1>5, <3>1 DEF Old, Before
    <3>2. ASSUME NEW p \in Range(r) PROVE Old(p)'
      <4>1. p[1] = written' /\ p[2] = "a"
        BY <2>4, <3>2
      <4> QED BY <1>3, <1>5, <4>1 DEF Old, Before
    <3> QED BY <3>1, <3>2
  <2>7. Grow(r)
    BY <1>5 DEF r
  <2> QED BY <1>2, <1>3, <1>5, <2>1, <2>3, <2>5, <2>6, <2>7, GrowF DEF Piecewise
<1>6. CASE /\ half /\ half' = FALSE /\ UNCHANGED written
           /\ Grow(<<<<written, "b">>, <<written, NL>>>>)
  <2> DEFINE r == <<<<written, "b">>, <<written, NL>>>>
  <2>1. r \in Seq(Piece) /\ Len(r) = 2 /\ DOMAIN r = 1..2
    BY <1>1 DEF Piece
  <2>2. r[1] = <<written, "b">> /\ r[2] = <<written, NL>>
    OBVIOUS
  <2> HIDE DEF r
  <2>3. Ordered(r)
    <3>1. \A i, j \in 1..2 : i < j => i = 1 /\ j = 2
      OBVIOUS
    <3>2. Before(r[1], r[2])
      BY <2>2 DEF Before
    <3> QED BY <2>1, <3>1, <3>2 DEF Ordered
  <2>4. \A q \in Range(r) : q = <<written, "b">> \/ q = <<written, NL>>
    <3>1. \A i \in 1..2 : i = 1 \/ i = 2
      OBVIOUS
    <3> QED BY <2>1, <2>2, <3>1 DEF Range
  <2>5. \A p \in Pieces, q \in Range(r) : Before(p, q)
    <3> SUFFICES ASSUME NEW p \in Pieces, NEW q \in Range(r) PROVE Before(p, q)
      OBVIOUS
    <3>1. p[1] < written \/ (p[1] = written /\ p[2] = "a")
      BY <1>1, <1>6 DEF Old, Before, NL
    <3>2. q[1] = written /\ q[2] \in {"b", NL}
      BY <2>4
    <3> QED BY <3>1, <3>2 DEF Before
  <2>6. \A p \in Pieces \cup Range(r) : Old(p)'
    BY <1>1, <1>6, <2>4 DEF Old
  <2>7. Grow(r)
    BY <1>6 DEF r
  <2> QED BY <1>1, <1>2, <1>6, <2>1, <2>3, <2>5, <2>6, <2>7, GrowF DEF Piecewise
<1> QED BY <1>4, <1>5, <1>6 DEF Write

LEMMA ReplaceF == TailInv /\ Replace => TailInv'
<1> SUFFICES ASSUME TailInv, Replace PROVE TailInv'
  OBVIOUS
<1>1. /\ file' = <<>> /\ clean' = FALSE
      /\ UNCHANGED <<half, offset, opened, pos, buffer, added, written, base>>
  BY DEF Replace
<1>2. \/ inode' = inode + 1 /\ held' = held
      \/ inode' = inode /\ held' = IF opened = inode THEN <<>> ELSE held
  BY DEF Replace
<1>3. inode' \in Nat \ {0} /\ opened' \in Nat /\ opened' <= inode' /\ (inode' # inode => opened' # inode')
  BY <1>1, <1>2 DEF TailInv, TailTypes
<1>4. Texts' = Texts /\ Range(buffer)' = Range(buffer) /\ Range(file)' = {} /\ Range(held)' \subseteq Range(held)
  BY <1>1, <1>2, EmptyIs DEF Texts
<1>5. TailTypes'
  <2>1. \A p \in Pieces' : Old(p)'
    BY <1>1, <1>4 DEF TailInv, TailTypes, Pieces, Old, Before
  <2>2. Piecewise(file') /\ Piecewise(held')
    BY <1>1, <1>2, EmptyIs DEF TailInv, TailTypes
  <2> QED BY <1>1, <1>3, <2>1, <2>2 DEF TailInv, TailTypes
<1>6. Pass'
  <2>1. offset \in Nat /\ pos \in Nat
    BY DEF TailInv, TailTypes
  <2>2. Ahead(file', offset) = {} /\ Range(file') = {}
    BY <1>1, <2>1, EmptyIs
  <2>3. held' # held => held' = file' /\ Ahead(held', pos) = {}
    BY <1>1, <1>2, <2>1, EmptyIs
  <2>4. opened # 0 => Precede(Texts \cup Range(buffer), Ahead(held', pos))
    BY <2>3, EmptyIs DEF TailInv, Pass
  <2>5. opened' = inode' => held' = file'
    BY <1>1, <1>2, <1>3
  <2> QED BY <1>1, <1>4, <2>2, <2>4, <2>5, EmptyIs DEF TailInv, Pass
<1>7. Clean'
  BY <1>1 DEF Clean
<1> QED BY <1>5, <1>6, <1>7 DEF TailInv

LEMMA OpenF == TailInv /\ Open => TailInv'
<1> SUFFICES ASSUME TailInv, Open PROVE TailInv'
  OBVIOUS
<1> DEFINE n == Start(Len(file))
<1>1. /\ opened = 0 /\ opened' = inode /\ held' = file /\ buffer' = <<>>
      /\ offset' = n /\ pos' = n /\ clean' = (clean \/ n = 0)
      /\ base' = IF n = 0 THEN Len(added) ELSE base
      /\ UNCHANGED <<file, inode, half, added, written, replaced>>
  BY DEF Open
<1>2. Len(file) \in Nat /\ offset \in Nat /\ Len(added) \in Nat /\ inode \in Nat \ {0}
  BY SeqIs DEF TailInv, TailTypes, Piecewise
<1>3. /\ n \in Nat /\ n <= Len(file) /\ Ahead(file, n) = Ahead(file, offset)
      /\ (offset <= Len(file) => n = offset)
  <2>1. n = IF Len(file) < offset THEN 0 ELSE offset
    BY DEF Start
  <2> HIDE DEF n
  <2>2. n \in Nat /\ n <= Len(file) /\ (offset <= Len(file) => n = offset)
    BY <1>2, <2>1
  <2>3. ~(Len(file) < n)
    BY <1>2, <2>2
  <2> QED BY <2>1, <2>2, <2>3 DEF Ahead
<1> HIDE DEF n
<1>4. Texts' = Texts /\ Range(buffer)' = {} /\ Len(buffer)' = 0
  BY <1>1, EmptyIs DEF Texts
<1>5. TailTypes'
  <2>1. Pieces' \subseteq Pieces
    BY <1>1, <1>4 DEF Pieces
  <2>2. \A p \in Pieces' : Old(p)'
    BY <1>1, <2>1 DEF TailInv, TailTypes, Old, Before
  <2>3. base' \in 0 .. Len(added)
    BY <1>1, <1>2 DEF TailInv, TailTypes
  <2> QED BY <1>1, <1>2, <1>3, <2>2, <2>3, EmptyIs DEF TailInv, TailTypes
<1>6. Pass'
  <2>1. Precede(Texts, Ahead(file, n))
    BY <1>1, <1>3 DEF TailInv, Pass
  <2>2. n + 0 = n
    BY <1>3
  <2> QED BY <1>1, <1>2, <1>4, <2>1, <2>2, EmptyIs DEF Pass
<1>7. Clean'
  <2> SUFFICES ASSUME clean' PROVE TextsOf(added, base + 1)' = Unended(Part(file, n))
    BY <1>1, <1>2, <1>3, <1>4 DEF Clean
  <2>1. CASE n = 0
    <3>1. TextsOf(added, base + 1)' = {}
      <4>1. base' + 1 .. Len(added') = {}
        BY <1>1, <1>2, <2>1
      <4> QED BY <4>1 DEF TextsOf
    <3>2. Part(file, n) = {}
      BY <2>1 DEF Part
    <3> QED BY <3>1, <3>2 DEF Unended
  <2>2. CASE n # 0
    <3>1. clean /\ base' = base /\ added' = added
      BY <1>1, <2>2
    <3>2. n = offset
      BY <1>3, <3>1 DEF TailInv, Clean
    <3> QED BY <3>1, <3>2 DEF TailInv, Clean, TextsOf
  <2> QED BY <2>1, <2>2
<1> QED BY <1>5, <1>6, <1>7 DEF TailInv

LEMMA AheadWithin ==
  ASSUME NEW q, Piecewise(q), NEW n \in Nat
  PROVE  Ahead(q, n) \subseteq Range(q)
<1>1. Len(q) \in Nat /\ Range(q) = {q[k] : k \in 1 .. Len(q)}
  BY SeqIs DEF Piecewise, Part
<1> DEFINE w == IF Len(q) < n THEN 0 ELSE n
<1>2. w \in Nat
  OBVIOUS
<1>3. Ahead(q, n) = {q[k] : k \in w + 1 .. Len(q)}
  BY DEF Ahead, Rest
<1> HIDE DEF w
<1>4. w + 1 .. Len(q) \subseteq 1 .. Len(q)
  BY <1>1, <1>2
<1> QED BY <1>1, <1>3, <1>4

\* What comes next in q is what b begins with.
LEMMA Consecutive ==
  ASSUME NEW q, NEW b, NEW n \in Nat, NEW z \in Nat, \A k \in 1..z : b[k] = q[n + k]
  PROVE  Part(q, n + z) = Part(q, n) \cup Part(b, z)
<1>1. ASSUME NEW k \in 1 .. n + z PROVE q[k] \in {q[i] : i \in 1..n} \cup {b[i] : i \in 1..z}
  <2>1. CASE k \in 1..n
    BY <2>1
  <2>2. CASE k \notin 1..n
    <3> DEFINE j == k - n
    <3>1. j \in 1..z /\ n + j = k
      BY <2>2
    <3> HIDE DEF j
    <3>2. b[j] = q[k]
      BY <3>1
    <3> QED BY <3>1, <3>2
  <2> QED BY <2>1, <2>2
<1>2. ASSUME NEW k \in 1..z PROVE b[k] \in {q[i] : i \in 1 .. n + z}
  <2> DEFINE j == n + k
  <2>1. j \in 1 .. n + z
    OBVIOUS
  <2>2. b[k] = q[j]
    BY <2>1
  <2> HIDE DEF j
  <2> QED BY <2>1, <2>2
<1>3. 1..n \subseteq 1 .. n + z
  OBVIOUS
<1> QED BY <1>1, <1>2, <1>3 DEF Part

\* A line of the buffer is added: what is left in it, and ahead, comes after it.
LEMMA ReadLineF ==
  ASSUME TailInv, opened # 0, Ends # {},
         Consume(SubSeq(buffer, 1, Min(Ends))), buffer' = SubSeq(buffer, Min(Ends) + 1, Len(buffer)),
         UNCHANGED <<pos, opened, held>>, UNCHANGED <<file, inode, half, written, replaced, clean, base>>
  PROVE  TailInv'
<1> DEFINE m == Min(Ends)
           l == Len(buffer)
           s == SubSeq(buffer, 1, m)
<1>1. /\ Piecewise(buffer) /\ l \in Nat /\ DOMAIN buffer = 1..l /\ Range(buffer) = Part(buffer, l)
      /\ offset \in Nat /\ pos \in Nat /\ Len(file) \in Nat
  BY SeqIs DEF TailInv, TailTypes, Piecewise
<1>2. m \in Ends /\ \A k \in Ends : m <= k
  <2>1. Ends \in SUBSET (1..l)
    BY <1>1 DEF Ends
  <2> QED BY <1>1, <2>1, EndIs
<1>3. m \in 1..l /\ m \in 0..l
  <2>1. m \in 1..l
    BY <1>1, <1>2 DEF Ends
  <2> QED BY <1>1, <2>1
<1> HIDE DEF m
<1>4. /\ Piecewise(s) /\ Len(s) = m /\ \A k \in 1..m : s[k] = buffer[k]
      /\ Range(s) = Part(buffer, m)
      /\ Piecewise(buffer') /\ Len(buffer') = l - m /\ \A k \in 1..l - m : buffer'[k] = buffer[m + k]
      /\ Precede(Part(buffer, m), Range(buffer'))
      /\ Range(buffer) = Part(buffer, m) \cup Range(buffer')
  BY <1>1, <1>3, CutPieces DEF m
<1>5. Range(s) = Part(buffer, m)
  BY <1>4
<1> HIDE DEF s
<1>6. \A k \in 1..m : k < m => s[k][2] # NL
  <2> SUFFICES ASSUME NEW k \in 1..m, k < m, buffer[k][2] = NL PROVE FALSE
    BY <1>4
  <2>1. k \in 1..l /\ ~(m <= k)
    BY <1>1, <1>3
  <2> QED BY <1>1, <1>2, <2>1 DEF Ends
<1>7. /\ offset' = offset + m
      /\ added' \in Seq(Seq(Piece)) /\ TextsOrdered(added') /\ base \in 0 .. Len(added')
      /\ \A from \in 1 .. Len(added) + 1 : TextsOf(added, from)' = TextsOf(added, from) \cup Unended(Range(s))
      /\ Texts' = Texts \cup Unended(Range(s))
  BY <1>4, <1>5, <1>6, ConsumeIs DEF s, m
<1>8. Texts' \subseteq Texts \cup Range(buffer) /\ Range(buffer') \subseteq Range(buffer)
  BY <1>4, <1>5, <1>7 DEF Unended
<1>9. TailTypes'
  <2>1. Pieces' \subseteq Pieces
    BY <1>8 DEF Pieces
  <2>2. \A p \in Pieces' : Old(p)'
    BY <2>1 DEF TailInv, TailTypes, Old, Before
  <2>3. offset' \in Nat
    BY <1>1, <1>3, <1>7
  <2> QED BY <1>4, <1>7, <2>2, <2>3 DEF TailInv, TailTypes
<1>10. Pass'
  <2>1. offset' + Len(buffer') = pos
    <3>1. offset + l = pos
      BY DEF TailInv, Pass
    <3>2. \A x, y \in Nat : \A z \in 1..y : x + z + (y - z) = x + y
      OBVIOUS
    <3>3. offset + m + (l - m) = pos
      <4> HIDE DEF l
      <4> QED BY <1>1, <1>3, <3>1, <3>2
    <3> QED BY <1>4, <1>7, <3>3
  <2>2. Precede(Texts', Range(buffer'))
    <3>1. Precede(Texts, Range(buffer))
      BY DEF TailInv, Pass
    <3> QED BY <1>4, <1>5, <1>7, <3>1 DEF Precede, Unended
  <2>3. Precede(Texts' \cup Range(buffer'), Ahead(held, pos))
    <3>1. Precede(Texts \cup Range(buffer), Ahead(held, pos))
      BY DEF TailInv, Pass
    <3> QED BY <1>8, <3>1 DEF Precede
  <2>4. opened \notin {0, inode} => Precede(Texts' \cup Range(buffer') \cup Range(held), Range(file))
    <3>1. opened \notin {0, inode} => Precede(Texts \cup Range(buffer) \cup Range(held), Range(file))
      BY DEF TailInv, Pass
    <3> QED BY <1>8, <3>1 DEF Precede
  <2> QED BY <2>1, <2>2, <2>3, <2>4 DEF TailInv, Pass
<1>11. Clean'
  <2> SUFFICES ASSUME clean
               PROVE  /\ TextsOf(added, base + 1)' = Unended(Part(file, offset + m))
                      /\ offset + m <= Len(file)
                      /\ opened = inode /\ pos <= Len(file)
                      /\ \A k \in 1 .. l - m : buffer'[k] = file[offset + m + k]
    BY <1>4, <1>7 DEF Clean
  <2>1. /\ TextsOf(added, base + 1) = Unended(Part(file, offset)) /\ offset <= Len(file)
        /\ opened = inode /\ pos <= Len(file) /\ \A k \in 1..l : buffer[k] = file[offset + k]
    BY DEF TailInv, Clean
  <2>2. offset + l = pos
    BY DEF TailInv, Pass
  <2>3. offset + m <= Len(file)
    BY <1>1, <1>3, <2>1, <2>2
  <2>4. \A k \in 1..l - m : buffer'[k] = file[offset + m + k]
    <3> SUFFICES ASSUME NEW k \in 1..l - m PROVE buffer[m + k] = file[offset + m + k]
      BY <1>4
    <3>1. m + k \in 1..l /\ offset + (m + k) = offset + m + k
      BY <1>1, <1>3
    <3> QED BY <2>1, <3>1
  <2>5. base + 1 \in 1 .. Len(added) + 1
    <3>1. Len(added) \in Nat /\ base \in 0 .. Len(added)
      BY SeqIs DEF TailInv, TailTypes
    <3> QED BY <3>1
  <2>6. TextsOf(added, base + 1)' = TextsOf(added, base + 1) \cup Unended(Range(s))
    BY <1>7, <2>5 DEF TextsOf
  <2>7. Part(file, offset + m) = Part(file, offset) \cup Part(buffer, m)
    <3>1. m \in Nat /\ offset \in Nat /\ \A k \in 1..m : k \in 1..l
      BY <1>1, <1>3
    <3>2. \A k \in 1..m : buffer[k] = file[offset + k]
      BY <2>1, <3>1
    <3>3. \A x, y \in Nat : (\A k \in 1..y : buffer[k] = file[x + k]) => Part(file, x + y) = Part(file, x) \cup Part(buffer, y)
      BY ONLY Consecutive
    <3> HIDE DEF l
    <3> QED BY <3>1, <3>2, <3>3
  <2> QED BY <1>5, <2>1, <2>3, <2>4, <2>6, <2>7 DEF Unended
<1> QED BY <1>9, <1>10, <1>11 DEF TailInv

\* The rest of the file goes into the buffer: nothing is ahead then.
LEMMA RefillF ==
  ASSUME TailInv, opened # 0, pos < Len(held),
         buffer' = buffer \o SubSeq(held, pos + 1, Len(held)), pos' = Len(held),
         UNCHANGED <<offset, added, opened, held>>, UNCHANGED <<file, inode, half, written, replaced, clean, base>>
  PROVE  TailInv'
<1> DEFINE r == SubSeq(held, pos + 1, Len(held))
           l == Len(buffer)
           h == Len(held)
<1>1. /\ Piecewise(buffer) /\ Piecewise(held) /\ l \in Nat /\ h \in Nat /\ DOMAIN held = 1..h
      /\ offset \in Nat /\ pos \in Nat /\ offset + l = pos
  BY SeqIs DEF TailInv, TailTypes, Pass, Piecewise
<1>2. pos \in 0..h /\ ~(h < pos) /\ pos < h
  BY <1>1
<1>3. /\ Piecewise(r) /\ Len(r) = h - pos /\ \A k \in 1..h - pos : r[k] = held[pos + k]
      /\ Range(r) = Ahead(held, pos) /\ Range(r) \subseteq Range(held)
  <2>1. Ahead(held, pos) = Rest(held, pos)
    BY <1>2 DEF Ahead
  <2>2. /\ Piecewise(r) /\ Len(r) = h - pos /\ \A k \in 1..h - pos : r[k] = held[pos + k]
        /\ Range(r) = Rest(held, pos)
        /\ Range(held) = Part(held, pos) \cup Range(r)
    BY <1>1, <1>2, CutPieces
  <2> QED BY <2>1, <2>2
<1> HIDE DEF r
<1>4. /\ Precede(Texts, Range(buffer)) /\ Precede(Texts \cup Range(buffer), Range(r))
      /\ opened \notin {0, inode} => Precede(Texts \cup Range(buffer) \cup Range(held), Range(file))
  BY <1>3 DEF TailInv, Pass
<1>5. /\ Piecewise(buffer') /\ Len(buffer') = l + (h - pos) /\ Range(buffer') = Range(buffer) \cup Range(r)
      /\ \A k \in 1..l : buffer'[k] = buffer[k]
      /\ \A k \in 1..h - pos : buffer'[l + k] = r[k]
  <2>1. Precede(Range(buffer), Range(r))
    BY <1>4 DEF Precede
  <2> QED BY <1>1, <1>3, <2>1, JoinPieces DEF r
<1>6. Ahead(held, h) = {}
  <2>1. ~(h < h) /\ h + 1 .. h = {}
    BY <1>1
  <2>2. Ahead(held, h) = {held[k] : k \in h + 1 .. h}
    BY <2>1 DEF Ahead, Rest
  <2> HIDE DEF h
  <2> QED BY <2>1, <2>2
<1>7. Texts' = Texts
  BY DEF Texts
<1>8. TailTypes'
  <2>1. Pieces' \subseteq Pieces
    BY <1>3, <1>5, <1>7 DEF Pieces
  <2>2. \A p \in Pieces' : Old(p)'
    BY <2>1 DEF TailInv, TailTypes, Old, Before
  <2> QED BY <1>1, <1>5, <2>2 DEF TailInv, TailTypes
<1>9. Pass'
  <2>1. offset + Len(buffer') = h
    <3>1. \A x, y, z \in Nat : x + y = z => \A w \in Nat : z <= w => x + (y + (w - z)) = w
      OBVIOUS
    <3> HIDE DEF l, h
    <3>2. offset + (l + (h - pos)) = h
      BY <1>1, <1>2, <3>1
    <3> QED BY <1>5, <3>2
  <2>2. Precede(Texts, Range(buffer'))
    BY <1>4, <1>5 DEF Precede
  <2>3. opened \notin {0, inode} => Precede(Texts \cup Range(buffer') \cup Range(held), Range(file))
    BY <1>3, <1>4, <1>5 DEF Precede
  <2>4. Precede(Texts \cup Range(buffer'), Ahead(held, h))
    BY <1>6, EmptyIs
  <2> QED BY <1>7, <2>1, <2>2, <2>3, <2>4 DEF TailInv, Pass
<1>10. Clean'
  <2> SUFFICES ASSUME clean
               PROVE  h <= Len(file) /\ \A k \in 1 .. l + (h - pos) : buffer'[k] = file[offset + k]
    <3>1. TextsOf(added, base + 1)' = TextsOf(added, base + 1)
      BY DEF TextsOf
    <3>2. Len(buffer') = l + (h - pos)
      BY <1>5
    <3> HIDE DEF l
    <3> QED BY <3>1, <3>2 DEF TailInv, Clean
  <2>1. held = file /\ \A k \in 1..l : buffer[k] = file[offset + k]
    BY DEF TailInv, Clean, Pass
  <2>2. ASSUME NEW k \in 1 .. l + (h - pos) PROVE buffer'[k] = file[offset + k]
    <3>1. CASE k \in 1..l
      BY <1>5, <2>1, <3>1
    <3>2. CASE k \notin 1..l
      <4> DEFINE j == k - l
      <4>1. \A x, y, z \in Nat : \A i \in 1 .. x + y : i \notin 1..x =>
              i - x \in 1..y /\ x + (i - x) = i /\ z + x + (i - x) = z + i
        OBVIOUS
      <4>3. h - pos \in Nat
        BY <1>1, <1>2
      <4> HIDE DEF l, h
      <4>4. j \in 1..h - pos /\ l + j = k /\ pos + j = offset + k
        BY <1>1, <3>2, <4>1, <4>3
      <4> HIDE DEF j
      <4>2. buffer'[l + j] = held[pos + j]
        BY <1>3, <1>5, <4>4
      <4> QED BY <2>1, <4>2, <4>4
    <3> QED BY <3>1, <3>2
  <2>3. h <= Len(file)
    BY <1>1, <2>1
  <2> QED BY <2>2, <2>3
<1> QED BY <1>8, <1>9, <1>10 DEF TailInv

\* At the end of the file what the buffer has is a line.
LEMMA CloseF ==
  ASSUME TailInv, opened # 0, Ends = {}, Consume(buffer),
         opened' = 0, held' = <<>>, pos' = 0, buffer' = <<>>,
         UNCHANGED <<file, inode, half, written, replaced, clean, base>>
  PROVE  TailInv'
<1> DEFINE l == Len(buffer)
<1>1. /\ Piecewise(buffer) /\ l \in Nat /\ DOMAIN buffer = 1..l /\ Range(buffer) = Part(buffer, l)
      /\ offset \in Nat /\ pos \in Nat /\ Len(file) \in Nat /\ offset + l = pos /\ inode \in Nat \ {0}
  BY SeqIs DEF TailInv, TailTypes, Pass, Piecewise
<1>2. \A k \in 1..l : buffer[k][2] # NL
  BY <1>1 DEF Ends
<1>3. /\ offset' = pos
      /\ added' \in Seq(Seq(Piece)) /\ TextsOrdered(added') /\ base \in 0 .. Len(added')
      /\ \A from \in 1 .. Len(added) + 1 : TextsOf(added, from)' = TextsOf(added, from) \cup Unended(Range(buffer))
      /\ Texts' = Texts \cup Unended(Range(buffer))
  BY <1>1, <1>2, ConsumeIs
<1>4. Texts' \subseteq Texts \cup Range(buffer)
  BY <1>3 DEF Unended
<1>5. TailTypes'
  <2>1. Pieces' \subseteq Pieces
    BY <1>4, EmptyIs DEF Pieces
  <2>2. \A p \in Pieces' : Old(p)'
    BY <2>1 DEF TailInv, TailTypes, Old, Before
  <2>3. 0 \in Nat /\ 0 <= inode
    BY <1>1
  <2> QED BY <1>1, <1>3, <2>2, <2>3, EmptyIs DEF TailInv, TailTypes
<1>6. Pass'
  <2>1. Precede(Texts \cup Range(buffer), Ahead(file, pos))
    <3>1. CASE opened = inode
      BY <3>1 DEF TailInv, Pass
    <3>2. CASE opened # inode
      <4>1. Precede(Texts \cup Range(buffer), Range(file))
        BY <3>2 DEF TailInv, Pass, Precede
      <4>2. Ahead(file, pos) \subseteq Range(file)
        BY <1>1, SeqIs, AheadWithin DEF TailInv, TailTypes
      <4> QED BY <4>1, <4>2 DEF Precede
    <3> QED BY <3>1, <3>2
  <2>2. Precede(Texts', Ahead(file, pos))
    BY <1>4, <2>1 DEF Precede
  <2> QED BY <1>1, <1>3, <2>2 DEF Pass
<1>7. Clean'
  <2> SUFFICES ASSUME clean
               PROVE  TextsOf(added, base + 1)' = Unended(Part(file, pos)) /\ pos <= Len(file)
    BY <1>3 DEF Clean
  <2>1. /\ TextsOf(added, base + 1) = Unended(Part(file, offset))
        /\ pos <= Len(file) /\ \A k \in 1..l : buffer[k] = file[offset + k]
    BY DEF TailInv, Clean
  <2>2. base + 1 \in 1 .. Len(added) + 1
    <3>1. Len(added) \in Nat /\ base \in 0 .. Len(added)
      BY SeqIs DEF TailInv, TailTypes
    <3> QED BY <3>1
  <2>3. TextsOf(added, base + 1)' = TextsOf(added, base + 1) \cup Unended(Range(buffer))
    BY <1>3, <2>2 DEF TextsOf
  <2>4. Part(file, offset + l) = Part(file, offset) \cup Part(buffer, l)
    <3> HIDE DEF l
    <3> QED BY <1>1, <2>1, Consecutive
  <2> QED BY <1>1, <2>1, <2>3, <2>4 DEF Unended
<1> QED BY <1>5, <1>6, <1>7 DEF TailInv

LEMMA ReadF == TailInv /\ Read => TailInv'
<1> SUFFICES ASSUME TailInv, Read PROVE TailInv'
  OBVIOUS
<1>1. opened # 0 /\ UNCHANGED <<file, inode, half, written, replaced, clean, base>>
  BY DEF Read
<1>2. CASE /\ Ends # {} /\ Consume(SubSeq(buffer, 1, Min(Ends)))
           /\ buffer' = SubSeq(buffer, Min(Ends) + 1, Len(buffer)) /\ UNCHANGED <<pos, opened, held>>
  BY <1>1, <1>2, ReadLineF
<1>3. CASE /\ Ends = {} /\ pos < Len(held)
           /\ buffer' = buffer \o SubSeq(held, pos + 1, Len(held)) /\ pos' = Len(held)
           /\ UNCHANGED <<offset, added, opened, held>>
  BY <1>1, <1>3, RefillF
<1>4. CASE /\ Ends = {} /\ pos >= Len(held) /\ Consume(buffer)
           /\ opened' = 0 /\ held' = <<>> /\ pos' = 0 /\ buffer' = <<>>
  BY <1>1, <1>4, CloseF
<1> QED BY <1>2, <1>3, <1>4 DEF Read

\* tailFile, for files of any length, written, cut and replaced any number of
\* times at any point of a pass: the lines it adds come once, in the order they
\* were written, and none is left out of a file that has only grown.
THEOREM TailAlwaysFollows == IntakeSpec => []TailFollows
<1>1. TailInv /\ [Listen \/ Follow]_<<sent, stream, tail>> => TailInv'
  <2> SUFFICES ASSUME TailInv, [Listen \/ Follow]_<<sent, stream, tail>> PROVE TailInv'
    OBVIOUS
  <2>1. CASE Follow
    BY <2>1, WriteF, ReplaceF, OpenF, ReadF DEF Follow, TailStep
  <2>2. CASE UNCHANGED tail
    <3>1. /\ UNCHANGED <<file, inode, half, offset, opened, held, pos>>
          /\ UNCHANGED <<buffer, added, written, clean, base>>
      BY <2>2 DEF tail
    <3> QED BY <3>1 DEF TailInv, TailTypes, Pass, Clean, Pieces, Texts, Old
  <2> QED BY <2>1, <2>2 DEF Listen
<1>2. TailInv => TailFollows
  <2> SUFFICES ASSUME TailInv PROVE TailFollows
    OBVIOUS
  <2>1. ASSUME NEW i \in DOMAIN added, NEW j \in DOMAIN added, NEW k \in DOMAIN added[i], NEW n \in DOMAIN added[j],
               i < j \/ (i = j /\ k < n)
        PROVE  LET p == added[i][k]  q == added[j][n]
               IN p[1] < q[1] \/ (p[1] = q[1] /\ p[2] = "a" /\ q[2] = "b")
    <3>1. added[i][k] \in Range(added[i]) /\ added[j][n] \in Range(added[j])
      BY DEF Range
    <3>2. Before(added[i][k], added[j][n])
      <4>1. CASE i < j
        BY <3>1, <4>1 DEF TailInv, TailTypes, TextsOrdered, Precede
      <4>2. CASE i = j /\ k < n
        BY <4>2 DEF TailInv, TailTypes, TextsOrdered, Ordered
      <4> QED BY <2>1, <4>1, <4>2
    <3>3. added[j][n][2] # NL
      BY <3>1 DEF TailInv, TailTypes, TextsOrdered
    <3> QED BY <3>2, <3>3 DEF Before
  <2>2. ASSUME clean
        PROVE  TextsOf(added, base + 1) = Unended(Range(SubSeq(file, 1, offset)))
    <3>1. offset \in 0 .. Len(file)
      BY <2>2, SeqIs DEF TailInv, Clean, TailTypes, Piecewise
    <3>3. Range(SubSeq(file, 1, offset)) = Part(file, offset)
      BY <3>1, CutPieces DEF TailInv, TailTypes
    <3> QED BY <2>2, <3>3 DEF TailInv, Clean
  <2> QED BY <2>1, <2>2 DEF TailFollows, TextsOf, Unended
<1> QED BY <1>1, <1>2, InitF, PTL DEF IntakeSpec
-----------------------------------------------------------------------------
(***************************************************************************)
(* Functions by recursion, and the numbers that senders write              *)
(***************************************************************************)
\* f has a value for each of 0..n, which F makes from that for a smaller one, J.
Steps(n, V, J, F) == (\A k \in 1..n : J[k] \in 0 .. k - 1) /\ \A k \in 1..n, v \in V : F[<<k, v>>] \in V
Chain(n, V, z, J, F, f) == f \in [0..n -> V] /\ f[0] = z /\ \A k \in 1..n : f[k] = F[<<k, f[J[k]]>>]

LEMMA ChainExists ==
  ASSUME NEW n \in Nat, NEW V, NEW z \in V, NEW J, NEW F, Steps(n, V, J, F)
  PROVE  \E f : Chain(n, V, z, J, F, f)
<1> USE DEF Steps, Chain
<1> DEFINE Upto(m, f) == f \in [0..m -> V] /\ f[0] = z /\ \A k \in 1..m : f[k] = F[<<k, f[J[k]]>>]
           G == {m \in Nat : \E f : Upto(m, f)}
<1>1. 0 \in G
  <2> DEFINE f == [k \in 0..0 |-> z]
  <2>1. Upto(0, f)
    OBVIOUS
  <2> QED BY <2>1
<1>2. ASSUME NEW m \in 1..n, m - 1 \in G PROVE m \in G
  <2>1. PICK f : Upto(m - 1, f)
    BY <1>2
  <2> DEFINE v == F[<<m, f[J[m]]>>]
             g == [k \in 0..m |-> IF k = m THEN v ELSE f[k]]
  <2>2. J[m] \in 0 .. m - 1 /\ f[J[m]] \in V /\ v \in V
    BY <2>1
  <2> HIDE DEF v
  <2>3. \A k \in 0 .. m - 1 : g[k] = f[k] /\ f[k] \in V
    BY <2>1
  <2>4. g[m] = v /\ g[0] = z /\ g \in [0..m -> V]
    BY <2>1, <2>2
  <2>5. ASSUME NEW k \in 1..m PROVE g[k] = F[<<k, g[J[k]]>>]
    <3>1. CASE k = m
      BY <2>2, <2>3, <2>4, <3>1 DEF v
    <3>2. CASE k # m
      <4>1. k \in 1 .. m - 1 /\ k \in 0 .. m - 1 /\ k \in 1..n
        BY <3>2
      <4>2. J[k] \in 0 .. m - 1
        BY <4>1
      <4>3. g[k] = f[k] /\ g[J[k]] = f[J[k]]
        BY <2>3, <4>1, <4>2
      <4> QED BY <2>1, <4>1, <4>3
    <3> QED BY <3>1, <3>2
  <2> HIDE DEF g
  <2>6. Upto(m, g)
    BY <2>4, <2>5
  <2>7. m \in Nat
    OBVIOUS
  <2> QED BY <2>6, <2>7
<1>3. n \in G
  <2>1. n \in 0..n
    OBVIOUS
  <2> HIDE DEF G
  <2> QED BY <1>1, <1>2, <2>1, Climb
<1> QED BY <1>3

Numeral == Range(Digits)

LEMMA DigitsAre ==
  /\ \A d \in 0..9 : Digits[d + 1] \in Numeral /\ Value(Digits[d + 1]) = d
  /\ \A c \in Numeral : Value(c) \in 0..9
  /\ \A c \in Numeral : Value(c) \in Nat
  /\ \A c \in Numeral : c # SP /\ c \notin Blank
  /\ SP \notin Blank /\ NL \in Blank
<1>1. DOMAIN Digits = 1..10
  BY DEF Digits
<1>2. \A i, j \in 1..10 : Digits[i] = Digits[j] => i = j
  BY DEF Digits
<1>3. \A i \in 1..10 : Digits[i] \in Numeral
  BY <1>1 DEF Numeral, Range
<1>4. ASSUME NEW i \in 1..10 PROVE Value(Digits[i]) = i - 1
  <2>1. i = CHOOSE j \in DOMAIN Digits : Digits[j] = Digits[i]
    BY <1>1, <1>2
  <2> QED BY <2>1 DEF Value
<1>5. ASSUME NEW i \in 1..10 PROVE Digits[i] # SP /\ Digits[i] \notin Blank
  <2>1. Digits[i] \in {"0", "1", "2", "3", "4", "5", "6", "7", "8", "9"}
    BY DEF Digits
  <2>2. \A c \in {"0", "1", "2", "3", "4", "5", "6", "7", "8", "9"} : c # "sp" /\ c # "nl" /\ c # "cr"
    OBVIOUS
  <2> QED BY <2>1, <2>2 DEF Blank, NL, SP
<1>6. ASSUME NEW c \in Numeral PROVE Value(c) \in 0..9 /\ Value(c) \in Nat /\ c # SP /\ c \notin Blank
  <2>1. PICK i \in 1..10 : c = Digits[i]
    BY <1>1 DEF Numeral, Range
  <2>2. Value(c) = i - 1 /\ i - 1 \in 0..9 /\ i - 1 \in Nat
    BY <1>4, <2>1
  <2>3. c # SP /\ c \notin Blank
    BY <1>5, <2>1
  <2> QED BY <2>2, <2>3
<1>7. ASSUME NEW d \in 0..9 PROVE Digits[d + 1] \in Numeral /\ Value(Digits[d + 1]) = d
  <2>1. d + 1 \in 1..10 /\ d + 1 - 1 = d
    OBVIOUS
  <2> QED BY <1>3, <1>4, <2>1
<1>8. SP \notin Blank /\ NL \in Blank
  BY DEF Blank, NL, SP
<1> QED BY <1>6, <1>7, <1>8

\* n counts the first digits of q.
Counts(q, n) == n[0] = 0 /\ \A k \in 1 .. Len(q) : n[k] = 10 * n[k-1] + Value(q[k])

LEMMA CountIs ==
  ASSUME NEW q \in Seq(Numeral)
  PROVE  \E n \in [0 .. Len(q) -> Nat] : Counts(q, n) /\ Count(q) = n[Len(q)]
<1> DEFINE l == Len(q)
           J == [k \in 1..l |-> k - 1]
           F == [x \in (1..l) \X Nat |-> 10 * x[2] + Value(q[x[1]])]
           Fills(n) == n = [k \in 0..l |-> IF k = 0 THEN 0 ELSE 10 * n[k-1] + Value(q[k])]
<1>1. l \in Nat /\ \A k \in 1..l : q[k] \in Numeral
  BY LenProperties, ElementOfSeq
<1>2. \A k \in 1..l : Value(q[k]) \in Nat
  <2>1. \A c \in Numeral : Value(c) \in Nat
    BY DigitsAre
  <2> QED BY <1>1, <2>1
<1> HIDE DEF l
<1>3. \E f : Chain(l, Nat, 0, J, F, f)
  <2>1. \A k \in 1..l, v \in Nat : F[<<k, v>>] = 10 * v + Value(q[k])
    OBVIOUS
  <2>2. ASSUME NEW k \in 1..l, NEW v \in Nat PROVE F[<<k, v>>] \in Nat
    <3> DEFINE c == Value(q[k])
    <3>1. c \in Nat /\ F[<<k, v>>] = 10 * v + c
      BY <1>2, <2>1
    <3> HIDE DEF c, F
    <3> QED BY <3>1
  <2>3. \A k \in 1..l : J[k] \in 0 .. k - 1
    BY <1>1
  <2> HIDE DEF F, J
  <2>4. Steps(l, Nat, J, F)
    BY <2>2, <2>3 DEF Steps
  <2>5. l \in Nat /\ 0 \in Nat
    BY <1>1
  <2> QED BY <2>4, <2>5, ChainExists
<1>4. PICK f \in [0..l -> Nat] : f[0] = 0 /\ \A k \in 1..l : f[k] = F[<<k, f[J[k]]>>]
  BY <1>3 DEF Chain
<1>5. ASSUME NEW k \in 1..l PROVE f[k] = 10 * f[k-1] + Value(q[k])
  <2>1. J[k] = k - 1 /\ f[k-1] \in Nat
    BY <1>1, <1>4
  <2> QED BY <1>4, <2>1
<1>6. Fills(f)
  <2>1. \A k \in 0..l : f[k] = IF k = 0 THEN 0 ELSE 10 * f[k-1] + Value(q[k])
    BY <1>1, <1>4, <1>5
  <2> QED BY <1>4, <2>1
<1> DEFINE n == CHOOSE h : Fills(h)
<1>7. Fills(n)
  <2> HIDE DEF Fills
  <2> QED BY <1>6
<1>8. Range(q) \subseteq Numeral
  BY <1>1, LenProperties DEF Range, l
<1>9. Count(q) = n[l]
  BY <1>8 DEF Count, Numeral, l
<1> HIDE DEF n
<1>10. n[0] = 0 /\ \A k \in 1..l : n[k] = 10 * n[k-1] + Value(q[k])
  BY <1>1, <1>7
<1>11. \A k \in 0..l : n[k] \in Nat
  <2> DEFINE G == {k \in Nat : n[k] \in Nat}
  <2>1. 0 \in G
    BY <1>10
  <2>2. ASSUME NEW k \in 1..l, k - 1 \in G PROVE k \in G
    BY <1>2, <1>10, <2>2
  <2>3. \A k \in 0..l : k \in G
    <3> HIDE DEF G
    <3> QED BY <1>1, <2>1, <2>2, Climb
  <2> QED BY <2>3
<1>12. n \in [0..l -> Nat]
  BY <1>7, <1>11
<1> QED BY <1>9, <1>10, <1>12 DEF Counts, l

LEMMA CountsAgree ==
  ASSUME NEW q \in Seq(Numeral), NEW r \in Seq(Numeral), Len(q) <= Len(r), \A k \in 1 .. Len(q) : q[k] = r[k],
         NEW n, Counts(q, n), NEW m, Counts(r, m)
  PROVE  n[Len(q)] = m[Len(q)]
<1> DEFINE G == {k \in Nat : n[k] = m[k]}
           l == Len(q)
<1>1. l \in Nat /\ Len(r) \in Nat
  BY LenProperties
<1>2. 0 \in G
  BY DEF Counts
<1>3. ASSUME NEW k \in 1..l, k - 1 \in G PROVE k \in G
  <2>1. n[k] = 10 * n[k-1] + Value(q[k])
    BY DEF Counts
  <2>2. m[k] = 10 * m[k-1] + Value(r[k])
    BY <1>1 DEF Counts
  <2> QED BY <1>3, <2>1, <2>2
<1>4. l \in G
  <2>1. l \in 0..l
    BY <1>1
  <2> HIDE DEF G, l
  <2> QED BY <1>1, <1>2, <1>3, <2>1, Climb
<1> QED BY <1>4

LEMMA CountAppend ==
  ASSUME NEW q \in Seq(Numeral), NEW d \in Numeral
  PROVE  Count(q \o <<d>>) = 10 * Count(q) + Value(d) /\ Count(<<d>>) = Value(d)
<1> DEFINE r == q \o <<d>>
<1>1. <<d>> \in Seq(Numeral) /\ Len(<<d>>) = 1 /\ <<d>>[1] = d
  OBVIOUS
<1>2. r \in Seq(Numeral) /\ Len(r) = Len(q) + 1 /\ Len(q) \in Nat
  BY <1>1, ConcatProperties, LenProperties
<1>3. r[Len(r)] = d /\ \A k \in 1 .. Len(q) : r[k] = q[k]
  BY <1>1, <1>2, ConcatProperties
<1> HIDE DEF r
<1>4. PICK n \in [0 .. Len(q) -> Nat] : Counts(q, n) /\ Count(q) = n[Len(q)]
  BY CountIs
<1>5. PICK m \in [0 .. Len(r) -> Nat] : Counts(r, m) /\ Count(r) = m[Len(r)]
  BY <1>2, CountIs
<1>6. n[Len(q)] = m[Len(q)]
  <2>1. Len(q) <= Len(r)
    BY <1>2
  <2> QED BY <1>2, <1>3, <1>4, <1>5, <2>1, CountsAgree
<1>7. m[Len(r)] = 10 * m[Len(r) - 1] + Value(r[Len(r)])
  <2>1. Len(r) \in 1 .. Len(r)
    BY <1>2
  <2>2. \A k \in 1 .. Len(r) : m[k] = 10 * m[k-1] + Value(r[k])
    BY <1>5 DEF Counts
  <2> QED BY <2>1, <2>2
<1>8. Count(r) = 10 * Count(q) + Value(d)
  BY <1>2, <1>3, <1>4, <1>5, <1>6, <1>7
<1>9. Count(<<d>>) = Value(d)
  <2>1. PICK k \in [0 .. Len(<<d>>) -> Nat] : Counts(<<d>>, k) /\ Count(<<d>>) = k[Len(<<d>>)]
    BY <1>1, CountIs
  <2>2. k[1] = 10 * k[0] + Value(d) /\ k[0] = 0
    BY <1>1, <2>1 DEF Counts
  <2>3. Value(d) \in Nat
    BY DigitsAre
  <2> QED BY <1>1, <2>1, <2>2, <2>3
<1> QED BY <1>8, <1>9 DEF r

\* What a sender writes is read back.
LEMMA DecimalIs ==
  ASSUME NEW n \in Nat
  PROVE  Decimal(n) \in Seq(Numeral) /\ Len(Decimal(n)) >= 1 /\ Count(Decimal(n)) = n
<1> DEFINE V == Seq(Numeral)
           low(k) == Digits[(k % 10) + 1]
           J == [k \in 1..n |-> k \div 10]
           F == [x \in (1..n) \X V |-> IF x[1] < 10 THEN <<Digits[x[1] + 1]>> ELSE x[2] \o <<low(x[1])>>]
           Fills(f) == f = [k \in 0..n |-> IF k < 10 THEN <<Digits[k + 1]>> ELSE f[k \div 10] \o <<Digits[(k % 10) + 1]>>]
<1>1. \A k \in Nat : k % 10 \in 0..9 /\ k \div 10 \in Nat /\ k = 10 * (k \div 10) + (k % 10)
  OBVIOUS
<1>2. \A k \in 1..n : k \div 10 \in 0 .. k - 1
  BY <1>1
<1>3. \A k \in Nat : low(k) \in Numeral /\ Value(low(k)) = k % 10
  BY <1>1, DigitsAre
<1>4. ASSUME NEW k \in 0..9 PROVE <<Digits[k + 1]>> \in V
  <2> DEFINE d == Digits[k + 1]
  <2>1. d \in Numeral
    BY DigitsAre
  <2> HIDE DEF d
  <2>2. <<d>> \in Seq(Numeral)
    BY <2>1
  <2> QED BY <2>2 DEF d
<1>5. \A k \in Nat, v \in V : v \o <<low(k)>> \in V
  <2> SUFFICES ASSUME NEW k \in Nat, NEW v \in V PROVE v \o <<low(k)>> \in V
    OBVIOUS
  <2>1. <<low(k)>> \in V
    <3>1. low(k) \in Numeral
      BY <1>3
    <3> HIDE DEF low
    <3> QED BY <3>1
  <2> HIDE DEF low
  <2> QED BY <2>1, ConcatProperties
<1>6. PICK f \in [0..n -> V] : f[0] = <<Digits[1]>> /\ \A k \in 1..n : f[k] = F[<<k, f[J[k]]>>]
  <2>1. \A k \in 1..n, v \in V : F[<<k, v>>] = IF k < 10 THEN <<Digits[k + 1]>> ELSE v \o <<low(k)>>
    OBVIOUS
  <2>2. ASSUME NEW k \in 1..n, NEW v \in V PROVE F[<<k, v>>] \in V
    <3>1. F[<<k, v>>] = IF k < 10 THEN <<Digits[k + 1]>> ELSE v \o <<low(k)>>
      BY <2>1
    <3>2. k < 10 => k \in 0..9
      OBVIOUS
    <3>3. k \in Nat
      OBVIOUS
    <3> HIDE DEF F, low, V
    <3>4. k < 10 => <<Digits[k + 1]>> \in V
      BY <1>4, <3>2
    <3>5. v \o <<low(k)>> \in V
      BY <1>5, <3>3
    <3> QED BY <3>1, <3>4, <3>5
  <2>3. \A k \in 1..n : J[k] \in 0 .. k - 1
    BY <1>2
  <2>4. <<Digits[1]>> \in V
    <3>1. 0 \in 0..9 /\ 0 + 1 = 1
      OBVIOUS
    <3> HIDE DEF V
    <3> QED BY <1>4, <3>1
  <2> HIDE DEF F, J, V
  <2>5. Steps(n, V, J, F)
    BY <2>2, <2>3 DEF Steps
  <2>6. PICK f : Chain(n, V, <<Digits[1]>>, J, F, f)
    BY <2>4, <2>5, ChainExists
  <2> QED BY <2>6 DEF Chain
<1>7. Fills(f)
  <2>1. ASSUME NEW k \in 0..n PROVE f[k] = IF k < 10 THEN <<Digits[k + 1]>> ELSE f[k \div 10] \o <<low(k)>>
    <3>0. k = 0 \/ k \in 1..n
      OBVIOUS
    <3>1. CASE k = 0
      BY <1>6, <3>1
    <3>2. CASE k \in 1..n
      <4>1. J[k] = k \div 10 /\ f[k \div 10] \in V
        BY <1>2, <1>6, <3>2
      <4>2. f[k] = F[<<k, f[k \div 10]>>]
        BY <1>6, <3>2, <4>1
      <4> HIDE DEF J, V, low
      <4> QED BY <3>2, <4>1, <4>2
    <3> QED BY <3>0, <3>1, <3>2
  <2> QED BY <1>6, <2>1
<1> DEFINE dec == CHOOSE h : Fills(h)
<1>8. Fills(dec)
  <2> HIDE DEF Fills
  <2> QED BY <1>7
<1>9. Decimal(n) = dec[n]
  BY DEF Decimal
<1> HIDE DEF dec
<1>10. \A k \in 0..n : dec[k] = IF k < 10 THEN <<Digits[k + 1]>> ELSE dec[k \div 10] \o <<low(k)>>
  BY <1>8
<1> DEFINE Good(k) == dec[k] \in V /\ Len(dec[k]) >= 1 /\ Count(dec[k]) = k
           G == {k \in Nat : \A j \in 0..k : Good(j)}
<1>11. \A k \in 0..n : k < 10 => Good(k)
  <2> SUFFICES ASSUME NEW k \in 0..n, k < 10 PROVE Good(k)
    OBVIOUS
  <2>1. k \in 0..9 /\ dec[k] = <<Digits[k + 1]>>
    <3>1. k \in 0..9
      OBVIOUS
    <3>2. dec[k] = IF k < 10 THEN <<Digits[k + 1]>> ELSE dec[k \div 10] \o <<low(k)>>
      BY <1>10
    <3> QED BY <3>1, <3>2
  <2> DEFINE d == Digits[k + 1]
  <2>2. d \in Numeral /\ Value(d) = k
    BY <2>1, DigitsAre
  <2> HIDE DEF d
  <2>3. <<d>> \in V /\ Len(<<d>>) = 1 /\ Count(<<d>>) = k
    BY <2>2, CountAppend, EmptySeq
  <2> QED BY <2>1, <2>3 DEF d
<1>12. 0 \in G
  BY <1>11
<1>13. ASSUME NEW k \in 1..n, k - 1 \in G PROVE k \in G
  <2>1. Good(k)
    <3>1. CASE k < 10
      BY <1>11, <3>1
    <3>2. CASE k >= 10
      <4> DEFINE j == k \div 10
                 d == low(k)
      <4>1. j \in 0 .. k - 1 /\ j \in Nat /\ k = 10 * j + (k % 10) /\ d \in Numeral /\ Value(d) = k % 10
        BY <1>1, <1>2, <1>3
      <4>2. dec[k] = dec[j] \o <<d>>
        <5>1. k \in 0..n /\ ~(k < 10)
          BY <3>2
        <5>2. dec[k] = IF k < 10 THEN <<Digits[k + 1]>> ELSE dec[k \div 10] \o <<low(k)>>
          BY <1>10, <5>1
        <5> QED BY <5>1, <5>2
      <4>3. dec[j] \in V /\ Len(dec[j]) >= 1 /\ Count(dec[j]) = j
        BY <1>13, <4>1
      <4> HIDE DEF j, d
      <4>4. Count(dec[k]) = k
        <5>1. Count(dec[j] \o <<d>>) = 10 * Count(dec[j]) + Value(d)
          BY <4>1, <4>3, CountAppend
        <5> QED BY <4>1, <4>2, <4>3, <5>1
      <4>5. dec[k] \in V /\ Len(dec[k]) >= 1
        <5>1. <<d>> \in Seq(Numeral) /\ Len(<<d>>) = 1 /\ dec[j] \in Seq(Numeral)
          BY <4>1, <4>3
        <5>2. Len(dec[j]) \in Nat
          BY <5>1, LenProperties
        <5> QED BY <4>2, <4>3, <5>1, <5>2, ConcatProperties
      <4> QED BY <4>4, <4>5
    <3> QED BY <3>1, <3>2
  <2>2. \A j \in 0..k : j \in 0 .. k - 1 \/ j = k
    OBVIOUS
  <2> HIDE DEF Good
  <2>3. k \in Nat /\ \A j \in 0 .. k - 1 : Good(j)
    BY <1>13
  <2> QED BY <2>1, <2>2, <2>3
<1>14. n \in G
  <2>1. n \in 0..n
    OBVIOUS
  <2> HIDE DEF G
  <2> QED BY <1>12, <1>13, <2>1, Climb
<1> QED BY <1>9, <1>14
-----------------------------------------------------------------------------
(***************************************************************************)
(* One message of a stream                                                 *)
(***************************************************************************)
LEMMA TrimIs ==
  ASSUME NEW S, NEW q \in Seq(S), NEW k \in 0 .. Len(q), k = 0 \/ q[k] \notin Blank,
         \A i \in k + 1 .. Len(q) : q[i] \in Blank
  PROVE  TrimRight(q) = SubSeq(q, 1, k)
<1> DEFINE T == {0} \cup {i \in DOMAIN q : q[i] \notin Blank}
<1>1. Len(q) \in Nat /\ DOMAIN q = 1 .. Len(q)
  BY LenProperties
<1>2. k \in T /\ T \subseteq 0 .. Len(q)
  BY <1>1
<1>3. \A i \in T : k >= i
  <2> SUFFICES ASSUME NEW i \in T PROVE k >= i
    OBVIOUS
  <2>1. i \in 0 .. Len(q) /\ i \notin k + 1 .. Len(q)
    BY <1>1, <1>2
  <2> QED BY <1>1, <2>1
<1> HIDE DEF T
<1>4. Max(T) = k
  <2>1. \A x \in T : (\A y \in T : x >= y) => x = k
    BY <1>1, <1>2, <1>3
  <2> QED BY <1>2, <1>3, <2>1 DEF Max
<1> QED BY <1>4 DEF TrimRight, T

LEMMA TrimSeq ==
  ASSUME NEW S, NEW q \in Seq(S)
  PROVE  TrimRight(q) \in Seq(S)
<1> DEFINE T == {0} \cup {i \in DOMAIN q : q[i] \notin Blank}
<1>1. Len(q) \in Nat /\ DOMAIN q = 1 .. Len(q) /\ \A i \in 1 .. Len(q) : q[i] \in S
  BY LenProperties, ElementOfSeq
<1>2. T \subseteq 0 .. Len(q) /\ T # {} /\ T \subseteq Int
  BY <1>1
<1>3. IsFiniteSet(T)
  <2>1. IsFiniteSet(0 .. Len(q))
    BY <1>1, FS_Interval
  <2> HIDE DEF T
  <2> QED BY <1>2, <2>1, FS_Subset
<1> HIDE DEF T
<1>4. PICK m \in T : \A n \in T : n <= m
  BY <1>2, <1>3, MaxExists
<1>5. Max(T) \in T
  <2>1. \A n \in T : m >= n
    BY <1>2, <1>4
  <2> QED BY <2>1 DEF Max
<1>6. Max(T) \in 0 .. Len(q)
  BY <1>2, <1>5
<1>7. \A i \in 1 .. Max(T) : q[i] \in S
  BY <1>1, <1>6
<1>8. SubSeq(q, 1, Max(T)) \in Seq(S)
  BY <1>6, <1>7, SubSeqProperties
<1> QED BY <1>8 DEF TrimRight, T

LEMMA CountIsNat ==
  ASSUME NEW S, NEW q \in Seq(S)
  PROVE  Count(q) \in Nat
<1>1. CASE Range(q) \subseteq Range(Digits)
  <2>1. DOMAIN q = 1 .. Len(q) /\ Len(q) \in Nat
    BY LenProperties
  <2>2. \A k \in 1 .. Len(q) : q[k] \in Numeral
    BY <1>1, <2>1 DEF Range, Numeral
  <2>3. q \in Seq(Numeral)
    BY <2>1, <2>2
  <2>4. PICK n \in [0 .. Len(q) -> Nat] : Count(q) = n[Len(q)]
    BY <2>3, CountIs
  <2> QED BY <2>1, <2>4
<1>2. CASE ~(Range(q) \subseteq Range(Digits))
  BY <1>2 DEF Count
<1> QED BY <1>1, <1>2

First(q, i, c, k) == k \in i .. Len(q) /\ q[k] = c /\ \A j \in i .. k - 1 : q[j] # c

LEMMA FirstIs ==
  ASSUME NEW S, NEW q \in Seq(S), NEW i \in Nat, NEW c, NEW k, First(q, i, c, k)
  PROVE  Places(q, i, c) # {} /\ Min(Places(q, i, c)) = k
<1> DEFINE P == Places(q, i, c)
<1>1. Len(q) \in Nat /\ k \in i .. Len(q)
  BY LenProperties DEF First
<1>2. k \in P /\ P \subseteq i .. Len(q)
  BY DEF Places, First
<1>3. \A j \in P : k <= j
  <2> SUFFICES ASSUME NEW j \in P PROVE k <= j
    OBVIOUS
  <2>1. j \in i .. Len(q) /\ q[j] = c
    BY DEF Places
  <2>2. j \notin i .. k - 1
    BY <2>1 DEF First
  <2> QED BY <1>1, <2>1, <2>2
<1> HIDE DEF P
<1>4. \A x \in P : (\A y \in P : x <= y) => x = k
  BY <1>1, <1>2, <1>3
<1>5. Min(P) = k
  BY <1>2, <1>3, <1>4 DEF Min
<1> QED BY <1>2, <1>5 DEF P

LEMMA FirstOrNone ==
  ASSUME NEW S, NEW q \in Seq(S), NEW i \in Nat, NEW c
  PROVE  (\E k : First(q, i, c, k)) \/ \A j \in i .. Len(q) : q[j] # c
<1> DEFINE P == {j \in i .. Len(q) : q[j] = c}
<1>1. Len(q) \in Nat
  BY LenProperties
<1> SUFFICES ASSUME P # {} PROVE \E k : First(q, i, c, k)
  OBVIOUS
<1>2. P \subseteq Int /\ IsFiniteSet(P)
  <2>1. IsFiniteSet(i .. Len(q)) /\ P \subseteq i .. Len(q)
    BY <1>1, FS_Interval
  <2> QED BY <1>1, <2>1, FS_Subset
<1>3. PICK k \in P : \A j \in P : k <= j
  <2> HIDE DEF P
  <2> QED BY <1>2, MinExists
<1>4. \A j \in i .. k - 1 : q[j] # c
  <2> SUFFICES ASSUME NEW j \in i .. k - 1, q[j] = c PROVE FALSE
    OBVIOUS
  <2>1. k \in i .. Len(q)
    OBVIOUS
  <2>2. j \in i .. Len(q) /\ j < k /\ j \in Int /\ k \in Int
    BY <1>1, <2>1
  <2> QED BY <1>3, <2>2
<1>5. First(q, i, c, k)
  BY <1>4 DEF First
<1> QED BY <1>5

LEMMA CountedIs ==
  ASSUME NEW S, NEW q \in Seq(S), NEW i \in 1 .. Len(q)
  PROVE  /\ (\A j \in i .. Len(q) : q[j] # SP) => Counted(q, i) = <<>>
         /\ \A k : First(q, i, SP, k) =>
              LET n == Count(TrimRight(SubSeq(q, i, k - 1)))
              IN Counted(q, i) = IF n = 0 \/ n > MaxFrame \/ k + n > Len(q) THEN <<>>
                                 ELSE <<SubSeq(q, k + 1, k + n), k + n + 1>>
<1>1. ASSUME \A j \in i .. Len(q) : q[j] # SP PROVE Counted(q, i) = <<>>
  <2>1. Places(q, i, SP) = {}
    BY <1>1 DEF Places
  <2> QED BY <2>1 DEF Counted
<1>2. ASSUME NEW k, First(q, i, SP, k)
      PROVE  LET n == Count(TrimRight(SubSeq(q, i, k - 1)))
             IN Counted(q, i) = IF n = 0 \/ n > MaxFrame \/ k + n > Len(q) THEN <<>>
                                ELSE <<SubSeq(q, k + 1, k + n), k + n + 1>>
  <2>1. i \in Nat
    BY LenProperties
  <2>2. Places(q, i, SP) # {} /\ Min(Places(q, i, SP)) = k
    BY <1>2, <2>1, FirstIs
  <2> QED BY <2>2 DEF Counted
<1> QED BY <1>1, <1>2

LEMMA EndedIs ==
  ASSUME NEW S, NEW q \in Seq(S), NEW i \in 1 .. Len(q)
  PROVE  /\ (\A j \in i .. Len(q) : q[j] # NL) => Ended(q, i) = <<TrimRight(SubSeq(q, i, Len(q))), Len(q) + 1>>
         /\ \A k : First(q, i, NL, k) => Ended(q, i) = <<TrimRight(SubSeq(q, i, k)), k + 1>>
<1>1. ASSUME \A j \in i .. Len(q) : q[j] # NL
      PROVE  Ended(q, i) = <<TrimRight(SubSeq(q, i, Len(q))), Len(q) + 1>>
  <2>1. Places(q, i, NL) = {}
    BY <1>1 DEF Places
  <2> QED BY <2>1 DEF Ended
<1>2. ASSUME NEW k, First(q, i, NL, k) PROVE Ended(q, i) = <<TrimRight(SubSeq(q, i, k)), k + 1>>
  <2>1. i \in Nat
    BY LenProperties
  <2>2. Places(q, i, NL) # {} /\ Min(Places(q, i, NL)) = k
    BY <1>2, <2>1, FirstIs
  <2> QED BY <2>2 DEF Ended
<1> QED BY <1>1, <1>2

LEMMA PartOf ==
  ASSUME NEW S, NEW q \in Seq(S), NEW i \in 1 .. Len(q) + 1, NEW k \in i - 1 .. Len(q)
  PROVE  /\ SubSeq(q, i, k) \in Seq(S) /\ Len(SubSeq(q, i, k)) = k - i + 1
         /\ \A j \in 1 .. k - i + 1 : SubSeq(q, i, k)[j] = q[i + j - 1]
<1>1. Len(q) \in Nat /\ \A j \in 1 .. Len(q) : q[j] \in S
  BY LenProperties, ElementOfSeq
<1>2. i \in Int /\ k \in Int /\ \A j \in i..k : q[j] \in S
  BY <1>1
<1> QED BY <1>1, <1>2, SubSeqProperties

\* A message is a part of what there is, and the next one begins behind it.
LEMMA MessageIs ==
  ASSUME NEW S, NEW q \in Seq(S), NEW i \in 1 .. Len(q) + 1
  PROVE  Message(q, i) = <<>> \/ \E t \in Seq(S), j \in i + 1 .. Len(q) + 1 : Message(q, i) = <<t, j>>
<1>1. Len(q) \in Nat /\ i \in Nat
  BY LenProperties
<1>2. CASE i > Len(q)
  BY <1>2 DEF Message
<1>3. CASE i <= Len(q) /\ q[i] \in Range(Digits)
  <2>0. i \in 1 .. Len(q) /\ Message(q, i) = Counted(q, i)
    BY <1>1, <1>3 DEF Message
  <2>1. CASE \A j \in i .. Len(q) : q[j] # SP
    BY <2>0, <2>1, CountedIs
  <2>2. CASE \E k : First(q, i, SP, k)
    <3>1. PICK k : First(q, i, SP, k)
      BY <2>2
    <3>2. k \in i .. Len(q)
      BY <3>1 DEF First
    <3> DEFINE n == Count(TrimRight(SubSeq(q, i, k - 1)))
    <3>3. n \in Nat
      <4>1. SubSeq(q, i, k - 1) \in Seq(S)
        <5>1. k - 1 \in i - 1 .. Len(q)
          BY <1>1, <3>2
        <5> QED BY <5>1, PartOf
      <4> HIDE DEF n
      <4> QED BY <4>1, TrimSeq, CountIsNat DEF n
    <3>4. Counted(q, i) = IF n = 0 \/ n > MaxFrame \/ k + n > Len(q) THEN <<>>
                          ELSE <<SubSeq(q, k + 1, k + n), k + n + 1>>
      BY <2>0, <3>1, CountedIs
    <3> HIDE DEF n
    <3>5. CASE n = 0 \/ n > MaxFrame \/ k + n > Len(q)
      BY <2>0, <3>4, <3>5
    <3>6. CASE ~(n = 0 \/ n > MaxFrame \/ k + n > Len(q))
      <4>1. k + 1 \in 1 .. Len(q) + 1 /\ k + n \in k + 1 - 1 .. Len(q) /\ k + n + 1 \in i + 1 .. Len(q) + 1
        BY <1>1, <3>2, <3>3, <3>6
      <4>2. SubSeq(q, k + 1, k + n) \in Seq(S)
        BY <4>1, PartOf
      <4> QED BY <2>0, <3>4, <3>6, <4>1, <4>2
    <3> QED BY <3>5, <3>6
  <2> QED BY <1>1, <2>1, <2>2, FirstOrNone
<1>4. CASE i <= Len(q) /\ q[i] \notin Range(Digits)
  <2>0. i \in 1 .. Len(q) /\ Message(q, i) = Ended(q, i)
    BY <1>1, <1>4 DEF Message
  <2>1. PICK e \in i .. Len(q) : Ended(q, i) = <<TrimRight(SubSeq(q, i, e)), e + 1>>
    <3>1. CASE \A j \in i .. Len(q) : q[j] # NL
      <4>1. Len(q) \in i .. Len(q)
        BY <1>1, <1>4
      <4> QED BY <2>0, <3>1, <4>1, EndedIs
    <3>2. CASE \E k : First(q, i, NL, k)
      <4>1. PICK k : First(q, i, NL, k)
        BY <3>2
      <4>2. k \in i .. Len(q)
        BY <4>1 DEF First
      <4> QED BY <2>0, <4>1, <4>2, EndedIs
    <3> QED BY <1>1, <3>1, <3>2, FirstOrNone
  <2>2. SubSeq(q, i, e) \in Seq(S)
    <3>1. e \in i - 1 .. Len(q)
      BY <1>1, <2>1
    <3> QED BY <3>1, PartOf
  <2>3. TrimRight(SubSeq(q, i, e)) \in Seq(S)
    BY <2>2, TrimSeq
  <2>4. e + 1 \in i + 1 .. Len(q) + 1
    BY <1>1, <2>1
  <2> QED BY <2>0, <2>1, <2>3, <2>4
<1> QED BY <1>1, <1>2, <1>3, <1>4
-----------------------------------------------------------------------------
(***************************************************************************)
(* The messages of a stream, one after the other                           *)
(***************************************************************************)
\* What is taken from byte i on.
Taken(q, from, i) ==
  IF Message(q, i) = <<>> THEN <<>> ELSE Kept(Message(q, i)[1]) \o from[Message(q, i)[2]]

LEMMA PairIs == \A a, b : <<a, b>> # <<>> /\ <<a, b>>[1] = a /\ <<a, b>>[2] = b
<1> SUFFICES ASSUME NEW a, NEW b PROVE <<a, b>> # <<>> /\ <<a, b>>[1] = a /\ <<a, b>>[2] = b
  OBVIOUS
<1>1. Len(<<a, b>>) = 2 /\ Len(<<>>) = 0
  OBVIOUS
<1> QED BY <1>1

\* The message at i is t, and j is behind it.
Goes(q, i, t, j) == Message(q, i) = <<t, j>>

LEMMA TakenIs ==
  ASSUME NEW q, NEW from, NEW i, NEW t, NEW j, Goes(q, i, t, j)
  PROVE  Taken(q, from, i) = Kept(t) \o from[j]
<1> DEFINE m == Message(q, i)
<1>1. m # <<>> /\ m[1] = t /\ m[2] = j
  BY PairIs DEF Goes
<1>2. Taken(q, from, i) = IF m = <<>> THEN <<>> ELSE Kept(m[1]) \o from[m[2]]
  BY DEF Taken
<1> HIDE DEF m
<1> QED BY <1>1, <1>2

LEMMA HandleIs ==
  ASSUME NEW S, NEW q \in Seq(S)
  PROVE  \E from \in [1 .. Len(q) + 1 -> Seq(Seq(S))] :
           /\ \A i \in 1 .. Len(q) + 1 : from[i] = Taken(q, from, i)
           /\ handleTCP(q) = from[1]
<1> DEFINE V == Seq(Seq(S))
           n == Len(q)
           D == 1 .. n + 1
           M(i) == Message(q, i)
           J == [k \in 1..n |-> IF M(n + 1 - k) = <<>> THEN 0 ELSE n + 1 - M(n + 1 - k)[2]]
           F == [x \in (1..n) \X V |-> IF M(n + 1 - x[1]) = <<>> THEN <<>> ELSE Kept(M(n + 1 - x[1])[1]) \o x[2]]
           Fills(from) == from = [i \in D |-> Taken(q, from, i)]
<1>1. n \in Nat
  BY LenProperties
<1>2. \A i \in D : M(i) = <<>> \/ \E t \in Seq(S), j \in i + 1 .. n + 1 : M(i) = <<t, j>>
  BY MessageIs
<1>3. M(n + 1) = <<>>
  BY <1>1 DEF Message
<1>4. \A t \in Seq(S) : Kept(t) \in V
  <2> SUFFICES ASSUME NEW t \in Seq(S) PROVE Kept(t) \in V
    OBVIOUS
  <2> DEFINE T == Seq(S)
  <2>1. t \in T
    OBVIOUS
  <2> HIDE DEF T
  <2>2. <<t>> \in Seq(T) /\ <<>> \in Seq(T)
    BY <2>1
  <2> QED BY <2>2 DEF Kept, T
<1>5. <<>> \in V /\ \A v, w \in V : v \o w \in V
  BY EmptySeq, ConcatProperties
<1> HIDE DEF n, M, V
<1>6. PICK f \in [0..n -> V] : f[0] = <<>> /\ \A k \in 1..n : f[k] = F[<<k, f[J[k]]>>]
  <2>1. \A k \in 1..n : J[k] \in 0 .. k - 1
    <3> SUFFICES ASSUME NEW k \in 1..n PROVE J[k] \in 0 .. k - 1
      OBVIOUS
    <3> DEFINE i == n + 1 - k
    <3>1. i \in D /\ i \in Int /\ k = n + 1 - i /\ k \in Int
      BY <1>1
    <3>2. J[k] = IF M(i) = <<>> THEN 0 ELSE n + 1 - M(i)[2]
      OBVIOUS
    <3> HIDE DEF i, J
    <3>3. CASE M(i) = <<>>
      BY <3>1, <3>2, <3>3
    <3>4. CASE M(i) # <<>>
      <4>1. PICK t \in Seq(S), j \in i + 1 .. n + 1 : M(i) = <<t, j>>
        BY <1>2, <3>1, <3>4
      <4> QED BY <1>1, <3>1, <3>2, <3>4, <4>1
    <3> QED BY <3>3, <3>4
  <2>2. \A k \in 1..n, v \in V : F[<<k, v>>] \in V
    <3> SUFFICES ASSUME NEW k \in 1..n, NEW v \in V PROVE F[<<k, v>>] \in V
      OBVIOUS
    <3> DEFINE i == n + 1 - k
    <3>1. i \in D
      BY <1>1
    <3>2. F[<<k, v>>] = IF M(i) = <<>> THEN <<>> ELSE Kept(M(i)[1]) \o v
      OBVIOUS
    <3> HIDE DEF i, F
    <3>3. CASE M(i) = <<>>
      BY <1>5, <3>2, <3>3
    <3>4. CASE M(i) # <<>>
      <4>1. PICK t \in Seq(S), j \in i + 1 .. n + 1 : M(i) = <<t, j>>
        BY <1>2, <3>1, <3>4
      <4>2. Kept(M(i)[1]) \in V
        BY <1>4, <4>1
      <4> QED BY <1>5, <3>2, <3>4, <4>2
    <3> QED BY <3>3, <3>4
  <2>3. <<>> \in V
    BY <1>5
  <2> HIDE DEF F, J
  <2>4. Steps(n, V, J, F)
    BY <2>1, <2>2 DEF Steps
  <2>5. PICK f : Chain(n, V, <<>>, J, F, f)
    BY <1>1, <2>3, <2>4, ChainExists
  <2> QED BY <2>5 DEF Chain
<1> DEFINE h == [i \in D |-> f[n + 1 - i]]
<1>7. h \in [D -> V]
  <2>1. \A i \in D : n + 1 - i \in 0..n
    BY <1>1
  <2> QED BY <1>6, <2>1
<1>8. ASSUME NEW i \in D PROVE h[i] = Taken(q, h, i)
  <2>1. CASE i = n + 1
    <3>1. h[i] = f[0]
      BY <1>1, <2>1
    <3> QED BY <1>3, <1>6, <2>1, <3>1 DEF Taken, M
  <2>2. CASE i # n + 1
    <3> DEFINE k == n + 1 - i
    <3>1. k \in 1..n /\ i = n + 1 - k /\ h[i] = f[k]
      BY <1>1, <2>2
    <3> HIDE DEF k, h
    <3>2. f[k] = F[<<k, f[J[k]]>>]
      BY <1>6, <3>1
    <3>3. CASE M(i) = <<>>
      <4>1. J[k] = 0 /\ f[0] \in V
        BY <1>1, <1>6, <3>1, <3>3
      <4>2. F[<<k, f[J[k]]>>] = <<>>
        BY <3>1, <3>3, <4>1
      <4> QED BY <3>1, <3>2, <3>3, <4>2 DEF Taken, M
    <3>4. CASE M(i) # <<>>
      <4>1. PICK t \in Seq(S), j \in i + 1 .. n + 1 : M(i) = <<t, j>>
        BY <1>2, <3>4
      <4>2. J[k] = n + 1 - j /\ n + 1 - j \in 0..n /\ j \in D
        BY <1>1, <3>1, <3>4, <4>1
      <4>3. f[J[k]] \in V /\ h[j] = f[J[k]]
        BY <1>6, <4>2 DEF h
      <4>4. F[<<k, f[J[k]]>>] = Kept(M(i)[1]) \o f[J[k]]
        <5> DEFINE v == f[J[k]]
        <5>1. v \in V
          BY <4>3
        <5> HIDE DEF v, J
        <5>2. F[<<k, v>>] = Kept(M(i)[1]) \o v
          BY <3>1, <3>4, <5>1
        <5> QED BY <5>2 DEF v
      <4>5. Taken(q, h, i) = Kept(t) \o h[j]
        <5>1. Goes(q, i, t, j)
          BY <4>1 DEF Goes, M
        <5> QED BY <5>1, TakenIs
      <4>6. M(i)[1] = t
        BY <4>1, PairIs
      <4> QED BY <3>1, <3>2, <4>3, <4>4, <4>5, <4>6
    <3> QED BY <3>3, <3>4
  <2> QED BY <2>1, <2>2
<1>9. Fills(h)
  <2>1. h = [i \in D |-> h[i]]
    OBVIOUS
  <2> HIDE DEF h
  <2> QED BY <1>8, <2>1
<1> DEFINE from == CHOOSE g : Fills(g)
<1>10. Fills(from)
  <2> HIDE DEF Fills, h
  <2> QED BY <1>9
<1>11. handleTCP(q) = from[1]
  BY DEF handleTCP, Taken, n
<1> HIDE DEF from, h
<1>12. \A i \in D : from[i] = Taken(q, from, i)
  BY <1>10
<1>13. \A i \in D : from[i] \in V
  <2> DEFINE G == {k \in Nat : \A i \in D : n + 1 - i <= k => from[i] \in V}
  <2>1. ASSUME NEW i \in D, \A j \in i + 1 .. n + 1 : from[j] \in V PROVE from[i] \in V
    <3>1. CASE M(i) = <<>>
      BY <1>5, <1>12, <3>1 DEF Taken, M
    <3>2. CASE M(i) # <<>>
      <4>1. PICK t \in Seq(S), j \in i + 1 .. n + 1 : M(i) = <<t, j>>
        BY <1>2, <3>2
      <4>2. from[i] = Kept(t) \o from[j]
        <5>1. from[i] = Taken(q, from, i)
          BY <1>12
        <5>2. Goes(q, i, t, j)
          BY <4>1 DEF Goes, M
        <5>3. Taken(q, from, i) = Kept(t) \o from[j]
          BY <5>2, TakenIs
        <5> QED BY <5>1, <5>3
      <4> QED BY <1>4, <1>5, <2>1, <4>1, <4>2
    <3> QED BY <3>1, <3>2
  <2>2. 0 \in G
    <3>1. \A i \in D : n + 1 - i <= 0 => i = n + 1
      BY <1>1
    <3>2. \A j \in n + 2 .. n + 1 : FALSE
      BY <1>1
    <3>3. from[n + 1] \in V
      BY <1>1, <1>3, <1>5, <1>12 DEF Taken, M
    <3> QED BY <3>1, <3>3
  <2>3. ASSUME NEW k \in 1..n, k - 1 \in G PROVE k \in G
    <3> SUFFICES ASSUME NEW i \in D, n + 1 - i <= k PROVE from[i] \in V
      BY <1>1
    <3>1. \A j \in i + 1 .. n + 1 : j \in D /\ n + 1 - j <= k - 1
      BY <1>1
    <3> QED BY <2>1, <2>3, <3>1
  <2>4. n \in G
    <3>1. n \in 0..n
      BY <1>1
    <3> HIDE DEF G
    <3> QED BY <1>1, <2>2, <2>3, <3>1, Climb
  <2>5. \A i \in D : n + 1 - i <= n
    BY <1>1
  <2> QED BY <2>4, <2>5
<1>14. from \in [D -> V]
  BY <1>10, <1>13
<1> QED BY <1>11, <1>12, <1>14 DEF n, V

LEMMA HandleSeq ==
  ASSUME NEW S, NEW q \in Seq(S)
  PROVE  handleTCP(q) \in Seq(Seq(S))
<1>1. PICK from \in [1 .. Len(q) + 1 -> Seq(Seq(S))] : handleTCP(q) = from[1]
  BY HandleIs
<1>2. 1 \in 1 .. Len(q) + 1
  BY LenProperties
<1> QED BY <1>1, <1>2

LEMMA Joined ==
  ASSUME NEW S, NEW s \in Seq(S), NEW r \in Seq(S)
  PROVE  /\ s \o r \in Seq(S) /\ Len(s \o r) = Len(s) + Len(r) /\ Len(s) \in Nat /\ Len(r) \in Nat
         /\ \A i \in 1 .. Len(s) : (s \o r)[i] = s[i]
         /\ \A i \in 1 .. Len(r) : (s \o r)[Len(s) + i] = r[i]
<1>1. Len(s) \in Nat /\ Len(r) \in Nat
  BY LenProperties
<1>2. /\ s \o r \in Seq(S) /\ Len(s \o r) = Len(s) + Len(r)
      /\ \A i \in 1 .. Len(s) + Len(r) : (s \o r)[i] = IF i <= Len(s) THEN s[i] ELSE r[i - Len(s)]
  BY ConcatProperties
<1>3. ASSUME NEW i \in 1 .. Len(r) PROVE (s \o r)[Len(s) + i] = r[i]
  <2>1. Len(s) + i \in 1 .. Len(s) + Len(r) /\ ~(Len(s) + i <= Len(s)) /\ Len(s) + i - Len(s) = i
    BY <1>1
  <2> QED BY <1>2, <2>1
<1>4. \A i \in 1 .. Len(s) : (s \o r)[i] = s[i]
  BY <1>1, <1>2
<1> QED BY <1>1, <1>2, <1>3, <1>4

LEMMA PartShifts ==
  ASSUME NEW S, NEW s \in Seq(S), NEW r \in Seq(S), NEW i \in 1 .. Len(r) + 1, NEW k \in i - 1 .. Len(r)
  PROVE  SubSeq(s \o r, Len(s) + i, Len(s) + k) = SubSeq(r, i, k)
<1> DEFINE l == Len(s)
           q == s \o r
           x == SubSeq(q, l + i, l + k)
           y == SubSeq(r, i, k)
<1>1. /\ l \in Nat /\ Len(r) \in Nat /\ q \in Seq(S) /\ Len(q) = l + Len(r)
      /\ \A j \in 1 .. Len(r) : q[l + j] = r[j]
  BY Joined
<1>2. y \in Seq(S) /\ Len(y) = k - i + 1 /\ \A j \in 1 .. k - i + 1 : y[j] = r[i + j - 1]
  BY PartOf
<1> HIDE DEF q, l
<1>3. l + i \in 1 .. Len(q) + 1 /\ l + k \in l + i - 1 .. Len(q) /\ l + k - (l + i) + 1 = k - i + 1
  BY <1>1
<1>4. x \in Seq(S) /\ Len(x) = k - i + 1 /\ \A j \in 1 .. k - i + 1 : x[j] = q[l + i + j - 1]
  BY <1>1, <1>3, PartOf
<1> HIDE DEF x, y
<1>5. ASSUME NEW j \in 1 .. k - i + 1 PROVE x[j] = y[j]
  <2>1. i \in Int /\ j \in Int /\ k \in Int /\ l \in Int /\ i >= 1 /\ k <= Len(r) /\ j >= 1 /\ j <= k - i + 1
    BY <1>1
  <2>2. i + j - 1 \in Int /\ i + j - 1 >= 1 /\ i + j - 1 <= Len(r) /\ l + i + j - 1 = l + (i + j - 1)
    BY <1>1, <2>1
  <2>3. i + j - 1 \in 1 .. Len(r)
    BY <1>1, <2>2
  <2> QED BY <1>1, <1>2, <1>4, <2>2, <2>3
<1>6. x = y
  BY <1>2, <1>4, <1>5, SeqEqual
<1> QED BY <1>6 DEF x, y, q, l

\* A message is the same whatever came before it.
LEMMA MessageShifts ==
  ASSUME NEW S, NEW s \in Seq(S), NEW r \in Seq(S), NEW i \in 1 .. Len(r) + 1
  PROVE  Message(s \o r, Len(s) + i) =
           IF Message(r, i) = <<>> THEN <<>> ELSE <<Message(r, i)[1], Len(s) + Message(r, i)[2]>>
<1> DEFINE l == Len(s)
           q == s \o r
           n == Len(r)
<1>1. /\ l \in Nat /\ n \in Nat /\ q \in Seq(S) /\ Len(q) = l + n
      /\ \A j \in 1..n : q[l + j] = r[j]
  BY Joined
<1>2. \A k \in i - 1 .. n : SubSeq(q, l + i, l + k) = SubSeq(r, i, k)
  BY PartShifts
<1>3. \A j \in 1 .. n + 1 : \A k \in j - 1 .. n : SubSeq(q, l + j, l + k) = SubSeq(r, j, k)
  BY PartShifts
<1> HIDE DEF q, l
<1>4. CASE i > n
  <2>1. l + i > Len(q)
    BY <1>1, <1>4
  <2> QED BY <1>4, <2>1 DEF Message, q, l
<1>5. CASE i <= n
  <2>1. i \in 1..n /\ l + i \in 1 .. Len(q) /\ q[l + i] = r[i] /\ i \in Nat /\ ~(l + i > Len(q)) /\ ~(i > n)
    BY <1>1, <1>5
  <2>2. \A c, k : First(r, i, c, k) => First(q, l + i, c, l + k)
    <3> SUFFICES ASSUME NEW c, NEW k, First(r, i, c, k) PROVE First(q, l + i, c, l + k)
      OBVIOUS
    <3>1. k \in i..n /\ r[k] = c /\ \A j \in i .. k - 1 : r[j] # c
      BY DEF First
    <3>2. l + k \in l + i .. Len(q) /\ q[l + k] = c
      BY <1>1, <2>1, <3>1
    <3>3. ASSUME NEW j \in l + i .. (l + k) - 1 PROVE q[j] # c
      <4> DEFINE m == j - l
      <4>1. m \in i .. k - 1 /\ m \in 1..n /\ j = l + m
        BY <1>1, <2>1, <3>1
      <4> HIDE DEF m
      <4> QED BY <1>1, <3>1, <4>1
    <3>4. \A j \in l + i .. (l + k) - 1 : q[j] # c
      BY <3>3
    <3> QED BY <3>2, <3>4 DEF First
  <2>3. \A c : (\A j \in i..n : r[j] # c) => \A j \in l + i .. Len(q) : q[j] # c
    <3> SUFFICES ASSUME NEW c, \A j \in i..n : r[j] # c, NEW j \in l + i .. Len(q) PROVE q[j] # c
      OBVIOUS
    <3> DEFINE m == j - l
    <3>1. m \in i..n /\ m \in 1..n /\ j = l + m
      BY <1>1, <2>1
    <3> HIDE DEF m
    <3> QED BY <1>1, <3>1
  <2>6. \A t, j : Message(r, i) = <<t, j>> /\ Message(q, l + i) = <<t, l + j>> =>
          Message(s \o r, Len(s) + i) =
            IF Message(r, i) = <<>> THEN <<>> ELSE <<Message(r, i)[1], Len(s) + Message(r, i)[2]>>
    <3> SUFFICES ASSUME NEW t, NEW j, Message(r, i) = <<t, j>>, Message(q, l + i) = <<t, l + j>>
                 PROVE  Message(s \o r, Len(s) + i) =
                          IF Message(r, i) = <<>> THEN <<>> ELSE <<Message(r, i)[1], Len(s) + Message(r, i)[2]>>
      OBVIOUS
    <3> DEFINE m == Message(r, i)
    <3>1. m # <<>> /\ m[1] = t /\ m[2] = j
      BY PairIs
    <3> HIDE DEF m
    <3>2. Message(s \o r, Len(s) + i) = <<m[1], Len(s) + m[2]>>
      BY <3>1 DEF q, l
    <3> QED BY <3>1, <3>2 DEF m
  <2>4. CASE q[l + i] \in Range(Digits)
    <3>1. Message(q, l + i) = Counted(q, l + i) /\ Message(r, i) = Counted(r, i)
      BY <2>1, <2>4 DEF Message
    <3>2. CASE \A j \in i..n : r[j] # SP
      <4>1. Counted(r, i) = <<>>
        BY <2>1, <3>2, CountedIs
      <4>2. Counted(q, l + i) = <<>>
        BY <1>1, <2>1, <2>3, <3>2, CountedIs
      <4> QED BY <3>1, <4>1, <4>2 DEF q, l
    <3>3. CASE \E k : First(r, i, SP, k)
      <4>1. PICK k : First(r, i, SP, k)
        BY <3>3
      <4>2. First(q, l + i, SP, l + k)
        BY <2>2, <4>1
      <4>3. k \in i..n /\ k - 1 \in i - 1 .. n /\ (l + k) - 1 = l + (k - 1)
        <5>1. k \in i..n
          BY <4>1 DEF First
        <5> HIDE DEF n
        <5> QED BY <1>1, <2>1, <5>1
      <4>4. SubSeq(q, l + i, (l + k) - 1) = SubSeq(r, i, k - 1)
        BY <1>2, <4>3
      <4> DEFINE c == Count(TrimRight(SubSeq(r, i, k - 1)))
      <4>5. Counted(r, i) = IF c = 0 \/ c > MaxFrame \/ k + c > n THEN <<>> ELSE <<SubSeq(r, k + 1, k + c), k + c + 1>>
        BY <2>1, <4>1, CountedIs
      <4>6. Counted(q, l + i) = IF c = 0 \/ c > MaxFrame \/ l + k + c > Len(q) THEN <<>>
                                ELSE <<SubSeq(q, l + k + 1, l + k + c), l + k + c + 1>>
        <5>1. SubSeq(q, l + i, (l + k) - 1) = SubSeq(r, i, k - 1)
          BY <4>4
        <5>2. LET b == Count(TrimRight(SubSeq(q, l + i, (l + k) - 1)))
              IN Counted(q, l + i) = IF b = 0 \/ b > MaxFrame \/ l + k + b > Len(q) THEN <<>>
                                     ELSE <<SubSeq(q, l + k + 1, l + k + b), l + k + b + 1>>
          <6>1. l + i \in 1 .. Len(q) /\ First(q, l + i, SP, l + k) /\ q \in Seq(S)
            BY <1>1, <2>1, <4>2
          <6> HIDE DEF c, n
          <6> QED BY <6>1, CountedIs
        <5> QED BY <5>1, <5>2
      <4>7. c \in Nat
        <5>1. SubSeq(r, i, k - 1) \in Seq(S)
          BY <4>3, PartOf
        <5> HIDE DEF c
        <5> QED BY <5>1, TrimSeq, CountIsNat DEF c
      <4> HIDE DEF c
      <4>8. CASE c = 0 \/ c > MaxFrame \/ k + c > n
        <5>1. c = 0 \/ c > MaxFrame \/ l + k + c > Len(q)
          BY <1>1, <4>3, <4>7, <4>8
        <5>2. Message(r, i) = <<>> /\ Message(q, l + i) = <<>>
          BY <3>1, <4>5, <4>6, <4>8, <5>1
        <5> QED BY <5>2 DEF q, l
      <4>9. CASE ~(c = 0 \/ c > MaxFrame \/ k + c > n)
        <5>1. ~(c = 0 \/ c > MaxFrame \/ l + k + c > Len(q))
          BY <1>1, <4>3, <4>7, <4>9
        <5>2. SubSeq(q, l + k + 1, l + k + c) = SubSeq(r, k + 1, k + c)
          <6>1. k + 1 \in 1 .. n + 1 /\ k + c \in k + 1 - 1 .. n /\ l + k + 1 = l + (k + 1) /\ l + k + c = l + (k + c)
            BY <1>1, <2>1, <4>3, <4>7, <4>9
          <6> HIDE DEF n, c
          <6>2. SubSeq(q, l + (k + 1), l + (k + c)) = SubSeq(r, k + 1, k + c)
            <7>1. k + c \in (k + 1) - 1 .. n
              BY <1>1, <4>3, <4>7, <6>1
            <7> QED BY <1>3, <6>1, <7>1
          <6> QED BY <6>1, <6>2
        <5>3. l + k + c + 1 = l + (k + c + 1)
          BY <1>1, <4>3, <4>7
        <5>4. Message(r, i) = <<SubSeq(r, k + 1, k + c), k + c + 1>>
          BY <3>1, <4>5, <4>9
        <5>5. Message(q, l + i) = <<SubSeq(r, k + 1, k + c), l + (k + c + 1)>>
          BY <3>1, <4>6, <5>1, <5>2, <5>3
        <5> QED BY <2>6, <5>4, <5>5
      <4> QED BY <4>8, <4>9
    <3> QED BY <2>1, <3>2, <3>3, FirstOrNone
  <2>5. CASE q[l + i] \notin Range(Digits)
    <3>1. Message(q, l + i) = Ended(q, l + i) /\ Message(r, i) = Ended(r, i)
      BY <2>1, <2>5 DEF Message
    <3>2. CASE \A j \in i..n : r[j] # NL
      <4>1. Ended(r, i) = <<TrimRight(SubSeq(r, i, n)), n + 1>>
        BY <2>1, <3>2, EndedIs
      <4>2. Ended(q, l + i) = <<TrimRight(SubSeq(q, l + i, l + n)), l + n + 1>>
        BY <1>1, <2>1, <2>3, <3>2, EndedIs
      <4>3. n \in i - 1 .. n /\ l + n + 1 = l + (n + 1)
        BY <1>1, <1>5
      <4>4. Message(r, i) = <<TrimRight(SubSeq(r, i, n)), n + 1>>
        BY <3>1, <4>1
      <4>5. Message(q, l + i) = <<TrimRight(SubSeq(r, i, n)), l + (n + 1)>>
        BY <1>2, <3>1, <4>2, <4>3
      <4> QED BY <2>6, <4>4, <4>5
    <3>3. CASE \E k : First(r, i, NL, k)
      <4>1. PICK k : First(r, i, NL, k)
        BY <3>3
      <4>2. First(q, l + i, NL, l + k)
        BY <2>2, <4>1
      <4>3. k \in i - 1 .. n /\ l + k + 1 = l + (k + 1)
        BY <1>1, <2>1, <4>1 DEF First
      <4>4. Ended(r, i) = <<TrimRight(SubSeq(r, i, k)), k + 1>>
        BY <2>1, <4>1, EndedIs
      <4>5. Ended(q, l + i) = <<TrimRight(SubSeq(q, l + i, l + k)), l + k + 1>>
        BY <1>1, <2>1, <4>2, EndedIs
      <4>6. Message(r, i) = <<TrimRight(SubSeq(r, i, k)), k + 1>>
        BY <3>1, <4>4
      <4>7. Message(q, l + i) = <<TrimRight(SubSeq(r, i, k)), l + (k + 1)>>
        BY <1>2, <3>1, <4>3, <4>5
      <4> QED BY <2>6, <4>6, <4>7
    <3> QED BY <2>1, <3>2, <3>3, FirstOrNone
  <2> QED BY <2>4, <2>5
<1> QED BY <1>1, <1>4, <1>5

LEMMA HandleShifts ==
  ASSUME NEW S, NEW s \in Seq(S), NEW r \in Seq(S),
         NEW f, \A i \in 1 .. Len(s \o r) + 1 : f[i] = Taken(s \o r, f, i)
  PROVE  f[Len(s) + 1] = handleTCP(r)
<1> DEFINE l == Len(s)
           n == Len(r)
           q == s \o r
<1>1. l \in Nat /\ n \in Nat /\ Len(q) = l + n
  BY Joined
<1>2. PICK g : (\A i \in 1 .. n + 1 : g[i] = Taken(r, g, i)) /\ handleTCP(r) = g[1]
  BY HandleIs
<1>3. \A i \in 1 .. n + 1 : Message(q, l + i) = IF Message(r, i) = <<>> THEN <<>>
                                              ELSE <<Message(r, i)[1], l + Message(r, i)[2]>>
  BY MessageShifts
<1>4. \A i \in 1 .. n + 1 : Message(r, i) = <<>> \/ \E t \in Seq(S), j \in i + 1 .. n + 1 : Message(r, i) = <<t, j>>
  BY MessageIs
<1>5. \A i \in 1 .. n + 1 : f[l + i] = Taken(q, f, l + i)
  <2>1. \A i \in 1 .. n + 1 : l + i \in 1 .. Len(q) + 1
    BY <1>1
  <2> QED BY <2>1
<1> HIDE DEF l, n, q
<1>6. ASSUME NEW i \in 1 .. n + 1, \A j \in i + 1 .. n + 1 : f[l + j] = g[j] PROVE f[l + i] = g[i]
  <2>1. CASE Message(r, i) = <<>>
    BY <1>2, <1>3, <1>5, <2>1 DEF Taken
  <2>2. CASE Message(r, i) # <<>>
    <3>1. PICK t \in Seq(S), j \in i + 1 .. n + 1 : Message(r, i) = <<t, j>>
      BY <1>4, <2>2
    <3>2. g[i] = Kept(t) \o g[j]
      <4>1. g[i] = Taken(r, g, i)
        BY <1>2
      <4>2. Taken(r, g, i) = Kept(t) \o g[j]
        <5>1. Goes(r, i, t, j)
          BY <3>1 DEF Goes
        <5> QED BY <5>1, TakenIs
      <4> QED BY <4>1, <4>2
    <3>3. Message(q, l + i) = <<t, l + j>>
      <4> DEFINE m == Message(r, i)
      <4>1. m # <<>> /\ m[1] = t /\ m[2] = j
        BY <3>1, PairIs
      <4>2. Message(q, l + i) = IF m = <<>> THEN <<>> ELSE <<m[1], l + m[2]>>
        BY <1>3
      <4> HIDE DEF m
      <4> QED BY <4>1, <4>2
    <3>4. f[l + i] = Kept(t) \o f[l + j]
      <4>1. f[l + i] = Taken(q, f, l + i)
        BY <1>5
      <4>2. Taken(q, f, l + i) = Kept(t) \o f[l + j]
        <5>1. Goes(q, l + i, t, l + j)
          BY <3>3 DEF Goes
        <5> QED BY <5>1, TakenIs
      <4> QED BY <4>1, <4>2
    <3> QED BY <1>6, <3>1, <3>2, <3>4
  <2> QED BY <2>1, <2>2
<1> DEFINE G == {k \in Nat : \A i \in 1 .. n + 1 : n + 1 - i <= k => f[l + i] = g[i]}
<1>7. 0 \in G
  <2> SUFFICES ASSUME NEW i \in 1 .. n + 1, n + 1 - i <= 0 PROVE f[l + i] = g[i]
    OBVIOUS
  <2>1. \A j \in i + 1 .. n + 1 : FALSE
    BY <1>1
  <2> QED BY <1>6, <2>1
<1>8. ASSUME NEW k \in 1..n, k - 1 \in G PROVE k \in G
  <2> SUFFICES ASSUME NEW i \in 1 .. n + 1, n + 1 - i <= k PROVE f[l + i] = g[i]
    BY <1>1
  <2>1. \A j \in i + 1 .. n + 1 : j \in 1 .. n + 1 /\ n + 1 - j <= k - 1
    BY <1>1
  <2>2. \A j \in i + 1 .. n + 1 : f[l + j] = g[j]
    BY <1>8, <2>1
  <2> QED BY <1>6, <2>2
<1>9. n \in G
  <2>1. n \in 0..n
    BY <1>1
  <2> HIDE DEF G
  <2> QED BY <1>1, <1>7, <1>8, <2>1, Climb
<1>10. 1 \in 1 .. n + 1 /\ n + 1 - 1 <= n
  BY <1>1
<1>11. f[l + 1] = g[1]
  BY <1>9, <1>10
<1> QED BY <1>2, <1>11 DEF l

\* The first message, and then the rest.
LEMMA HandleStep ==
  ASSUME NEW S, NEW s \in Seq(S), NEW r \in Seq(S), NEW t, Message(s \o r, 1) = <<t, Len(s) + 1>>
  PROVE  handleTCP(s \o r) = Kept(t) \o handleTCP(r)
<1> DEFINE q == s \o r
<1>1. q \in Seq(S) /\ Len(q) \in Nat
  BY Joined, LenProperties
<1>2. PICK f : (\A i \in 1 .. Len(q) + 1 : f[i] = Taken(q, f, i)) /\ handleTCP(q) = f[1]
  BY <1>1, HandleIs
<1>3. f[Len(s) + 1] = handleTCP(r)
  BY <1>2, HandleShifts
<1>4. f[1] = Taken(q, f, 1)
  BY <1>1, <1>2
<1>5. Taken(q, f, 1) = Kept(t) \o f[Len(s) + 1]
  <2>1. Goes(q, 1, t, Len(s) + 1)
    BY DEF Goes
  <2> QED BY <2>1, TakenIs
<1> QED BY <1>2, <1>3, <1>4, <1>5

LEMMA HandleStop ==
  ASSUME NEW S, NEW q \in Seq(S), Message(q, 1) = <<>>
  PROVE  handleTCP(q) = <<>>
<1>1. PICK f : (\A i \in 1 .. Len(q) + 1 : f[i] = Taken(q, f, i)) /\ handleTCP(q) = f[1]
  BY HandleIs
<1>2. f[1] = Taken(q, f, 1)
  BY <1>1, LenProperties
<1> QED BY <1>1, <1>2 DEF Taken
-----------------------------------------------------------------------------
(***************************************************************************)
(* What is sent is what is taken                                           *)
(***************************************************************************)
Byte == (UNION {Range(m) : m \in Messages}) \cup Numeral \cup {SP, NL}

LEMMA FrameBound == MaxFrame \in Nat
BY SMT DEF MaxFrame

LEMMA BytesAre ==
  /\ Messages \subseteq Seq(Byte) /\ Seq(Numeral) \subseteq Seq(Byte) /\ <<SP>> \in Seq(Byte) /\ <<NL>> \in Seq(Byte)
  /\ \A m \in Messages : m # <<>>
<1>1. ASSUME NEW m \in Messages PROVE m \in Seq(Byte)
  <2>1. m \in Seq(Range(m)) /\ Range(m) \subseteq Byte
    BY MessagesAssumption DEF Byte
  <2> QED BY <2>1, SeqMonotonic
<1>2. Seq(Numeral) \subseteq Seq(Byte)
  <2>1. Numeral \subseteq Byte
    BY DEF Byte
  <2> QED BY <2>1, SeqMonotonic
<1>3. <<SP>> \in Seq(Byte) /\ <<NL>> \in Seq(Byte)
  <2>1. SP \in Byte /\ NL \in Byte
    BY DEF Byte
  <2> HIDE DEF Byte
  <2> QED BY <2>1
<1>4. \A m \in Messages : m # <<>>
  BY MessagesAssumption
<1> QED BY <1>1, <1>2, <1>3, <1>4

\* q is a beginning of f, and not all of it.
Begins(q, f) == q \in Seq(Byte) /\ Len(q) < Len(f) /\ \A i \in 1 .. Len(q) : q[i] = f[i]

LEMMA SameSeq ==
  ASSUME NEW S, NEW q \in Seq(S), NEW d \in Seq(S), Len(d) <= Len(q), \A i \in 1 .. Len(d) : q[i] = d[i]
  PROVE  SubSeq(q, 1, Len(d)) = d
<1>1. Len(d) \in Nat /\ Len(q) \in Nat
  BY LenProperties
<1>2. 1 \in 1 .. Len(q) + 1 /\ Len(d) \in 1 - 1 .. Len(q) /\ Len(d) - 1 + 1 = Len(d)
  BY <1>1
<1> DEFINE x == SubSeq(q, 1, Len(d))
<1>3. x \in Seq(S) /\ Len(x) = Len(d) /\ \A j \in 1 .. Len(d) : x[j] = q[1 + j - 1]
  BY <1>2, PartOf
<1> HIDE DEF x
<1>4. \A j \in 1 .. Len(d) : x[j] = d[j]
  <2> SUFFICES ASSUME NEW j \in 1 .. Len(d) PROVE x[j] = d[j]
    OBVIOUS
  <2>1. 1 + j - 1 = j
    BY <1>1
  <2> QED BY <1>3, <2>1
<1>5. x = d
  BY <1>3, <1>4, SeqEqual
<1> QED BY <1>5 DEF x

LEMMA EmptyStream == handleTCP(<<>>) = <<>>
<1>1. <<>> \in Seq(Byte) /\ Len(<<>>) = 0
  OBVIOUS
<1>2. Message(<<>>, 1) = <<>>
  BY <1>1 DEF Message
<1> QED BY <1>1, <1>2, HandleStop

\* The count, and the blank behind it.
Counting(n, h) ==
  LET d == Decimal(n)
  IN /\ d \in Seq(Byte) /\ h \in Seq(Byte) /\ Len(d) \in Nat /\ Len(d) >= 1 /\ Len(h) = Len(d) + 1
     /\ Count(TrimRight(d)) = n /\ h[Len(h)] = SP
     /\ \A i \in 1 .. Len(d) : h[i] = d[i] /\ h[i] # SP /\ h[i] \in Numeral

LEMMA HeadIs ==
  ASSUME NEW n \in Nat, NEW h, h = Decimal(n) \o <<SP>>
  PROVE  Counting(n, h)
<1> DEFINE d == Decimal(n)
<1>1. d \in Seq(Numeral) /\ Len(d) >= 1 /\ Count(d) = n
  BY DecimalIs
<1>2. d \in Seq(Byte) /\ <<SP>> \in Seq(Byte) /\ Len(<<SP>>) = 1 /\ <<SP>>[1] = SP
  BY <1>1, BytesAre
<1> HIDE DEF d
<1>3. Len(d) \in Nat /\ \A i \in 1 .. Len(d) : d[i] \in Numeral
  BY <1>1, LenProperties, ElementOfSeq
<1>4. TrimRight(d) = d
  <2>1. Len(d) \in 0 .. Len(d) /\ d[Len(d)] \notin Blank
    BY <1>1, <1>3, DigitsAre
  <2>2. \A i \in Len(d) + 1 .. Len(d) : FALSE
    BY <1>3
  <2>3. TrimRight(d) = SubSeq(d, 1, Len(d))
    BY <1>1, <2>1, <2>2, TrimIs
  <2>4. SubSeq(d, 1, Len(d)) = d
    BY <1>1, <1>3, SameSeq
  <2> QED BY <2>3, <2>4
<1>5. /\ h \in Seq(Byte) /\ Len(h) = Len(d) + 1 /\ \A i \in 1 .. Len(d) : h[i] = d[i]
      /\ h[Len(d) + 1] = SP
  <2> DEFINE b == <<SP>>
  <2>1. b \in Seq(Byte) /\ Len(b) = 1 /\ b[1] = SP /\ h = d \o b
    BY <1>2 DEF d
  <2> HIDE DEF b
  <2>2. /\ d \o b \in Seq(Byte) /\ Len(d \o b) = Len(d) + Len(b)
        /\ \A i \in 1 .. Len(d) : (d \o b)[i] = d[i]
        /\ \A i \in 1 .. Len(b) : (d \o b)[Len(d) + i] = b[i]
    <3>1. d \in Seq(Byte) /\ b \in Seq(Byte)
      BY <1>2, <2>1
    <3> QED BY <3>1, Joined
  <2>3. 1 \in 1 .. Len(b)
    BY <2>1
  <2> QED BY <2>1, <2>2, <2>3
<1>6. \A i \in 1 .. Len(d) : h[i] # SP /\ h[i] \in Numeral
  BY <1>3, <1>5, DigitsAre
<1> QED BY <1>1, <1>2, <1>3, <1>4, <1>5, <1>6 DEF d, Counting

LEMMA CountedHead ==
  ASSUME NEW text \in Seq(Byte), Len(text) \in 1..MaxFrame, NEW h, h = Decimal(Len(text)) \o <<SP>>,
         NEW q \in Seq(Byte), Len(h) <= Len(q), \A i \in 1 .. Len(h) : q[i] = h[i]
  PROVE  Message(q, 1) = IF Len(h) + Len(text) > Len(q) THEN <<>>
                         ELSE <<SubSeq(q, Len(h) + 1, Len(h) + Len(text)), Len(h) + Len(text) + 1>>
<1> DEFINE d == Decimal(Len(text))
           n == Len(text)
<1>1. n \in Nat /\ n # 0 /\ ~(n > MaxFrame) /\ Len(q) \in Nat
  BY LenProperties, FrameBound
<1>2. /\ d \in Seq(Byte) /\ h \in Seq(Byte) /\ Len(d) \in Nat /\ Len(d) >= 1 /\ Len(h) = Len(d) + 1
      /\ Count(TrimRight(d)) = n /\ h[Len(h)] = SP
      /\ \A i \in 1 .. Len(d) : h[i] = d[i] /\ h[i] # SP /\ h[i] \in Numeral
  <2>1. Len(text) \in Nat
    BY <1>1
  <2>2. Counting(Len(text), h)
    BY <2>1, HeadIs
  <2> QED BY <2>2 DEF Counting
<1> HIDE DEF d, n
<1>3. 1 \in 1 .. Len(q) /\ q[1] \in Range(Digits) /\ ~(1 > Len(q))
  <2>1. 1 \in 1 .. Len(q) /\ ~(1 > Len(q)) /\ 1 \in 1 .. Len(d) /\ 1 \in 1 .. Len(h)
    BY <1>1, <1>2
  <2>2. q[1] = h[1] /\ h[1] \in Numeral
    BY <1>2, <2>1
  <2> QED BY <2>1, <2>2 DEF Numeral
<1>4. First(q, 1, SP, Len(h))
  <2>1. Len(h) \in 1 .. Len(q) /\ q[Len(h)] = SP
    BY <1>1, <1>2
  <2>2. \A j \in 1 .. Len(h) - 1 : j \in 1 .. Len(d) /\ j \in 1 .. Len(h)
    BY <1>2
  <2>3. \A j \in 1 .. Len(h) - 1 : q[j] # SP
    BY <1>2, <2>2
  <2> QED BY <2>1, <2>3 DEF First
<1>5. SubSeq(q, 1, Len(h) - 1) = d
  <2>1. Len(h) - 1 = Len(d) /\ Len(d) <= Len(q) /\ \A i \in 1 .. Len(d) : i \in 1 .. Len(h)
    BY <1>1, <1>2
  <2>2. \A i \in 1 .. Len(d) : q[i] = d[i]
    BY <1>2, <2>1
  <2> QED BY <1>2, <2>1, <2>2, SameSeq
<1>6. Message(q, 1) = Counted(q, 1)
  BY <1>3 DEF Message
<1>7. Counted(q, 1) = IF n = 0 \/ n > MaxFrame \/ Len(h) + n > Len(q) THEN <<>>
                      ELSE <<SubSeq(q, Len(h) + 1, Len(h) + n), Len(h) + n + 1>>
  <2>1. LET c == Count(TrimRight(SubSeq(q, 1, Len(h) - 1)))
        IN Counted(q, 1) = IF c = 0 \/ c > MaxFrame \/ Len(h) + c > Len(q) THEN <<>>
                           ELSE <<SubSeq(q, Len(h) + 1, Len(h) + c), Len(h) + c + 1>>
    BY <1>3, <1>4, CountedIs
  <2>2. Count(TrimRight(SubSeq(q, 1, Len(h) - 1))) = n
    BY <1>2, <1>5
  <2> QED BY <2>1, <2>2
<1> QED BY <1>1, <1>6, <1>7 DEF n

\* A counted message is taken whole or not at all.
LEMMA CountedFrame ==
  ASSUME NEW text \in Seq(Byte), Len(text) \in 1..MaxFrame,
         NEW F, F = (Decimal(Len(text)) \o <<SP>>) \o text
  PROVE  /\ F \in Seq(Byte)
         /\ \A r \in Seq(Byte) : handleTCP(F \o r) = <<text>> \o handleTCP(r)
         /\ \A q : Begins(q, F) => handleTCP(q) = <<>>
<1> DEFINE d == Decimal(Len(text))
           h == d \o <<SP>>
           n == Len(text)
<1>1. n \in Nat /\ n >= 1
  BY FrameBound
<1>2. /\ d \in Seq(Byte) /\ h \in Seq(Byte) /\ Len(d) \in Nat /\ Len(d) >= 1 /\ Len(h) = Len(d) + 1
      /\ h[Len(h)] = SP
      /\ \A i \in 1 .. Len(d) : h[i] = d[i] /\ h[i] # SP /\ h[i] \in Numeral
  <2>1. Counting(n, h)
    BY <1>1, HeadIs
  <2> QED BY <2>1 DEF Counting
<1>3. \A q \in Seq(Byte) : Len(h) <= Len(q) /\ (\A i \in 1 .. Len(h) : q[i] = h[i]) =>
        Message(q, 1) = IF Len(h) + n > Len(q) THEN <<>> ELSE <<SubSeq(q, Len(h) + 1, Len(h) + n), Len(h) + n + 1>>
  BY CountedHead
<1>4. F = h \o text
  OBVIOUS
<1> HIDE DEF d, h, n
<1>5. /\ F \in Seq(Byte) /\ Len(F) = Len(h) + n
      /\ \A i \in 1 .. Len(h) : F[i] = h[i]
      /\ \A i \in 1 .. n : F[Len(h) + i] = text[i]
  <2>1. h \in Seq(Byte)
    BY <1>2
  <2>2. /\ h \o text \in Seq(Byte) /\ Len(h \o text) = Len(h) + Len(text)
        /\ \A i \in 1 .. Len(h) : (h \o text)[i] = h[i]
        /\ \A i \in 1 .. Len(text) : (h \o text)[Len(h) + i] = text[i]
    BY <2>1, Joined
  <2> QED BY <1>4, <2>2 DEF n
<1>6. ASSUME NEW r \in Seq(Byte) PROVE handleTCP(F \o r) = <<text>> \o handleTCP(r)
  <2> DEFINE q == F \o r
  <2>1. /\ q \in Seq(Byte) /\ Len(q) = Len(F) + Len(r) /\ Len(r) \in Nat
        /\ \A i \in 1 .. Len(F) : q[i] = F[i]
    BY <1>5, Joined
  <2> HIDE DEF q
  <2>2. /\ Len(h) <= Len(q) /\ ~(Len(h) + n > Len(q))
        /\ \A i \in 1 .. Len(h) : i \in 1 .. Len(F)
        /\ \A i \in 1..n : Len(h) + i \in 1 .. Len(F)
    BY <1>1, <1>2, <1>5, <2>1
  <2>3. Message(q, 1) = <<SubSeq(q, Len(h) + 1, Len(h) + n), Len(F) + 1>>
    BY <1>3, <1>5, <2>1, <2>2
  <2>4. SubSeq(q, Len(h) + 1, Len(h) + n) = text
    <3> DEFINE x == SubSeq(q, Len(h) + 1, Len(h) + n)
    <3>1. Len(h) + 1 \in 1 .. Len(q) + 1 /\ Len(h) + n \in (Len(h) + 1) - 1 .. Len(q) /\ ((Len(h) + n) - (Len(h) + 1)) + 1 = n
      BY <1>1, <1>2, <2>2
    <3>2. x \in Seq(Byte) /\ Len(x) = n /\ \A j \in 1..n : x[j] = q[Len(h) + 1 + j - 1]
      <4> DEFINE i == Len(h) + 1
                 k == Len(h) + n
                 y == SubSeq(q, i, k)
      <4>1. i \in 1 .. Len(q) + 1 /\ k \in i - 1 .. Len(q) /\ k - i + 1 = n
        BY <3>1
      <4> HIDE DEF i, k
      <4>2. y \in Seq(Byte) /\ Len(y) = k - i + 1 /\ \A j \in 1 .. k - i + 1 : y[j] = q[i + j - 1]
        BY <2>1, <4>1, PartOf
      <4> QED BY <4>1, <4>2 DEF i, k
    <3> HIDE DEF x
    <3>3. \A j \in 1..n : x[j] = text[j]
      <4> SUFFICES ASSUME NEW j \in 1..n PROVE x[j] = text[j]
        OBVIOUS
      <4>1. Len(h) + 1 + j - 1 = Len(h) + j
        BY <1>1, <1>2
      <4>2. x[j] = q[Len(h) + j]
        BY <3>2, <4>1
      <4>3. q[Len(h) + j] = F[Len(h) + j]
        BY <2>1, <2>2
      <4> QED BY <1>5, <4>2, <4>3
    <3>4. x = text
      BY <3>2, <3>3, SeqEqual DEF n
    <3> QED BY <3>4 DEF x
  <2>5. handleTCP(q) = Kept(text) \o handleTCP(r)
    <3>1. F \in Seq(Byte)
      BY <1>5
    <3>2. Message(F \o r, 1) = <<text, Len(F) + 1>>
      BY <2>3, <2>4 DEF q
    <3> QED BY <3>1, <3>2, HandleStep DEF q
  <2>6. text # <<>>
    BY <1>1 DEF n
  <2> QED BY <2>5, <2>6 DEF q, Kept
<1>7. ASSUME NEW q, Begins(q, F) PROVE handleTCP(q) = <<>>
  <2>1. q \in Seq(Byte) /\ Len(q) < Len(F) /\ Len(q) \in Nat /\ \A i \in 1 .. Len(q) : q[i] = F[i]
    BY <1>7, LenProperties DEF Begins
  <2>2. CASE Len(h) <= Len(q)
    <3>1. \A i \in 1 .. Len(h) : q[i] = h[i]
      <4> SUFFICES ASSUME NEW i \in 1 .. Len(h) PROVE q[i] = h[i]
        OBVIOUS
      <4>1. i \in 1 .. Len(q)
        BY <1>2, <2>1, <2>2
      <4>2. q[i] = F[i] /\ F[i] = h[i]
        BY <1>5, <2>1, <4>1
      <4> QED BY <4>2
    <3>2. Len(h) + n > Len(q)
      BY <1>1, <1>2, <1>5, <2>1
    <3>3. Message(q, 1) = <<>>
      BY <1>3, <2>1, <2>2, <3>1, <3>2
    <3> QED BY <2>1, <3>3, HandleStop
  <2>3. CASE Len(q) <= Len(d) /\ Len(q) # 0
    <3>1. \A i \in 1 .. Len(q) : i \in 1 .. Len(d) /\ i \in 1 .. Len(h)
      BY <1>2, <2>1, <2>3
    <3>2. \A i \in 1 .. Len(q) : q[i] # SP /\ q[i] \in Numeral
      BY <1>2, <1>5, <2>1, <3>1
    <3>3. 1 \in 1 .. Len(q) /\ ~(1 > Len(q))
      BY <2>1, <2>3
    <3>4. Message(q, 1) = Counted(q, 1)
      BY <3>2, <3>3 DEF Message, Numeral
    <3>5. Counted(q, 1) = <<>>
      BY <2>1, <3>2, <3>3, CountedIs
    <3> QED BY <2>1, <3>4, <3>5, HandleStop
  <2>4. CASE Len(q) = 0
    <3>1. Message(q, 1) = <<>>
      BY <2>4 DEF Message
    <3> QED BY <2>1, <3>1, HandleStop
  <2> QED BY <1>2, <2>1, <2>2, <2>3, <2>4
<1> QED BY <1>5, <1>6, <1>7

\* A newline by itself, as behind a counted message, is no message.
LEMMA NewlineSkipped ==
  ASSUME NEW r \in Seq(Byte)
  PROVE  handleTCP(<<NL>> \o r) = handleTCP(r)
<1> DEFINE s == <<NL>>
           q == s \o r
<1>1. s \in Seq(Byte) /\ Len(s) = 1 /\ s[1] = NL
  BY BytesAre
<1> HIDE DEF s
<1>2. q \in Seq(Byte) /\ Len(q) = 1 + Len(r) /\ Len(r) \in Nat /\ q[1] = NL
  <2>1. 1 \in 1 .. Len(s)
    BY <1>1
  <2> QED BY <1>1, <2>1, Joined
<1> HIDE DEF q
<1>3. q[1] \notin Range(Digits) /\ ~(1 > Len(q)) /\ 1 \in 1 .. Len(q)
  BY <1>2, DigitsAre DEF Numeral
<1>4. First(q, 1, NL, 1)
  BY <1>2, <1>3 DEF First
<1>5. Message(q, 1) = <<TrimRight(SubSeq(q, 1, 1)), 2>>
  BY <1>2, <1>3, <1>4, EndedIs DEF Message
<1>6. SubSeq(q, 1, 1) = s
  BY <1>1, <1>2, <1>3, SameSeq
<1>7. TrimRight(s) = <<>>
  <2>1. 0 \in 0 .. Len(s) /\ \A i \in 0 + 1 .. Len(s) : s[i] \in Blank
    BY <1>1 DEF Blank
  <2>2. TrimRight(s) = SubSeq(s, 1, 0)
    BY <1>1, <2>1, TrimIs
  <2> QED BY <2>2, SubSeqEmpty
<1>8. handleTCP(q) = Kept(<<>>) \o handleTCP(r)
  <2>0. Message(q, 1) = <<<<>>, 2>>
    BY <1>5, <1>6, <1>7
  <2>2. Len(s) + 1 = 2
    BY <1>1
  <2>1. Message(s \o r, 1) = <<<<>>, Len(s) + 1>>
    BY <2>0, <2>2 DEF q
  <2> QED BY <1>1, <2>1, HandleStep DEF q
<1>9. handleTCP(r) \in Seq(Seq(Byte))
  BY HandleSeq
<1> QED BY <1>8, <1>9, ConcatEmptySeq DEF q, s, Kept

\* A line is taken as far as it came.
LEMMA LineFrame ==
  ASSUME NEW text \in Seq(Byte), text # <<>>, Range(text) \cap Blank = {}, text[1] \notin Range(Digits),
         NEW F, F = text \o <<NL>>
  PROVE  /\ F \in Seq(Byte)
         /\ \A r \in Seq(Byte) : handleTCP(F \o r) = <<text>> \o handleTCP(r)
         /\ \A q : Begins(q, F) => handleTCP(q) = Kept(q) /\ IsPrefix(q, text)
<1> DEFINE n == Len(text)
           b == <<NL>>
<1>1. n \in Nat /\ n >= 1 /\ b \in Seq(Byte) /\ Len(b) = 1 /\ b[1] = NL
  BY BytesAre, EmptySeq
<1>2. \A i \in 1..n : text[i] \notin Blank /\ text[i] # NL
  BY LenProperties DEF Range, Blank
<1>3. F = text \o b
  OBVIOUS
<1> HIDE DEF b, n
<1>4. F \in Seq(Byte) /\ Len(F) = n + 1 /\ F[n + 1] = NL /\ \A i \in 1..n : F[i] = text[i]
  <2>1. 1 \in 1 .. Len(b)
    BY <1>1
  <2> QED BY <1>1, <1>3, <2>1, Joined DEF n
\* a part of the line without its newline is not trimmed
<1>5. ASSUME NEW q \in Seq(Byte), Len(q) <= n, \A i \in 1 .. Len(q) : q[i] = text[i]
      PROVE  TrimRight(q) = q
  <2>1. Len(q) \in Nat /\ Len(q) \in 0 .. Len(q) /\ \A i \in Len(q) + 1 .. Len(q) : FALSE
    BY LenProperties
  <2>2. Len(q) = 0 \/ q[Len(q)] \notin Blank
    BY <1>1, <1>2, <1>5, <2>1
  <2>3. TrimRight(q) = SubSeq(q, 1, Len(q))
    BY <2>1, <2>2, TrimIs
  <2> QED BY <2>1, <2>3, SameSeq
<1>6. ASSUME NEW r \in Seq(Byte) PROVE handleTCP(F \o r) = <<text>> \o handleTCP(r)
  <2> DEFINE q == F \o r
  <2>1. /\ q \in Seq(Byte) /\ Len(q) = n + 1 + Len(r) /\ Len(r) \in Nat
        /\ \A i \in 1 .. n + 1 : q[i] = F[i]
    <3>1. F \in Seq(Byte)
      BY <1>4
    <3>2. /\ F \o r \in Seq(Byte) /\ Len(F \o r) = Len(F) + Len(r) /\ Len(r) \in Nat
          /\ \A i \in 1 .. Len(F) : (F \o r)[i] = F[i]
      BY <3>1, Joined
    <3> QED BY <1>4, <3>2
  <2> HIDE DEF q
  <2>2. 1 \in 1 .. Len(q) /\ ~(1 > Len(q)) /\ n + 1 \in 1 .. Len(q) /\ (n + 1) - 1 = n /\ 1 \in 1..n /\ 1 \in 1 .. n + 1
    BY <1>1, <2>1
  <2>3. q[1] \notin Range(Digits) /\ q[n + 1] = NL /\ \A i \in 1..n : q[i] = text[i]
    BY <1>1, <1>4, <2>1, <2>2
  <2>4. First(q, 1, NL, n + 1)
    BY <1>2, <2>2, <2>3 DEF First
  <2>5. Message(q, 1) = <<TrimRight(SubSeq(q, 1, n + 1)), n + 1 + 1>>
    BY <2>1, <2>2, <2>3, <2>4, EndedIs DEF Message
  <2>6. SubSeq(q, 1, n + 1) = F
    <3>1. Len(F) <= Len(q)
      BY <1>1, <1>4, <2>1
    <3>2. \A i \in 1 .. Len(F) : q[i] = F[i]
      BY <1>4, <2>1
    <3> QED BY <1>4, <2>1, <3>1, <3>2, SameSeq
  <2>7. TrimRight(F) = text
    <3>1. n \in 0 .. Len(F) /\ F[n] \notin Blank /\ \A i \in n + 1 .. Len(F) : F[i] \in Blank
      <4>1. \A i \in n + 1 .. Len(F) : i = n + 1
        BY <1>1, <1>4
      <4> QED BY <1>1, <1>2, <1>4, <4>1 DEF Blank
    <3>2. TrimRight(F) = SubSeq(F, 1, n)
      BY <1>4, <3>1, TrimIs
    <3>3. Len(text) <= Len(F) /\ \A i \in 1 .. Len(text) : F[i] = text[i]
      BY <1>1, <1>4 DEF n
    <3> QED BY <1>4, <3>2, <3>3, SameSeq DEF n
  <2>8. handleTCP(q) = Kept(text) \o handleTCP(r)
    <3>1. Message(F \o r, 1) = <<text, Len(F) + 1>>
      BY <1>4, <2>5, <2>6, <2>7 DEF q
    <3>2. F \in Seq(Byte)
      BY <1>4
    <3> QED BY <3>1, <3>2, HandleStep DEF q
  <2> QED BY <2>8 DEF q, Kept
<1>7. ASSUME NEW q, Begins(q, F) PROVE handleTCP(q) = Kept(q) /\ IsPrefix(q, text)
  <2>1. q \in Seq(Byte) /\ Len(q) <= n /\ Len(q) \in Nat /\ \A i \in 1 .. Len(q) : q[i] = text[i]
    <3>1. q \in Seq(Byte) /\ Len(q) \in Nat
      BY <1>7, LenProperties DEF Begins
    <3> QED BY <1>1, <1>4, <1>7, <3>1 DEF Begins
  <2>2. IsPrefix(q, text)
    <3>1. SubSeq(text, 1, Len(q)) = q /\ SubSeq(q, 1, Len(q)) = q
      BY <2>1, SameSeq DEF n
    <3> QED BY <2>1, <3>1 DEF IsPrefix, n
  <2>3. CASE Len(q) = 0
    <3>1. q = <<>>
      BY <2>1, <2>3, EmptySeq
    <3> QED BY <2>2, <3>1, EmptyStream DEF Kept
  <2>4. CASE Len(q) # 0
    <3>1. 1 \in 1 .. Len(q) /\ ~(1 > Len(q)) /\ q[1] \notin Range(Digits) /\ \A i \in 1 .. Len(q) : q[i] # NL
      <4>1. 1 \in 1 .. Len(q) /\ ~(1 > Len(q)) /\ \A i \in 1 .. Len(q) : i \in 1..n
        BY <1>1, <2>1, <2>4
      <4>2. \A i \in 1 .. Len(q) : q[i] # NL
        BY <1>2, <2>1, <4>1
      <4>3. q[1] = text[1]
        BY <2>1, <4>1
      <4> QED BY <4>1, <4>2, <4>3
    <3>2. Message(q, 1) = <<TrimRight(SubSeq(q, 1, Len(q))), Len(q) + 1>>
      BY <2>1, <3>1, EndedIs DEF Message
    <3>3. TrimRight(SubSeq(q, 1, Len(q))) = q
      <4>1. SubSeq(q, 1, Len(q)) = q
        BY <2>1, SameSeq
      <4>2. TrimRight(q) = q
        BY <1>5, <2>1
      <4> QED BY <4>1, <4>2
    <3>4. q \o <<>> = q /\ <<>> \in Seq(Byte)
      BY <2>1, ConcatEmptySeq
    <3>5. handleTCP(q) = Kept(q) \o handleTCP(<<>>)
      <4>1. Message(q \o <<>>, 1) = <<q, Len(q) + 1>>
        BY <3>2, <3>3, <3>4
      <4>2. handleTCP(q \o <<>>) = Kept(q) \o handleTCP(<<>>)
        BY <2>1, <3>4, <4>1, HandleStep
      <4> QED BY <3>4, <4>2
    <3>6. Kept(q) \o <<>> = Kept(q)
      BY <2>1 DEF Kept
    <3> QED BY <2>2, <3>5, <3>6, EmptyStream
  <2> QED BY <2>3, <2>4
<1> QED BY <1>4, <1>6, <1>7

LEMMA BytesJoin == \A s, t, u \in Seq(Byte) : (s \o t) \o u = s \o (t \o u)
<1> SUFFICES ASSUME NEW s \in Seq(Byte), NEW t \in Seq(Byte), NEW u \in Seq(Byte)
             PROVE  (s \o t) \o u = s \o (t \o u)
  OBVIOUS
<1> QED BY ConcatAssociative

\* What may be taken of a message that broke off.
Partly(q, text, how) ==
  handleTCP(q) = <<>> \/ \E x : handleTCP(q) = <<x>> /\ IF how = "newline" THEN IsPrefix(x, text) ELSE x = text
Ways == {"counted", "counted_nl", "newline"}
Sendable(text, how) ==
  IF how = "newline" THEN Range(text) \cap Blank = {} /\ text[1] \notin Range(Digits) ELSE Len(text) <= MaxFrame

LEMMA CountedNewline ==
  ASSUME NEW text \in Messages, NEW C \in Seq(Byte),
         \A r \in Seq(Byte) : handleTCP(C \o r) = <<text>> \o handleTCP(r),
         \A q : Begins(q, C) => handleTCP(q) = <<>>
  PROVE  LET F == C \o <<NL>>
         IN /\ F \in Seq(Byte)
            /\ \A r \in Seq(Byte) : handleTCP(F \o r) = <<text>> \o handleTCP(r)
            /\ \A q : Begins(q, F) => handleTCP(q) = <<>> \/ handleTCP(q) = <<text>>
<1> DEFINE b == <<NL>>
           F == C \o b
<1>1. b \in Seq(Byte) /\ Len(b) = 1 /\ \A r \in Seq(Byte) : handleTCP(b \o r) = handleTCP(r)
  BY BytesAre, NewlineSkipped
<1> HIDE DEF b
<1>2. F \in Seq(Byte) /\ Len(F) = Len(C) + 1 /\ Len(C) \in Nat /\ \A i \in 1 .. Len(C) : F[i] = C[i]
  <2>1. b \in Seq(Byte)
    BY <1>1
  <2>2. F \in Seq(Byte) /\ Len(F) = Len(C) + Len(b) /\ Len(C) \in Nat /\ \A i \in 1 .. Len(C) : F[i] = C[i]
    BY <2>1, Joined
  <2> QED BY <1>1, <2>2
<1>3. ASSUME NEW r \in Seq(Byte) PROVE handleTCP(F \o r) = <<text>> \o handleTCP(r)
  <2>1. b \o r \in Seq(Byte)
    BY <1>1, Joined
  <2>2. F \o r = C \o (b \o r)
    <3>1. b \in Seq(Byte)
      BY <1>1
    <3>2. (C \o b) \o r = C \o (b \o r)
      BY <3>1, BytesJoin
    <3> QED BY <3>2
  <2>3. handleTCP(C \o (b \o r)) = <<text>> \o handleTCP(b \o r)
    BY <2>1
  <2> QED BY <1>1, <2>2, <2>3
<1> HIDE DEF F
<1>4. ASSUME NEW q, Begins(q, F) PROVE handleTCP(q) = <<>> \/ handleTCP(q) = <<text>>
  <2>1. q \in Seq(Byte) /\ Len(q) \in Nat /\ Len(q) < Len(F) /\ \A i \in 1 .. Len(q) : q[i] = F[i]
    BY <1>4, LenProperties DEF Begins
  <2>2. Len(q) <= Len(C)
    BY <1>2, <2>1
  <2>3. \A i \in 1 .. Len(q) : i \in 1 .. Len(C)
    BY <1>2, <2>1, <2>2
  <2>4. \A i \in 1 .. Len(q) : q[i] = C[i]
    BY <1>2, <2>1, <2>3
  <2>5. CASE Len(q) < Len(C)
    <3>1. Begins(q, C)
      BY <2>1, <2>4, <2>5 DEF Begins
    <3> QED BY <3>1
  <2>6. CASE Len(q) = Len(C)
    <3>1. q = C
      BY <2>1, <2>4, <2>6, SeqEqual
    <3>2. C \o <<>> = C /\ <<>> \in Seq(Byte)
      BY ConcatEmptySeq
    <3>3. handleTCP(C) = <<text>> \o <<>>
      BY <3>2, EmptyStream
    <3> QED BY <3>1, <3>3
  <2> QED BY <1>2, <2>1, <2>2, <2>5, <2>6
<1> QED BY <1>2, <1>3, <1>4 DEF F, b

LEMMA FrameIs ==
  ASSUME NEW text \in Messages, NEW how \in Ways, Sendable(text, how)
  PROVE  LET F == Framed(text, how)
         IN /\ F \in Seq(Byte)
            /\ \A r \in Seq(Byte) : handleTCP(F \o r) = <<text>> \o handleTCP(r)
            /\ \A q : Begins(q, F) => Partly(q, text, how)
<1> DEFINE C == (Decimal(Len(text)) \o <<SP>>) \o text
           F == Framed(text, how)
<1>1. text \in Seq(Byte) /\ text # <<>>
  BY BytesAre
<1>3. CASE how = "newline"
  <2> DEFINE N == text \o <<NL>>
  <2>1. F = N
    BY <1>3 DEF Framed
  <2>3. /\ N \in Seq(Byte)
        /\ \A r \in Seq(Byte) : handleTCP(N \o r) = <<text>> \o handleTCP(r)
        /\ \A q : Begins(q, N) => handleTCP(q) = Kept(q) /\ IsPrefix(q, text)
    BY <1>1, <1>3, LineFrame DEF Sendable
  <2> HIDE DEF N, F
  <2>4. \A q : Begins(q, N) => Partly(q, text, how)
    BY <1>3, <2>3 DEF Partly, Kept
  <2> QED BY <2>1, <2>3, <2>4 DEF F
<1>4. CASE how # "newline"
  <2>0. Len(text) \in 1..MaxFrame
    <3>1. Len(text) \in Nat /\ Len(text) # 0
      BY <1>1, EmptySeq, LenProperties
    <3>2. Len(text) <= MaxFrame
      BY <1>4 DEF Sendable
    <3> QED BY <3>1, <3>2, FrameBound
  <2>4. /\ C \in Seq(Byte)
        /\ \A r \in Seq(Byte) : handleTCP(C \o r) = <<text>> \o handleTCP(r)
        /\ \A q : Begins(q, C) => handleTCP(q) = <<>>
    BY <1>1, <2>0, CountedFrame
  <2>1. F = C \o (IF how = "counted_nl" THEN <<NL>> ELSE <<>>)
    BY <1>4 DEF Framed
  <2> HIDE DEF F, C
  <2>2. CASE how = "counted_nl"
    <3> DEFINE N == C \o <<NL>>
    <3>1. F = N
      BY <2>1, <2>2
    <3>2. /\ N \in Seq(Byte)
          /\ \A r \in Seq(Byte) : handleTCP(N \o r) = <<text>> \o handleTCP(r)
          /\ \A q : Begins(q, N) => handleTCP(q) = <<>> \/ handleTCP(q) = <<text>>
      BY <2>4, CountedNewline
    <3> HIDE DEF N
    <3>3. \A q : Begins(q, N) => Partly(q, text, how)
      BY <1>4, <3>2 DEF Partly
    <3> QED BY <3>1, <3>2, <3>3 DEF F
  <2>3. CASE how # "counted_nl"
    <3>1. F = C
      BY <2>1, <2>3, <2>4, ConcatEmptySeq
    <3>2. \A q : Begins(q, C) => Partly(q, text, how)
      BY <2>4 DEF Partly
    <3> QED BY <2>4, <3>1, <3>2 DEF F
  <2> QED BY <2>2, <2>3
<1> QED BY <1>3, <1>4
-----------------------------------------------------------------------------
(***************************************************************************)
(* FramesExact                                                             *)
(***************************************************************************)
Sending == [text : Messages, how : Ways, at : Nat]

\* The last message, broken off.
Cut(T, s) ==
  T # <<>> =>
    LET m == Last(T)  whole == Text(Front(T))
    IN \A k \in m.at .. Len(s) - 1 :
         LET got == handleTCP(SubSeq(s, 1, k))
         IN \/ got = whole
            \/ /\ Len(got) = Len(T) /\ Front(got) = whole
               /\ IF m.how = "newline" THEN IsPrefix(Last(got), m.text) ELSE Last(got) = m.text

FramesInv ==
  /\ sent \in Seq(Sending) /\ stream \in Seq(Byte)
  /\ \A r \in Seq(Byte) : handleTCP(stream \o r) = Text(sent) \o handleTCP(r)
  /\ Cut(sent, stream)

LEMMA EndsWith ==
  ASSUME NEW S, NEW q \in Seq(S), NEW x \in S
  PROVE  LET a == Append(q, x) IN a \in Seq(S) /\ a # <<>> /\ a = q \o <<x>> /\ Last(a) = x /\ Front(a) = q /\ Len(a) = Len(q) + 1
<1> DEFINE a == Append(q, x)
<1>1. /\ a \in Seq(S) /\ a # <<>> /\ Len(a) = Len(q) + 1 /\ a[Len(q) + 1] = x
      /\ \A i \in 1 .. Len(q) : a[i] = q[i]
  BY AppendProperties
<1>2. a = q \o <<x>>
  BY AppendIsConcat
<1>3. Len(q) \in Nat
  BY LenProperties
<1> HIDE DEF a
<1>4. Last(a) = x
  BY <1>1 DEF Last
<1>5. SubSeq(a, 1, Len(q)) = q
  <2>1. Len(q) <= Len(a)
    BY <1>1, <1>3
  <2> QED BY <1>1, <2>1, SameSeq
<1>6. Len(a) - 1 = Len(q)
  BY <1>1, <1>3
<1>7. Front(a) = q
  BY <1>5, <1>6 DEF Front
<1> QED BY <1>1, <1>2, <1>4, <1>7 DEF a

LEMMA TextIs ==
  ASSUME NEW T \in Seq(Sending)
  PROVE  /\ Text(T) \in Seq(Messages) /\ Text(T) \in Seq(Seq(Byte)) /\ Len(Text(T)) = Len(T)
         /\ \A m \in Sending : Text(Append(T, m)) = Append(Text(T), m.text)
<1>1. DOMAIN T = 1 .. Len(T) /\ Len(T) \in Nat /\ \A i \in 1 .. Len(T) : T[i] \in Sending
  BY LenProperties, ElementOfSeq
<1>2. \A i \in 1 .. Len(T) : T[i].text \in Messages
  BY <1>1 DEF Sending
<1>3. Text(T) \in Seq(Messages) /\ Len(Text(T)) = Len(T)
  BY <1>1, <1>2 DEF Text
<1>4. Text(T) \in Seq(Seq(Byte))
  <2>1. Messages \subseteq Seq(Byte)
    BY BytesAre
  <2> QED BY <1>3, <2>1, SeqMonotonic
<1>5. ASSUME NEW m \in Sending PROVE Text(Append(T, m)) = Append(Text(T), m.text)
  <2> DEFINE a == Append(T, m)
             x == Text(a)
             y == Append(Text(T), m.text)
  <2>1. /\ a \in Seq(Sending) /\ Len(a) = Len(T) + 1 /\ a[Len(T) + 1] = m
        /\ \A i \in 1 .. Len(T) : a[i] = T[i]
    BY AppendProperties
  <2>2. m.text \in Messages
    BY DEF Sending
  <2>3. /\ y \in Seq(Messages) /\ Len(y) = Len(T) + 1 /\ y[Len(T) + 1] = m.text
        /\ \A i \in 1 .. Len(T) : y[i] = Text(T)[i]
    BY <1>3, <2>2, AppendProperties
  <2> HIDE DEF a, y
  <2>4. DOMAIN a = 1 .. Len(T) + 1
    BY <2>1, LenProperties
  <2>5. x = [i \in 1 .. Len(T) + 1 |-> a[i].text]
    BY <2>4 DEF Text
  <2>6. \A i \in 1 .. Len(T) : Text(T)[i] = T[i].text
    BY <1>1 DEF Text
  <2>7. \A i \in 1 .. Len(T) + 1 : a[i].text = y[i]
    <3>1. \A i \in 1 .. Len(T) + 1 : i \in 1 .. Len(T) \/ i = Len(T) + 1
      BY <1>1
    <3> QED BY <2>1, <2>3, <2>6, <3>1
  <2>8. y = [i \in 1 .. Len(T) + 1 |-> y[i]]
    BY <1>1, <2>3
  <2> HIDE DEF x
  <2>9. x = y
    BY <2>5, <2>7, <2>8
  <2> QED BY <2>9 DEF a, x, y
<1> QED BY <1>3, <1>4, <1>5

LEMMA InitFrames == InitIntake => FramesInv
<1> SUFFICES ASSUME InitIntake PROVE FramesInv
  OBVIOUS
<1>1. sent = <<>> /\ stream = <<>>
  BY DEF InitIntake
<1>2. Text(<<>>) = <<>>
  BY DEF Text
<1>3. ASSUME NEW r \in Seq(Byte) PROVE handleTCP(<<>> \o r) = <<>> \o handleTCP(r)
  <2>3. handleTCP(r) \in Seq(Seq(Byte))
    BY HandleSeq
  <2>4. <<>> \o r = r
    BY ConcatEmptySeq
  <2>5. <<>> \o handleTCP(r) = handleTCP(r)
    BY <2>3, ConcatEmptySeq
  <2> QED BY <2>4, <2>5
<1>4. <<>> \in Seq(Sending) /\ <<>> \in Seq(Byte)
  OBVIOUS
<1>5. Cut(<<>>, <<>>)
  BY DEF Cut
<1> QED BY <1>1, <1>2, <1>3, <1>4, <1>5 DEF FramesInv

LEMMA SendFrames == FramesInv /\ Send => FramesInv'
<1> SUFFICES ASSUME FramesInv, Send PROVE FramesInv'
  OBVIOUS
<1>1. PICK text \in Messages, how \in Ways :
        /\ Sendable(text, how)
        /\ sent' = Append(sent, [text |-> text, how |-> how, at |-> Len(stream)])
        /\ stream' = stream \o Framed(text, how)
  BY DEF Send, Sendable, Ways
<1> DEFINE T == sent
           s == stream
           F == Framed(text, how)
           m == [text |-> text, how |-> how, at |-> Len(s)]
           T1 == Append(T, m)
           s1 == s \o F
<1>2. /\ T \in Seq(Sending) /\ s \in Seq(Byte) /\ Len(s) \in Nat
      /\ \A r \in Seq(Byte) : handleTCP(s \o r) = Text(T) \o handleTCP(r)
  BY LenProperties DEF FramesInv
<1>3. m \in Sending /\ m.text = text /\ m.how = how /\ m.at = Len(s)
  BY <1>2 DEF Sending
<1>4. /\ F \in Seq(Byte)
      /\ \A r \in Seq(Byte) : handleTCP(F \o r) = <<text>> \o handleTCP(r)
      /\ \A q : Begins(q, F) => Partly(q, text, how)
  BY <1>1, FrameIs
<1> HIDE DEF F, m
<1>5. T1 \in Seq(Sending) /\ T1 # <<>> /\ Last(T1) = m /\ Front(T1) = T /\ Len(T1) = Len(T) + 1
  BY <1>2, <1>3, EndsWith
<1>6. /\ s1 \in Seq(Byte) /\ Len(s1) = Len(s) + Len(F) /\ Len(F) \in Nat
      /\ \A i \in 1 .. Len(s) : s1[i] = s[i]
      /\ \A i \in 1 .. Len(F) : s1[Len(s) + i] = F[i]
  BY <1>2, <1>4, Joined
<1>7. Text(T) \in Seq(Seq(Byte)) /\ Len(Text(T)) = Len(T) /\ Text(T1) = Append(Text(T), text)
  BY <1>2, <1>3, TextIs
<1>8. text \in Seq(Byte)
  BY BytesAre
<1>9. ASSUME NEW r \in Seq(Byte) PROVE handleTCP(s1 \o r) = Text(T1) \o handleTCP(r)
  <2>1. F \o r \in Seq(Byte)
    BY <1>4, Joined
  <2>2. s1 \o r = s \o (F \o r)
    <3>1. s \in Seq(Byte) /\ F \in Seq(Byte)
      BY <1>2, <1>4
    <3>2. (s \o F) \o r = s \o (F \o r)
      BY <3>1, BytesJoin
    <3> QED BY <3>2
  <2>3. handleTCP(s \o (F \o r)) = Text(T) \o handleTCP(F \o r)
    BY <1>2, <2>1
  <2>4. handleTCP(F \o r) = <<text>> \o handleTCP(r)
    BY <1>4
  <2>5. handleTCP(r) \in Seq(Seq(Byte))
    BY HandleSeq
  <2> DEFINE W == Seq(Byte)
             h == handleTCP(r)
             t == Text(T)
  <2>6. text \in W /\ t \in Seq(W) /\ h \in Seq(W)
    BY <1>7, <1>8, <2>5
  <2> HIDE DEF W, h, t
  <2>7. <<text>> \in Seq(W)
    BY <2>6
  <2>8. (t \o <<text>>) \o h = t \o (<<text>> \o h)
    BY <2>6, <2>7, ConcatAssociative
  <2>9. Append(t, text) = t \o <<text>>
    BY <2>6, AppendIsConcat
  <2> QED BY <1>7, <2>2, <2>3, <2>4, <2>8, <2>9 DEF h, t
<1>10. ASSUME NEW k \in m.at .. Len(s1) - 1
       PROVE  LET got == handleTCP(SubSeq(s1, 1, k))
              IN \/ got = Text(T)
                 \/ /\ Len(got) = Len(T1) /\ Front(got) = Text(T)
                    /\ IF m.how = "newline" THEN IsPrefix(Last(got), m.text) ELSE Last(got) = m.text
  <2> DEFINE j == k - Len(s)
             q == SubSeq(F, 1, j)
             c == SubSeq(s1, 1, k)
  <2>1. j \in 1 - 1 .. Len(F) /\ j \in Nat /\ j < Len(F) /\ k = Len(s) + j /\ k \in 0 .. Len(s1) /\ k \in Int
    BY <1>2, <1>3, <1>6
  <2>2. 1 \in 1 .. Len(F) + 1 /\ j - 1 + 1 = j /\ 1 \in 1 .. Len(s1) + 1 /\ k \in 1 - 1 .. Len(s1) /\ k - 1 + 1 = k
    BY <1>2, <1>6, <2>1
  <2> HIDE DEF j
  <2>3. q \in Seq(Byte) /\ Len(q) = j /\ \A i \in 1 .. j : q[i] = F[1 + i - 1]
    BY <1>4, <2>1, <2>2, PartOf
  <2>4. \A i \in 1 .. j : q[i] = F[i] /\ 1 + i - 1 = i
    BY <2>1, <2>3
  <2>5. Begins(q, F)
    BY <2>1, <2>3, <2>4 DEF Begins
  <2>6. c \in Seq(Byte) /\ Len(c) = k /\ \A i \in 1 .. k : c[i] = s1[1 + i - 1]
    BY <1>6, <2>2, PartOf
  <2> HIDE DEF q, c
  <2>7. c = s \o q
    <3> DEFINE d == s \o q
    <3>1. /\ d \in Seq(Byte) /\ Len(d) = k
          /\ \A i \in 1 .. Len(s) : d[i] = s[i]
          /\ \A i \in 1 .. j : d[Len(s) + i] = q[i]
      BY <1>2, <2>1, <2>3, Joined
    <3> HIDE DEF d, s1
    <3>2. ASSUME NEW i \in 1 .. k PROVE c[i] = d[i]
      <4>1. c[i] = s1[i]
        <5>1. 1 + i - 1 = i
          BY <2>1
        <5> QED BY <2>6, <5>1
      <4>2. CASE i \in 1 .. Len(s)
        BY <1>6, <3>1, <4>1, <4>2
      <4>3. CASE i \notin 1 .. Len(s)
        <5> DEFINE n == i - Len(s)
        <5>1. n \in 1 .. j /\ i = Len(s) + n /\ n \in 1 .. Len(F)
          BY <1>2, <1>6, <2>1, <4>3
        <5> HIDE DEF n
        <5> QED BY <1>6, <2>4, <3>1, <4>1, <5>1
      <4> QED BY <4>2, <4>3
    <3>3. c = d
      BY <2>6, <3>1, <3>2, SeqEqual
    <3> QED BY <3>3 DEF d
  <2>8. handleTCP(c) = Text(T) \o handleTCP(q) /\ Partly(q, text, how)
    BY <1>2, <1>4, <2>3, <2>5, <2>7
  <2>9. CASE handleTCP(q) = <<>>
    <3>1. handleTCP(c) = Text(T)
      BY <1>7, <2>8, <2>9, ConcatEmptySeq
    <3> QED BY <3>1 DEF c
  <2>10. CASE \E x : handleTCP(q) = <<x>> /\ IF how = "newline" THEN IsPrefix(x, text) ELSE x = text
    <3>1. PICK x : handleTCP(q) = <<x>> /\ IF how = "newline" THEN IsPrefix(x, text) ELSE x = text
      BY <2>10
    <3>2. x \in Seq(Byte)
      <4>1. handleTCP(q) \in Seq(Seq(Byte))
        BY <2>3, HandleSeq
      <4> DEFINE W == Seq(Byte)
      <4>3. <<x>> \in Seq(W)
        BY <3>1, <4>1
      <4> HIDE DEF W
      <4>4. Len(<<x>>) = 1 /\ <<x>>[1] = x
        OBVIOUS
      <4>5. 1 \in 1 .. Len(<<x>>)
        BY <4>4
      <4>6. <<x>>[1] \in W
        BY <4>3, <4>5, ElementOfSeq
      <4> QED BY <4>4, <4>6 DEF W
    <3> DEFINE got == handleTCP(c)
               W == Seq(Byte)
               t == Text(T)
    <3>3. x \in W /\ t \in Seq(W) /\ got = t \o <<x>> /\ Len(t) = Len(T)
      BY <1>7, <2>8, <3>1, <3>2
    <3> HIDE DEF got, W, t
    <3>4. got = Append(t, x) /\ Len(got) = Len(t) + 1 /\ Front(got) = t /\ Last(got) = x
      <4>1. x \in W /\ t \in Seq(W)
        BY <3>3
      <4> DEFINE a == Append(t, x)
      <4>2. a = t \o <<x>> /\ Last(a) = x /\ Front(a) = t /\ Len(a) = Len(t) + 1
        BY <4>1, EndsWith
      <4>3. got = a
        BY <3>3, <4>2
      <4> QED BY <4>2, <4>3
    <3>5. /\ Len(got) = Len(T1) /\ Front(got) = t
          /\ IF m.how = "newline" THEN IsPrefix(Last(got), m.text) ELSE Last(got) = m.text
      BY <1>3, <1>5, <3>1, <3>3, <3>4
    <3> QED BY <3>5 DEF got, t, c
  <2> QED BY <2>8, <2>9, <2>10 DEF Partly
<1>11. Cut(T1, s1)
  BY <1>5, <1>10 DEF Cut
<1>12. sent' = T1 /\ stream' = s1
  BY <1>1 DEF m, F
<1> HIDE DEF T1, s1, T, s
<1> QED BY <1>5, <1>6, <1>9, <1>11, <1>12 DEF FramesInv

\* A connection on which counted messages and lines come in any order is framed
\* as it was sent, wherever it breaks off, for all messages and any number of them.
THEOREM FramesAlwaysExact == IntakeSpec => []FramesExact
<1>1. FramesInv /\ [Listen \/ Follow]_<<sent, stream, tail>> => FramesInv'
  <2> SUFFICES ASSUME FramesInv, [Listen \/ Follow]_<<sent, stream, tail>> PROVE FramesInv'
    OBVIOUS
  <2>1. CASE Send
    BY <2>1, SendFrames
  <2>2. CASE UNCHANGED <<sent, stream>>
    BY <2>2 DEF FramesInv
  <2> QED BY <2>1, <2>2 DEF Listen, Follow
<1>2. FramesInv => FramesExact
  <2> SUFFICES ASSUME FramesInv PROVE FramesExact
    OBVIOUS
  <2>1. /\ stream \in Seq(Byte) /\ Text(sent) \in Seq(Seq(Byte)) /\ Cut(sent, stream)
        /\ \A r \in Seq(Byte) : handleTCP(stream \o r) = Text(sent) \o handleTCP(r)
    BY TextIs DEF FramesInv
  <2>2. stream \o <<>> = stream /\ <<>> \in Seq(Byte)
    BY <2>1, ConcatEmptySeq
  <2>3. Text(sent) \o <<>> = Text(sent)
    BY <2>1, ConcatEmptySeq
  <2>4. handleTCP(stream) = Text(sent)
    BY <2>1, <2>2, <2>3, EmptyStream
  <2> QED BY <2>1, <2>4 DEF FramesExact, Cut
<1> QED BY <1>1, <1>2, InitFrames, PTL DEF IntakeSpec
=============================================================================
