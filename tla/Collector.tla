----------------------------- MODULE Collector ------------------------------
(***************************************************************************)
(* The batcher of uli-collector (collector/cmd/uli-collector/main.go):     *)
(* listeners add the lines they read to a buffer per source and flush it   *)
(* themselves when it is full; the loop flushes every buffer on each tick. *)
(* A flush takes the buffer under the lock and posts it without the lock,  *)
(* up to Attempts times, and gives up after that.                          *)
(*                                                                         *)
(* Line n of a source is the n-th one its listener reads.  A post that     *)
(* fails may have been stored in part (the API publishes line by line) or  *)
(* as a whole (the reply was lost), and a request the client no longer     *)
(* waits for may still be stored later.                                    *)
(***************************************************************************)
EXTENDS Naturals, Sequences, FiniteSets

CONSTANTS
  Listeners,   \* goroutines of udpListener, handleTCP and tailFile
  Loop,        \* the goroutine of batcher.loop
  Sources,     \* source ids
  ReaderOf,    \* ReaderOf[s]: the listener that reads the lines of s
  MaxBatch,    \* maxBatch
  Attempts,    \* posts of one batch before it is dropped (5)
  MaxLines,    \* MaxLines[s]: bound on the lines read of source s
  MaxFaults,   \* bound: posts that fail
  MaxCrashes   \* bound: restarts of the collector

ASSUME CollectorAssumption ==
  /\ Loop \notin Listeners
  /\ ReaderOf \in [Sources -> Listeners]
  /\ MaxBatch \in Nat \ {0} /\ Attempts \in Nat \ {0}
  /\ MaxLines \in [Sources -> Nat] /\ MaxFaults \in Nat /\ MaxCrashes \in Nat

VARIABLES
  read,      \* read[s]: lines of s read so far
  buf,       \* buf[s]: lines of s not flushed yet
  pc,        \* pc[a]: where goroutine a is
  src,       \* src[a]: the source a is flushing
  flight,    \* flight[a]: the lines a is posting
  attempt,   \* attempt[a]: posts made of them
  todo,      \* sources the loop has still to flush in this tick
  late,      \* requests given up by the client and not yet seen by the server
  stored,    \* stored[s]: lines of s in the order the server stored them
  dropped,   \* lines of batches given up
  lost,      \* lines in memory when the collector died
  faults, crashes

vars == <<read, buf, pc, src, flight, attempt, todo, late, stored, dropped, lost, faults, crashes>>
-----------------------------------------------------------------------------
Actors == Listeners \cup {Loop}
NoSource == "none"
SeqSet(q) == {q[i] : i \in DOMAIN q}
Of(s, q) == {<<s, n>> : n \in SeqSet(q)}

Init ==
  /\ read = [s \in Sources |-> 0]
  /\ buf = [s \in Sources |-> <<>>]
  /\ pc = [a \in Actors |-> "idle"]
  /\ src = [a \in Actors |-> NoSource]
  /\ flight = [a \in Actors |-> <<>>]
  /\ attempt = [a \in Actors |-> 0]
  /\ todo = {} /\ late = {}
  /\ stored = [s \in Sources |-> <<>>]
  /\ dropped = {} /\ lost = {} /\ faults = 0 /\ crashes = 0

AddAboveFull(s) ==   \* mutant: a full buffer is not flushed, only one above the limit
  LET l == ReaderOf[s]
      full == Len(buf[s]) + 1 > MaxBatch
  IN /\ pc[l] = "idle"
     /\ read[s] < MaxLines[s]
     /\ read' = [read EXCEPT ![s] = @ + 1]
     /\ buf'  = [buf EXCEPT ![s] = Append(@, read[s] + 1)]
     /\ pc'   = [pc EXCEPT ![l] = IF full THEN "flush" ELSE "idle"]
     /\ src'  = [src EXCEPT ![l] = IF full THEN s ELSE @]
     /\ UNCHANGED <<flight, attempt, todo, late, stored, dropped, lost, faults, crashes>>
\* add: the listener flushes when the buffer it appended to has become full.
Add(s) ==
  LET l == ReaderOf[s]
      full == Len(buf[s]) + 1 >= MaxBatch
  IN /\ pc[l] = "idle"
     /\ read[s] < MaxLines[s]
     /\ read' = [read EXCEPT ![s] = @ + 1]
     /\ buf'  = [buf EXCEPT ![s] = Append(@, read[s] + 1)]
     /\ pc'   = [pc EXCEPT ![l] = IF full THEN "flush" ELSE "idle"]
     /\ src'  = [src EXCEPT ![l] = IF full THEN s ELSE @]
     /\ UNCHANGED <<flight, attempt, todo, late, stored, dropped, lost, faults, crashes>>

TickFullOnly ==   \* mutant: the loop passes over buffers that are not full
  /\ pc[Loop] = "idle" /\ todo = {}
  /\ todo' = {s \in Sources : Len(buf[s]) >= MaxBatch}
  /\ todo' # {}
  /\ UNCHANGED <<read, buf, pc, src, flight, attempt, late, stored, dropped, lost, faults, crashes>>
\* loop: a tick copies the ids of the sources that have a buffer ...
Tick ==
  /\ pc[Loop] = "idle" /\ todo = {}
  /\ todo' = {s \in Sources : buf[s] # <<>>}
  /\ todo' # {}
  /\ UNCHANGED <<read, buf, pc, src, flight, attempt, late, stored, dropped, lost, faults, crashes>>

\* ... and flushes them one after the other.
LoopNext(s) ==
  /\ pc[Loop] = "idle" /\ s \in todo
  /\ todo' = todo \ {s}
  /\ pc'  = [pc EXCEPT ![Loop] = "flush"]
  /\ src' = [src EXCEPT ![Loop] = s]
  /\ UNCHANGED <<read, buf, flight, attempt, late, stored, dropped, lost, faults, crashes>>

\* flushSource, with the lock: take the buffer of the source, if there is one.
TakeKeepsBuffer(a) ==   \* mutant: the buffer is deleted only when it has been posted
  /\ pc[a] = "flush"
  /\ flight'  = [flight EXCEPT ![a] = buf[src[a]]]
  /\ attempt' = [attempt EXCEPT ![a] = 0]
  /\ pc' = [pc EXCEPT ![a] = IF buf[src[a]] = <<>> THEN "idle" ELSE "post"]
  /\ src' = [src EXCEPT ![a] = IF buf[src[a]] = <<>> THEN NoSource ELSE @]
  /\ UNCHANGED <<read, buf, todo, late, stored, dropped, lost, faults, crashes>>
TakeFirst(a) ==   \* mutant: only the first line is posted, the buffer goes all the same
  /\ pc[a] = "flush"
  /\ flight'  = [flight EXCEPT ![a] = SubSeq(buf[src[a]], 1, 1)]
  /\ attempt' = [attempt EXCEPT ![a] = 0]
  /\ buf' = [buf EXCEPT ![src[a]] = <<>>]
  /\ pc' = [pc EXCEPT ![a] = IF buf[src[a]] = <<>> THEN "idle" ELSE "post"]
  /\ src' = [src EXCEPT ![a] = IF buf[src[a]] = <<>> THEN NoSource ELSE @]
  /\ UNCHANGED <<read, todo, late, stored, dropped, lost, faults, crashes>>
Take(a) ==
  /\ pc[a] = "flush"
  /\ flight'  = [flight EXCEPT ![a] = buf[src[a]]]
  /\ attempt' = [attempt EXCEPT ![a] = 0]
  /\ buf' = [buf EXCEPT ![src[a]] = <<>>]
  /\ pc' = [pc EXCEPT ![a] = IF buf[src[a]] = <<>> THEN "idle" ELSE "post"]
  /\ src' = [src EXCEPT ![a] = IF buf[src[a]] = <<>> THEN NoSource ELSE @]
  /\ UNCHANGED <<read, todo, late, stored, dropped, lost, faults, crashes>>

\* flushSource returns.
Return(a) ==
  /\ pc' = [pc EXCEPT ![a] = "idle"]
  /\ src' = [src EXCEPT ![a] = NoSource]
  /\ flight' = [flight EXCEPT ![a] = <<>>]
  /\ attempt' = [attempt EXCEPT ![a] = 0]

\* The server stores the first k lines of a batch.
Store(s, q, k) == stored' = [stored EXCEPT ![s] = @ \o SubSeq(q, 1, k)]

\* One POST succeeds: everything is stored and the reply arrives.
PostOK(a) ==
  /\ pc[a] = "post"
  /\ Store(src[a], flight[a], Len(flight[a]))
  /\ Return(a)
  /\ UNCHANGED <<read, buf, todo, late, dropped, lost, faults, crashes>>

\* After a failed attempt the batch is posted again, or dropped.
Retry(a) ==
  \/ /\ attempt[a] + 1 < Attempts
     /\ attempt' = [attempt EXCEPT ![a] = @ + 1]
     /\ UNCHANGED <<pc, src, flight, dropped>>
  \/ /\ attempt[a] + 1 = Attempts
     /\ dropped' = dropped \cup Of(src[a], flight[a])
     /\ Return(a)

\* One POST fails after the server has stored k lines of it: it refused the
\* batch, failed halfway, or the reply was lost.
PostFails(a, k) ==
  /\ pc[a] = "post" /\ faults < MaxFaults
  /\ k \in 0 .. Len(flight[a])
  /\ faults' = faults + 1
  /\ Store(src[a], flight[a], k)
  /\ Retry(a)
  /\ UNCHANGED <<read, buf, todo, late, lost, crashes>>

\* The client times out while the request is still on its way.
PostTimesOut(a) ==
  /\ pc[a] = "post" /\ faults < MaxFaults
  /\ faults' = faults + 1
  /\ late' = late \cup {[src |-> src[a], lines |-> flight[a], no |-> attempt[a]]}
  /\ Retry(a)
  /\ UNCHANGED <<read, buf, todo, stored, lost, crashes>>

Late(r, k) ==
  /\ r \in late
  /\ k \in 0 .. Len(r.lines)
  /\ late' = late \ {r}
  /\ Store(r.src, r.lines, k)
  /\ UNCHANGED <<read, buf, pc, src, flight, attempt, todo, dropped, lost, faults, crashes>>

\* The collector dies and is started again; nothing of it is on disk.
InMemory == (UNION {Of(s, buf[s]) : s \in Sources}) \cup (UNION {Of(src[a], flight[a]) : a \in Actors})
Crash ==
  /\ crashes < MaxCrashes
  /\ crashes' = crashes + 1
  /\ lost' = lost \cup InMemory
  /\ buf' = [s \in Sources |-> <<>>]
  /\ pc'  = [a \in Actors |-> "idle"]
  /\ src' = [a \in Actors |-> NoSource]
  /\ flight' = [a \in Actors |-> <<>>]
  /\ attempt' = [a \in Actors |-> 0]
  /\ todo' = {}
  /\ UNCHANGED <<read, late, stored, dropped, faults>>
-----------------------------------------------------------------------------
Post(a) == PostOK(a) \/ PostTimesOut(a) \/ \E k \in 0 .. MaxBatch : PostFails(a, k)

Next ==
  \/ \E s \in Sources : Add(s) \/ LoopNext(s)
  \/ Tick
  \/ \E a \in Actors : Take(a) \/ Post(a)
  \/ \E r \in late, k \in 0 .. MaxBatch : Late(r, k)
  \/ Crash

Spec == Init /\ [][Next]_vars

\* Goroutines run, the ticker ticks, and a POST ends within its timeout.
Fairness ==
  /\ WF_vars(Tick)
  /\ WF_vars(\E s \in Sources : LoopNext(s))
  /\ \A a \in Actors : WF_vars(Take(a)) /\ WF_vars(Post(a))
FairSpec == Spec /\ Fairness
-----------------------------------------------------------------------------
(***************************************************************************)
(* Properties                                                              *)
(***************************************************************************)
Lines(s) == 1 .. read[s]

\* Every variable holds a value of its kind; a buffer never exceeds maxBatch,
\* whatever the loop and the listener do at the same time.
TypeOK ==
  /\ \A s \in Sources : read[s] \in 0 .. MaxLines[s]
  /\ \A s \in Sources : buf[s] \in Seq(Lines(s)) /\ Len(buf[s]) <= MaxBatch
  /\ pc \in [Actors -> {"idle", "flush", "post"}]
  /\ src \in [Actors -> Sources \cup {NoSource}]
  /\ \A a \in Actors :
       /\ Len(flight[a]) <= MaxBatch
       /\ flight[a] # <<>> => src[a] \in Sources /\ flight[a] \in Seq(Lines(src[a]))
  /\ attempt \in [Actors -> 0 .. Attempts - 1]
  /\ todo \subseteq Sources
  /\ \A r \in late : r.src \in Sources /\ r.lines \in Seq(Lines(r.src))
  /\ \A s \in Sources : stored[s] \in Seq(Lines(s))
  /\ \A x \in dropped \cup lost : x[1] \in Sources /\ x[2] \in Lines(x[1])
  /\ faults \in 0 .. MaxFaults /\ crashes \in 0 .. MaxCrashes

InBuf(s, n) == n \in SeqSet(buf[s])
Carriers(s, n) == {a \in Actors : src[a] = s /\ n \in SeqSet(flight[a])}
Out(s, n) == n \in SeqSet(stored[s]) \/ <<s, n>> \in dropped \/ <<s, n>> \in lost

\* A line that was read is in the buffer, or in the hands of one goroutine, or
\* is out: stored, dropped after the retries, or lost in a crash.  The loop
\* and a listener that flush the same source never take a line both, and a
\* line added while a flush is posting does not go with the old buffer.
NoLineVanishes ==
  \A s \in Sources : \A n \in Lines(s) :
    \/ InBuf(s, n) /\ Carriers(s, n) = {}
    \/ ~InBuf(s, n) /\ Cardinality(Carriers(s, n)) = 1
    \/ ~InBuf(s, n) /\ Carriers(s, n) = {} /\ Out(s, n)

\* As long as no post fails, the server stores every line at most once.
StoredOnce ==
  faults = 0 => \A s \in Sources : \A i, j \in DOMAIN stored[s] :
                   i # j => stored[s][i] # stored[s][j]

\* Every line is eventually stored or dropped: neither an idle source nor a
\* busy one waits for ever in its buffer.
EveryLineLeaves ==
  \A s \in Sources : \A n \in 1 .. MaxLines[s] : (n <= read[s]) ~> Out(s, n)

=============================================================================
