------------------------------ MODULE Delivery ------------------------------
(***************************************************************************)
(* RedisStreamsQueue (uli/ingestion/queue.py) and the worker loop          *)
(* (uli/workers/runner.py) around it: XADD with an approximate MAXLEN, one *)
(* consumer group, its pending entries list, and workers that read, parse, *)
(* process and acknowledge batches, and that stop, crash, restart or are   *)
(* replaced at any point.                                                  *)
(*                                                                         *)
(* Messages are numbered in stream order.  The Redis server is modelled    *)
(* from the commands the code sends: XREADGROUP with id "0" returns the    *)
(* first entries of the consumer's own pending list, with ">" the entries  *)
(* after the group's last-delivered id; XACK removes pending entries.      *)
(***************************************************************************)
EXTENDS Naturals, FiniteSets

CONSTANTS
  Consumers,    \* consumer names (hostname-argv) a worker may run under
  Spares,       \* the names among them that only a replaced container takes
  MaxMsgs,      \* bound: messages published in a behaviour
  Poison,       \* messages whose envelope does not validate
  Count,        \* count=200: entries per XREADGROUP
  MaxLen,       \* stream_maxlen
  MaxStops,     \* bound: crashes and stops
  MaxLost,      \* bound: XREADGROUP replies lost on the way to the client
  MaxRaises,    \* bound: process_batch calls that raise
  MaxReplaced   \* bound: containers replaced by one with another hostname

ASSUME DeliveryAssumption ==
  /\ Spares \subseteq Consumers
  /\ MaxMsgs \in Nat /\ Count \in Nat \ {0} /\ MaxLen \in Nat
  /\ Poison \subseteq 1 .. MaxMsgs
  /\ MaxStops \in Nat /\ MaxLost \in Nat /\ MaxRaises \in Nat /\ MaxReplaced \in Nat

VARIABLES
  published,  \* messages 1 .. published have been added
  trimmed,    \* messages 1 .. trimmed are no longer in the stream
  last,       \* the group's last-delivered id
  pel,        \* pel[c]: entries pending for c
  pc,         \* pc[c]: where the worker of name c is
  first,      \* first[c]: the consume generator has not completed a read yet
  batch,      \* batch[c]: ids of the batch in hand
  handled,    \* handled[m]: times process_batch stored m
  raised,     \* messages of batches whose processing raised
  gone,       \* names whose container was replaced
  stops, lost, raises

server   == <<published, trimmed, last>>
counters == <<stops, lost, raises>>
vars == <<server, pel, pc, first, batch, handled, raised, gone, counters>>
-----------------------------------------------------------------------------
Msgs == 1 .. MaxMsgs

\* The Count smallest elements of S.
Page(S) == {m \in S : Cardinality({n \in S : n < m}) < Count}

FreshFromStart == (trimmed + 1) .. published   \* mutant: the last-delivered id is not honoured
Fresh == {m \in (trimmed + 1) .. published : m > last}

LastOf(S) == IF S = {} THEN last ELSE CHOOSE m \in S : \A n \in S : n <= m

Bump(S) == [m \in Msgs |-> handled[m] + IF m \in S THEN 1 ELSE 0]

Init ==
  /\ published = 0 /\ trimmed = 0 /\ last = 0
  /\ pel = [c \in Consumers |-> {}]
  /\ pc = [c \in Consumers |-> "down"]
  /\ first = [c \in Consumers |-> TRUE]
  /\ batch = [c \in Consumers |-> {}]
  /\ handled = [m \in Msgs |-> 0]
  /\ raised = {} /\ gone = {}
  /\ stops = 0 /\ lost = 0 /\ raises = 0
-----------------------------------------------------------------------------
\* publish: XADD MAXLEN ~: the oldest entries beyond MaxLen may go, pending
\* or not.
Publish ==
  /\ published < MaxMsgs
  /\ published' = published + 1
  /\ \E n \in trimmed .. published :
       /\ n > trimmed => published + 1 - n >= MaxLen
       /\ trimmed' = n
  /\ UNCHANGED <<last, pel, pc, first, batch, handled, raised, gone, counters>>

\* A worker process starts under name c.
Start(c) ==
  /\ pc[c] = "down" /\ c \notin gone
  /\ c \in Spares => gone # {}
  /\ pc' = [pc EXCEPT ![c] = "read"]
  /\ first' = [first EXCEPT ![c] = TRUE]
  /\ UNCHANGED <<server, pel, batch, handled, raised, gone, counters>>

\* consume, first read: one page of the pending entries of this name.
ReadPendingSkips(c) ==   \* mutant: a restarted worker reads new entries at once
  /\ pc[c] = "read" /\ first[c]
  /\ first' = [first EXCEPT ![c] = FALSE]
  /\ UNCHANGED <<server, pel, pc, batch, handled, raised, gone, counters>>
ReadPending(c) ==
  /\ pc[c] = "read" /\ first[c]
  /\ first' = [first EXCEPT ![c] = FALSE]
  /\ batch' = [batch EXCEPT ![c] = Page(pel[c])]
  /\ pc' = [pc EXCEPT ![c] = IF pel[c] = {} THEN "read" ELSE "parse"]
  /\ UNCHANGED <<server, pel, handled, raised, gone, counters>>

\* consume, later reads.  If the reply is lost the client logs, sleeps and
\* reads on; for the server the entries have been delivered.
ReadNewUnowned(c) ==   \* mutant: the entries are not made pending (NOACK)
  /\ pc[c] = "read" /\ ~first[c] /\ Fresh # {}
  /\ last' = LastOf(Page(Fresh))
  /\ batch' = [batch EXCEPT ![c] = Page(Fresh)]
  /\ pc' = [pc EXCEPT ![c] = "parse"]
  /\ UNCHANGED <<published, trimmed, pel, first, handled, raised, gone, counters>>
ReadNew(c) ==
  /\ pc[c] = "read" /\ ~first[c] /\ Fresh # {}
  /\ last' = LastOf(Page(Fresh))
  /\ pel'  = [pel EXCEPT ![c] = @ \cup Page(Fresh)]
  /\ \/ /\ batch' = [batch EXCEPT ![c] = Page(Fresh)]
        /\ pc' = [pc EXCEPT ![c] = "parse"]
        /\ UNCHANGED lost
     \/ /\ lost < MaxLost
        /\ lost' = lost + 1
        /\ UNCHANGED <<batch, pc>>
  /\ UNCHANGED <<published, trimmed, first, handled, raised, gone, stops, raises>>

\* consume: entries that do not decode (poison, or trimmed and returned
\* without fields) are acknowledged at once; the rest is yielded.
Unreadable == Poison \cup 1 .. trimmed
ParseSkipsPage(c) ==   \* mutant: the rest of a page with such an entry is not yielded
  /\ pc[c] = "parse"
  /\ LET bad == batch[c] \cap Unreadable
     IN /\ pel'   = [pel EXCEPT ![c] = @ \ bad]
        /\ batch' = [batch EXCEPT ![c] = @ \ bad]
        /\ pc'    = [pc EXCEPT ![c] = IF bad # {} THEN "read" ELSE "process"]
  /\ UNCHANGED <<server, first, handled, raised, gone, counters>>
Parse(c) ==
  /\ pc[c] = "parse"
  /\ LET bad == batch[c] \cap Unreadable
     IN /\ pel'   = [pel EXCEPT ![c] = @ \ bad]
        /\ batch' = [batch EXCEPT ![c] = @ \ bad]
        /\ pc'    = [pc EXCEPT ![c] = IF batch[c] \subseteq bad THEN "read" ELSE "process"]
  /\ UNCHANGED <<server, first, handled, raised, gone, counters>>

\* process_batch returns, or raises and the exception is logged; either way
\* the worker goes on to acknowledge.
ProcessNone(c) ==   \* mutant: the batch is acknowledged without being processed
  /\ pc[c] = "process"
  /\ pc' = [pc EXCEPT ![c] = "ack"]
  /\ UNCHANGED <<server, pel, first, batch, handled, raised, gone, counters>>
Process(c) ==
  /\ pc[c] = "process"
  /\ pc' = [pc EXCEPT ![c] = "ack"]
  /\ \/ /\ handled' = Bump(batch[c])
        /\ UNCHANGED <<raised, raises>>
     \/ /\ raises < MaxRaises
        /\ raises' = raises + 1
        /\ raised' = raised \cup batch[c]
        /\ UNCHANGED handled
  /\ UNCHANGED <<server, pel, first, batch, gone, stops, lost>>

Ack(c) ==
  /\ pc[c] = "ack"
  /\ pel'   = [pel EXCEPT ![c] = @ \ batch[c]]
  /\ batch' = [batch EXCEPT ![c] = {}]
  /\ pc'    = [pc EXCEPT ![c] = "read"]
  /\ UNCHANGED <<server, first, handled, raised, gone, counters>>

\* The worker goes down: it crashes (an exception of XACK or of Redis
\* included), possibly having stored part of its batch, or it sees the stop
\* flag and leaves the batch it has just fetched.  The entries stay pending
\* for the name.  The container may be replaced by one of another name.
Stop(c) ==
  /\ pc[c] # "down"
  /\ stops < MaxStops
  /\ stops' = stops + 1
  /\ pc'    = [pc EXCEPT ![c] = "down"]
  /\ batch' = [batch EXCEPT ![c] = {}]
  /\ \E S \in SUBSET batch[c] :
       /\ S # {} => pc[c] = "process"
       /\ handled' = Bump(S)
  /\ \/ UNCHANGED gone
     \/ Cardinality(gone) < MaxReplaced /\ gone' = gone \cup {c}
  /\ UNCHANGED <<server, pel, first, raised, lost, raises>>
-----------------------------------------------------------------------------
Work(c) == ReadPending(c) \/ ReadNew(c) \/ Parse(c) \/ Process(c) \/ Ack(c)

Next == Publish \/ \E c \in Consumers : Start(c) \/ Work(c) \/ Stop(c)

Spec == Init /\ [][Next]_vars

\* A running worker keeps working, and "restart: unless-stopped"
\* (docker-compose.yml) starts one that went down.
Fairness == \A c \in Consumers : WF_vars(Work(c)) /\ WF_vars(Start(c))
FairSpec == Spec /\ Fairness
-----------------------------------------------------------------------------
(***************************************************************************)
(* Properties                                                              *)
(***************************************************************************)
\* Every variable holds a value of its kind, and a worker that reads has no batch
\* in hand.
TypeOK ==
  /\ published \in 0 .. MaxMsgs /\ trimmed \in 0 .. published /\ last \in 0 .. published
  /\ pel \in [Consumers -> SUBSET Msgs]
  /\ pc \in [Consumers -> {"down", "read", "parse", "process", "ack"}]
  /\ first \in [Consumers -> BOOLEAN]
  /\ batch \in [Consumers -> SUBSET Msgs]
  /\ \A c \in Consumers : pc[c] \in {"down", "read"} => batch[c] = {}
  /\ handled \in [Msgs -> Nat]
  /\ raised \subseteq Msgs /\ gone \subseteq Consumers
  /\ stops \in Nat /\ lost \in Nat /\ raises \in Nat

\* A message delivered to the group and no longer pending was stored by a
\* worker, or could not be decoded, or its batch raised: no crash, restart or
\* lost reply makes the queue forget a message that was not processed.
Settled(m) == m <= last /\ \A c \in Consumers : m \notin pel[c]
NothingForgotten ==
  \A m \in Msgs : Settled(m) => handled[m] > 0 \/ m \in Unreadable \/ m \in raised

\* Two workers never hold the same message: a pending entry has one owner.
OneOwner ==
  \A c, d \in Consumers : c # d =>
    /\ pel[c] \cap pel[d] = {}
    /\ batch[c] \cap batch[d] = {}

\* Every published message is eventually stored, unless it is unreadable or
\* its batch raised ("never a drop", docs/problem-statement.md:21; "First
\* drain any pending (un-acked) messages for this consumer", queue.py:114).
Answered(m) == handled[m] > 0 \/ m \in Unreadable \/ m \in raised
EventuallyHandled == \A m \in Msgs : (m <= published) ~> Answered(m)

\* The same for crashes and stops alone: as long as no reply is lost and no
\* container is replaced, restarts under the same name only delay a message.
HandledDespiteCrashes ==
  \A m \in Msgs : (m <= published) ~> (Answered(m) \/ lost > 0 \/ gone # {})

\* The queue and its workers implement at-least-once delivery.
Owed == {m \in Msgs : m <= published /\ m > trimmed /\ m > last} \cup UNION {pel[c] : c \in Consumers}
Abs == INSTANCE AtLeastOnce WITH
         sent <- published, owed <- Owed, excused <- Unreadable \cup raised
AtLeastOnceSpec == Abs!Spec
=============================================================================
