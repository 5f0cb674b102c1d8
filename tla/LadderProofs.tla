---------------------------- MODULE LadderProofs ----------------------------
(***************************************************************************)
(* Theorems about Ladder for any number of threads, lines and faults, any  *)
(* packs, and any settings of the circuit breaker: the calls of the        *)
(* sidecar, the values of the variables, what the tier of an event means,  *)
(* by which parser a line is read, and that its event is complete.  The    *)
(* last three take that no pack has the id of a structural parser or of    *)
(* the engine (OwnIds): of an event with such an id nobody could tell      *)
(* which of the two it names.                                              *)
(***************************************************************************)
EXTENDS Ladder, SetLemmas, SequenceTheorems

-----------------------------------------------------------------------------
(***************************************************************************)
(* Reset periods                                                           *)
(***************************************************************************)
LEMMA DivDef ==
  ASSUME NEW x \in Nat, NEW r \in Nat \ {0}
  PROVE  x \div r \in Nat /\ r * (x \div r) <= x /\ x < r * (x \div r) + r
OBVIOUS

LEMMA DivGrows ==
  ASSUME NEW x \in Nat, NEW y \in Nat, x <= y, NEW r \in Nat \ {0}
  PROVE  x \div r <= y \div r
<1>1. \A a, b, c \in Nat : c > 0 /\ c * a < c * b + c => a <= b
  OBVIOUS
<1>2. PICK a \in Nat : a = x \div r
  BY DivDef
<1>3. PICK b \in Nat : b = y \div r
  BY DivDef
<1>4. r * a <= x /\ y < r * b + r
  BY <1>2, <1>3, DivDef
<1> QED BY <1>1, <1>2, <1>3, <1>4

LEMMA DivNext ==
  ASSUME NEW x \in Nat, NEW r \in Nat \ {0}
  PROVE  (x + r) \div r = x \div r + 1
OBVIOUS

\* Of size threads n count b each and the others a.
Shares(size, n, a, b) == (size - n) * a + n * b

LEMMA SharesBound ==
  ASSUME NEW size \in Nat, NEW n \in 0..size, NEW a \in Nat, NEW b \in Nat, a <= b
  PROVE  Shares(size, n, a, b) \in Nat /\ Shares(size, n, a, b) <= size * b
<1>1. \A x, y, z \in Nat : y <= z => x * y <= x * z
  OBVIOUS
<1>2. (size - n) * a <= (size - n) * b /\ (size - n) * b + n * b = size * b
  BY <1>1
<1>3. (size - n) * a \in Nat /\ n * b \in Nat
  OBVIOUS
<1> QED BY <1>2, <1>3 DEF Shares

LEMMA SharesGrow ==
  ASSUME NEW size \in Nat, NEW n \in 0..size, NEW a \in Nat, NEW b \in Nat
  PROVE  /\ Shares(size, n, b, b) = size * b
         /\ n < size /\ a < b => Shares(size, n, a, b) + 1 <= Shares(size, n + 1, a, b)
         /\ \A c \in Nat : b <= c => Shares(size, n, a, b) <= Shares(size, n, a, c)
<1>1. (size - n) * b + n * b = size * b
  OBVIOUS
<1>2. ASSUME n < size, a < b PROVE (size - n) * a + n * b + 1 <= (size - (n + 1)) * a + (n + 1) * b
  BY <1>2
<1>3. ASSUME NEW c \in Nat, b <= c PROVE n * b <= n * c /\ n * b \in Nat /\ n * c \in Nat /\ (size - n) * a \in Nat
  BY <1>3
<1> QED BY <1>1, <1>2, <1>3 DEF Shares
-----------------------------------------------------------------------------
(***************************************************************************)
(* A sidecar that does not answer costs few timeouts                       *)
(*                                                                         *)
(* Before the circuit opens, a call since the last success has failed or   *)
(* is under way.  It opens a reset period after the success at the         *)
(* earliest, and from then on a thread calls once a period: one that does  *)
(* not call now could so far only in the periods before openUntil.         *)
(***************************************************************************)
Calling == {t \in Threads : pc[t] = "call"}
Size    == Cardinality(Threads)
Asked   == Cardinality(Calling)

Clocks ==
  /\ now \in Nat /\ quiet \in Nat /\ openUntil \in Nat /\ failures \in Nat /\ calls \in Nat
  /\ quiet <= now /\ openUntil <= now + Reset

Periods(x) == (x - quiet) \div Reset

CallsInv ==
  /\ Clocks /\ pc = [t \in Threads |-> pc[t]]
  /\ failures < Failures => calls <= failures + Asked
  /\ failures >= Failures =>
       /\ openUntil >= quiet + Reset
       /\ calls <= Failures - 1 + Size + Shares(Size, Asked, Periods(openUntil - Reset), Periods(now))

LEMMA SizeOK ==
  ASSUME NEW C \in SUBSET Threads
  PROVE  Size \in Nat /\ Cardinality(C) \in 0..Size /\ IsFiniteSet(C)
<1>1. IsFiniteSet(C) /\ IsFiniteSet(Threads) /\ Cardinality(C) <= Cardinality(Threads)
  BY ThreadsAssumption, FS_Subset
<1>2. Cardinality(C) \in Nat /\ Cardinality(Threads) \in Nat
  BY <1>1, FS_CardinalityType
<1> QED BY <1>1, <1>2 DEF Size

LEMMA AskedOK ==
  /\ Size \in Nat /\ Asked \in 0..Size /\ IsFiniteSet(Calling)
  /\ Asked' \in 0..Size /\ Size' = Size
<1>1. Calling \in SUBSET Threads /\ Calling' \in SUBSET Threads
  BY DEF Calling
<1>2. Asked' = Cardinality(Calling') /\ Size' = Size
  BY DEF Asked, Size
<1> QED BY <1>1, <1>2, SizeOK DEF Asked

LEMMA Joins ==
  ASSUME pc = [u \in Threads |-> pc[u]], NEW t \in Threads, pc[t] # "call", Goto(t, "call")
  PROVE  Asked' = Asked + 1 /\ Asked < Size
<1> DEFINE C == Calling
           D == C \cup {t}
<1>1. Calling' = D /\ t \notin C /\ D \in SUBSET Threads
  BY DEF Calling, Goto
<1>2. IsFiniteSet(C) /\ IsFiniteSet(Threads)
  BY AskedOK, ThreadsAssumption
<1> HIDE DEF C
<1>3. Cardinality(D) = Cardinality(C) + 1 /\ Cardinality(D) <= Cardinality(Threads)
  BY <1>1, <1>2, FS_AddElement, FS_Subset
<1>4. Cardinality(C) \in Nat /\ Cardinality(Threads) \in Nat
  BY <1>2, FS_CardinalityType
<1>5. Asked = Cardinality(C) /\ Asked' = Cardinality(D)
  BY <1>1 DEF Asked, C
<1> QED BY <1>3, <1>4, <1>5 DEF Size

LEMMA Leaves ==
  ASSUME pc = [u \in Threads |-> pc[u]], NEW t \in Threads, pc[t] = "call", Goto(t, "done")
  PROVE  Asked' = Asked - 1
<1> DEFINE C == Calling
           D == C \ {t}
<1>1. Calling' = D /\ t \in C
  BY DEF Calling, Goto
<1>2. IsFiniteSet(C)
  BY AskedOK
<1> HIDE DEF C
<1>3. Cardinality(D) = Cardinality(C) - 1
  BY <1>1, <1>2, FS_RemoveElement
<1>4. Asked = Cardinality(C) /\ Asked' = Cardinality(D)
  BY <1>1 DEF Asked, C
<1> QED BY <1>3, <1>4

Elsewhere == {"idle", "store", "index", "infer", "match", "matching", "ask", "done"}

\* A step that neither asks the sidecar nor answers.
LEMMA QuietStep ==
  ASSUME CallsInv, UNCHANGED <<failures, openUntil, now, calls, quiet>>,
         \/ UNCHANGED pc
         \/ \E t \in Threads, x \in Elsewhere : pc[t] # "call" /\ Goto(t, x)
  PROVE  CallsInv'
<1>1. pc' = [u \in Threads |-> pc'[u]] /\ Calling' = Calling
  BY DEF CallsInv, Goto, Calling, Elsewhere
<1>2. Asked' = Asked
  BY <1>1 DEF Asked
<1>3. Periods(now)' = Periods(now) /\ Periods(openUntil - Reset)' = Periods(openUntil - Reset) /\ Clocks'
  BY DEF Periods, Clocks, CallsInv
<1>4. Size' = Size
  BY DEF Size
<1> QED BY <1>1, <1>2, <1>3, <1>4 DEF CallsInv, Shares

\* What the clocks and periods are.
LEMMA PeriodsOK ==
  ASSUME CallsInv
  PROVE  /\ Periods(now) \in Nat /\ Reset \in Nat \ {0} /\ Failures \in Nat \ {0}
         /\ failures >= Failures =>
              /\ Periods(openUntil - Reset) \in Nat
              /\ Periods(openUntil - Reset) <= Periods(now)
              /\ openUntil <= now => Periods(openUntil - Reset) < Periods(now)
<1>1. Reset \in Nat \ {0} /\ Failures \in Nat \ {0} /\ Clocks
  BY ThreadsAssumption DEF CallsInv
<1>2. now - quiet \in Nat
  BY <1>1 DEF Clocks
<1>3. Periods(now) \in Nat
  BY <1>1, <1>2, DivDef DEF Periods
<1>4. ASSUME failures >= Failures
      PROVE  /\ Periods(openUntil - Reset) \in Nat
             /\ Periods(openUntil - Reset) <= Periods(now)
             /\ openUntil <= now => Periods(openUntil - Reset) < Periods(now)
  <2>0. SUFFICES ASSUME NEW a, a = openUntil - Reset - quiet, NEW b, b = now - quiet
                 PROVE  /\ Periods(openUntil - Reset) \in Nat
                        /\ Periods(openUntil - Reset) <= Periods(now)
                        /\ openUntil <= now => Periods(openUntil - Reset) < Periods(now)
    OBVIOUS
  <2>1. a \in Nat /\ b \in Nat /\ a <= b /\ (openUntil <= now => a + Reset <= b) /\ a + Reset \in Nat
    BY <1>1, <1>4, <2>0 DEF Clocks, CallsInv
  <2>2. Periods(openUntil - Reset) = a \div Reset /\ Periods(now) = b \div Reset
    BY <2>0 DEF Periods
  <2>3. a \div Reset \in Nat /\ b \div Reset \in Nat /\ a \div Reset <= b \div Reset
    BY <1>1, <2>1, DivDef, DivGrows
  <2>4. openUntil <= now => (a + Reset) \div Reset <= b \div Reset
    BY <1>1, <2>1, DivGrows
  <2>5. (a + Reset) \div Reset = a \div Reset + 1
    BY <1>1, <2>1, DivNext
  <2> QED BY <2>2, <2>3, <2>4, <2>5
<1> QED BY <1>1, <1>3, <1>4

LEMMA CallsBound == CallsInv => FailsFast
<1> SUFFICES ASSUME CallsInv, NEW T, T = Size, NEW n, n = Asked, NEW b, b = Periods(now),
                    NEW a, a = Periods(openUntil - Reset)
             PROVE  FailsFast
  OBVIOUS
<1>1. T \in Nat /\ n \in 0..T /\ b \in Nat /\ Failures \in Nat \ {0} /\ calls \in Nat /\ failures \in Nat
  BY AskedOK, PeriodsOK DEF CallsInv, Clocks
<1>2. T * (1 + b) = T + T * b /\ T * b \in Nat
  BY <1>1
<1>3. calls <= Failures - 1 + (T + T * b)
  <2>1. CASE failures < Failures
    BY <1>1, <1>2, <2>1 DEF CallsInv
  <2>2. CASE failures >= Failures
    <3>1. a \in Nat /\ a <= b
      BY <2>2, PeriodsOK
    <3>2. Shares(T, n, a, b) \in Nat /\ Shares(T, n, a, b) <= T * b
      BY <1>1, <3>1, SharesBound
    <3>3. calls <= Failures - 1 + T + Shares(T, n, a, b)
      BY <2>2 DEF CallsInv
    <3> QED BY <1>1, <1>2, <3>2, <3>3
  <2> QED BY <1>1, <2>1, <2>2
<1> QED BY <1>2, <1>3 DEF FailsFast, Size, Periods

LEMMA TickF == ASSUME CallsInv, Tick PROVE CallsInv'
<1> SUFFICES ASSUME NEW T, T = Size, NEW n, n = Asked, NEW b, b = Periods(now), NEW c, c = Periods(now)',
                    NEW a, a = Periods(openUntil - Reset)
             PROVE  CallsInv'
  OBVIOUS
<1>1. now' = now + 1 /\ UNCHANGED <<openUntil, failures, calls, quiet, pc>>
  BY DEF Tick
<1>2. Clocks' /\ pc' = [t \in Threads |-> pc'[t]]
  BY <1>1, ThreadsAssumption DEF CallsInv, Clocks
<1>3. Asked' = Asked /\ Size' = Size
  BY <1>1 DEF Asked, Calling, Size
<1>4. Periods(openUntil - Reset)' = Periods(openUntil - Reset)
  BY <1>1 DEF Periods
<1>5. T \in Nat /\ n \in 0..T /\ b \in Nat /\ c \in Nat /\ b <= c
  <2>1. now - quiet \in Nat /\ now' - quiet \in Nat /\ now - quiet <= now' - quiet
    BY <1>1 DEF CallsInv, Clocks
  <2>2. (now - quiet) \div Reset <= (now' - quiet) \div Reset /\ (now' - quiet) \div Reset \in Nat
    BY <2>1, DivGrows, DivDef, ThreadsAssumption
  <2> QED BY <1>1, <2>2, AskedOK, PeriodsOK DEF Periods
<1>6. ASSUME failures' >= Failures
      PROVE  openUntil' >= quiet' + Reset /\ calls' <= Failures - 1 + Size + Shares(T, n, a, c)
  <2>1. a \in Nat /\ failures >= Failures
    BY <1>1, <1>6, PeriodsOK
  <2>2. Shares(T, n, a, b) <= Shares(T, n, a, c) /\ Shares(T, n, a, b) \in Nat /\ Shares(T, n, a, c) \in Int
    <3>1. a <= b
      BY <2>1, PeriodsOK
    <3>2. a <= c
      BY <1>5, <2>1, <3>1
    <3>3. Shares(T, n, a, b) <= Shares(T, n, a, c)
      BY <1>5, <2>1, SharesGrow
    <3>4. Shares(T, n, a, b) \in Nat /\ Shares(T, n, a, c) \in Nat
      BY <1>5, <2>1, <3>1, <3>2, SharesBound
    <3> QED BY <3>3, <3>4
  <2>3. calls <= Failures - 1 + T + Shares(T, n, a, b) /\ openUntil >= quiet + Reset
    BY <2>1 DEF CallsInv
  <2> QED BY <1>1, <1>5, <2>2, <2>3, ThreadsAssumption DEF CallsInv, Clocks
<1>7. ASSUME failures' < Failures PROVE calls' <= failures' + Asked'
  BY <1>1, <1>3, <1>7 DEF CallsInv
<1> QED BY <1>2, <1>3, <1>4, <1>6, <1>7 DEF CallsInv

LEMMA AskF == ASSUME CallsInv, NEW t \in Threads, Ask(t) PROVE CallsInv'
<1>1. CASE ~Available
  BY <1>1, QuietStep DEF Ask, Return, Elsewhere
<1>2. CASE Available
  <2>0. SUFFICES ASSUME NEW T, T = Size, NEW n, n = Asked, NEW b, b = Periods(now),
                        NEW a, a = Periods(openUntil - Reset)
                 PROVE  CallsInv'
    OBVIOUS
  <2>1. /\ Goto(t, "call") /\ pc[t] # "call" /\ openUntil <= now /\ calls' = calls + 1
        /\ UNCHANGED <<failures, openUntil, now, quiet>>
    BY <1>2 DEF Ask, Available, CallsInv, Clocks
  <2>2. Clocks' /\ pc' = [u \in Threads |-> pc'[u]]
    BY <2>1 DEF CallsInv, Clocks, Goto
  <2>3. Asked' = n + 1 /\ n < T /\ T \in Nat /\ n \in 0..T /\ Size' = Size
    BY <2>0, <2>1, Joins, AskedOK DEF CallsInv, Size
  <2>4. Periods(openUntil - Reset)' = a /\ Periods(now)' = b
    BY <2>0, <2>1 DEF Periods
  <2>5. ASSUME failures >= Failures
        PROVE  openUntil >= quiet + Reset /\ calls + 1 <= Failures - 1 + T + Shares(T, n + 1, a, b)
    <3>1. a \in Nat /\ b \in Nat /\ a < b
      BY <2>0, <2>1, <2>5, PeriodsOK
    <3>2. Shares(T, n, a, b) + 1 <= Shares(T, n + 1, a, b)
      BY <2>3, <3>1, SharesGrow
    <3>3. Shares(T, n, a, b) \in Nat /\ Shares(T, n + 1, a, b) \in Nat
      <4>1. n + 1 \in 0..T /\ a <= b
        BY <2>3, <3>1
      <4> QED BY <2>3, <3>1, <4>1, SharesBound
    <3>4. openUntil >= quiet + Reset /\ calls <= Failures - 1 + T + Shares(T, n, a, b)
      BY <2>0, <2>5 DEF CallsInv
    <3> QED BY <2>3, <3>2, <3>3, <3>4, ThreadsAssumption DEF CallsInv, Clocks
  <2>6. ASSUME failures < Failures PROVE calls + 1 <= failures + (n + 1)
    BY <2>0, <2>3, <2>6 DEF CallsInv, Clocks
  <2> QED BY <2>0, <2>1, <2>2, <2>3, <2>4, <2>5, <2>6 DEF CallsInv
<1> QED BY <1>1, <1>2

\* A call fails, as many as count in a row: the circuit may open.
LEMMA FailF ==
  ASSUME CallsInv, NEW t \in Threads, Reply(t), CountFailure(failures + 1), UNCHANGED <<calls, quiet>>
  PROVE  CallsInv'
<1>0. SUFFICES ASSUME NEW T, T = Size, NEW n, n = Asked, NEW b, b = Periods(now),
                      NEW a, a = Periods(openUntil - Reset)
               PROVE  CallsInv'
  OBVIOUS
<1>1. /\ Goto(t, "done") /\ pc[t] = "call" /\ now' = now /\ failures' = failures + 1
      /\ openUntil' = IF failures + 1 >= Failures THEN now + Reset ELSE openUntil
  BY DEF Reply, Return, CountFailure, Trips
<1>2. Clocks' /\ pc' = [u \in Threads |-> pc'[u]]
  BY <1>1, ThreadsAssumption DEF CallsInv, Clocks, Goto
<1>3. Asked' = n - 1 /\ T \in Nat /\ n \in 0..T /\ Size' = Size /\ n - 1 \in 0..T
  <2>1. Asked' = Asked - 1
    BY <1>1, Leaves DEF CallsInv
  <2> QED BY <1>0, <2>1, AskedOK
<1>4. Periods(now)' = b /\ b \in Nat /\ Failures \in Nat \ {0} /\ Reset \in Nat \ {0}
  BY <1>0, <1>1, PeriodsOK DEF Periods
<1>5. CASE failures + 1 < Failures
  <2>1. calls <= failures + n /\ failures < Failures /\ failures \in Nat /\ calls \in Nat
    BY <1>0, <1>4, <1>5 DEF CallsInv, Clocks
  <2>2. failures' < Failures /\ calls' <= failures' + Asked'
    BY <1>1, <1>3, <1>5, <2>1
  <2> QED BY <1>1, <1>2, <1>4, <1>5, <2>1, <2>2 DEF CallsInv, Clocks
<1>6. CASE failures + 1 >= Failures
  <2>1. openUntil' = now + Reset /\ openUntil' >= quiet' + Reset
    BY <1>1, <1>4, <1>6 DEF CallsInv, Clocks
  <2>2. Periods(openUntil - Reset)' = b
    <3>1. openUntil' - Reset = now
      BY <1>4, <2>1 DEF CallsInv, Clocks
    <3>2. Periods(openUntil - Reset)' = (openUntil' - Reset - quiet') \div Reset
      BY DEF Periods
    <3> QED BY <1>0, <3>1, <3>2 DEF Periods
  <2>3. Shares(T, n - 1, b, b) = T * b /\ T * b \in Nat
    BY <1>3, <1>4, SharesGrow
  <2>4. calls <= Failures - 1 + T + T * b
    <3>1. CASE failures < Failures
      <4>1. calls <= failures + n /\ failures \in Nat /\ calls \in Nat
        BY <1>0, <3>1 DEF CallsInv, Clocks
      <4> QED BY <1>3, <1>4, <2>3, <3>1, <4>1
    <3>2. CASE failures >= Failures
      <4>1. a \in Nat /\ a <= b /\ calls <= Failures - 1 + T + Shares(T, n, a, b)
        BY <1>0, <3>2, PeriodsOK DEF CallsInv
      <4>2. Shares(T, n, a, b) \in Nat /\ Shares(T, n, a, b) <= T * b
        BY <1>3, <1>4, <4>1, SharesBound
      <4> QED BY <1>3, <1>4, <2>3, <4>1, <4>2 DEF CallsInv, Clocks
    <3> QED BY <1>4, <3>1, <3>2 DEF CallsInv, Clocks
  <2>5. failures' >= Failures /\ ~(failures' < Failures)
    BY <1>1, <1>4, <1>6 DEF CallsInv, Clocks
  <2> QED BY <1>0, <1>2, <1>3, <1>4, <2>1, <2>2, <2>3, <2>4, <2>5 DEF CallsInv
<1> QED BY <1>4, <1>5, <1>6 DEF CallsInv, Clocks

\* An answer came: nothing has failed since, but perhaps the answer was no JSON.
LEMMA AnswerF ==
  ASSUME CallsInv, NEW t \in Threads, Reply(t), calls' = 0, quiet' = now,
         (failures' = 0 /\ UNCHANGED openUntil) \/ CountFailure(1)
  PROVE  CallsInv'
<1>1. Goto(t, "done") /\ now' = now /\ Failures \in Nat \ {0} /\ Reset \in Nat \ {0} /\ Clocks
  BY ThreadsAssumption DEF Reply, Return, CallsInv
<1>2. Clocks' /\ pc' = [u \in Threads |-> pc'[u]]
  BY <1>1 DEF CallsInv, Clocks, Goto, CountFailure
<1>3. Asked' \in Nat /\ Size' = Size /\ Size \in Nat /\ Asked' \in 0..Size
  BY AskedOK
<1>4. CASE failures' < Failures
  BY <1>1, <1>2, <1>3, <1>4 DEF CallsInv, Clocks
<1>5. CASE failures' >= Failures
  <2>1. openUntil' = now + Reset
    BY <1>1, <1>5 DEF CountFailure, Trips
  <2>2. Periods(openUntil - Reset)' = 0 /\ Periods(now)' = 0
    <3>1. openUntil' - Reset - quiet' = 0 /\ now' - quiet' = 0 /\ 0 \div Reset = 0
      BY <1>1, <2>1 DEF Clocks
    <3> QED BY <3>1 DEF Periods
  <2>3. Shares(Size, Asked', 0, 0) \in Nat
    <3>1. 0 \in Nat /\ 0 <= 0
      OBVIOUS
    <3> QED BY <1>3, <3>1, SharesBound
  <2>4. (Failures - 1 + Size + Shares(Size, Asked, Periods(openUntil - Reset), Periods(now)))' \in Nat
    BY <1>1, <1>3, <2>2, <2>3
  <2>5. openUntil' >= quiet' + Reset
    BY <1>1, <2>1 DEF Clocks
  <2> QED BY <1>1, <1>2, <1>5, <2>4, <2>5 DEF CallsInv, Clocks
<1> QED BY <1>1, <1>2, <1>4, <1>5 DEF Clocks

LEMMA NextF == CallsInv /\ [Next]_vars => CallsInv'
<1> SUFFICES ASSUME CallsInv, [Next]_vars PROVE CallsInv'
  OBVIOUS
<1>1. ASSUME NEW t \in Threads, NEW n \in Names, Route(t, n) PROVE CallsInv'
  <2>1. pc[t] # "call" /\ UNCHANGED <<failures, openUntil, now, calls, quiet>>
    BY <1>1 DEF Route
  <2>2. \E x \in {"store", "infer"} : Goto(t, x)
    BY <1>1 DEF Route
  <2> QED BY <2>1, <2>2, QuietStep DEF Elsewhere
<1>2. ASSUME NEW t \in Threads, Store(t) \/ AddReference(t) \/ InferAndMine(t) PROVE CallsInv'
  BY <1>2, QuietStep DEF Store, Broken, AddReference, InferAndMine, Elsewhere
<1>3. ASSUME NEW t \in Threads, StartMatch(t) \/ EndMatch(t) PROVE CallsInv'
  BY <1>3, QuietStep DEF StartMatch, EndMatch, Broken, Elsewhere
<1>4. ASSUME NEW t \in Threads, Reply(t) PROVE CallsInv'
  BY <1>4, FailF, AnswerF DEF Reply
<1>5. CASE UNCHANGED vars
  BY <1>5, QuietStep DEF vars
<1> QED BY <1>1, <1>2, <1>3, <1>4, <1>5, TickF, AskF DEF Next

LEMMA InitF == Init => CallsInv
<1> SUFFICES ASSUME Init PROVE CallsInv
  OBVIOUS
<1>1. Clocks /\ failures < Failures /\ pc = [t \in Threads |-> pc[t]] /\ calls = 0 /\ failures = 0
  BY ThreadsAssumption DEF Init, Clocks
<1> QED BY <1>1, AskedOK, ThreadsAssumption DEF CallsInv

\* From a success on, as many calls fail as open the circuit and one more of
\* every other thread, and then one of every thread in each reset period.
THEOREM SidecarFailsFast == Spec => []FailsFast
BY InitF, NextF, CallsBound, PTL DEF Spec
-----------------------------------------------------------------------------
(***************************************************************************)
(* What parsers answer                                                     *)
(*                                                                         *)
(* Every parser answers with its own id, with a score and a confidence of at *)
(* most 1, and with a reading of its tier.                                 *)
(***************************************************************************)
\* The largest element of a finite set, and the first index.
LEMMA MaxIs ==
  ASSUME NEW S, S \subseteq Int, S # {}, IsFiniteSet(S)
  PROVE  Max(S) \in S /\ \A n \in S : n <= Max(S)
<1>1. PICK m \in S : \A n \in S : n <= m
  BY MaxExists
<1> DEFINE P(x) == x \in S /\ \A n \in S : x >= n
<1>2. P(m)
  BY <1>1
<1>3. P(CHOOSE x : P(x))
  BY <1>2
<1>4. (CHOOSE x : P(x)) = Max(S)
  BY DEF Max
<1> QED BY <1>3, <1>4

LEMMA FirstIs ==
  ASSUME NEW n \in Nat, NEW I \in SUBSET (1..n), I # {}
  PROVE  Min(I) \in I
<1>1. IsFiniteSet(I)
  <2>1. IsFiniteSet(1..n)
    BY FS_Interval
  <2> QED BY <2>1, FS_Subset
<1>2. I \subseteq Int
  OBVIOUS
<1>5. PICK m \in I : \A k \in I : m <= k
  BY <1>1, <1>2, MinExists
<1> DEFINE P(x) == x \in I /\ \A k \in I : x =< k
<1>3. P(CHOOSE x : P(x))
  BY <1>2, <1>5
<1>4. (CHOOSE x : P(x)) = Min(I)
  BY DEF Min
<1> QED BY <1>3, <1>4

Hundredths == 0..100

LEMMA TimesOK ==
  ASSUME NEW a \in Hundredths, NEW b \in Hundredths
  PROVE  Times(a, b) \in Hundredths
<1>1. \A x, y \in Nat : x <= 100 /\ y <= 100 => x * y <= 10000 /\ x * y \in Nat
  <2>1. \A x, y, z \in Nat : y <= z => x * y <= x * z /\ x * y \in Nat
    OBVIOUS
  <2> QED BY <2>1
<1>2. \A z \in 0..10000 : z \div 100 \in 0..100
  OBVIOUS
<1>3. PICK z \in 0..10000 : z = a * b
  BY <1>1 DEF Hundredths
<1>4. z \div 100 \in 0..100
  BY <1>2, SMTT(30)
<1>5. Times(a, b) = z \div 100
  BY <1>3 DEF Times
<1> QED BY <1>4, <1>5 DEF Hundredths

Squares == 0..10000

LEMMA RootOK ==
  ASSUME NEW n \in Squares
  PROVE  Root(n) \in Hundredths
<1> DEFINE Below(r) == r * r <= n
           G == {h \in 0..100 : \E r \in 0..h : Below(r) /\ (r = h \/ ~Below(r + 1))}
<1>1. 0 \in G
  <2>1. Below(0)
    BY DEF Squares
  <2> HIDE DEF Below
  <2> QED BY <2>1
<1>2. \A h \in 1..100 : h - 1 \in G => h \in G
  <2> HIDE DEF Below
  <2> SUFFICES ASSUME NEW h \in 1..100, h - 1 \in G PROVE h \in G
    OBVIOUS
  <2>1. PICK r \in 0..(h - 1) : Below(r) /\ (r = h - 1 \/ ~Below(r + 1))
    OBVIOUS
  <2>2. CASE Below(r + 1)
    BY <2>1, <2>2
  <2>3. CASE ~Below(r + 1)
    BY <2>1, <2>3
  <2> QED BY <2>2, <2>3
<1>3. PICK c \in Nat : c = 100
  OBVIOUS
<1>4. c \in G
  <2> HIDE DEF G
  <2>1. \A h \in 1..c : h - 1 \in G => h \in G
    BY <1>2, <1>3
  <2>2. \A h \in 0..c : h \in G
    BY <1>1, <2>1, Climb
  <2> QED BY <2>2
<1>5. PICK r \in 0..100 : Below(r) /\ (r = 100 \/ ~Below(r + 1))
  <2> HIDE DEF Below
  <2> QED BY <1>3, <1>4
<1>6. \A q \in Nat : q * q \in Nat
  OBVIOUS
<1>7. r * r <= n /\ n < (r + 1) * (r + 1)
  BY <1>5, <1>6 DEF Squares
<1>8. \E q \in 0..100 : q * q <= n /\ n < (q + 1) * (q + 1)
  BY <1>7
<1> QED BY <1>8 DEF Root, Hundredths

LEMMA Onto ==
  ASSUME NEW S, IsFiniteSet(S), NEW T, NEW f \in [S -> T], \A z \in T : \E x \in S : f[x] = z
  PROVE  IsFiniteSet(T)
<1>1. f \in Surjection(S, T)
  BY DEF Surjection
<1> QED BY <1>1, FS_Surjection

\* Fields are finitely many and named <<prefix, name>>, and the paths of mapped ones
\* are targets of rules.
Targets == {r.target : r \in UNION {Range(d.rules) : d \in Range(Packs)}}
Keyed(k) == \E p, n : k = <<p, n>> /\ (p = "ocsf" => n \in Targets)
FieldsOK(f) == IsFiniteSet(DOMAIN f) /\ \A k \in DOMAIN f : Keyed(k)

\* What a parser answers: its own id, a score, and what it reads.
Slots == {"id", "tier", "conf", "ts", "sev", "fields", "errs"}
Reads(ir, id, tier) ==
  /\ DOMAIN ir = Slots /\ ir.id = id /\ ir.tier = tier /\ ir.conf \in Hundredths
  /\ FieldsOK(ir.fields) /\ "inference_error" \notin ir.errs
Answering(a, id, tier) ==
  DOMAIN a = {"id", "score", "ir"} /\ a.id = id /\ a.score \in Hundredths /\ Reads(a.ir, id, tier)

LEMMA UnderFinite ==
  ASSUME NEW prefix, NEW g, IsFiniteSet(DOMAIN g)
  PROVE  IsFiniteSet(DOMAIN Under(prefix, g))
<1> DEFINE T == DOMAIN Under(prefix, g)
           f == [n \in DOMAIN g |-> <<prefix, n>>]
<1>1. T = {<<prefix, n>> : n \in DOMAIN g}
  BY DEF Under
<1>2. f \in [DOMAIN g -> T] /\ \A z \in T : \E n \in DOMAIN g : f[n] = z
  BY <1>1
<1> HIDE DEF T, f
<1> QED BY <1>2, Onto DEF T

LEMMA UnderOK ==
  ASSUME NEW prefix, prefix # "ocsf", NEW g, IsFiniteSet(DOMAIN g)
  PROVE  FieldsOK(Under(prefix, g))
<1>1. DOMAIN Under(prefix, g) = {<<prefix, n>> : n \in DOMAIN g}
  BY DEF Under
<1>2. \A k \in DOMAIN Under(prefix, g) : Keyed(k)
  BY <1>1 DEF Keyed
<1> QED BY <1>2, UnderFinite DEF FieldsOK

LEMMA WithOK ==
  ASSUME NEW f, NEW g, FieldsOK(f), FieldsOK(g)
  PROVE  FieldsOK(With(f, g))
<1>1. DOMAIN With(f, g) = DOMAIN f \cup DOMAIN g
  BY DEF With
<1>2. IsFiniteSet(DOMAIN With(f, g))
  BY <1>1, FS_Union DEF FieldsOK
<1>3. \A k \in DOMAIN With(f, g) : Keyed(k)
  BY <1>1 DEF FieldsOK
<1> QED BY <1>2, <1>3 DEF FieldsOK

LEMMA NoFieldsOK ==
  FieldsOK(NoFields)
<1>1. DOMAIN NoFields = {} /\ IsFiniteSet({})
  BY FS_EmptySet DEF NoFields
<1> QED BY <1>1 DEF FieldsOK

LEMMA ScoreIs ==
  ASSUME NEW id, NEW x, NEW worth, \A k \in DOMAIN worth : worth[k] \in Hundredths,
         NEW old, NEW ir, Reads(ir, old, 1)
  PROVE  Answering(Structural(id, x, worth, ir), id, 1)
<1> DEFINE a == Structural(id, x, worth, ir)
           S == {0} \cup {worth[k] : k \in DOMAIN worth \cap x.marks}
<1>1. S \subseteq Hundredths /\ S # {}
  BY DEF Hundredths
<1>2. IsFiniteSet(Hundredths)
  <2>1. PICK c \in Nat : c = 100
    OBVIOUS
  <2>2. IsFiniteSet(0..c)
    BY FS_Interval
  <2> QED BY <2>1, <2>2 DEF Hundredths
<1>3. IsFiniteSet(S)
  BY <1>1, <1>2, FS_Subset
<1>4. a = [id |-> id, score |-> Max(S), ir |-> [ir EXCEPT !.id = id]]
  BY DEF Structural
<1>5. Max(S) \in Hundredths
  <2> HIDE DEF S
  <2>1. S \subseteq Int
    BY <1>1 DEF Hundredths
  <2> QED BY <1>1, <1>3, <2>1, MaxIs
<1>6. Reads([ir EXCEPT !.id = id], id, 1)
  BY DEF Reads, Slots
<1> HIDE DEF S, a
<1> QED BY <1>4, <1>5, <1>6 DEF Answering, a
LEMMA ParsedReads ==
  ASSUME NEW conf \in Hundredths, NEW ts, NEW sev, NEW fields, FieldsOK(fields)
  PROVE  Reads(Parsed(conf, ts, sev, fields), None, 1)
BY DEF Reads, Parsed, NewIR, Slots

LEMMA InvalidReads ==
  ASSUME NEW conf \in Hundredths, NEW err, err # "inference_error"
  PROVE  Reads(Invalid(conf, err), None, 1)
BY NoFieldsOK DEF Reads, Invalid, NewIR, Slots

LEMMA FitsReads ==
  ASSUME NEW header, NEW x, NEW ir, Reads(ir, None, 1)
  PROVE  Reads(IfFits(header, x, ir), None, 1)
<1>1. Reads(Invalid(30, "mismatch"), None, 1)
  BY InvalidReads DEF Hundredths
<1> QED BY <1>1 DEF IfFits

Finite(x) == IsFiniteSet(DOMAIN x.pairs) /\ IsFiniteSet(DOMAIN x.groups)
StructuralIds ==
  <<"structural.json", "structural.cef", "structural.leef", "structural.syslog5424", "structural.syslog3164",
    "structural.clf", "structural.apache_error", "structural.log4j", "structural.kv">>

Openings == {"", "cef", "leef", "syslog", "sd"}

LEMMA HeaderOK ==
  ASSUME NEW x, Finite(x)
  PROVE  \A p, q \in Openings : /\ FieldsOK(Under(p, x.pairs)) /\ FieldsOK(Under(p, x.groups))
                                /\ FieldsOK(With(Under(p, x.groups), Under(q, x.pairs)))
<1>1. \A p \in Openings : p # "ocsf"
  BY DEF Openings
<1> QED BY <1>1, UnderOK, WithOK DEF Finite

\* The parsers that look at the whole header when can_parse likes the beginning.
LEMMA HeaderAnswers ==
  ASSUME NEW id, NEW x, NEW worth, \A k \in DOMAIN worth : worth[k] \in Hundredths, NEW header,
         NEW conf \in Hundredths, NEW ts, NEW sev, NEW fields, FieldsOK(fields)
  PROVE  Answering(Structural(id, x, worth, IfFits(header, x, Parsed(conf, ts, sev, fields))), id, 1)
<1>1. Reads(IfFits(header, x, Parsed(conf, ts, sev, fields)), None, 1)
  BY ParsedReads, FitsReads
<1> QED BY <1>1, ScoreIs

LEMMA JSONAnswers ==
  ASSUME NEW x, Finite(x) PROVE Answering(JSON(x), "structural.json", 1)
<1> DEFINE ts == "field" \in x.time
           sev == LevelToSeverity(x.level)
           fields == Under("", x.pairs)
           worth == [braces |-> 90]
           ir == CASE "json" \notin x.marks -> Invalid(0, "json_invalid")
                   [] "docker" \in x.marks  -> Parsed(85, ts, None, fields)
                   [] OTHER -> Parsed(IF ts THEN 80 ELSE 70, ts, sev, fields)
<1>1. JSON(x) = Structural("structural.json", x, worth, ir)
  BY DEF JSON
<1>2. \A k \in DOMAIN worth : worth[k] \in Hundredths
  BY DEF Hundredths
<1>3. FieldsOK(fields)
  BY HeaderOK DEF Openings
<1> HIDE DEF ts, sev, fields, worth
<1>4. Reads(Invalid(0, "json_invalid"), None, 1)
  BY InvalidReads DEF Hundredths
<1>5. Reads(Parsed(85, ts, None, fields), None, 1) /\ Reads(Parsed(IF ts THEN 80 ELSE 70, ts, sev, fields), None, 1)
  BY <1>3, ParsedReads DEF Hundredths
<1>6. Reads(ir, None, 1)
  BY <1>4, <1>5
<1> HIDE DEF ir
<1> QED BY <1>1, <1>2, <1>6, ScoreIs

LEMMA CEFAnswers ==
  ASSUME NEW x, Finite(x) PROVE Answering(CEF(x), "structural.cef", 1)
<1> DEFINE n == Get(Number, x.level)
           sev == CASE n = None -> LevelToSeverity(x.level)
                    [] n <= 3 -> 1 [] n \in 4..5 -> 2 [] n = 6 -> 3 [] n \in 7..8 -> 4 [] OTHER -> 5
           ts == x.time \cap {"prefix", "field"} # {}
           fields == With(Under("cef", x.groups), Under("", x.pairs))
           worth == [cef |-> 95]
<1>1. CEF(x) = Structural("structural.cef", x, worth, IfFits("cef_header", x, Parsed(85, ts, sev, fields)))
  BY DEF CEF
<1>2. FieldsOK(fields)
  BY HeaderOK DEF Openings
<1>4. 85 \in Hundredths
  BY DEF Hundredths
<1>3. \A k \in DOMAIN worth : worth[k] \in Hundredths
  BY DEF Hundredths
<1> HIDE DEF sev, ts, fields, worth
<1> QED BY <1>1, <1>2, <1>3, <1>4, HeaderAnswers
LEMMA LEEFAnswers ==
  ASSUME NEW x, Finite(x) PROVE Answering(LEEF(x), "structural.leef", 1)
<1> DEFINE conf == 85
           ts == x.time \cap {"prefix", "field"} # {}
           sev == None
           fields == With(Under("leef", x.groups), Under("", x.pairs))
           worth == [leef |-> 95]
<1>1. LEEF(x) = Structural("structural.leef", x, worth, IfFits("leef_header", x, Parsed(conf, ts, sev, fields)))
  BY DEF LEEF
<1>2. FieldsOK(fields)
  BY HeaderOK DEF Openings
<1>3. conf \in Hundredths /\ \A k \in DOMAIN worth : worth[k] \in Hundredths
  BY DEF Hundredths
<1> HIDE DEF conf, ts, sev, fields, worth
<1> QED BY <1>1, <1>2, <1>3, HeaderAnswers

LEMMA Syslog3164Answers ==
  ASSUME NEW x, Finite(x) PROVE Answering(Syslog3164(x), "structural.syslog3164", 1)
<1> DEFINE conf == IF "appname" \in DOMAIN x.groups THEN 75 ELSE 60
           ts == "header" \in x.time
           sev == FromSyslog(x.pri)
           fields == Under("syslog", x.groups)
           worth == [pri |-> 85, bsd_head |-> 80, iso_head |-> 75, bsd_time |-> 40, iso_time |-> 40]
<1>1. Syslog3164(x) = Structural("structural.syslog3164", x, worth, IfFits("rfc3164", x, Parsed(conf, ts, sev, fields)))
  BY DEF Syslog3164
<1>2. FieldsOK(fields)
  BY HeaderOK DEF Openings
<1>3. conf \in Hundredths /\ \A k \in DOMAIN worth : worth[k] \in Hundredths
  BY DEF Hundredths
<1> HIDE DEF conf, ts, sev, fields, worth
<1> QED BY <1>1, <1>2, <1>3, HeaderAnswers

LEMMA CLFAnswers ==
  ASSUME NEW x, Finite(x) PROVE Answering(CLF(x), "structural.clf", 1)
<1> DEFINE conf == 85
           ts == "header" \in x.time
           sev == None
           fields == Under("", x.groups)
           worth == [http_request |-> 85]
<1>1. CLF(x) = Structural("structural.clf", x, worth, IfFits("clf_line", x, Parsed(conf, ts, sev, fields)))
  BY DEF CLF
<1>2. FieldsOK(fields)
  BY HeaderOK DEF Openings
<1>3. conf \in Hundredths /\ \A k \in DOMAIN worth : worth[k] \in Hundredths
  BY DEF Hundredths
<1> HIDE DEF conf, ts, sev, fields, worth
<1> QED BY <1>1, <1>2, <1>3, HeaderAnswers

LEMMA ApacheErrorAnswers ==
  ASSUME NEW x, Finite(x) PROVE Answering(ApacheError(x), "structural.apache_error", 1)
<1> DEFINE conf == 80
           ts == "header" \in x.time
           sev == LevelToSeverity(x.level)
           fields == Under("", x.groups)
           worth == [bracket_day |-> 85]
<1>1. ApacheError(x) = Structural("structural.apache_error", x, worth, IfFits("apache_line", x, Parsed(conf, ts, sev, fields)))
  BY DEF ApacheError
<1>2. FieldsOK(fields)
  BY HeaderOK DEF Openings
<1>3. conf \in Hundredths /\ \A k \in DOMAIN worth : worth[k] \in Hundredths
  BY DEF Hundredths
<1> HIDE DEF conf, ts, sev, fields, worth
<1> QED BY <1>1, <1>2, <1>3, HeaderAnswers

LEMMA Log4jAnswers ==
  ASSUME NEW x, Finite(x) PROVE Answering(Log4j(x), "structural.log4j", 1)
<1> DEFINE conf == 75
           ts == "header" \in x.time
           sev == LevelToSeverity(x.level)
           fields == Under("", x.groups)
           worth == [date_level |-> 80]
<1>1. Log4j(x) = Structural("structural.log4j", x, worth, IfFits("log4j_line", x, Parsed(conf, ts, sev, fields)))
  BY DEF Log4j
<1>2. FieldsOK(fields)
  BY HeaderOK DEF Openings
<1>3. conf \in Hundredths /\ \A k \in DOMAIN worth : worth[k] \in Hundredths
  BY DEF Hundredths
<1> HIDE DEF conf, ts, sev, fields, worth
<1> QED BY <1>1, <1>2, <1>3, HeaderAnswers

LEMMA Syslog5424Answers ==
  ASSUME NEW x, Finite(x) PROVE Answering(Syslog5424(x), "structural.syslog5424", 1)
<1> DEFINE ts == "header" \in x.time
           sev == FromSyslog(x.pri)
           g == [n \in DOMAIN x.groups |-> IF n # "hostname" /\ x.groups[n] = "-" THEN None ELSE x.groups[n]]
           fields == With(Under("syslog", g), Under("sd", x.pairs))
           worth == [pri_version |-> 95, version_time |-> 80]
<1>1. Syslog5424(x) = Structural("structural.syslog5424", x, worth, IfFits("rfc5424", x, Parsed(80, ts, sev, fields)))
  BY DEF Syslog5424
<1>2. IsFiniteSet(DOMAIN g)
  BY DEF Finite
<1> HIDE DEF g
<1>3. FieldsOK(fields)
  BY <1>2, UnderOK, HeaderOK, WithOK DEF Openings
<1>4. 80 \in Hundredths /\ \A k \in DOMAIN worth : worth[k] \in Hundredths
  BY DEF Hundredths
<1> HIDE DEF ts, sev, fields, worth
<1> QED BY <1>1, <1>3, <1>4, HeaderAnswers

LEMMA KVAnswers ==
  ASSUME NEW x, Finite(x) PROVE Answering(KV(x), "structural.kv", 1)
<1> DEFINE read == Parsed(60, x.time # {}, LevelToSeverity(x.level), Under("", x.pairs))
           ir == IF DOMAIN x.pairs # {} THEN read ELSE [read EXCEPT !.conf = 20, !.errs = {"kv_none"}]
           worth == [kv3 |-> 70, kv2_short |-> 55]
<1>1. KV(x) = Structural("structural.kv", x, worth, ir)
  BY DEF KV
<1>2. \A k \in DOMAIN worth : worth[k] \in Hundredths
  BY DEF Hundredths
<1>3. FieldsOK(Under("", x.pairs))
  BY HeaderOK DEF Openings
<1>6. 60 \in Hundredths /\ 20 \in Hundredths
  BY DEF Hundredths
<1>4. Reads(read, None, 1)
  BY <1>3, <1>6, ParsedReads
<1> HIDE DEF read, worth
<1>5. Reads(ir, None, 1)
  BY <1>4, <1>6 DEF Reads, Slots
<1> HIDE DEF ir
<1> QED BY <1>1, <1>2, <1>5, ScoreIs

LEMMA StructuralAnswers ==
  ASSUME NEW x, Finite(x)
  PROVE  Len(StructuralParsers(x)) = 9 /\ \A i \in 1..9 : Answering(StructuralParsers(x)[i], StructuralIds[i], 1)
<1>1. Len(StructuralParsers(x)) = 9
  BY DEF StructuralParsers
<1>2. SUFFICES ASSUME NEW i \in 1..9 PROVE Answering(StructuralParsers(x)[i], StructuralIds[i], 1)
  BY <1>1
<1>3. i \in {1, 2, 3, 4, 5, 6, 7, 8, 9}
  OBVIOUS
<1> QED BY <1>3, JSONAnswers, CEFAnswers, LEEFAnswers, Syslog5424Answers, Syslog3164Answers, CLFAnswers,
           ApacheErrorAnswers, Log4jAnswers, KVAnswers DEF StructuralParsers, StructuralIds
-----------------------------------------------------------------------------
(***************************************************************************)
(* Packs                                                                   *)
(*                                                                         *)
(* A pack reads step by step, the steps of parse in their order; that what *)
(* it has read after each of them exists as a function is shown by climbing *)
(* the steps, and so is that it stays a reading of tier 2.                 *)
(***************************************************************************)
PackOK(d) ==
  /\ d.base \in Hundredths /\ \A s \in d.sigs : s.kind \in DOMAIN SignatureScore
  /\ d.extracts \in Seq(Range(d.extracts)) /\ d.rules \in Seq(Range(d.rules))
  /\ \A r \in Range(d.rules) : r.target \in Targets

LEMMA MaxHundredths ==
  ASSUME NEW S \in SUBSET Hundredths
  PROVE  Max({0} \cup S) \in Hundredths
<1> DEFINE T == {0} \cup S
<1>1. T \subseteq Hundredths /\ T # {} /\ T \subseteq Int
  BY DEF Hundredths
<1>2. PICK c \in Nat : c = 100
  OBVIOUS
<1>3. IsFiniteSet(0..c)
  BY FS_Interval
<1>4. IsFiniteSet(T)
  BY <1>1, <1>2, <1>3, FS_Subset DEF Hundredths
<1> HIDE DEF T
<1> QED BY <1>1, <1>4, MaxIs DEF T

LEMMA PackScoreOK ==
  ASSUME NEW d, PackOK(d), NEW x
  PROVE  PackScore(d, x) \in Hundredths
<1> DEFINE S == {SignatureScore[s.kind] : s \in {r \in d.sigs : r.mark \in x.marks}}
           best == Max({0} \cup S)
<1>1. S \in SUBSET Hundredths
  <2>1. \A k \in DOMAIN SignatureScore : SignatureScore[k] \in Hundredths
    BY DEF SignatureScore, Hundredths
  <2> QED BY <2>1 DEF PackOK
<1>2. PackScore(d, x) = IF \E s \in d.sigs : s.required /\ s.mark \notin x.marks THEN 0 ELSE Times(best, d.base)
  BY DEF PackScore
<1>3. best \in Hundredths
  <2> HIDE DEF S
  <2> QED BY <1>1, MaxHundredths
<1> HIDE DEF best
<1>4. Times(best, d.base) \in Hundredths
  BY <1>3, TimesOK DEF PackOK
<1> QED BY <1>2, <1>4 DEF Hundredths

LEMMA PreParsedReads ==
  ASSUME NEW d, PackOK(d), NEW x, Finite(x)
  PROVE  Reads(PreParsed(d, x), d.id, 2)
<1> DEFINE q == StructuralParsers(x)
           I == {j \in 1..Len(q) : q[j].id = d.pre}
           i == IF I # {} THEN Min(I) ELSE 0
           pre == q[i].ir
           new == NewIR(d.id, 2, d.base)
<1>1. PreParsed(d, x) = IF i = 0 THEN new
        ELSE [new EXCEPT !.ts = pre.ts, !.sev = pre.sev, !.errs = pre.errs,
                !.fields = [k \in {j \in DOMAIN pre.fields : pre.fields[j] # None} |-> pre.fields[k]]]
  BY DEF PreParsed, TakeOver, SelectInSeq
<1>2. Reads(new, d.id, 2)
  BY NoFieldsOK DEF Reads, NewIR, Slots, PackOK
<1>3. i # 0 => i \in 1..9
  <2>1. Len(q) = 9
    BY StructuralAnswers
  <2>2. I # {} => Min(I) \in I
    <3> HIDE DEF q
    <3> QED BY <2>1, FirstIs
  <2> QED BY <2>1, <2>2
<1>4. i # 0 => FieldsOK(pre.fields) /\ "inference_error" \notin pre.errs
  <2> HIDE DEF i
  <2> QED BY <1>3, StructuralAnswers DEF Answering, Reads
<1> HIDE DEF new, pre, i
<1> DEFINE D == {j \in DOMAIN pre.fields : pre.fields[j] # None}
<1>5. ASSUME i # 0
      PROVE  FieldsOK([k \in D |-> pre.fields[k]])
  <2>1. IsFiniteSet(D)
    BY <1>4, <1>5, FS_Subset DEF FieldsOK
  <2> QED BY <1>4, <1>5, <2>1 DEF FieldsOK
<1> QED BY <1>1, <1>2, <1>4, <1>5 DEF Reads, Slots

LEMMA RunExtractReads ==
  ASSUME NEW x, Finite(x), NEW ex, NEW id, NEW ir, Reads(ir, id, 2)
  PROVE  Reads(RunExtract(ir, ex, x), id, 2)
<1> DEFINE N == ex.names \cap DOMAIN x.pairs
           g == [k \in {<<"", n>> : n \in N} |-> x.pairs[k[2]]]
<1>1. IsFiniteSet(N)
  BY FS_Subset DEF Finite
<1>2. FieldsOK(g)
  <2> DEFINE u == Under("", [n \in N |-> 0])
  <2>1. DOMAIN [n \in N |-> 0] = N
    OBVIOUS
  <2>2. DOMAIN g = DOMAIN u
    BY DEF Under
  <2>3. FieldsOK(u)
    <3> HIDE DEF N
    <3> QED BY <1>1, <2>1, UnderOK
  <2> HIDE DEF u, g
  <2> QED BY <2>2, <2>3 DEF FieldsOK
<1>3. RunExtract(ir, ex, x) =
        CASE ex.raises \in x.marks -> [ir EXCEPT !.errs = @ \cup {"extract_error"}]
          [] ex.mark \in x.marks   -> [ir EXCEPT !.fields = With(@, g)]
          [] OTHER -> [ir EXCEPT !.errs = @ \cup {IF ex.optional THEN "optional_nomatch" ELSE "nomatch"}]
  BY DEF RunExtract
<1> HIDE DEF g
<1>4. FieldsOK(With(ir.fields, g))
  BY <1>2, WithOK DEF Reads
<1> QED BY <1>3, <1>4 DEF Reads, Slots

LEMMA ApplyRuleReads ==
  ASSUME NEW r, r.target \in Targets, NEW id, NEW ir, Reads(ir, id, 2)
  PROVE  Reads(ApplyRule(ir, r), id, 2)
<1>1. \A v : FieldsOK(Put(ir.fields, <<"ocsf", r.target>>, v))
  <2> TAKE v
  <2>1. DOMAIN Put(ir.fields, <<"ocsf", r.target>>, v) = DOMAIN ir.fields \cup {<<"ocsf", r.target>>}
    BY DEF Put
  <2>2. IsFiniteSet(DOMAIN ir.fields \cup {<<"ocsf", r.target>>})
    BY FS_AddElement DEF Reads, FieldsOK
  <2>3. Keyed(<<"ocsf", r.target>>)
    BY DEF Keyed
  <2> QED BY <2>1, <2>2, <2>3 DEF Reads, FieldsOK
<1> QED BY <1>1 DEF Reads, Slots, ApplyRule

LEMMA DivOK ==
  ASSUME NEW m \in Nat, NEW r \in Nat \ {0}
  PROVE  m \div r \in Nat
OBVIOUS

LEMMA ScoredReads ==
  ASSUME NEW d, PackOK(d), NEW ir, Reads(ir, d.id, 2)
  PROVE  Reads(Scored(d, ir), d.id, 2)
<1> DEFINE S == {k \in DOMAIN ir.fields : k[1] = "ocsf"}
           filled == Cardinality(S)
           full == Max({1, Len(d.rules)})
           part == Min({10000, (10000 * filled) \div full})
           fill == Root(part)
           missing == \E k \in d.require : Get(ir.fields, k) \in Empty
           nomatch == ir.errs \cap {"nomatch", "optional_nomatch"} # {}
           a == Times(d.base, fill)
           b == Times(a, IF missing THEN 50 ELSE 100)
           c == Times(b, IF ir.ts THEN 100 ELSE 85)
           e == Times(c, IF nomatch THEN 50 ELSE 100)
<1>1. filled \in Nat
  <2>1. IsFiniteSet(S)
    BY FS_Subset DEF Reads, FieldsOK
  <2> QED BY <2>1, FS_CardinalityType
<1>2. full \in Nat \ {0}
  <2>1. Len(d.rules) \in Nat
    BY DEF PackOK
  <2>2. \A m \in Nat : Max({1, m}) \in Nat \ {0}
    <3> TAKE m \in Nat
    <3>3. IsFiniteSet({1})
      BY FS_Singleton
    <3>4. IsFiniteSet({1} \cup {m})
      BY <3>3, FS_AddElement
    <3>5. {1} \cup {m} = {1, m}
      OBVIOUS
    <3>1. IsFiniteSet({1, m})
      BY <3>4, <3>5
    <3>2. {1, m} \subseteq Int /\ {1, m} # {}
      OBVIOUS
    <3> QED BY <3>1, <3>2, MaxIs
  <2> QED BY <2>1, <2>2
<1>3. part \in Squares
  <2> HIDE DEF filled, full
  <2>1. 10000 * filled \in Nat
    BY <1>1
  <2>2. PICK m \in Nat : m = (10000 * filled) \div full
    BY <1>2, <2>1, DivOK
  <2>3. \A h, k \in Nat : Min({h, k}) \in 0..h
    <3> TAKE h, k \in Nat
    <3>1. PICK l \in {h, k} : l <= h /\ l <= k
      OBVIOUS
    <3> DEFINE P(y) == y \in {h, k} /\ \A z \in {h, k} : y =< z
    <3>2. P(CHOOSE y : P(y))
      BY <3>1
    <3>3. (CHOOSE y : P(y)) = Min({h, k})
      BY DEF Min
    <3> QED BY <3>2, <3>3
  <2>4. PICK h \in Nat : h = 10000
    OBVIOUS
  <2>5. part = Min({h, m})
    BY <2>2, <2>4
  <2>6. Min({h, m}) \in 0..h
    BY <2>3
  <2> HIDE DEF part
  <2>7. part \in 0..h
    BY <2>5, <2>6
  <2> QED BY <2>4, <2>7 DEF Squares
<1>4. fill \in Hundredths
  <2> HIDE DEF part
  <2> QED BY <1>3, RootOK
<1>5. Scored(d, ir) = [ir EXCEPT !.conf = e, !.errs = IF missing THEN @ \cup {"missing_required"} ELSE @]
  BY DEF Scored
<1> HIDE DEF fill, missing, nomatch
<1>6. \A p : (IF p THEN 50 ELSE 100) \in Hundredths /\ (IF p THEN 100 ELSE 85) \in Hundredths
  BY DEF Hundredths
<1>7. a \in Hundredths
  BY <1>4, TimesOK DEF PackOK
<1> HIDE DEF a
<1>8. b \in Hundredths
  BY <1>6, <1>7, TimesOK
<1> HIDE DEF b
<1>9. c \in Hundredths
  BY <1>6, <1>8, TimesOK
<1> HIDE DEF c
<1>10. e \in Hundredths
  BY <1>6, <1>9, TimesOK
<1> HIDE DEF e
<1> QED BY <1>5, <1>10 DEF Reads, Slots

LEMMA RunStepReads ==
  ASSUME NEW x, Finite(x), NEW d, PackOK(d), NEW i \in 1..Len(d.extracts) + Len(d.rules),
         NEW id, NEW ir, Reads(ir, id, 2)
  PROVE  Reads(RunStep(ir, d, i, x), id, 2)
<1>1. CASE i <= Len(d.extracts)
  BY <1>1, RunExtractReads DEF RunStep
<1>2. CASE ~(i <= Len(d.extracts))
  <2> DEFINE r == d.rules[i - Len(d.extracts)]
  <2>1. Len(d.extracts) \in Nat
    BY DEF PackOK
  <2>2. Len(d.rules) \in Nat /\ DOMAIN d.rules = 1..Len(d.rules)
    BY DEF PackOK
  <2>3. i - Len(d.extracts) \in DOMAIN d.rules
    <3>1. \A a, b \in Nat : \A j \in 1..a + b : ~(j <= a) => j - a \in 1..b
      OBVIOUS
    <3> QED BY <1>2, <2>1, <2>2, <3>1
  <2>4. r.target \in Targets
    BY <2>3 DEF PackOK, Range
  <2>5. RunStep(ir, d, i, x) = ApplyRule(ir, r)
    BY <1>2 DEF RunStep
  <2> HIDE DEF r
  <2> QED BY <2>4, <2>5, ApplyRuleReads
<1> QED BY <1>1, <1>2

\* What a pack has read after each of its steps.
Runs(g, d, x, m) == g = [i \in 0..m |-> IF i = 0 THEN PreParsed(d, x) ELSE RunStep(g[i - 1], d, i, x)]

LEMMA StepsExist ==
  ASSUME NEW d, NEW x, NEW m \in Nat
  PROVE  \E g : Runs(g, d, x, m)
<1> DEFINE Upto(n, h) == /\ h = [i \in 0..n |-> h[i]] /\ h[0] = PreParsed(d, x)
                         /\ \A i \in 1..n : h[i] = RunStep(h[i - 1], d, i, x)
           G == {n \in Nat : \E h : Upto(n, h)}
<1>1. 0 \in G
  <2>1. Upto(0, [i \in 0..0 |-> PreParsed(d, x)])
    OBVIOUS
  <2> QED BY <2>1
<1>2. ASSUME NEW k \in 1..m, k - 1 \in G PROVE k \in G
  <2>1. PICK h : Upto(k - 1, h)
    BY <1>2
  <2> DEFINE y == RunStep(h[k - 1], d, k, x)
             j == [i \in 0..k |-> IF i = k THEN y ELSE h[i]]
  <2>2. \A i \in 0..k : i = k \/ i \in 0..k - 1
    OBVIOUS
  <2>3. \A i \in 1..k - 1 : i - 1 \in 0..k /\ i \in 0..k /\ i # k /\ i - 1 # k
    OBVIOUS
  <2>4. k - 1 \in 0..k /\ k - 1 # k /\ 0 \in 0..k /\ 0 # k /\ k \in 0..k
    OBVIOUS
  <2> HIDE DEF y
  <2>5. j = [i \in 0..k |-> j[i]] /\ j[k] = y /\ \A i \in 0..k : i # k => j[i] = h[i]
    OBVIOUS
  <2> HIDE DEF j
  <2>6. j[0] = PreParsed(d, x) /\ j[k] = RunStep(j[k - 1], d, k, x)
    BY <2>1, <2>4, <2>5 DEF y
  <2>7. \A i \in 1..k - 1 : j[i] = RunStep(j[i - 1], d, i, x)
    BY <2>1, <2>3, <2>5
  <2>8. \A i \in 1..k : i = k \/ i \in 1..k - 1
    OBVIOUS
  <2>9. Upto(k, j)
    BY <2>5, <2>6, <2>7, <2>8
  <2>10. k \in Nat
    OBVIOUS
  <2> HIDE DEF Upto
  <2> QED BY <2>9, <2>10
<1>3. m \in G
  <2> HIDE DEF G
  <2>1. \A k \in 0..m : k \in G
    BY <1>1, <1>2, Climb
  <2> QED BY <2>1
<1>4. PICK h : Upto(m, h)
  BY <1>3
<1>5. \A i \in 0..m : h[i] = IF i = 0 THEN PreParsed(d, x) ELSE RunStep(h[i - 1], d, i, x)
  <2> TAKE i \in 0..m
  <2>1. CASE i = 0
    BY <1>4, <2>1
  <2>2. CASE i # 0
    <3>1. i \in 1..m
      BY <2>2
    <3> QED BY <1>4, <2>2, <3>1
  <2> QED BY <2>1, <2>2
<1>6. h = [i \in 0..m |-> IF i = 0 THEN PreParsed(d, x) ELSE RunStep(h[i - 1], d, i, x)]
  BY <1>4, <1>5
<1> QED BY <1>6 DEF Runs

LEMMA PackReads ==
  ASSUME NEW d, PackOK(d), NEW x, Finite(x)
  PROVE  Reads(PackParsed(d, x), d.id, 2)
<1> DEFINE steps == Len(d.extracts) + Len(d.rules)
           after == CHOOSE g : Runs(g, d, x, steps)
<1>1. steps \in Nat
  <2>1. Len(d.extracts) \in Nat
    BY DEF PackOK
  <2>2. Len(d.rules) \in Nat
    BY DEF PackOK
  <2>3. \A a, b \in Nat : a + b \in Nat
    OBVIOUS
  <2> QED BY <2>1, <2>2, <2>3
<1>2. Runs(after, d, x, steps)
  <2> HIDE DEF steps
  <2> QED BY <1>1, StepsExist
<1>3. PackParsed(d, x) = Scored(d, after[steps])
  BY DEF PackParsed, Runs
<1> HIDE DEF steps, after
<1>4. Reads(after[steps], d.id, 2)
  <2> DEFINE G == {i \in 0..steps : Reads(after[i], d.id, 2)}
  <2>1. 0 \in G
    BY <1>1, <1>2, PreParsedReads DEF Runs
  <2>2. ASSUME NEW k \in 1..steps, k - 1 \in G PROVE k \in G
    <3>1. k \in 0..steps /\ k # 0
      BY <1>1
    <3>2. after[k] = RunStep(after[k - 1], d, k, x)
      BY <1>2, <3>1 DEF Runs
    <3>3. Reads(after[k - 1], d.id, 2)
      BY <2>2
    <3>4. k \in 1..Len(d.extracts) + Len(d.rules)
      BY DEF steps
    <3>5. Reads(after[k], d.id, 2)
      BY <3>2, <3>3, <3>4, RunStepReads
    <3> QED BY <3>1, <3>5
  <2>3. \A k \in 0..steps : k \in G
    <3> HIDE DEF G
    <3> QED BY <1>1, <2>1, <2>2, Climb
  <2> QED BY <1>1, <2>3
<1> QED BY <1>3, <1>4, ScoredReads

LEMMA DeclarativeAnswers ==
  ASSUME NEW d, PackOK(d), NEW x, Finite(x)
  PROVE  Answering(Declarative(d, x), d.id, 2)
BY PackReads, PackScoreOK DEF Declarative, Answering
-----------------------------------------------------------------------------
(***************************************************************************)
(* The answers to a line                                                   *)
(*                                                                         *)
(* The packs answer first, the structural parsers after them.              *)
(***************************************************************************)
\* The parser at each place among those that are asked.
Parsers9 == Len(Packs) + 9
IdAt(i)   == IF i <= Len(Packs) THEN Packs[i].id ELSE StructuralIds[i - Len(Packs)]
TierAt(i) == IF i <= Len(Packs) THEN 2 ELSE 1

Long(s, m) == s = [i \in 1..m |-> s[i]]

LEMMA JoinIs ==
  ASSUME NEW n \in Nat, NEW m \in Nat, NEW p, NEW q, Long(p, n), Long(q, m)
  PROVE  /\ Len(p \o q) = n + m /\ DOMAIN (p \o q) = 1..n + m
         /\ \A i \in 1..n : (p \o q)[i] = p[i]
         /\ \A i \in 1..m : (p \o q)[n + i] = q[i]
<1> DEFINE S == {p[i] : i \in 1..n} \cup {q[i] : i \in 1..m}
<1>1. p \in [1..n -> S] /\ q \in [1..m -> S]
  BY DEF Long
<1> HIDE DEF S
<1>2. p \in Seq(S) /\ q \in Seq(S) /\ Len(p) = n /\ Len(q) = m
  BY <1>1
<1>3. /\ p \o q \in Seq(S) /\ Len(p \o q) = Len(p) + Len(q)
      /\ \A i \in 1..Len(p) + Len(q) : (p \o q)[i] = IF i <= Len(p) THEN p[i] ELSE q[i - Len(p)]
  BY <1>2, ConcatProperties
<1>4. DOMAIN (p \o q) = 1..n + m
  BY <1>2, <1>3
<1>5. ASSUME NEW i \in 1..n PROVE i \in 1..n + m /\ i <= n
  OBVIOUS
<1>6. ASSUME NEW i \in 1..m PROVE n + i \in 1..n + m /\ ~(n + i <= n) /\ (n + i) - n = i
  OBVIOUS
<1> QED BY <1>2, <1>3, <1>4, <1>5, <1>6

LEMMA AnswersAre ==
  ASSUME NEW n \in Names
  PROVE  /\ Len(Packs) \in Nat /\ Len(Answers[n]) = Parsers9
         /\ DOMAIN Answers[n] = 1..Parsers9
         /\ \A i \in 1..Parsers9 : Answering(Answers[n][i], IdAt(i), TierAt(i))
<1> DEFINE x == Line[n]
           p == [i \in 1..Len(Packs) |-> Declarative(Packs[i], x)]
           q == StructuralParsers(x)
<1>1. Finite(x)
  BY LineAssumption DEF Finite
<1>2. Len(Packs) \in Nat /\ DOMAIN Packs = 1..Len(Packs)
  BY PacksAssumption
<1>3. ASSUME NEW i \in 1..Len(Packs) PROVE PackOK(Packs[i])
  <2>1. Packs[i] \in Range(Packs)
    BY <1>2 DEF Range
  <2> DEFINE d == Packs[i]
  <2> HIDE DEF d
  <2>2. d \in Range(Packs)
    BY <2>1 DEF d
  <2>3. \A r \in Range(d.rules) : r.target \in Targets
    BY <2>2 DEF Targets
  <2>4. PackOK(d)
    BY <2>2, <2>3, PacksAssumption DEF PackOK, Hundredths
  <2> QED BY <2>4 DEF d
<1>4. Len(q) = 9 /\ \A i \in 1..9 : Answering(q[i], StructuralIds[i], 1)
  BY <1>1, StructuralAnswers
<1>5. \A i \in 1..Len(Packs) : p[i] = Declarative(Packs[i], x) /\ Answering(p[i], Packs[i].id, 2)
  BY <1>1, <1>3, DeclarativeAnswers
<1>6. Long(q, 9)
  BY DEF StructuralParsers, Long
<1>7. Answers[n] = p \o q
  BY DEF Answers
<1>8. Long(p, Len(Packs))
  BY DEF Long
<1> HIDE DEF p, q
<1>9. PICK m \in Nat : m = 9
  OBVIOUS
<1>10. /\ Len(p \o q) = Len(Packs) + m /\ DOMAIN (p \o q) = 1..Len(Packs) + m
       /\ \A i \in 1..Len(Packs) : (p \o q)[i] = p[i]
       /\ \A i \in 1..m : (p \o q)[Len(Packs) + i] = q[i]
  <2>1. PICK l \in Nat : l = Len(Packs)
    BY <1>2
  <2>2. Long(p, l) /\ Long(q, m)
    BY <1>6, <1>8, <1>9, <2>1
  <2>3. /\ Len(p \o q) = l + m /\ DOMAIN (p \o q) = 1..l + m
        /\ \A i \in 1..l : (p \o q)[i] = p[i]
        /\ \A i \in 1..m : (p \o q)[l + i] = q[i]
    BY <2>2, JoinIs
  <2> QED BY <2>1, <2>3
<1>11. ASSUME NEW i \in 1..Parsers9 PROVE Answering(Answers[n][i], IdAt(i), TierAt(i))
  <2>1. CASE i <= Len(Packs)
    <3>1. i \in 1..Len(Packs)
      BY <1>2, <2>1 DEF Parsers9
    <3>2. Answers[n][i] = p[i]
      BY <1>7, <1>10, <3>1
    <3>3. IdAt(i) = Packs[i].id /\ TierAt(i) = 2
      BY <2>1 DEF IdAt, TierAt
    <3> QED BY <1>5, <3>1, <3>2, <3>3
  <2>2. CASE ~(i <= Len(Packs))
    <3>1. PICK k \in 1..9 : k = i - Len(Packs)
      BY <1>2, <2>2 DEF Parsers9
    <3>2. i = Len(Packs) + k /\ k \in 1..m
      BY <1>2, <1>9, <3>1
    <3>3. Answers[n][i] = q[k]
      BY <1>7, <1>10, <3>2
    <3>4. IdAt(i) = StructuralIds[k] /\ TierAt(i) = 1
      BY <2>2, <3>1 DEF IdAt, TierAt
    <3> QED BY <1>4, <3>1, <3>3, <3>4
  <2> QED BY <2>1, <2>2
<1> QED BY <1>2, <1>7, <1>9, <1>10, <1>11 DEF Parsers9

LEMMA ParserIs ==
  Names # {} => Parser = {IdAt(i) : i \in 1..Parsers9}
<1> SUFFICES ASSUME Names # {} PROVE Parser = {IdAt(i) : i \in 1..Parsers9}
  OBVIOUS
<1>1. \A n \in Names : {a.id : a \in Range(Answers[n])} = {IdAt(i) : i \in 1..Parsers9}
  BY AnswersAre DEF Range, Answering
<1>2. Parser = UNION {{a.id : a \in Range(Answers[n])} : n \in Names}
  BY DEF Parser
<1> QED BY <1>1, <1>2

\* The ids of packs are none of those the engine gives.
OwnIds == \A d \in Range(Packs) : d.id \notin Range(StructuralIds) \cup Engine

\* An answer by id is that of the first parser with it.
LEMMA AnswerIs ==
  ASSUME NEW n \in Names, NEW id \in Parser
  PROVE  \E i \in 1..Parsers9 : AnswerOf(n, id) = Answers[n][i] /\ IdAt(i) = id
<1> DEFINE I == {i \in 1..Len(Answers[n]) : Answers[n][i].id = id}
<1>1. Parsers9 \in Nat /\ Len(Answers[n]) = Parsers9
  BY AnswersAre DEF Parsers9
<1>2. \A i \in 1..Parsers9 : Answers[n][i].id = IdAt(i)
  BY AnswersAre DEF Answering
<1>3. PICK k \in 1..Parsers9 : IdAt(k) = id
  BY ParserIs
<1>4. k \in I /\ I \in SUBSET (1..Parsers9)
  BY <1>1, <1>2, <1>3
<1>5. AnswerOf(n, id) = Answers[n][Min(I)]
  BY <1>4 DEF AnswerOf, ById
<1>6. Min(I) \in I
  <2> HIDE DEF I
  <2> QED BY <1>1, <1>4, FirstIs
<1>7. Min(I) \in 1..Parsers9 /\ Answers[n][Min(I)].id = id
  BY <1>1, <1>6
<1> HIDE DEF I
<1> QED BY <1>2, <1>5, <1>7

LEMMA OwnId ==
  ASSUME OwnIds, NEW i \in 1..Parsers9
  PROVE  IdAt(i) \notin Engine /\ \A k \in 1..Parsers9 : IdAt(k) = IdAt(i) => k = i
<1>1. Len(Packs) \in Nat /\ DOMAIN Packs = 1..Len(Packs)
  BY PacksAssumption
<1>2. ASSUME NEW k \in 1..Parsers9
      PROVE  \/ k \in 1..Len(Packs) /\ IdAt(k) = Packs[k].id
             \/ \E j \in 1..9 : k = Len(Packs) + j /\ IdAt(k) = StructuralIds[j]
  <2>1. CASE k <= Len(Packs)
    BY <1>1, <2>1 DEF IdAt, Parsers9
  <2>2. CASE ~(k <= Len(Packs))
    <3>1. k - Len(Packs) \in 1..9 /\ k = Len(Packs) + (k - Len(Packs))
      BY <1>1, <2>2 DEF Parsers9
    <3>2. IdAt(k) = StructuralIds[k - Len(Packs)]
      BY <2>2 DEF IdAt
    <3> QED BY <3>1, <3>2
  <2> QED BY <2>1, <2>2
<1>3. \A j \in 1..9 : StructuralIds[j] \in Range(StructuralIds) /\ StructuralIds[j] \notin Engine
  BY DEF StructuralIds, Engine, Range
<1>4. \A j, k \in 1..9 : StructuralIds[j] = StructuralIds[k] => j = k
  BY DEF StructuralIds
<1>5. \A j \in 1..Len(Packs) : Packs[j].id \notin Range(StructuralIds) /\ Packs[j].id \notin Engine
  BY <1>1 DEF OwnIds, Range
<1>6. \A j, k \in 1..Len(Packs) : Packs[j].id = Packs[k].id => j = k
  BY <1>1, PacksAssumption
<1>7. IdAt(i) \notin Engine
  BY <1>2, <1>3, <1>5
<1>8. ASSUME NEW k \in 1..Parsers9, IdAt(k) = IdAt(i) PROVE k = i
  BY <1>2, <1>3, <1>4, <1>5, <1>6, <1>8
<1> QED BY <1>7, <1>8

LEMMA OwnAnswer ==
  ASSUME OwnIds, NEW n \in Names, NEW i \in 1..Parsers9
  PROVE  AnswerOf(n, IdAt(i)) = Answers[n][i]
<1>1. IdAt(i) \in Parser
  BY ParserIs
<1>2. PICK k \in 1..Parsers9 : AnswerOf(n, IdAt(i)) = Answers[n][k] /\ IdAt(k) = IdAt(i)
  BY <1>1, AnswerIs
<1>3. k = i
  BY <1>2, OwnId
<1> QED BY <1>2, <1>3

\* Answers to a line, of which a test that raised scores nothing.
Given(n, c, m) ==
  /\ m \in Nat \ {0} /\ DOMAIN c = 1..m /\ Len(c) = m
  /\ \A i \in 1..m : /\ DOMAIN c[i] = {"id", "score", "ir"} /\ c[i].score \in Hundredths
                     /\ \E k \in 1..Parsers9 : c[i].id = IdAt(k) /\ c[i].ir = Answers[n][k].ir

LEMMA WinnerIs ==
  ASSUME NEW n \in Names, NEW c, NEW m, Given(n, c, m)
  PROVE  \/ Winner(c) = None
         \/ \E i \in 1..m : Winner(c) = c[i] /\ c[i].score = Max({a.score : a \in Range(c)})
<1> DEFINE S == {a.score : a \in Range(c)}
           best == Max(S)
           I == {i \in 1..Len(c) : c[i].score = best}
<1>1. m \in Nat /\ 1 \in 1..m /\ DOMAIN c = 1..m /\ Len(c) = m
  BY DEF Given
<1>2. S = {c[i].score : i \in 1..m}
  BY <1>1 DEF Range
<1>3. S \subseteq Hundredths /\ S # {}
  <2>1. \A i \in 1..m : c[i].score \in Hundredths
    BY DEF Given
  <2> HIDE DEF S
  <2> QED BY <1>1, <1>2, <2>1
<1>4. S \subseteq Int
  BY <1>3 DEF Hundredths
<1>5. IsFiniteSet(S)
  <2>1. PICK h \in Nat : h = 100
    OBVIOUS
  <2>2. IsFiniteSet(0..h)
    BY FS_Interval
  <2> HIDE DEF S
  <2> QED BY <1>3, <2>1, <2>2, FS_Subset DEF Hundredths
<1>6. best \in S
  <2> HIDE DEF S
  <2> QED BY <1>3, <1>4, <1>5, MaxIs
<1>7. I \in SUBSET (1..m) /\ I # {}
  <2> HIDE DEF best
  <2> QED BY <1>1, <1>2, <1>6
<1>8. Min(I) \in I
  <2> HIDE DEF I
  <2> QED BY <1>1, <1>7, FirstIs
<1>9. Winner(c) = IF best = 0 THEN None ELSE c[Min(I)]
  BY <1>7 DEF Winner
<1> HIDE DEF best, S
<1>10. Min(I) \in 1..m /\ c[Min(I)].score = best
  BY <1>1, <1>8
<1> HIDE DEF I
<1> QED BY <1>9, <1>10 DEF best, S
-----------------------------------------------------------------------------
\* What a call begins with: the reading of the parser that is chosen, of one that
\* raised, or of none.
Chosen(n, ir) ==
  \E i \in 1..Parsers9 :
    /\ ir = Answers[n][i].ir
    /\ IF Line[n].shape \in DOMAIN cache THEN IdAt(i) = cache[Line[n].shape]
       ELSE Answers[n][i].score = Max({a.score : a \in Range(Answers[n])})
Raised(ir) == \E i \in 1..Parsers9 : ir = [NewIR(IdAt(i), 7, 0) EXCEPT !.errs = {"exception"}]
Begun(n, ir) == [NoJob EXCEPT !.line = n, !.ir = ir, !.hit = Line[n].shape \in DOMAIN cache]
First(ir) == IF Cacheable(ir) THEN "store" ELSE "infer"

Shapes == {Line[n].shape : n \in Names}
CacheTypes == DOMAIN cache \subseteq Shapes /\ \A s \in DOMAIN cache : cache[s] \in Parser

LEMMA CandidatesGiven ==
  ASSUME CacheTypes, NEW n \in Names
  PROVE  \E m \in Nat : Given(n, Candidates(n), m)
<1>1. CASE Line[n].shape \in DOMAIN cache
  <2> DEFINE id == cache[Line[n].shape]
  <2>1. id \in Parser
    BY <1>1 DEF CacheTypes
  <2>2. PICK k \in 1..Parsers9 : AnswerOf(n, id) = Answers[n][k] /\ IdAt(k) = id
    BY <2>1, AnswerIs
  <2> DEFINE c == <<AnswerOf(n, id)>>
  <2>3. Candidates(n) = c
    BY <1>1 DEF Candidates
  <2>4. DOMAIN c = 1..1 /\ Len(c) = 1 /\ c[1] = Answers[n][k] /\ \A i \in 1..1 : i = 1
    BY <2>2
  <2>5. Answering(Answers[n][k], IdAt(k), TierAt(k))
    BY AnswersAre
  <2> HIDE DEF c
  <2>6. Given(n, c, 1)
    BY <2>4, <2>5 DEF Given, Answering
  <2> QED BY <2>3, <2>6
<1>2. CASE Line[n].shape \notin DOMAIN cache
  <2>1. Candidates(n) = Answers[n]
    BY <1>2 DEF Candidates
  <2>2. Parsers9 \in Nat \ {0}
    BY AnswersAre DEF Parsers9
  <2>3. DOMAIN Answers[n] = 1..Parsers9 /\ Len(Answers[n]) = Parsers9
    BY AnswersAre
  <2>4. \A i \in 1..Parsers9 : Answering(Answers[n][i], IdAt(i), TierAt(i))
    BY AnswersAre
  <2>5. Given(n, Answers[n], Parsers9)
    BY <2>2, <2>3, <2>4 DEF Given, Answering
  <2> QED BY <2>1, <2>2, <2>5
<1> QED BY <1>1, <1>2

LEMMA ZeroGiven ==
  ASSUME NEW n \in Names, NEW c, NEW m, Given(n, c, m), NEW i \in 1..m
  PROVE  Given(n, [c EXCEPT ![i].score = 0], m)
<1> DEFINE z == [c[i] EXCEPT !.score = 0]
           c2 == [j \in 1..m |-> IF j = i THEN z ELSE c[j]]
<1>1. [c EXCEPT ![i].score = 0] = c2
  BY DEF Given
<1>2. DOMAIN z = {"id", "score", "ir"} /\ z.score = 0 /\ z.id = c[i].id /\ z.ir = c[i].ir
  BY DEF Given
<1> HIDE DEF z
<1>3. m \in Nat \ {0} /\ DOMAIN c2 = 1..m /\ Len(c2) = m
  BY DEF Given
<1>4. \A j \in 1..m : (c2[j] = z /\ j = i) \/ c2[j] = c[j]
  OBVIOUS
<1> HIDE DEF c2
<1>5. 0 \in Hundredths
  BY DEF Hundredths
<1>6. \A j \in 1..m : DOMAIN c2[j] = {"id", "score", "ir"} /\ c2[j].score \in Hundredths
  BY <1>2, <1>4, <1>5 DEF Given
<1>7. \A j \in 1..m : \E k \in 1..Parsers9 : c2[j].id = IdAt(k) /\ c2[j].ir = Answers[n][k].ir
  BY <1>2, <1>4 DEF Given
<1> QED BY <1>1, <1>3, <1>6, <1>7 DEF Given

LEMMA ReadIs ==
  ASSUME NEW n \in Names, NEW c, NEW m, Given(n, c, m), Winner(c) # None
  PROVE  \E k \in 1..Parsers9 : Winner(c).id = IdAt(k) /\ Winner(c).ir = Answers[n][k].ir
<1>1. PICK i \in 1..m : Winner(c) = c[i]
  BY WinnerIs
<1>2. \E k \in 1..Parsers9 : c[i].id = IdAt(k) /\ c[i].ir = Answers[n][k].ir
  BY DEF Given
<1> QED BY <1>1, <1>2

LEMMA ChosenIs ==
  ASSUME OwnIds, CacheTypes, NEW n \in Names, Winner(Candidates(n)) # None
  PROVE  Chosen(n, Winner(Candidates(n)).ir)
<1> DEFINE c == Candidates(n)
<1>1. PICK m \in Nat : Given(n, c, m)
  BY CandidatesGiven
<1>2. PICK i \in 1..m : Winner(c) = c[i] /\ c[i].score = Max({a.score : a \in Range(c)})
  BY <1>1, WinnerIs
<1>3. CASE Line[n].shape \in DOMAIN cache
  <2> DEFINE id == cache[Line[n].shape]
  <2>1. id \in Parser
    BY <1>3 DEF CacheTypes
  <2>2. PICK k \in 1..Parsers9 : AnswerOf(n, id) = Answers[n][k] /\ IdAt(k) = id
    BY <2>1, AnswerIs
  <2>3. c = <<AnswerOf(n, id)>>
    BY <1>3
       DEF Candidates
  <2>4. m = 1
    BY <1>1, <2>3 DEF Given
  <2>5. c[i] = AnswerOf(n, id)
    BY <2>3, <2>4
  <2> QED BY <1>2, <1>3, <2>2, <2>5 DEF Chosen
<1>4. CASE Line[n].shape \notin DOMAIN cache
  <2>1. c = Answers[n]
    BY <1>4 DEF Candidates
  <2>2. m = Parsers9
    BY <1>1, <2>1, AnswersAre DEF Given
  <2> QED BY <1>2, <1>4, <2>1, <2>2 DEF Chosen
<1> QED BY <1>3, <1>4

Reading(n, ir) == \E i \in 1..Parsers9 : ir = Answers[n][i].ir

LEMMA RouteIs ==
  ASSUME CacheTypes, faults \in Nat, NEW t \in Threads, NEW n \in Names, Route(t, n)
  PROVE  \E ir : /\ job' = [job EXCEPT ![t] = Begun(n, ir)] /\ Goto(t, First(ir))
                 /\ ir = NoMatch \/ Reading(n, ir) \/ Raised(ir)
                 /\ faults' \in Nat
                 /\ OwnIds /\ faults' = 0 => faults = 0 /\ (ir = NoMatch \/ Chosen(n, ir))
<1> DEFINE Goal(ir) == /\ job' = [job EXCEPT ![t] = Begun(n, ir)] /\ Goto(t, First(ir))
                       /\ ir = NoMatch \/ Reading(n, ir) \/ Raised(ir)
                       /\ faults' \in Nat
                       /\ OwnIds /\ faults' = 0 => faults = 0 /\ (ir = NoMatch \/ Chosen(n, ir))
           Begins(ir) == job' = [job EXCEPT ![t] = Begun(n, ir)] /\ Goto(t, First(ir))
           Picked(c) == IF Winner(c) = None THEN NoMatch ELSE Winner(c).ir
           c0 == Candidates(n)
<1>1. PICK m \in Nat : Given(n, c0, m)
  BY CandidatesGiven
<1>2. ASSUME NEW c, Given(n, c, m) PROVE Picked(c) = NoMatch \/ Reading(n, Picked(c))
  BY <1>2, ReadIs DEF Reading
<1>3. ASSUME faults' = faults + 1 PROVE faults' \in Nat /\ faults' # 0
  BY <1>3
<1>4. CASE Begins(Picked(c0)) /\ UNCHANGED faults
  <2>1. OwnIds => Picked(c0) = NoMatch \/ Chosen(n, Picked(c0))
    BY ChosenIs
  <2>2. Goal(Picked(c0))
    BY <1>1, <1>2, <1>4, <2>1
  <2> QED BY <2>2
<1>5. CASE Fault /\ \E i \in DOMAIN c0 : Begins(Picked([c0 EXCEPT ![i].score = 0]))
  <2>1. PICK i \in DOMAIN c0 : Begins(Picked([c0 EXCEPT ![i].score = 0]))
    BY <1>5
  <2>2. i \in 1..m
    BY <1>1 DEF Given
  <2>3. Given(n, [c0 EXCEPT ![i].score = 0], m)
    BY <1>1, <2>2, ZeroGiven
  <2>4. faults' = faults + 1
    BY <1>5 DEF Fault
  <2>5. Goal(Picked([c0 EXCEPT ![i].score = 0]))
    BY <1>2, <1>3, <2>1, <2>3, <2>4
  <2> QED BY <2>5
<1>6. CASE Fault /\ Winner(c0) # None /\ Begins([NewIR(Winner(c0).id, 7, 0) EXCEPT !.errs = {"exception"}])
  <2> DEFINE ir == [NewIR(Winner(c0).id, 7, 0) EXCEPT !.errs = {"exception"}]
  <2>1. Raised(ir)
    BY <1>1, <1>6, ReadIs DEF Raised
  <2>2. faults' = faults + 1
    BY <1>6 DEF Fault
  <2>3. Goal(ir)
    BY <1>3, <1>6, <2>1, <2>2
  <2> QED BY <2>3
<1>7. \/ Begins(Picked(c0)) /\ UNCHANGED faults
      \/ Fault /\ \E i \in DOMAIN c0 : Begins(Picked([c0 EXCEPT ![i].score = 0]))
      \/ Fault /\ Winner(c0) # None /\ Begins([NewIR(Winner(c0).id, 7, 0) EXCEPT !.errs = {"exception"}])
  BY DEF Route, Begun, First
<1> QED BY <1>4, <1>5, <1>6, <1>7
-----------------------------------------------------------------------------
(***************************************************************************)
(* Types                                                                   *)
(***************************************************************************)
Stage == {"idle", "store", "index", "infer", "match", "matching", "ask", "call", "done"}

\* Every variable holds a value of its kind, and what is read for a line that is
\* known is read by a parser.
GoodIR(ir) ==
  DOMAIN ir = Slots /\ ir.id \in Parser \cup Engine /\ ir.tier \in 1..7 /\ ir.conf \in Hundredths
GoodJob(j, p) ==
  /\ DOMAIN j = {"line", "hit", "ir", "ids", "broke"}
  /\ p # "idle" => j.line \in Names /\ GoodIR(j.ir)
  /\ p \in {"store", "index"} => j.ir.id \in Parser
Counters  == failures \in Nat /\ openUntil \in Nat /\ now \in Nat /\ faults \in Nat
RefsOK == refs \subseteq Parser \X Shapes
TInv ==
  /\ CacheTypes /\ RefsOK /\ Counters
  /\ pc \in [Threads -> Stage] /\ DOMAIN job = Threads
  /\ \A t \in Threads : GoodJob(job[t], pc[t])

LEMMA SameShapes ==
  Shapes' = Shapes /\ Parser' = Parser
BY DEF Shapes, Parser

\* A call moves on.
Moves(t, p, j) == pc' = [pc EXCEPT ![t] = p] /\ job' = [job EXCEPT ![t] = j]

LEMMA MovesT ==
  ASSUME TInv, NEW t \in Threads, NEW p \in Stage, NEW j, Moves(t, p, j), GoodJob(j, p)
  PROVE  /\ pc' \in [Threads -> Stage] /\ DOMAIN job' = Threads
         /\ \A u \in Threads : GoodJob(job'[u], pc'[u])
<1>1. \A u \in Threads : (u = t /\ job'[u] = j /\ pc'[u] = p) \/ (job'[u] = job[u] /\ pc'[u] = pc[u])
  BY DEF TInv, Moves
<1>2. \A u \in Threads : GoodJob(job[u], pc[u])
  BY DEF TInv
<1>3. \A u \in Threads : GoodJob(job'[u], pc'[u])
  BY <1>1, <1>2
<1> QED BY <1>3 DEF TInv, Moves

LEMMA SetMoves ==
  ASSUME TInv, NEW t \in Threads, NEW ir, NEW p, SetIR(t, ir), Goto(t, p)
  PROVE  Moves(t, p, [job[t] EXCEPT !.ir = ir])
BY DEF TInv, SetIR, Goto, Moves

LEMMA BrokenMoves ==
  ASSUME TInv, NEW t \in Threads, Broken(t)
  PROVE  Moves(t, "done", [job[t] EXCEPT !.ir = [NewIR("engine.error", 7, 0) EXCEPT !.errs = {"exception"}],
                                         !.broke = TRUE])
<1> DEFINE ir == [NewIR("engine.error", 7, 0) EXCEPT !.errs = {"exception"}]
<1> HIDE DEF ir
<1>1. job' = [job EXCEPT ![t].ir = ir, ![t].broke = TRUE] /\ Goto(t, "done")
  BY DEF Broken, ir
<1>2. Moves(t, "done", [job[t] EXCEPT !.ir = ir, !.broke = TRUE])
  BY <1>1 DEF TInv, Goto, Moves
<1> QED BY <1>2 DEF ir

LEMMA NewGood ==
  ASSUME NEW id \in Parser \cup Engine, NEW errs
  PROVE  GoodIR([NewIR(id, 7, 0) EXCEPT !.errs = errs])
BY DEF GoodIR, NewIR, Slots, Hundredths

LEMMA ReadingGood ==
  ASSUME NEW n \in Names, NEW ir, Reading(n, ir)
  PROVE  GoodIR(ir) /\ ir.id \in Parser
<1>1. PICK i \in 1..Parsers9 : ir = Answers[n][i].ir
  BY DEF Reading
<1>2. Reads(ir, IdAt(i), TierAt(i))
  BY <1>1, AnswersAre DEF Answering
<1>3. IdAt(i) \in Parser
  BY ParserIs
<1>4. TierAt(i) \in 1..7
  BY DEF TierAt
<1> QED BY <1>2, <1>3, <1>4 DEF Reads, GoodIR

\* What tier 3 may make of a reading, with its fields and its notes left open.
Inferred(ir, new) ==
  /\ DOMAIN new = Slots /\ new.id = ir.id /\ new.tier = ir.tier /\ new.conf = ir.conf
  /\ ir.errs \subseteq new.errs

LEMMA FoundIs ==
  ASSUME NEW ir, NEW x, DOMAIN ir = Slots
  PROVE  /\ Inferred(ir, Found(ir, x)) /\ Found(ir, x).errs = ir.errs
         /\ Found(ir, x).fields = InferKV(InferTokens(ir.fields, x), x)
BY DEF Found, Slots, Inferred

LEMMA InferGood ==
  ASSUME NEW ir, NEW x, DOMAIN ir = Slots, NEW new \in {Infer(ir, x)} \cup InferRaised(ir, x)
  PROVE  Inferred(ir, new)
<1> DEFINE found == Found(ir, x)
<1>1. Inferred(ir, found)
  BY FoundIs
<1>2. CASE new = Infer(ir, x)
  BY <1>1, <1>2 DEF Infer, Slots, Inferred
<1>3. CASE new \in InferRaised(ir, x)
  <2>1. PICK i \in {ir, found, [found EXCEPT !.fields = Roles(@)]} :
          new = [i EXCEPT !.errs = @ \cup {"inference_error"}]
    BY <1>3 DEF InferRaised
  <2> HIDE DEF found
  <2>2. Inferred(ir, i)
    BY <1>1, <2>1 DEF Inferred, Slots
  <2> QED BY <2>1, <2>2 DEF Inferred, Slots
<1> QED BY <1>2, <1>3

\* The reading with which tier 3 ends, and what mining makes of it.
LEMMA InferAndMineIs ==
  ASSUME NEW t, InferAndMine(t), DOMAIN job[t].ir = Slots
  PROVE  /\ pc[t] = "infer" /\ (Fault \/ UNCHANGED faults)
         /\ UNCHANGED <<cache, refs, failures, openUntil, now, taken, calls, quiet>>
         /\ \E ir \in {Infer(job[t].ir, Line[job[t].line])} \cup InferRaised(job[t].ir, Line[job[t].line]) :
              /\ Inferred(job[t].ir, ir)
              /\ \/ ir.conf >= Known /\ SetIR(t, ir) /\ Goto(t, "done")
                 \/ \E errs \in {{}, {"template_mining_error"}} :
                      ~(ir.conf >= Known) /\ SetIR(t, Mined(ir, errs)) /\ Goto(t, "match")
<1> DEFINE S == {Infer(job[t].ir, Line[job[t].line])} \cup InferRaised(job[t].ir, Line[job[t].line])
           go(ir, errs) == IF ir.conf >= Known THEN SetIR(t, ir) /\ Goto(t, "done")
                           ELSE SetIR(t, Mined(ir, errs)) /\ Goto(t, "match")
<1>1. PICK ir \in S, errs \in {{}, {"template_mining_error"}} : go(ir, errs)
  BY DEF InferAndMine
<1>2. Inferred(job[t].ir, ir)
  BY InferGood
<1>3. \/ ir.conf >= Known /\ SetIR(t, ir) /\ Goto(t, "done")
      \/ ~(ir.conf >= Known) /\ SetIR(t, Mined(ir, errs)) /\ Goto(t, "match")
  BY <1>1
<1>4. pc[t] = "infer" /\ (Fault \/ UNCHANGED faults)
  BY DEF InferAndMine
<1>5. UNCHANGED <<cache, refs, failures, openUntil, now, taken, calls, quiet>>
  BY DEF InferAndMine
<1> QED BY <1>1, <1>2, <1>3, <1>4, <1>5

LEMMA MaxOfTwo ==
  ASSUME NEW a \in Hundredths, NEW b \in Hundredths
  PROVE  Max({a, b}) = IF a <= b THEN b ELSE a
<1>1. {a, b} \subseteq Int
  BY DEF Hundredths
<1>2. IsFiniteSet({a, b})
  <2>1. IsFiniteSet({a})
    BY FS_Singleton
  <2>2. {a, b} = {a} \cup {b}
    OBVIOUS
  <2> QED BY <2>1, <2>2, FS_AddElement
<1>3. Max({a, b}) \in {a, b} /\ \A n \in {a, b} : n <= Max({a, b})
  BY <1>1, <1>2, MaxIs
<1> QED BY <1>3 DEF Hundredths

\* What mining makes of a reading.
LEMMA MinedIs ==
  ASSUME NEW ir, GoodIR(ir), NEW errs
  PROVE  /\ DOMAIN Mined(ir, errs) = Slots /\ Mined(ir, errs).errs = ir.errs \cup errs
         /\ ir.tier <= 4 => /\ Mined(ir, errs).id = ir.id /\ Mined(ir, errs).tier = ir.tier
                            /\ Mined(ir, errs).conf = ir.conf
         /\ ~(ir.tier <= 4) => /\ Mined(ir, errs).id = "engine.drain3" /\ Mined(ir, errs).tier = 4
                               /\ Mined(ir, errs).conf \in Hundredths
                               /\ ir.conf = 0 => Mined(ir, errs).conf \in {20, 50}
<1> DEFINE y == IF errs = {} THEN 50 ELSE 20
<1>1. y \in Hundredths /\ y \in {20, 50} /\ 0 \in Hundredths
  BY DEF Hundredths
<1> HIDE DEF y
<1> DEFINE z == Max({ir.conf, y})
<1>2. z \in Hundredths /\ (ir.conf = 0 => z \in {20, 50})
  <2>1. ir.conf \in Hundredths
    BY DEF GoodIR
  <2>2. z = IF ir.conf <= y THEN y ELSE ir.conf
    BY <1>1, <2>1, MaxOfTwo, ZenonT(40)
  <2> HIDE DEF z
  <2> QED BY <1>1, <2>1, <2>2
<1>3. CASE ir.tier <= 4
  BY <1>3 DEF Mined, GoodIR, Slots
<1>4. CASE ~(ir.tier <= 4)
  <2>1. Mined(ir, errs) = [ir EXCEPT !.tier = 4, !.id = "engine.drain3", !.errs = @ \cup errs, !.conf = z]
    BY <1>4 DEF Mined, y
  <2> HIDE DEF z
  <2> QED BY <1>2, <1>4, <2>1 DEF GoodIR, Slots
<1> QED BY <1>3, <1>4

LEMMA MinedGood ==
  ASSUME NEW ir, GoodIR(ir), NEW errs
  PROVE  GoodIR(Mined(ir, errs))
<1>1. "engine.drain3" \in Engine /\ 4 \in 1..7
  BY DEF Engine
<1>2. CASE ir.tier <= 4
  BY <1>2, MinedIs DEF GoodIR
<1>3. CASE ~(ir.tier <= 4)
  BY <1>1, <1>3, MinedIs DEF GoodIR
<1> QED BY <1>2, <1>3

LEMMA QuarantineIs ==
  ASSUME NEW ir, GoodIR(ir)
  PROVE  LET q == Quarantine(ir)
         IN /\ DOMAIN q = Slots /\ q.conf = ir.conf /\ q.errs = ir.errs
            /\ q.tier = IF ir.conf < 40 THEN 7 ELSE ir.tier
            /\ q.id = IF ir.id = "none" THEN "engine.quarantine" ELSE ir.id
BY DEF Quarantine, GoodIR, Slots

LEMMA QuarantineGood ==
  ASSUME NEW ir, GoodIR(ir)
  PROVE  GoodIR(Quarantine(ir))
<1>1. "engine.quarantine" \in Engine /\ 7 \in 1..7
  BY DEF Engine
<1> QED BY <1>1, QuarantineIs DEF GoodIR

LEMMA Tier5Is ==
  ASSUME NEW ir, NEW n, NEW r \in Tier5(ir, n)
  PROVE  r = ir \/ r = [ir EXCEPT !.errs = @ \cup {"similarity_candidate_error"}]
BY DEF Tier5

LEMMA FaultIs ==
  ASSUME faults \in Nat, Fault \/ UNCHANGED faults
  PROVE  faults' \in Nat /\ (faults' = 0 => faults = 0 /\ UNCHANGED faults)
BY DEF Fault

LEMMA MovesTInv ==
  ASSUME TInv, NEW t \in Threads, NEW p \in Stage, NEW j, Moves(t, p, j), GoodJob(j, p),
         CacheTypes', RefsOK', Counters'
  PROVE  TInv'
<1>1. /\ pc' \in [Threads -> Stage] /\ DOMAIN job' = Threads
      /\ \A u \in Threads : GoodJob(job'[u], pc'[u])
  BY MovesT
<1> QED BY <1>1, SameShapes DEF TInv, GoodJob, GoodIR

LEMMA SetGood ==
  ASSUME TInv, NEW t \in Threads, pc[t] # "idle", NEW ir, GoodIR(ir), NEW p, p \notin {"store", "index"}
  PROVE  GoodJob([job[t] EXCEPT !.ir = ir], p)
BY DEF TInv, GoodJob

LEMMA SameTypes ==
  /\ TInv /\ UNCHANGED cache => CacheTypes'
  /\ TInv /\ UNCHANGED refs => RefsOK'
  /\ TInv /\ UNCHANGED <<failures, openUntil, now>> /\ faults' \in Nat => Counters'
BY SameShapes DEF TInv, CacheTypes, RefsOK, Counters

LEMMA BrokenT ==
  ASSUME TInv, NEW t \in Threads, pc[t] # "idle", Broken(t), CacheTypes', RefsOK', Counters'
  PROVE  TInv'
<1> DEFINE ir == [NewIR("engine.error", 7, 0) EXCEPT !.errs = {"exception"}]
           j == [job[t] EXCEPT !.ir = ir, !.broke = TRUE]
<1>1. "engine.error" \in Parser \cup Engine
  BY DEF Engine
<1>2. GoodIR(ir)
  BY <1>1, NewGood
<1>3. Moves(t, "done", j)
  BY BrokenMoves
<1> HIDE DEF ir
<1>4. GoodJob(j, "done")
  BY <1>2 DEF TInv, GoodJob
<1> HIDE DEF j
<1> QED BY <1>3, <1>4, MovesTInv DEF Stage

LEMMA RouteT == ASSUME TInv, NEW t \in Threads, NEW n \in Names, Route(t, n) PROVE TInv'
<1>1. CacheTypes /\ faults \in Nat
  BY DEF TInv, Counters
<1>2. PICK ir : /\ job' = [job EXCEPT ![t] = Begun(n, ir)] /\ Goto(t, First(ir))
                /\ ir = NoMatch \/ Reading(n, ir) \/ Raised(ir)
                /\ faults' \in Nat
  BY <1>1, RouteIs
<1>3. "none" \in Parser \cup Engine
  BY DEF Engine
<1>4. GoodIR(ir) /\ (First(ir) = "store" => ir.id \in Parser) /\ First(ir) \in {"store", "infer"}
  <2>1. First(ir) \in {"store", "infer"}
    BY DEF First
  <2>2. CASE ir = NoMatch
    <3>1. GoodIR(ir)
      BY <1>3, <2>2, NewGood DEF NoMatch
    <3>2. First(ir) = "infer"
      BY <2>2 DEF First, Cacheable, NoMatch, NewIR, Known
    <3> QED BY <2>1, <3>1, <3>2
  <2>3. CASE Reading(n, ir)
    BY <2>1, <2>3, ReadingGood
  <2>4. CASE Raised(ir)
    <3>1. PICK i \in 1..Parsers9 : ir = [NewIR(IdAt(i), 7, 0) EXCEPT !.errs = {"exception"}]
      BY <2>4 DEF Raised
    <3>2. IdAt(i) \in Parser
      BY ParserIs
    <3>3. ir.id \in Parser
      BY <3>1, <3>2 DEF NewIR
    <3> QED BY <2>1, <3>1, <3>2, <3>3, NewGood
  <2> QED BY <1>2, <2>2, <2>3, <2>4
<1>5. GoodJob(Begun(n, ir), First(ir))
  BY <1>4 DEF GoodJob, Begun, NoJob
<1>6. Moves(t, First(ir), Begun(n, ir))
  BY <1>2 DEF Moves, Goto
<1>7. CacheTypes' /\ RefsOK' /\ Counters'
  BY <1>2, SameTypes DEF Route
<1> QED BY <1>4, <1>5, <1>6, <1>7, MovesTInv DEF Stage

\* One lemma for a step that gives a call another reading.
LEMMA SetT ==
  ASSUME TInv, NEW t \in Threads, pc[t] # "idle", NEW ir, GoodIR(ir), NEW p \in Stage,
         p \notin {"store", "index"}, SetIR(t, ir), Goto(t, p), CacheTypes', RefsOK', Counters'
  PROVE  TInv'
<1> DEFINE j == [job[t] EXCEPT !.ir = ir]
<1>1. Moves(t, p, j)
  BY SetMoves
<1>2. GoodJob(j, p)
  BY SetGood
<1> HIDE DEF j
<1> QED BY <1>1, <1>2, MovesTInv

\* And for one that leaves the call as it is.
LEMMA GotoT ==
  ASSUME TInv, NEW t \in Threads, pc[t] # "idle", NEW p \in Stage, Goto(t, p), UNCHANGED job,
         p = "index" => pc[t] = "store", p # "store", CacheTypes', RefsOK', Counters'
  PROVE  TInv'
<1>1. GoodJob(job[t], p)
  BY DEF TInv, GoodJob
<1>2. pc' \in [Threads -> Stage]
  BY DEF TInv, Goto
<1>3. \A u \in Threads : (u = t /\ pc'[u] = p) \/ pc'[u] = pc[u]
  BY DEF TInv, Goto
<1>4. \A u \in Threads : GoodJob(job[u], pc'[u])
  BY <1>1, <1>3 DEF TInv
<1> QED BY <1>2, <1>4, SameShapes DEF TInv, GoodJob, GoodIR

LEMMA StoreT == ASSUME TInv, NEW t \in Threads, Store(t) PROVE TInv'
<1>1. GoodJob(job[t], "store") /\ pc[t] = "store"
  BY DEF TInv, Store
<1> DEFINE s == Line[job[t].line].shape
           id == job[t].ir.id
<1>2. s \in Shapes /\ id \in Parser
  BY <1>1 DEF GoodJob, Shapes
<1>3. cache' = Put(cache, s, id)
  BY DEF Store
<1> HIDE DEF s, id
<1>4. CacheTypes'
  <2>1. DOMAIN cache' = DOMAIN cache \cup {s} /\ \A z \in DOMAIN cache' : cache'[z] = id \/ (z \in DOMAIN cache /\ cache'[z] = cache[z])
    BY <1>3 DEF Put
  <2> QED BY <1>2, <2>1, SameShapes DEF TInv, CacheTypes
<1>5. faults \in Nat
  BY DEF TInv, Counters
<1>6. faults' \in Nat /\ UNCHANGED <<refs, failures, openUntil, now>>
  BY <1>5, FaultIs DEF Store
<1>7. RefsOK' /\ Counters'
  BY <1>6, SameTypes
<1>8. CASE Goto(t, "index") /\ UNCHANGED job
  BY <1>1, <1>4, <1>7, <1>8, GotoT DEF Stage
<1>9. CASE Broken(t)
  BY <1>1, <1>4, <1>7, <1>9, BrokenT
<1> QED BY <1>8, <1>9 DEF Store

LEMMA AddReferenceT == ASSUME TInv, NEW t \in Threads, AddReference(t) PROVE TInv'
<1>1. GoodJob(job[t], "index") /\ pc[t] = "index"
  BY DEF TInv, AddReference
<1> DEFINE s == Line[job[t].line].shape
           id == job[t].ir.id
<1>2. s \in Shapes /\ id \in Parser
  BY <1>1 DEF GoodJob, Shapes
<1>3. refs' = refs \/ refs' = refs \cup {<<id, s>>}
  BY DEF AddReference
<1> HIDE DEF s, id
<1>4. RefsOK'
  BY <1>2, <1>3, SameShapes DEF TInv, RefsOK
<1>5. UNCHANGED <<cache, failures, openUntil, now, faults, job>> /\ Goto(t, "infer")
  BY DEF AddReference
<1>6. CacheTypes' /\ Counters'
  BY <1>5, SameTypes DEF TInv, Counters
<1> QED BY <1>1, <1>4, <1>5, <1>6, GotoT DEF Stage

LEMMA InferGoodIR ==
  ASSUME NEW ir, GoodIR(ir), NEW new, Inferred(ir, new)
  PROVE  GoodIR(new)
BY DEF GoodIR, Inferred

LEMMA InferAndMineT == ASSUME TInv, NEW t \in Threads, InferAndMine(t) PROVE TInv'
<1>1. pc[t] = "infer" /\ GoodIR(job[t].ir)
  BY DEF TInv, GoodJob, InferAndMine
<1>2. DOMAIN job[t].ir = Slots
  BY <1>1 DEF GoodIR
<1>3. faults \in Nat
  BY DEF TInv, Counters
<1>4. faults' \in Nat /\ UNCHANGED <<cache, refs, failures, openUntil, now>>
  BY <1>2, <1>3, FaultIs, InferAndMineIs
<1>5. CacheTypes' /\ RefsOK' /\ Counters'
  BY <1>4, SameTypes
<1>6. PICK ir : /\ Inferred(job[t].ir, ir)
                /\ \/ SetIR(t, ir) /\ Goto(t, "done")
                   \/ \E errs \in {{}, {"template_mining_error"}} : SetIR(t, Mined(ir, errs)) /\ Goto(t, "match")
  BY <1>2, InferAndMineIs
<1>7. GoodIR(ir) /\ \A errs : GoodIR(Mined(ir, errs))
  BY <1>1, <1>6, InferGoodIR, MinedGood
<1> QED BY <1>1, <1>5, <1>6, <1>7, SetT DEF Stage

LEMMA StartMatchT == ASSUME TInv, NEW t \in Threads, StartMatch(t) PROVE TInv'
<1> DEFINE j == [job[t] EXCEPT !.ids = Ids]
<1>1. Moves(t, "matching", j) /\ pc[t] = "match"
  BY DEF TInv, Moves, Goto, StartMatch
<1>2. GoodJob(j, "matching")
  BY <1>1 DEF TInv, GoodJob
<1>3. CacheTypes' /\ RefsOK' /\ Counters'
  BY SameTypes DEF StartMatch, TInv, Counters
<1> HIDE DEF j
<1> QED BY <1>1, <1>2, <1>3, MovesTInv DEF Stage

LEMMA EndMatchT == ASSUME TInv, NEW t \in Threads, EndMatch(t) PROVE TInv'
<1>1. pc[t] = "matching" /\ GoodIR(job[t].ir)
  BY DEF TInv, GoodJob, EndMatch
<1>2. CacheTypes' /\ RefsOK' /\ Counters'
  BY SameTypes DEF EndMatch, TInv, Counters
<1>3. CASE Broken(t)
  BY <1>1, <1>2, <1>3, BrokenT
<1>4. CASE \E ir \in Tier5(job[t].ir, job[t].line) : SetIR(t, ir) /\ Goto(t, "ask")
  <2>1. PICK ir \in Tier5(job[t].ir, job[t].line) : SetIR(t, ir) /\ Goto(t, "ask")
    BY <1>4
  <2>2. GoodIR(ir)
    <3>1. ir = job[t].ir \/ ir = [job[t].ir EXCEPT !.errs = @ \cup {"similarity_candidate_error"}]
      BY <2>1, Tier5Is
    <3> QED BY <1>1, <3>1 DEF GoodIR, Slots
  <2> QED BY <1>1, <1>2, <2>1, <2>2, SetT DEF Stage
<1> QED BY <1>3, <1>4 DEF EndMatch

LEMMA ReturnT ==
  ASSUME TInv, NEW t \in Threads, pc[t] # "idle", Return(t), CacheTypes', RefsOK', Counters'
  PROVE  TInv'
<1>1. GoodIR(job[t].ir)
  BY DEF TInv, GoodJob
<1>2. GoodIR(Quarantine(job[t].ir))
  BY <1>1, QuarantineGood
<1> QED BY <1>2, SetT DEF Return, Stage

LEMMA AskT == ASSUME TInv, NEW t \in Threads, Ask(t) PROVE TInv'
<1>1. pc[t] = "ask" /\ CacheTypes' /\ RefsOK' /\ Counters'
  BY SameTypes DEF Ask, TInv, Counters
<1>2. CASE Goto(t, "call") /\ UNCHANGED job
  BY <1>1, <1>2, GotoT DEF Stage
<1>3. CASE Return(t)
  BY <1>1, <1>3, ReturnT
<1> QED BY <1>2, <1>3 DEF Ask

LEMMA ReplyT == ASSUME TInv, NEW t \in Threads, Reply(t) PROVE TInv'
<1>1. pc[t] = "call" /\ Return(t) /\ UNCHANGED <<cache, refs, now, faults>>
  BY DEF Reply
<1>2. CacheTypes' /\ RefsOK'
  BY <1>1, SameTypes
<1>3. Counters'
  BY <1>1, ThreadsAssumption DEF Reply, CountFailure, TInv, Counters
<1> QED BY <1>1, <1>2, <1>3, ReturnT

LEMMA NextT == TInv /\ [Next]_vars => TInv'
<1> SUFFICES ASSUME TInv, [Next]_vars PROVE TInv'
  OBVIOUS
<1>1. CASE Tick
  BY <1>1, SameShapes DEF Tick, TInv, CacheTypes, RefsOK, Counters, GoodJob, GoodIR
<1>2. CASE UNCHANGED vars
  BY <1>2, SameShapes DEF vars, TInv, CacheTypes, RefsOK, Counters, GoodJob, GoodIR
<1> QED BY <1>1, <1>2, RouteT, StoreT, AddReferenceT, InferAndMineT, StartMatchT, EndMatchT, AskT, ReplyT DEF Next

LEMMA InitT == Init => TInv
BY DEF Init, TInv, CacheTypes, RefsOK, Counters, GoodJob, NoJob, NoFields, Stage

LEMMA TInvTypes == TInv => TypeOK
<1>1. Shapes = {Line[n].shape : n \in Names}
  BY DEF Shapes
<1>2. ASSUME TInv PROVE Range(cache) \subseteq Parser /\ DOMAIN cache \subseteq Shapes
  BY <1>2 DEF TInv, CacheTypes, Range
<1>3. ASSUME TInv, NEW t \in Threads, pc[t] # "idle"
      PROVE  /\ job[t].line \in Names /\ job[t].ir.id \in Parser \cup Engine
             /\ job[t].ir.tier \in 1..7 /\ job[t].ir.conf \in 0..100
  BY <1>3 DEF TInv, GoodJob, GoodIR, Hundredths
<1> QED BY <1>1, <1>2, <1>3 DEF TypeOK, TInv, RefsOK, Counters, Stage

\* Every variable of the engine holds a value of its kind: a cached or indexed
\* parser is one that is asked, and what run holds and returns names a parser or
\* the engine, with a tier of 1 to 7 and a confidence of at most 1.
THEOREM LadderTypeOK == Spec => []TypeOK
<1>1. Spec => []TInv
  BY InitT, NextT, PTL DEF Spec
<1> QED BY <1>1, TInvTypes, PTL
-----------------------------------------------------------------------------
(***************************************************************************)
(* The tier of an event says how it was read                               *)
(*                                                                         *)
(* From the reading on a call holds what a parser read, or nothing; a line *)
(* that is known goes through store and index, another through mining, which *)
(* leaves a reading of tiers 1 and 2 as it is.                             *)
(***************************************************************************)
\* What was read by a parser, by none, and by mining alone.
ReadByParser(j) ==
  /\ j.ir.id \in Parser
  /\ j.ir.tier = AnswerOf(j.line, j.ir.id).ir.tier /\ j.ir.conf = AnswerOf(j.line, j.ir.id).ir.conf
Unread(ir) ==
  /\ ir.tier = 7 /\ ir.conf = 0 /\ ir.errs \cap {"no_tier1_2_match", "exception"} # {}
MinedOnly(ir) ==
  /\ ir.id = "engine.drain3" /\ ir.tier = 4 /\ ir.conf \in {20, 50}
  /\ ir.errs \cap {"no_tier1_2_match", "exception"} # {}
Told(j) ==
  /\ j.ir.tier = 7 <=> j.ir.conf < 40
  /\ j.ir.tier # 7 => ReadByParser(j) \/ (MinedOnly(j.ir) /\ j.ir.conf < Known)
  /\ j.broke <=> j.ir.id = "engine.error"

Right(j, p) ==
  /\ p \notin {"idle", "done"} => j.broke = FALSE
  /\ p \in {"store", "index"} => ReadByParser(j) /\ Cacheable(j.ir)
  /\ p = "infer" => ReadByParser(j) \/ Unread(j.ir)
  /\ p \in {"match", "matching", "ask", "call"} => (ReadByParser(j) /\ ~Cacheable(j.ir)) \/ MinedOnly(j.ir)
  /\ p = "done" => Told(j)

RInv == TInv /\ \A t \in Threads : Right(job[t], pc[t])

LEMMA RightMoves ==
  ASSUME RInv, TInv', NEW t \in Threads, NEW p, NEW j, Moves(t, p, j), Right(j, p)
  PROVE  RInv'
<1>1. \A u \in Threads : (u = t /\ job'[u] = j /\ pc'[u] = p) \/ (job'[u] = job[u] /\ pc'[u] = pc[u])
  BY DEF RInv, TInv, Moves
<1>2. \A u \in Threads : Right(job[u], pc[u])
  BY DEF RInv
<1>3. \A u \in Threads : Right(job'[u], pc'[u])
  BY <1>1, <1>2
<1> QED BY <1>3 DEF RInv

LEMMA ReadTier ==
  ASSUME NEW j, j.line \in Names, ReadByParser(j)
  PROVE  j.ir.tier \in {1, 2} /\ j.ir.conf \in Hundredths
<1>1. PICK i \in 1..Parsers9 : AnswerOf(j.line, j.ir.id) = Answers[j.line][i]
  BY AnswerIs DEF ReadByParser
<1>2. Reads(Answers[j.line][i].ir, IdAt(i), TierAt(i))
  BY AnswersAre DEF Answering
<1> QED BY <1>1, <1>2 DEF ReadByParser, Reads, TierAt

LEMMA ParserIds ==
  ASSUME OwnIds, Names # {}
  PROVE  Parser \cap Engine = {}
BY ParserIs, OwnId

\* The readings with which a call starts.
LEMMA BegunRight ==
  ASSUME OwnIds, NEW n \in Names, NEW ir, ir = NoMatch \/ Reading(n, ir) \/ Raised(ir)
  PROVE  Right(Begun(n, ir), First(ir))
<1> DEFINE j == Begun(n, ir)
           p == First(ir)
<1>1. j.broke = FALSE /\ j.ir = ir /\ j.line = n
  BY DEF Begun, NoJob
<1> HIDE DEF j, p
<1>2. First(ir) = "store" \/ (First(ir) = "infer" /\ ~Cacheable(ir))
  BY DEF First
<1>3. First(ir) = "store" => Cacheable(ir)
  BY DEF First
<1>4. CASE Reading(n, ir)
  <2>1. PICK i \in 1..Parsers9 : ir = Answers[n][i].ir
    BY <1>4 DEF Reading
  <2>2. AnswerOf(n, IdAt(i)) = Answers[n][i]
    BY OwnAnswer
  <2>3. ir.id = IdAt(i)
    BY <2>1, AnswersAre DEF Answering, Reads
  <2>4. IdAt(i) \in Parser
    BY ParserIs
  <2>5. ReadByParser(j)
    BY <1>1, <2>1, <2>2, <2>3, <2>4 DEF ReadByParser
  <2>6. p = "store" \/ p = "infer"
    BY <1>2 DEF p
  <2>7. p = "store" => Cacheable(j.ir)
    BY <1>1, <1>3 DEF p
  <2>8. Right(j, p)
    BY <1>1, <2>5, <2>6, <2>7 DEF Right
  <2> QED BY <2>8 DEF j, p
<1>5. CASE ir = NoMatch \/ Raised(ir)
  <2>1. ir.tier = 7 /\ ir.conf = 0 /\ ir.errs \cap {"no_tier1_2_match", "exception"} # {}
    <3>1. CASE ir = NoMatch
      BY <3>1 DEF NoMatch, NewIR
    <3>2. CASE Raised(ir)
      BY <3>2 DEF Raised, NewIR
    <3> QED BY <1>5, <3>1, <3>2
  <2>2. First(ir) = "infer"
    BY <2>1 DEF First, Cacheable, Known
  <2>3. Unread(j.ir)
    BY <1>1, <2>1 DEF Unread
  <2>4. p = "infer"
    BY <2>2 DEF p
  <2>5. Right(j, p)
    BY <1>1, <2>3, <2>4 DEF Right
  <2> QED BY <2>5 DEF j, p
<1> QED BY <1>4, <1>5

LEMMA RouteR == ASSUME OwnIds, RInv, TInv', NEW t \in Threads, NEW n \in Names, Route(t, n) PROVE RInv'
<1>1. CacheTypes /\ faults \in Nat
  BY DEF RInv, TInv, Counters
<1>2. PICK ir : /\ job' = [job EXCEPT ![t] = Begun(n, ir)] /\ Goto(t, First(ir))
                /\ ir = NoMatch \/ Reading(n, ir) \/ Raised(ir)
  BY <1>1, RouteIs
<1>3. Right(Begun(n, ir), First(ir))
  BY <1>2, BegunRight
<1>4. Moves(t, First(ir), Begun(n, ir))
  BY <1>2 DEF Moves, Goto
<1> QED BY <1>3, <1>4, RightMoves

LEMMA GotoR ==
  ASSUME RInv, TInv', NEW t \in Threads, NEW p, Goto(t, p), UNCHANGED job, Right(job[t], p)
  PROVE  RInv'
<1>1. \A u \in Threads : (u = t /\ pc'[u] = p) \/ pc'[u] = pc[u]
  BY DEF RInv, TInv, Goto
<1>2. \A u \in Threads : Right(job[u], pc'[u])
  BY <1>1 DEF RInv
<1> QED BY <1>2 DEF RInv

LEMMA SetR ==
  ASSUME RInv, TInv', NEW t \in Threads, NEW p, NEW ir, SetIR(t, ir), Goto(t, p),
         Right([job[t] EXCEPT !.ir = ir], p)
  PROVE  RInv'
BY RightMoves, SetMoves DEF RInv

LEMMA BrokenR == ASSUME RInv, TInv', NEW t \in Threads, Broken(t) PROVE RInv'
<1> DEFINE ir == [NewIR("engine.error", 7, 0) EXCEPT !.errs = {"exception"}]
           j == [job[t] EXCEPT !.ir = ir, !.broke = TRUE]
<1>1. ir.tier = 7 /\ ir.conf = 0 /\ ir.id = "engine.error"
  BY DEF NewIR
<1>2. Moves(t, "done", j)
  BY BrokenMoves DEF RInv
<1> HIDE DEF ir
<1>3. j.ir = ir /\ j.broke = TRUE
  BY DEF RInv, TInv, GoodJob
<1> HIDE DEF j
<1>4. Told(j)
  BY <1>1, <1>3 DEF Told
<1>5. Right(j, "done")
  BY <1>4 DEF Right
<1> QED BY <1>2, <1>5, RightMoves

LEMMA StoreR == ASSUME RInv, TInv', NEW t \in Threads, Store(t) PROVE RInv'
<1>1. pc[t] = "store" /\ Right(job[t], "store")
  BY DEF RInv, Store
<1>2. Right(job[t], "index")
  BY <1>1 DEF Right
<1> QED BY <1>2, GotoR, BrokenR DEF Store

LEMMA AddReferenceR == ASSUME RInv, TInv', NEW t \in Threads, AddReference(t) PROVE RInv'
<1>1. pc[t] = "index" /\ Right(job[t], "index")
  BY DEF RInv, AddReference
<1>2. Right(job[t], "infer")
  BY <1>1 DEF Right
<1> QED BY <1>2, GotoR DEF AddReference

LEMMA InferAndMineR == ASSUME OwnIds, RInv, TInv', NEW t \in Threads, InferAndMine(t) PROVE RInv'
<1> DEFINE j == job[t]
<1>1. pc[t] = "infer" /\ GoodJob(j, "infer") /\ Right(j, "infer")
  BY DEF RInv, TInv, InferAndMine
<1>3. DOMAIN j.ir = Slots /\ GoodIR(j.ir) /\ j.line \in Names /\ "ir" \in DOMAIN j
  BY <1>1 DEF GoodJob, GoodIR
<1>2. PICK ir :
        /\ Inferred(j.ir, ir)
        /\ \/ ir.conf >= Known /\ SetIR(t, ir) /\ Goto(t, "done")
           \/ \E errs \in {{}, {"template_mining_error"}} :
                ~(ir.conf >= Known) /\ SetIR(t, Mined(ir, errs)) /\ Goto(t, "match")
  BY <1>3, InferAndMineIs
<1>4. GoodIR(ir) /\ ir.id = j.ir.id /\ ir.tier = j.ir.tier /\ ir.conf = j.ir.conf /\ j.ir.errs \subseteq ir.errs
  BY <1>2, <1>3, InferGoodIR DEF Inferred
<1> HIDE DEF j
<1>5. ir.conf \in Nat /\ ir.conf \in Hundredths
  BY <1>4 DEF GoodIR, Hundredths
<1>6. CASE ir.conf >= Known /\ SetIR(t, ir) /\ Goto(t, "done")
  <2> DEFINE k == [j EXCEPT !.ir = ir]
  <2>1. k.ir = ir /\ k.line = j.line /\ k.broke = FALSE
    BY <1>1, <1>3 DEF GoodJob, Right
  <2> HIDE DEF k
  <2>2. ReadByParser(j)
    BY <1>1, <1>4, <1>6 DEF Right, Unread, Known
  <2>3. ReadByParser(k) /\ k.ir.tier \in {1, 2}
    BY <1>3, <1>4, <2>1, <2>2, ReadTier DEF ReadByParser
  <2>4. k.ir.id # "engine.error"
    BY <1>3, <2>3, ParserIds DEF ReadByParser, Engine
  <2>5. k.ir.conf >= 60
    BY <1>6, <2>1 DEF Known
  <2>6. Told(k)
    BY <1>5, <2>1, <2>3, <2>4, <2>5 DEF Told
  <2>7. Right(k, "done")
    BY <2>6 DEF Right
  <2> QED BY <1>6, <2>7, SetR DEF k, j
<1>7. ASSUME NEW errs \in {{}, {"template_mining_error"}},
             ~(ir.conf >= Known) /\ SetIR(t, Mined(ir, errs)) /\ Goto(t, "match")
      PROVE  RInv'
  <2> DEFINE m == Mined(ir, errs)
             k == [j EXCEPT !.ir = m]
  <2>1. k.ir = m /\ k.line = j.line /\ k.broke = FALSE
    BY <1>1, <1>3 DEF GoodJob, Right
  <2>2. m.errs = ir.errs \cup errs
    BY <1>4, MinedIs
  <2>3. CASE ReadByParser(j)
    <3>1. ir.tier \in {1, 2}
      BY <1>3, <1>4, <2>3, ReadTier
    <3>2. m.id = ir.id /\ m.tier = ir.tier /\ m.conf = ir.conf
      BY <1>4, <3>1, MinedIs
    <3> HIDE DEF m, k
    <3>3. ReadByParser(k)
      BY <1>4, <2>1, <2>3, <3>2 DEF ReadByParser
    <3>4. ~Cacheable(k.ir)
      BY <1>7, <2>1, <3>2 DEF Cacheable
    <3>5. Right(k, "match")
      BY <2>1, <3>3, <3>4 DEF Right
    <3> QED BY <1>7, <3>5, SetR DEF k, j, m
  <2>4. CASE Unread(j.ir)
    <3>1. ~(ir.tier <= 4) /\ ir.conf = 0
      BY <1>4, <2>4 DEF Unread
    <3>2. m.id = "engine.drain3" /\ m.tier = 4 /\ m.conf \in {20, 50}
      BY <1>4, <3>1, MinedIs
    <3> HIDE DEF m, k
    <3>3. MinedOnly(k.ir)
      BY <1>4, <2>1, <2>2, <2>4, <3>2 DEF MinedOnly, Unread
    <3>4. Right(k, "match")
      BY <2>1, <3>3 DEF Right
    <3> QED BY <1>7, <3>4, SetR DEF k, j, m
  <2> QED BY <1>1, <2>3, <2>4 DEF Right
<1> QED BY <1>2, <1>6, <1>7

LEMMA StartMatchR == ASSUME RInv, TInv', NEW t \in Threads, StartMatch(t) PROVE RInv'
<1> DEFINE j == [job[t] EXCEPT !.ids = Ids]
<1>1. Moves(t, "matching", j) /\ pc[t] = "match"
  BY DEF RInv, TInv, Moves, Goto, StartMatch
<1>2. Right(job[t], "match") /\ GoodJob(job[t], "match")
  BY <1>1 DEF RInv, TInv
<1>3. j.ir = job[t].ir /\ j.line = job[t].line /\ j.broke = job[t].broke
  BY <1>2 DEF GoodJob
<1> HIDE DEF j
<1>4. Right(j, "matching")
  BY <1>2, <1>3 DEF Right, ReadByParser
<1> QED BY <1>1, <1>4, RightMoves

\* A reading that only gets another note.
LEMMA NotedRight ==
  ASSUME NEW j, GoodJob(j, "matching"), Right(j, "matching"), NEW ir,
         ir = j.ir \/ ir = [j.ir EXCEPT !.errs = @ \cup {"similarity_candidate_error"}]
  PROVE  Right([j EXCEPT !.ir = ir], "ask")
<1> DEFINE k == [j EXCEPT !.ir = ir]
<1>1. k.ir = ir /\ k.line = j.line /\ k.broke = FALSE
  BY DEF GoodJob, Right
<1> HIDE DEF k
<1>2. ir.id = j.ir.id /\ ir.tier = j.ir.tier /\ ir.conf = j.ir.conf /\ j.ir.errs \subseteq ir.errs
  BY DEF GoodJob, GoodIR, Slots
<1>3. ReadByParser(j) /\ ~Cacheable(j.ir) => ReadByParser(k) /\ ~Cacheable(k.ir)
  BY <1>1, <1>2 DEF ReadByParser, Cacheable
<1>4. MinedOnly(j.ir) => MinedOnly(k.ir)
  BY <1>1, <1>2 DEF MinedOnly
<1>5. Right(k, "ask")
  BY <1>1, <1>3, <1>4 DEF Right
<1> QED BY <1>5 DEF k

LEMMA EndMatchR == ASSUME RInv, TInv', NEW t \in Threads, EndMatch(t) PROVE RInv'
<1>1. pc[t] = "matching" /\ GoodJob(job[t], "matching") /\ Right(job[t], "matching")
  BY DEF RInv, TInv, EndMatch
<1>2. CASE \E ir \in Tier5(job[t].ir, job[t].line) : SetIR(t, ir) /\ Goto(t, "ask")
  <2>1. PICK ir \in Tier5(job[t].ir, job[t].line) : SetIR(t, ir) /\ Goto(t, "ask")
    BY <1>2
  <2>2. ir = job[t].ir \/ ir = [job[t].ir EXCEPT !.errs = @ \cup {"similarity_candidate_error"}]
    BY <2>1, Tier5Is
  <2>3. Right([job[t] EXCEPT !.ir = ir], "ask")
    BY <1>1, <2>2, NotedRight
  <2> QED BY <2>1, <2>3, SetR
<1> QED BY <1>2, BrokenR DEF EndMatch

LEMMA ReturnR ==
  ASSUME OwnIds, RInv, TInv', NEW t \in Threads, pc[t] \in {"ask", "call"}, Return(t)
  PROVE  RInv'
<1> DEFINE j == job[t]
           q == Quarantine(j.ir)
           k == [j EXCEPT !.ir = q]
<1>1. GoodJob(j, "ask") /\ Right(j, "ask")
  BY DEF RInv, TInv, GoodJob, Right
<1>2. k.ir = q /\ k.line = j.line /\ k.broke = FALSE
  BY <1>1 DEF GoodJob, Right
<1>3. SetIR(t, q) /\ Goto(t, "done")
  BY DEF Return
<1>4. GoodIR(j.ir) /\ j.line \in Names
  BY <1>1 DEF GoodJob
<1>5. /\ q.conf = j.ir.conf /\ q.errs = j.ir.errs /\ q.tier = IF j.ir.conf < 40 THEN 7 ELSE j.ir.tier
      /\ q.id = IF j.ir.id = "none" THEN "engine.quarantine" ELSE j.ir.id
  BY <1>4, QuarantineIs
<1>6. q.conf \in Nat
  BY <1>4, <1>5 DEF GoodIR, Hundredths
<1> HIDE DEF j, q, k
<1>7. CASE ReadByParser(j)
  <2>1. j.ir.id \in Parser /\ j.ir.tier \in {1, 2}
    BY <1>4, <1>7, ReadTier DEF ReadByParser
  <2>2. j.ir.id # "none" /\ j.ir.id # "engine.error"
    BY <1>4, <2>1, ParserIds DEF Engine
  <2>3. q.tier = 7 <=> q.conf < 40
    BY <1>5, <2>1
  <2>4. q.tier # 7 => ReadByParser(k)
    BY <1>2, <1>5, <1>7, <2>2 DEF ReadByParser
  <2>5. Told(k)
    BY <1>2, <1>5, <2>2, <2>3, <2>4 DEF Told
  <2> QED BY <1>3, <2>5, SetR DEF Right, k, j
<1>8. CASE MinedOnly(j.ir)
  <2>1. q.tier = 7 <=> q.conf < 40
    BY <1>5, <1>8 DEF MinedOnly
  <2>2. q.tier # 7 => MinedOnly(q) /\ q.conf < Known
    BY <1>5, <1>8 DEF MinedOnly, Known
  <2>3. q.id # "engine.error"
    BY <1>5, <1>8 DEF MinedOnly
  <2>4. Told(k)
    BY <1>2, <2>1, <2>2, <2>3 DEF Told
  <2> QED BY <1>3, <2>4, SetR DEF Right, k, j
<1> QED BY <1>1, <1>7, <1>8 DEF Right

LEMMA AskR == ASSUME OwnIds, RInv, TInv', NEW t \in Threads, Ask(t) PROVE RInv'
<1>1. pc[t] = "ask" /\ Right(job[t], "ask")
  BY DEF RInv, Ask
<1>2. Right(job[t], "call")
  BY <1>1 DEF Right
<1> QED BY <1>1, <1>2, GotoR, ReturnR DEF Ask

LEMMA ReplyR == ASSUME OwnIds, RInv, TInv', NEW t \in Threads, Reply(t) PROVE RInv'
BY ReturnR DEF Reply

LEMMA NextR == OwnIds /\ RInv /\ [Next]_vars => RInv'
<1> SUFFICES ASSUME OwnIds, RInv, [Next]_vars PROVE RInv'
  OBVIOUS
<1>1. TInv'
  BY NextT DEF RInv
<1>2. CASE Tick
  BY <1>1, <1>2 DEF Tick, RInv
<1>3. CASE UNCHANGED vars
  BY <1>1, <1>3 DEF vars, RInv
<1> QED BY <1>1, <1>2, <1>3, RouteR, StoreR, AddReferenceR, InferAndMineR, StartMatchR, EndMatchR, AskR, ReplyR
        DEF Next

LEMMA InitR == Init => RInv
<1> SUFFICES ASSUME Init PROVE \A t \in Threads : Right(job[t], pc[t])
  BY InitT DEF RInv
<1>1. ASSUME NEW t \in Threads PROVE pc[t] = "idle"
  BY DEF Init
<1> QED BY <1>1 DEF Right

LEMMA RightMeans == RInv => TierMeans
<1> SUFFICES ASSUME RInv, NEW t \in Returned PROVE Told(job[t])
  BY DEF TierMeans, Told, ReadByParser, MinedOnly, Result
<1> QED BY DEF RInv, Right, Returned

\* Whatever raises on the way, and whichever threads run, the tier of an event says
\* how run read its line, if no pack has the id of a structural parser or of the
\* engine: with such an id the event would not tell which of the two read it.
THEOREM TierAlwaysMeans == ASSUME OwnIds PROVE Spec => []TierMeans
<1>1. RInv /\ [Next]_vars => RInv'
  BY NextR
<1>2. Spec => []RInv
  BY <1>1, InitR, PTL DEF Spec
<1> QED BY <1>2, RightMeans, PTL
-----------------------------------------------------------------------------
(***************************************************************************)
(* A line is read by the best parser                                       *)
(*                                                                         *)
(* The parser that is cached for a shape scored best the line that put it  *)
(* there and knew it; a hit asks it alone.                                 *)
(***************************************************************************)
\* A parser that knew a line of the shape and scored it best.
Knows(s, id) ==
  \E m \in Names : Line[m].shape = s /\ IsBest(m, id) /\ AnswerOf(m, id).ir.conf >= Known
Best(j) == j.ir.id \in Parser => IsBest(j.line, j.ir.id) \/ (j.hit /\ Knows(Line[j.line].shape, j.ir.id))

\* As long as nothing failed, what is cached knows the shape.
BInv ==
  RInv /\ (faults = 0 => /\ \A s \in DOMAIN cache : Knows(s, cache[s])
                         /\ \A t \in Threads : pc[t] # "idle" => Best(job[t]))

LEMMA BestMoves ==
  ASSUME BInv, RInv', UNCHANGED faults, NEW t \in Threads, NEW p, NEW j, Moves(t, p, j),
         faults = 0 => Best(j) /\ \A s \in DOMAIN cache' : Knows(s, cache'[s])
  PROVE  BInv'
<1>1. \A u \in Threads : (u = t /\ job'[u] = j) \/ (job'[u] = job[u] /\ pc'[u] = pc[u])
  BY DEF BInv, RInv, TInv, Moves
<1>2. faults = 0 => \A u \in Threads : pc'[u] # "idle" => Best(job'[u])
  BY <1>1 DEF BInv
<1> QED BY <1>2 DEF BInv

\* A call that moves on reads on as it did, or is no longer a parser's.
LEMMA BestFollows ==
  ASSUME BInv, RInv', UNCHANGED <<cache, faults>>, NEW t \in Threads, pc[t] # "idle", NEW p, NEW j, Moves(t, p, j),
         j.line = job[t].line, j.hit = job[t].hit, j.ir.id = job[t].ir.id \/ j.ir.id \notin Parser
  PROVE  BInv'
<1>1. faults = 0 => Best(j)
  BY DEF BInv, Best
<1>2. faults = 0 => \A s \in DOMAIN cache' : Knows(s, cache'[s])
  BY DEF BInv
<1> QED BY <1>1, <1>2, BestMoves

\* After a fault there is nothing to show.
LEMMA FaultB ==
  ASSUME BInv, RInv', Fault
  PROVE  BInv'
BY DEF BInv, RInv, TInv, Counters, Fault

LEMMA ChosenBest ==
  ASSUME OwnIds, BInv, faults = 0, NEW n \in Names, NEW ir, ir = NoMatch \/ Chosen(n, ir)
  PROVE  Best(Begun(n, ir))
<1> DEFINE j == Begun(n, ir)
<1>1. j.ir = ir /\ j.line = n /\ (j.hit <=> Line[n].shape \in DOMAIN cache)
  BY DEF Begun, NoJob
<1> HIDE DEF j
<1>2. CASE ir = NoMatch
  <2>1. ir.id = "none"
    BY <1>2 DEF NoMatch, NewIR
  <2>2. ir.id \notin Parser
    BY <2>1, ParserIds DEF Engine
  <2> QED BY <1>1, <2>2 DEF Best, j
<1>3. CASE Chosen(n, ir)
  <2>1. PICK i \in 1..Parsers9 :
          /\ ir = Answers[n][i].ir
          /\ IF Line[n].shape \in DOMAIN cache THEN IdAt(i) = cache[Line[n].shape]
             ELSE Answers[n][i].score = Max({a.score : a \in Range(Answers[n])})
    BY <1>3 DEF Chosen
  <2>2. ir.id = IdAt(i)
    BY <2>1, AnswersAre DEF Answering, Reads
  <2>3. CASE Line[n].shape \in DOMAIN cache
    <3>1. Knows(Line[n].shape, ir.id)
      BY <2>1, <2>2, <2>3 DEF BInv
    <3> QED BY <1>1, <2>3, <3>1 DEF Best, j
  <2>4. CASE Line[n].shape \notin DOMAIN cache
    <3>1. AnswerOf(n, ir.id) = Answers[n][i]
      BY <2>2, OwnAnswer
    <3>2. IsBest(n, ir.id)
      BY <2>1, <2>4, <3>1 DEF IsBest
    <3> QED BY <1>1, <3>2 DEF Best, j
  <2> QED BY <2>3, <2>4
<1> QED BY <1>2, <1>3

LEMMA RouteB == ASSUME OwnIds, BInv, RInv', NEW t \in Threads, NEW n \in Names, Route(t, n) PROVE BInv'
<1>1. CacheTypes /\ faults \in Nat
  BY DEF BInv, RInv, TInv, Counters
<1>2. PICK ir : /\ job' = [job EXCEPT ![t] = Begun(n, ir)] /\ Goto(t, First(ir))
                /\ faults' = 0 => faults = 0 /\ (ir = NoMatch \/ Chosen(n, ir))
  BY <1>1, RouteIs
<1>3. CASE faults' # 0
  BY <1>3 DEF BInv
<1>4. CASE faults' = 0
  <2>1. faults = 0 /\ (ir = NoMatch \/ Chosen(n, ir))
    BY <1>2, <1>4
  <2>2. Best(Begun(n, ir))
    BY <2>1, ChosenBest
  <2>3. Moves(t, First(ir), Begun(n, ir)) /\ UNCHANGED <<cache, faults>>
    BY <1>2, <1>4, <2>1 DEF Moves, Goto, Route
  <2>4. \A s \in DOMAIN cache' : Knows(s, cache'[s])
    BY <2>1, <2>3 DEF BInv
  <2> QED BY <2>2, <2>3, <2>4, BestMoves
<1> QED BY <1>3, <1>4

LEMMA StoreB == ASSUME OwnIds, BInv, RInv', NEW t \in Threads, Store(t) PROVE BInv'
<1> DEFINE j == job[t]
           s == Line[j.line].shape
<1>1. pc[t] = "store" /\ GoodJob(j, "store") /\ Right(j, "store")
  BY DEF BInv, RInv, TInv, Store
<1>2. cache' = Put(cache, s, j.ir.id)
  BY DEF Store
<1>3. CASE Fault
  BY <1>3, FaultB
<1>4. CASE Goto(t, "index") /\ UNCHANGED <<job, faults>>
  <2>1. ASSUME faults = 0 PROVE \A z \in DOMAIN cache' : Knows(z, cache'[z])
    <3>1. Best(j)
      BY <1>1, <2>1 DEF BInv
    <3>2. ReadByParser(j) /\ Cacheable(j.ir) /\ j.line \in Names /\ j.ir.id \in Parser
      BY <1>1 DEF Right, GoodJob, ReadByParser
    <3>3. AnswerOf(j.line, j.ir.id).ir.conf >= Known
      BY <3>2 DEF ReadByParser, Cacheable
    <3> HIDE DEF j
    <3>4. Knows(s, j.ir.id)
      BY <3>1, <3>2, <3>3 DEF Best, Knows
    <3>5. \A z \in DOMAIN cache : Knows(z, cache[z])
      BY <2>1 DEF BInv
    <3> HIDE DEF s
    <3>6. \A z \in DOMAIN cache' : (z = s /\ cache'[z] = j.ir.id) \/ (z \in DOMAIN cache /\ cache'[z] = cache[z])
      BY <1>2 DEF Put
    <3> QED BY <3>4, <3>5, <3>6
  <2>2. faults = 0 => \A u \in Threads : pc'[u] # "idle" => Best(job'[u])
    <3>1. \A u \in Threads : pc'[u] # "idle" => pc[u] # "idle"
      BY <1>1, <1>4 DEF BInv, RInv, TInv, Goto
    <3> QED BY <1>4, <3>1 DEF BInv
  <2> QED BY <1>4, <2>1, <2>2 DEF BInv
<1> QED BY <1>3, <1>4 DEF Store

\* A step that gives a call another reading, of the same parser or of none.
LEMMA SetB ==
  ASSUME BInv, RInv', UNCHANGED cache, Fault \/ UNCHANGED faults, NEW t \in Threads, pc[t] # "idle",
         NEW p, NEW ir, SetIR(t, ir), Goto(t, p), ir.id = job[t].ir.id \/ ir.id \notin Parser
  PROVE  BInv'
<1>1. CASE Fault
  BY <1>1, FaultB
<1>2. CASE UNCHANGED faults
  <2> DEFINE j == [job[t] EXCEPT !.ir = ir]
  <2>1. Moves(t, p, j)
    BY SetMoves DEF BInv, RInv
  <2>2. j.ir = ir /\ j.line = job[t].line /\ j.hit = job[t].hit
    BY DEF BInv, RInv, TInv, GoodJob
  <2> HIDE DEF j
  <2> QED BY <1>2, <2>1, <2>2, BestFollows
<1> QED BY <1>1, <1>2

LEMMA GotoB ==
  ASSUME BInv, RInv', UNCHANGED <<cache, faults, job>>, NEW t \in Threads, pc[t] # "idle", NEW p, Goto(t, p)
  PROVE  BInv'
<1>1. \A u \in Threads : pc'[u] # "idle" => pc[u] # "idle"
  BY DEF BInv, RInv, TInv, Goto
<1> QED BY <1>1 DEF BInv

LEMMA NotParsers ==
  ASSUME OwnIds, Names # {}
  PROVE  {"engine.drain3", "engine.quarantine", "engine.error"} \cap Parser = {}
BY ParserIds DEF Engine

LEMMA InferAndMineB == ASSUME OwnIds, BInv, RInv', NEW t \in Threads, InferAndMine(t) PROVE BInv'
<1>1. pc[t] = "infer" /\ GoodIR(job[t].ir) /\ job[t].line \in Names
  BY DEF BInv, RInv, TInv, GoodJob, InferAndMine
<1>2. DOMAIN job[t].ir = Slots
  BY <1>1 DEF GoodIR
<1>3. UNCHANGED cache /\ (Fault \/ UNCHANGED faults)
  BY <1>2, InferAndMineIs
<1>7. PICK ir : /\ Inferred(job[t].ir, ir)
                /\ \/ SetIR(t, ir) /\ Goto(t, "done")
                   \/ \E errs \in {{}, {"template_mining_error"}} : SetIR(t, Mined(ir, errs)) /\ Goto(t, "match")
  BY <1>2, InferAndMineIs
<1>4. GoodIR(ir) /\ ir.id = job[t].ir.id
  BY <1>1, <1>7, InferGoodIR DEF Inferred
<1>5. \A errs : Mined(ir, errs).id = ir.id \/ Mined(ir, errs).id = "engine.drain3"
  BY <1>4, MinedIs
<1>6. "engine.drain3" \notin Parser
  BY <1>1, NotParsers
<1> QED BY <1>1, <1>3, <1>4, <1>5, <1>6, <1>7, SetB

LEMMA StartMatchB == ASSUME BInv, RInv', NEW t \in Threads, StartMatch(t) PROVE BInv'
<1> DEFINE j == [job[t] EXCEPT !.ids = Ids]
<1>1. Moves(t, "matching", j) /\ pc[t] = "match" /\ UNCHANGED <<cache, faults>>
  BY DEF BInv, RInv, TInv, Moves, Goto, StartMatch
<1>2. j.ir = job[t].ir /\ j.line = job[t].line /\ j.hit = job[t].hit
  BY DEF BInv, RInv, TInv, GoodJob
<1> HIDE DEF j
<1> QED BY <1>1, <1>2, BestFollows

LEMMA BrokenB ==
  ASSUME OwnIds, BInv, RInv', NEW t \in Threads, pc[t] # "idle", Broken(t), UNCHANGED <<cache, faults>>
  PROVE  BInv'
<1> DEFINE ir == [NewIR("engine.error", 7, 0) EXCEPT !.errs = {"exception"}]
           j == [job[t] EXCEPT !.ir = ir, !.broke = TRUE]
<1>1. ir.id = "engine.error"
  BY DEF NewIR
<1>2. Moves(t, "done", j)
  BY BrokenMoves DEF BInv, RInv
<1> HIDE DEF ir
<1>3. j.ir = ir /\ j.line = job[t].line /\ j.hit = job[t].hit /\ job[t].line \in Names
  BY DEF BInv, RInv, TInv, GoodJob
<1> HIDE DEF j
<1>4. j.ir.id \notin Parser
  BY <1>1, <1>3, NotParsers
<1> QED BY <1>2, <1>3, <1>4, BestFollows

LEMMA EndMatchB == ASSUME OwnIds, BInv, RInv', NEW t \in Threads, EndMatch(t) PROVE BInv'
<1>1. pc[t] = "matching" /\ GoodIR(job[t].ir) /\ UNCHANGED <<cache, faults>>
  BY DEF BInv, RInv, TInv, GoodJob, EndMatch
<1>2. CASE \E ir \in Tier5(job[t].ir, job[t].line) : SetIR(t, ir) /\ Goto(t, "ask")
  <2>1. PICK ir \in Tier5(job[t].ir, job[t].line) : SetIR(t, ir) /\ Goto(t, "ask")
    BY <1>2
  <2>2. ir = job[t].ir \/ ir = [job[t].ir EXCEPT !.errs = @ \cup {"similarity_candidate_error"}]
    BY <2>1, Tier5Is
  <2>3. ir.id = job[t].ir.id
    BY <1>1, <2>2 DEF GoodIR, Slots
  <2> QED BY <1>1, <2>1, <2>3, SetB
<1> QED BY <1>1, <1>2, BrokenB DEF EndMatch

LEMMA ReturnB ==
  ASSUME OwnIds, BInv, RInv', NEW t \in Threads, pc[t] # "idle", Return(t), UNCHANGED <<cache, faults>>
  PROVE  BInv'
<1> DEFINE q == Quarantine(job[t].ir)
<1>1. SetIR(t, q) /\ Goto(t, "done")
  BY DEF Return
<1>2. GoodIR(job[t].ir) /\ job[t].line \in Names
  BY DEF BInv, RInv, TInv, GoodJob
<1>3. q.id = job[t].ir.id \/ q.id = "engine.quarantine"
  BY <1>2, QuarantineIs
<1> HIDE DEF q
<1>4. q.id = job[t].ir.id \/ q.id \notin Parser
  BY <1>2, <1>3, NotParsers
<1> QED BY <1>1, <1>4, SetB

LEMMA NextB == OwnIds /\ BInv /\ [Next]_vars => BInv'
<1> SUFFICES ASSUME OwnIds, BInv, [Next]_vars PROVE BInv'
  OBVIOUS
<1>1. RInv'
  BY NextR DEF BInv
<1>2. CASE Tick
  BY <1>1, <1>2 DEF Tick, BInv
<1>3. CASE UNCHANGED vars
  BY <1>1, <1>3 DEF vars, BInv
<1>4. ASSUME NEW t \in Threads, AddReference(t) PROVE BInv'
  BY <1>1, <1>4, GotoB DEF AddReference
<1>5. ASSUME NEW t \in Threads, Ask(t) PROVE BInv'
  <2>1. pc[t] # "idle" /\ UNCHANGED <<cache, faults>>
    BY <1>5 DEF Ask
  <2> QED BY <1>1, <1>5, <2>1, GotoB, ReturnB DEF Ask
<1>6. ASSUME NEW t \in Threads, Reply(t) PROVE BInv'
  <2>1. pc[t] # "idle" /\ UNCHANGED <<cache, faults>> /\ Return(t)
    BY <1>6 DEF Reply
  <2> QED BY <1>1, <2>1, ReturnB
<1> QED BY <1>1, <1>2, <1>3, <1>4, <1>5, <1>6, RouteB, StoreB, InferAndMineB, StartMatchB, EndMatchB DEF Next

LEMMA InitB == Init => BInv
<1> SUFFICES ASSUME Init PROVE BInv
  OBVIOUS
<1>1. DOMAIN cache = {} /\ \A t \in Threads : pc[t] = "idle"
  BY DEF Init, NoFields
<1> QED BY <1>1, InitR DEF BInv

LEMMA BestReads == BInv => ReadByBest
<1> SUFFICES ASSUME BInv, NEW t \in Returned, faults = 0, Result(t).id \in Parser
             PROVE  \/ IsBest(job[t].line, Result(t).id)
                    \/ job[t].hit /\ Knows(Line[job[t].line].shape, Result(t).id)
  BY DEF ReadByBest, Knows
<1> QED BY DEF BInv, Best, Returned, Result

\* As long as no test or reading raises, _route gives a line to a parser that scores
\* it best, or to the one that a line of its shape went to, under the same condition.
THEOREM AlwaysReadByBest == ASSUME OwnIds PROVE Spec => []ReadByBest
<1>1. BInv /\ [Next]_vars => BInv'
  BY NextB
<1>2. Spec => []BInv
  BY <1>1, InitB, PTL DEF Spec
<1> QED BY <1>2, BestReads, PTL
-----------------------------------------------------------------------------
(***************************************************************************)
(* Events are complete: fields                                             *)
(*                                                                         *)
(* Tier 3 adds fields under prefixes of its own, so that those which a     *)
(* parser has read or mapped (Plain) stay as they were until secrets are    *)
(* hidden.                                                                 *)
(***************************************************************************)
Pair(k) == k = <<k[1], k[2]>>
Plain(k) == k[1] \in {"", "ocsf"}
Kept(f, g) ==
  /\ \A k \in DOMAIN g : Pair(k) /\ (Plain(k) => k \in DOMAIN f)
  /\ \A k \in DOMAIN f : k \in DOMAIN g /\ (Plain(k) => g[k] = f[k])

LEMMA KeptSelf ==
  ASSUME NEW f, FieldsOK(f)
  PROVE  Kept(f, f)
BY DEF FieldsOK, Keyed, Kept, Pair

LEMMA KeptPut ==
  ASSUME NEW f, NEW g, Kept(f, g), NEW n, NEW v
  PROVE  Kept(f, Put(g, Internal(n), v)) /\ Kept(f, SetDefault(g, Internal(n), v))
<1> DEFINE k == Internal(n)
           h == Put(g, k, v)
<1>1. Pair(k) /\ ~Plain(k)
  BY DEF Internal, Pair, Plain
<1> HIDE DEF k
<1>2. DOMAIN h = DOMAIN g \cup {k} /\ \A j \in DOMAIN g : j # k => h[j] = g[j]
  BY DEF Put
<1> HIDE DEF h
<1>3. \A j \in DOMAIN h : Pair(j) /\ (Plain(j) => j \in DOMAIN f)
  BY <1>1, <1>2 DEF Kept
<1>4. \A j \in DOMAIN f : j \in DOMAIN h /\ (Plain(j) => h[j] = f[j])
  BY <1>1, <1>2 DEF Kept
<1>5. Kept(f, h)
  BY <1>3, <1>4 DEF Kept
<1> QED BY <1>5 DEF SetDefault, h, k

LEMMA KeptTokens ==
  ASSUME NEW f, NEW g, Kept(f, g), NEW x
  PROVE  Kept(f, InferTokens(g, x))
BY KeptPut DEF InferTokens

LEMMA KeptKV ==
  ASSUME NEW f, NEW g, Kept(f, g), NEW x
  PROVE  Kept(f, InferKV(g, x))
<1> DEFINE u == Under("inferred", [n \in {m \in DOMAIN x.pairs : <<"", m>> \notin DOMAIN g} |-> x.pairs[n]])
           h == With(u, g)
<1>1. ASSUME NEW w, NEW k \in DOMAIN Under("inferred", w) PROVE Pair(k) /\ ~Plain(k)
  <2>1. PICK n : k = <<"inferred", n>>
    BY DEF Under
  <2> QED BY <2>1 DEF Pair, Plain
<1>2. h = InferKV(g, x)
  BY DEF InferKV
<1>6. \A k \in DOMAIN u : Pair(k) /\ ~Plain(k)
  BY <1>1
<1> HIDE DEF u
<1>3. DOMAIN h = DOMAIN u \cup DOMAIN g /\ \A j \in DOMAIN g : h[j] = g[j]
  BY DEF With
<1> HIDE DEF h
<1>4. \A j \in DOMAIN h : Pair(j) /\ (Plain(j) => j \in DOMAIN f)
  BY <1>3, <1>6 DEF Kept
<1>5. \A j \in DOMAIN f : j \in DOMAIN h /\ (Plain(j) => h[j] = f[j])
  BY <1>3 DEF Kept
<1> QED BY <1>2, <1>4, <1>5 DEF Kept

LEMMA KeptRoles ==
  ASSUME NEW f, NEW g, Kept(f, g)
  PROVE  Kept(f, Roles(g)) /\ Kept(f, EndpointRoles(g))
<1>1. ASSUME NEW h, Kept(f, h), NEW name, NEW names PROVE Kept(f, Role(h, name, names))
  BY <1>1, KeptPut DEF Role
<1>2. ASSUME NEW h, Kept(f, h), NEW name, NEW names PROVE Kept(f, Port(h, name, names))
  BY <1>2, KeptPut DEF Port
<1>3. ASSUME NEW h, Kept(f, h) PROVE Kept(f, StandIn(h))
  <2> DEFINE ips == Get(h, Internal("ips"))
             src == Put(h, Internal("src_ip"), ips[1])
             dst == Put(src, Internal("dst_ip"), ips[2])
  <2>1. StandIn(h) = h \/ StandIn(h) = dst \/ StandIn(h) = src
    BY DEF StandIn
  <2> HIDE DEF ips
  <2>2. Kept(f, src)
    BY <1>3, KeptPut
  <2> HIDE DEF src
  <2>3. Kept(f, dst)
    BY <2>2, KeptPut
  <2> QED BY <1>3, <2>1, <2>2, <2>3
<1> DEFINE a == Role(g, "src_ip", SourceKeys)
           b == Role(a, "dst_ip", TargetKeys)
           c == StandIn(b)
           d == Port(c, "src_port", SourcePorts)
<1>4. Roles(g) = b /\ EndpointRoles(g) = Port(d, "dst_port", TargetPorts)
  BY DEF Roles, EndpointRoles
<1> HIDE DEF d
<1>5. Kept(f, a)
  BY <1>1
<1> HIDE DEF a
<1>6. Kept(f, b)
  BY <1>1, <1>5
<1> HIDE DEF b
<1>7. Kept(f, c)
  BY <1>3, <1>6
<1> HIDE DEF c
<1>8. Kept(f, d)
  BY <1>2, <1>7 DEF d
<1> QED BY <1>2, <1>4, <1>6, <1>8

\* What tier 3 makes of the fields of a parser, f: secrets are hidden by their
\* names, unless it notes in errs that it raised.
NameOf(k) == IF k[1] = "ocsf" THEN Last(k[2]) ELSE k[2]
Hides(errs, f, h) ==
  /\ \A k \in DOMAIN h : Pair(k) /\ (Plain(k) => k \in DOMAIN f)
  /\ \A k \in DOMAIN f : k \in DOMAIN h /\ (Plain(k) => h[k] = Shown(errs, NameOf(k), f[k]))

LEMMA KeptHides ==
  ASSUME NEW f, NEW g, Kept(f, g), NEW errs
  PROVE  /\ "inference_error" \in errs => Hides(errs, f, g)
         /\ "inference_error" \notin errs => Hides(errs, f, Redact(g))
<1> DEFINE h == Redact(g)
<1>1. ASSUME "inference_error" \in errs PROVE Hides(errs, f, g)
  <2>1. \A k \in DOMAIN f : Shown(errs, NameOf(k), f[k]) = f[k]
    BY <1>1 DEF Shown
  <2> QED BY <2>1 DEF Hides, Kept
<1>2. ASSUME "inference_error" \notin errs PROVE Hides(errs, f, h)
  <2>1. DOMAIN h = DOMAIN g /\ \A k \in DOMAIN g : h[k] = Shown(errs, NameOf(k), g[k])
    BY <1>2 DEF Redact, IsPrivate, Shown, NameOf
  <2> HIDE DEF h
  <2>2. \A k \in DOMAIN h : Pair(k) /\ (Plain(k) => k \in DOMAIN f)
    BY <2>1 DEF Kept
  <2>3. \A k \in DOMAIN f : k \in DOMAIN h /\ (Plain(k) => h[k] = Shown(errs, NameOf(k), f[k]))
    BY <2>1 DEF Kept
  <2> QED BY <2>2, <2>3 DEF Hides
<1> QED BY <1>1, <1>2

LEMMA InferHides ==
  ASSUME NEW ir, DOMAIN ir = Slots, FieldsOK(ir.fields), "inference_error" \notin ir.errs, NEW x,
         NEW new \in {Infer(ir, x)} \cup InferRaised(ir, x)
  PROVE  Hides(new.errs, ir.fields, new.fields)
<1> DEFINE f == ir.fields
           found == Found(ir, x)
           g == InferKV(InferTokens(f, x), x)
<1>1. DOMAIN found = Slots /\ found.errs = ir.errs /\ found.fields = g
  BY FoundIs DEF Inferred
<1>2. Kept(f, f) /\ Kept(f, g)
  BY KeptSelf, KeptTokens, KeptKV
<1> HIDE DEF g
<1>3. Kept(f, Roles(g)) /\ Kept(f, EndpointRoles(g))
  BY <1>2, KeptRoles
<1>4. CASE new = Infer(ir, x)
  <2>1. new.errs = ir.errs /\ new.fields = Redact(EndpointRoles(g))
    BY <1>1, <1>4 DEF Infer, Slots
  <2> HIDE DEF f
  <2> QED BY <1>3, <2>1, KeptHides DEF f
<1>5. CASE new \in InferRaised(ir, x)
  <2>1. PICK i \in {ir, found, [found EXCEPT !.fields = Roles(@)]} :
          new = [i EXCEPT !.errs = @ \cup {"inference_error"}]
    BY <1>5 DEF InferRaised
  <2> HIDE DEF found
  <2>2. DOMAIN i = Slots /\ i.fields \in {f, g, Roles(g)}
    BY <1>1, <2>1 DEF Slots
  <2>3. new.fields = i.fields /\ "inference_error" \in new.errs
    BY <2>1, <2>2 DEF Slots
  <2>4. Kept(f, new.fields)
    BY <1>2, <1>3, <2>2, <2>3
  <2> QED BY <2>3, <2>4, KeptHides
<1> QED BY <1>4, <1>5
-----------------------------------------------------------------------------
(***************************************************************************)
(* Events are complete: the normalizer                                     *)
(***************************************************************************)
Ends == {"src_endpoint", "dst_endpoint"}

\* The event ev of what a parser has read, f, with the notes errs.
Complete(errs, f, ev) ==
  LET sec == {k \in {<<"", n>> : n \in Private} \cap DOMAIN f : f[k] \notin Empty \cup {Redacted}}
      ocsf == {k \in DOMAIN f : k[1] = "ocsf"}
      kept == {k \in ocsf : Head(k[2]) \notin Replaced /\ k[2] # <<"metadata">>}
      ends == {Head(k[2]) : k \in ocsf} \cap {"src_endpoint", "dst_endpoint"}
  IN /\ \A k \in DOMAIN f : k[1] = "" /\ f[k] # None =>
          Get(ev, <<"unmapped", k[2]>>) = Scalar(Shown(errs, k[2], f[k]))
     /\ \A k \in kept : Get(ev, k[2]) = Shown(errs, Last(k[2]), f[k])
     /\ "inference_error" \notin errs =>
          \A p \in DOMAIN ev \ {<<"severity_id">>}, k \in sec : ev[p] = f[k] => Last(p) \notin Private
     /\ \A p \in DOMAIN ev : Head(p) \in ends => <<"ocsf", p>> \in DOMAIN f

\* The paths of what the normalizer gives an event itself, and the event so far, made
\* of what is mapped, o, of that, and of unmapped fields, u.  An endpoint is given
\* an address and a port, or nothing when it has a field.
OwnPaths == {<<"severity_id">>, <<"time">>, <<"observables">>, <<"raw_data">>}
Extends(o, u, body) ==
  /\ \A p \in DOMAIN o : Head(p) \notin Replaced /\ p # <<"metadata">> => p \in DOMAIN body /\ body[p] = o[p]
  /\ \A p \in DOMAIN body :
       \/ p \in DOMAIN o /\ body[p] = o[p]
       \/ p \in DOMAIN u /\ body[p] = u[p]
       \/ p \in OwnPaths
       \/ \E name \in Ends : /\ p \in {<<name, "ip">>, <<name, "port">>}
                             /\ \A q \in DOMAIN o : Head(q) # name

LEMMA EndsKept ==
  ASSUME NEW p, Head(p) \in Ends
  PROVE  Head(p) \notin Replaced /\ p # <<"metadata">>
<1>1. Head(<<"metadata">>) = "metadata"
  OBVIOUS
<1> QED BY <1>1 DEF Ends, Replaced

LEMMA EndpointExtends ==
  ASSUME NEW o, NEW u, NEW body, Extends(o, u, body), NEW f, NEW name \in Ends, NEW ip, NEW port
  PROVE  Extends(o, u, Endpoint(body, f, name, ip, port))
<1> DEFINE a == Put(body, <<name, "ip">>, f[Internal(ip)])
           b == Put(a, <<name, "port">>, f[Internal(port)])
           e == Endpoint(body, f, name, ip, port)
<1>1. e = body \/ (e \in {a, b} /\ \A p \in DOMAIN body : Head(p) # name)
  BY DEF Endpoint
<1> SUFFICES ASSUME e \in {a, b}, \A p \in DOMAIN body : Head(p) # name PROVE Extends(o, u, e)
  BY <1>1
<1>2. Head(<<name, "ip">>) = name /\ Head(<<name, "port">>) = name
  OBVIOUS
<1>3. <<name, "ip">> \notin DOMAIN body /\ <<name, "port">> \notin DOMAIN body
  BY <1>2
<1>4. /\ DOMAIN a = DOMAIN body \cup {<<name, "ip">>} /\ DOMAIN b = DOMAIN body \cup {<<name, "ip">>, <<name, "port">>}
      /\ \A p \in DOMAIN body : a[p] = body[p] /\ b[p] = body[p]
  BY <1>3 DEF Put
<1> HIDE DEF a, b, e
<1>5. /\ \A p \in DOMAIN body : p \in DOMAIN e /\ e[p] = body[p]
      /\ \A p \in DOMAIN e : p \in DOMAIN body \/ p \in {<<name, "ip">>, <<name, "port">>}
  BY <1>4
<1>6. \A q \in DOMAIN o : Head(q) # name
  BY EndsKept DEF Extends
<1>7. \A p \in DOMAIN o : Head(p) \notin Replaced /\ p # <<"metadata">> => p \in DOMAIN e /\ e[p] = o[p]
  BY <1>5 DEF Extends
<1>8. ASSUME NEW p \in DOMAIN e
      PROVE  \/ p \in DOMAIN o /\ e[p] = o[p]
             \/ p \in DOMAIN u /\ e[p] = u[p]
             \/ p \in OwnPaths
             \/ \E n \in Ends : /\ p \in {<<n, "ip">>, <<n, "port">>}
                                /\ \A q \in DOMAIN o : Head(q) # n
  BY <1>5, <1>6 DEF Extends
<1> QED BY <1>7, <1>8 DEF Extends

LEMMA GiveExtends ==
  ASSUME NEW o, NEW u, NEW body, Extends(o, u, body),
         NEW name \in {"time", "observables", "raw_data"}, NEW v
  PROVE  Extends(o, u, Give(body, name, v))
<1> DEFINE w == Without(body, name)
           e == Give(body, name, v)
<1>1. /\ \A p \in DOMAIN w : p \in DOMAIN body /\ w[p] = body[p]
      /\ \A p \in DOMAIN body : Head(p) # name => p \in DOMAIN w
  BY DEF Without
<1>2. DOMAIN e = DOMAIN w \cup {<<name>>} /\ \A p \in DOMAIN w : p # <<name>> => e[p] = w[p]
  BY DEF Give, Put
<1> HIDE DEF w, e
<1>3. <<name>> \in OwnPaths /\ name \in Replaced /\ Head(<<name>>) = name
  BY DEF OwnPaths, Replaced
<1>4. ASSUME NEW p \in DOMAIN o, Head(p) \notin Replaced, p # <<"metadata">>
      PROVE  p \in DOMAIN e /\ e[p] = o[p]
  <2>1. p \in DOMAIN body /\ body[p] = o[p]
    BY <1>4 DEF Extends
  <2> QED BY <1>1, <1>2, <1>3, <1>4, <2>1
<1>5. ASSUME NEW p \in DOMAIN e, p \notin OwnPaths PROVE p \in DOMAIN body /\ e[p] = body[p]
  BY <1>1, <1>2, <1>3, <1>5
<1>6. ASSUME NEW p \in DOMAIN e
      PROVE  \/ p \in DOMAIN o /\ e[p] = o[p]
             \/ p \in DOMAIN u /\ e[p] = u[p]
             \/ p \in OwnPaths
             \/ \E n \in Ends : /\ p \in {<<n, "ip">>, <<n, "port">>}
                                /\ \A q \in DOMAIN o : Head(q) # n
  <2>1. CASE p \in OwnPaths
    BY <2>1
  <2>2. CASE p \notin OwnPaths
    BY <1>5, <2>2 DEF Extends
  <2> QED BY <2>1, <2>2
<1> QED BY <1>4, <1>6 DEF Extends, e

LEMMA BodyExtends ==
  ASSUME NEW ir, NEW u
  PROVE  Extends(OcsfField(ir.fields), u, Body(ir))
<1> DEFINE o == OcsfField(ir.fields)
           sev == IF ir.sev = None THEN 0 ELSE ir.sev
           mapped == SetDefault(o, <<"severity_id">>, sev)
           when == IF ir.ts THEN "parsed" ELSE "received"
           timed == Give(mapped, "time", when)
           meta == [p \in DOMAIN timed \ {<<"metadata">>} |-> timed[p]]
           src == Endpoint(meta, ir.fields, "src_endpoint", "src_ip", "src_port")
           dst == Endpoint(src, ir.fields, "dst_endpoint", "dst_ip", "dst_port")
<1>1. Body(ir) = dst \/ Body(ir) = Give(dst, "observables", "inferred")
  BY DEF Body
<1> HIDE DEF o, sev, when
<1>2. Extends(o, u, mapped)
  BY DEF SetDefault, Put, Extends, OwnPaths
<1> HIDE DEF mapped
<1>3. Extends(o, u, timed)
  BY <1>2, GiveExtends
<1> HIDE DEF timed
<1>4. DOMAIN meta = DOMAIN timed \ {<<"metadata">>} /\ \A p \in DOMAIN meta : meta[p] = timed[p]
  OBVIOUS
<1> HIDE DEF meta
<1>5. Extends(o, u, meta)
  BY <1>3, <1>4 DEF Extends
<1>6. Extends(o, u, src)
  BY <1>5, EndpointExtends DEF Ends
<1> HIDE DEF src
<1>7. Extends(o, u, dst)
  BY <1>6, EndpointExtends DEF Ends
<1> HIDE DEF dst
<1>8. Extends(o, u, Give(dst, "observables", "inferred"))
  BY <1>7, GiveExtends
<1> QED BY <1>1, <1>7, <1>8 DEF o

\* An event is what is mapped, what it is given, and all the unmapped fields.
LEMMA NormalizeExtends ==
  ASSUME NEW ir, NEW u, u = Unmapped(ir.fields), \A p \in DOMAIN u : Head(p) = "unmapped"
  PROVE  /\ Extends(OcsfField(ir.fields), u, Normalize(ir))
         /\ \A p \in DOMAIN u : p \in DOMAIN Normalize(ir) /\ Normalize(ir)[p] = u[p]
<1> DEFINE o == OcsfField(ir.fields)
           w == Without(Body(ir), "unmapped")
           body == IF DOMAIN u = {} THEN Body(ir) ELSE With(w, u)
           ev == Give(body, "raw_data", None)
<1>1. Normalize(ir) = ev
  BY DEF Normalize
<1>2. Extends(o, u, Body(ir))
  BY BodyExtends
<1>3. /\ \A p \in DOMAIN w : p \in DOMAIN Body(ir) /\ w[p] = Body(ir)[p]
      /\ \A p \in DOMAIN Body(ir) : Head(p) # "unmapped" => p \in DOMAIN w
  BY DEF Without
<1>4. /\ DOMAIN With(w, u) = DOMAIN w \cup DOMAIN u
      /\ \A p \in DOMAIN With(w, u) : With(w, u)[p] = IF p \in DOMAIN u THEN u[p] ELSE w[p]
  BY DEF With
<1> HIDE DEF o, w
<1>5. Extends(o, u, With(w, u))
  <2>1. ASSUME NEW p \in DOMAIN o, Head(p) \notin Replaced, p # <<"metadata">>
        PROVE  p \in DOMAIN With(w, u) /\ With(w, u)[p] = o[p]
    <3>1. p \in DOMAIN Body(ir) /\ Body(ir)[p] = o[p]
      BY <1>2, <2>1 DEF Extends
    <3>2. Head(p) # "unmapped"
      BY <2>1 DEF Replaced
    <3> QED BY <1>3, <1>4, <3>1, <3>2
  <2>2. \A p \in DOMAIN With(w, u) :
          \/ p \in DOMAIN u /\ With(w, u)[p] = u[p]
          \/ p \in DOMAIN Body(ir) /\ With(w, u)[p] = Body(ir)[p]
    BY <1>3, <1>4
  <2> QED BY <1>2, <2>1, <2>2 DEF Extends
<1>6. Extends(o, u, body)
  BY <1>2, <1>5
<1>7. \A p \in DOMAIN u : p \in DOMAIN body /\ body[p] = u[p]
  BY <1>4
<1> HIDE DEF body
<1>8. Extends(o, u, ev)
  BY <1>6, GiveExtends
<1>9. ASSUME NEW p \in DOMAIN u PROVE p \in DOMAIN ev /\ ev[p] = u[p]
  <2>1. Head(p) = "unmapped" /\ p \in DOMAIN body /\ body[p] = u[p]
    BY <1>7
  <2>2. p # <<"raw_data">>
    <3>1. Head(<<"raw_data">>) = "raw_data"
      OBVIOUS
    <3> QED BY <2>1, <3>1
  <2> QED BY <2>1, <2>2 DEF Give, Without, Put
<1> QED BY <1>1, <1>8, <1>9 DEF o

LEMMA UnmappedIs ==
  ASSUME NEW h, \A k \in DOMAIN h : k = <<k[1], k[2]>>
  PROVE  LET u == Unmapped(h)
         IN /\ \A p \in DOMAIN u : /\ p = <<"unmapped", p[2]>> /\ Head(p) = "unmapped" /\ Last(p) = p[2]
                                   /\ <<"", p[2]>> \in DOMAIN h /\ u[p] = Scalar(h[<<"", p[2]>>])
            /\ \A n : <<"", n>> \in DOMAIN h /\ h[<<"", n>>] # None =>
                      <<"unmapped", n>> \in DOMAIN u /\ u[<<"unmapped", n>>] = Scalar(h[<<"", n>>])
<1> DEFINE K == {j \in DOMAIN h : j[1] = "" /\ h[j] # None}
           P == {<<"unmapped", k[2]>> : k \in K}
           u == Unmapped(h)
<1>1. u = [p \in P |-> Scalar(h[<<"", p[2]>>])]
  BY DEF Unmapped
<1>2. ASSUME NEW p \in P
      PROVE  p = <<"unmapped", p[2]>> /\ Head(p) = "unmapped" /\ Last(p) = p[2] /\ <<"", p[2]>> \in DOMAIN h
  <2>1. PICK k \in K : p = <<"unmapped", k[2]>>
    OBVIOUS
  <2>2. k = <<"", k[2]>> /\ k \in DOMAIN h
    OBVIOUS
  <2>3. p[2] = k[2]
    BY <2>1
  <2>4. Head(p) = "unmapped" /\ Last(p) = p[2]
    <3> HIDE DEF K, P, u
    <3>1. Len(p) = 2
      BY <2>1
    <3> QED BY <2>1, <3>1 DEF Last
  <2> QED BY <2>1, <2>2, <2>3, <2>4
<1>3. ASSUME NEW n, <<"", n>> \in DOMAIN h, h[<<"", n>>] # None PROVE <<"unmapped", n>> \in P
  <2>1. <<"", n>> \in K /\ <<"", n>>[2] = n
    BY <1>3
  <2> QED BY <2>1
<1> HIDE DEF P, u
<1>4. \A n : <<"unmapped", n>>[2] = n
  OBVIOUS
<1>5. \A p \in DOMAIN u : /\ p = <<"unmapped", p[2]>> /\ Head(p) = "unmapped" /\ Last(p) = p[2]
                          /\ <<"", p[2]>> \in DOMAIN h /\ u[p] = Scalar(h[<<"", p[2]>>])
  BY <1>1, <1>2
<1>6. \A n : <<"", n>> \in DOMAIN h /\ h[<<"", n>>] # None =>
             <<"unmapped", n>> \in DOMAIN u /\ u[<<"unmapped", n>>] = Scalar(h[<<"", n>>])
  BY <1>1, <1>3, <1>4
<1> QED BY <1>5, <1>6 DEF u

LEMMA NormalizeCompletes ==
  ASSUME NEW f, FieldsOK(f), NEW ir, NEW errs, Hides(errs, f, ir.fields)
  PROVE  Complete(errs, f, Normalize(ir))
<1> DEFINE h == ir.fields
           ev == Normalize(ir)
           o == OcsfField(h)
           u == Unmapped(h)
<1>2. Redacted # None /\ {"ip", "port", "time", "observables", "raw_data"} \cap Private = {}
  BY PrivateAssumption
<1>3. \A n, v : v # None => Shown(errs, n, v) # None
  BY <1>2 DEF Shown
<1>4. ASSUME "inference_error" \notin errs, NEW n \in Private, NEW v
      PROVE  Shown(errs, n, v) \in Empty \cup {Redacted}
  BY <1>4 DEF Shown
<1>5. /\ \A k \in DOMAIN h : k = <<k[1], k[2]>> /\ (k[1] \in {"", "ocsf"} => k \in DOMAIN f)
      /\ \A k \in DOMAIN f : k \in DOMAIN h
      /\ \A k \in DOMAIN f : k[1] = "" => h[k] = Shown(errs, k[2], f[k])
      /\ \A k \in DOMAIN f : k[1] = "ocsf" => h[k] = Shown(errs, Last(k[2]), f[k])
  BY DEF Hides, Pair, Plain, NameOf
<1>6. \A k \in DOMAIN f : k = <<k[1], k[2]>>
  BY DEF FieldsOK, Keyed
<1>7. /\ \A p \in DOMAIN u : /\ p = <<"unmapped", p[2]>> /\ Head(p) = "unmapped" /\ Last(p) = p[2]
                            /\ <<"", p[2]>> \in DOMAIN h /\ u[p] = Scalar(h[<<"", p[2]>>])
      /\ \A n : <<"", n>> \in DOMAIN h /\ h[<<"", n>>] # None =>
                <<"unmapped", n>> \in DOMAIN u /\ u[<<"unmapped", n>>] = Scalar(h[<<"", n>>])
  <2>1. \A k \in DOMAIN h : k = <<k[1], k[2]>>
    BY <1>5
  <2> HIDE DEF h
  <2> QED BY <2>1, UnmappedIs
<1>1. Extends(o, u, ev) /\ \A p \in DOMAIN u : p \in DOMAIN ev /\ ev[p] = u[p]
  BY <1>7, NormalizeExtends
<1> HIDE DEF h, ev
<1>8. /\ \A p \in DOMAIN o : <<"ocsf", p>> \in DOMAIN h /\ o[p] = h[<<"ocsf", p>>]
      /\ \A p : <<"ocsf", p>> \in DOMAIN h => p \in DOMAIN o
  BY <1>5 DEF OcsfField
<1> HIDE DEF o, u
<1> DEFINE sec == {k \in {<<"", n>> : n \in Private} \cap DOMAIN f : f[k] \notin Empty \cup {Redacted}}
           ocsf == {k \in DOMAIN f : k[1] = "ocsf"}
           kept == {k \in ocsf : Head(k[2]) \notin Replaced /\ k[2] # <<"metadata">>}
           ends == {Head(k[2]) : k \in ocsf} \cap {"src_endpoint", "dst_endpoint"}
<1>10. ASSUME NEW k \in DOMAIN f, k[1] = "", f[k] # None
       PROVE  Get(ev, <<"unmapped", k[2]>>) = Scalar(Shown(errs, k[2], f[k]))
  <2>1. PICK n : k = <<"", n>>
    BY <1>6, <1>10
  <2>4. k[2] = n /\ k \in DOMAIN h /\ h[k] = Shown(errs, k[2], f[k])
    BY <1>5, <1>10, <2>1
  <2>2. h[k] = Shown(errs, n, f[k]) /\ h[k] # None
    BY <1>3, <1>10, <2>4
  <2>3. <<"unmapped", n>> \in DOMAIN u /\ u[<<"unmapped", n>>] = Scalar(h[k])
    BY <1>7, <2>1, <2>2, <2>4
  <2>5. <<"unmapped", n>> \in DOMAIN ev /\ ev[<<"unmapped", n>>] = Scalar(h[k])
    BY <1>1, <2>3
  <2> QED BY <2>2, <2>4, <2>5 DEF Get
<1>11. ASSUME NEW k \in kept PROVE Get(ev, k[2]) = Shown(errs, Last(k[2]), f[k])
  <2>1. PICK p : k = <<"ocsf", p>> /\ Head(p) \notin Replaced /\ p # <<"metadata">>
    BY <1>6
  <2>2. k \in DOMAIN h /\ h[k] = Shown(errs, Last(p), f[k])
    BY <1>5, <2>1
  <2>3. p \in DOMAIN o /\ o[p] = h[k]
    BY <1>8, <2>1, <2>2
  <2>4. p \in DOMAIN ev /\ ev[p] = o[p]
    BY <1>1, <2>1, <2>3 DEF Extends
  <2> QED BY <2>1, <2>2, <2>3, <2>4 DEF Get
<1>12. ASSUME "inference_error" \notin errs, NEW p \in DOMAIN ev \ {<<"severity_id">>}, NEW k \in sec,
              ev[p] = f[k], Last(p) \in Private
       PROVE  FALSE
  <2>1. f[k] \notin Empty \cup {Redacted}
    OBVIOUS
  <2>2. \A v \in Empty \cup {Redacted} : Scalar(v) = v
    BY StrAssumption DEF Scalar, Empty
  <2>3. ev[p] \notin Empty \cup {Redacted}
    BY <1>12, <2>1
  <2>4. CASE p \in DOMAIN u /\ ev[p] = u[p]
    <3>1. PICK n : n = Last(p) /\ <<"", n>> \in DOMAIN h /\ u[p] = Scalar(h[<<"", n>>])
      BY <1>7, <2>4
    <3>2. n \in Private
      BY <1>12, <3>1
    <3>3. h[<<"", n>>] = Shown(errs, n, f[<<"", n>>])
      BY <1>5, <3>1
    <3>4. Shown(errs, n, f[<<"", n>>]) \in Empty \cup {Redacted}
      BY <1>4, <1>12, <3>2
    <3>5. ev[p] = Scalar(Shown(errs, n, f[<<"", n>>]))
      BY <2>4, <3>1, <3>3
    <3>6. ev[p] = Shown(errs, n, f[<<"", n>>])
      BY <2>2, <3>4, <3>5, ZenonT(40)
    <3> QED BY <2>3, <3>4, <3>6, ZenonT(40)
  <2>5. CASE p \in DOMAIN o /\ ev[p] = o[p]
    <3>1. <<"ocsf", p>> \in DOMAIN h /\ ev[p] = h[<<"ocsf", p>>]
      BY <1>8, <2>5
    <3>2. h[<<"ocsf", p>>] = Shown(errs, Last(p), f[<<"ocsf", p>>])
      BY <1>5, <3>1
    <3>3. Shown(errs, Last(p), f[<<"ocsf", p>>]) \in Empty \cup {Redacted}
      BY <1>4, <1>12
    <3>4. ev[p] = Shown(errs, Last(p), f[<<"ocsf", p>>])
      BY <3>1, <3>2
    <3> QED BY <2>3, <3>3, <3>4, ZenonT(40)
  <2>6. /\ \A n : Last(<<n>>) = n
        /\ \A n : Last(<<n, "ip">>) = "ip" /\ Last(<<n, "port">>) = "port"
    BY DEF Last
  <2>7. CASE p \in OwnPaths
    <3>1. p \in {<<"time">>, <<"observables">>, <<"raw_data">>}
      BY <1>12, <2>7 DEF OwnPaths
    <3>2. Last(p) \in {"time", "observables", "raw_data"}
      BY <2>6, <3>1
    <3> QED BY <1>2, <1>12, <3>2
  <2>8. CASE \E n \in Ends : p \in {<<n, "ip">>, <<n, "port">>}
    BY <1>2, <1>12, <2>6, <2>8
  <2> QED BY <1>1, <2>4, <2>5, <2>7, <2>8 DEF Extends
<1>13. ASSUME NEW p \in DOMAIN ev, Head(p) \in ends PROVE <<"ocsf", p>> \in DOMAIN f
  <2>1. PICK k \in ocsf : Head(k[2]) = Head(p) /\ Head(p) \in Ends
    BY <1>13 DEF Ends
  <2>2. PICK q : k = <<"ocsf", q>>
    BY <1>6
  <2>3. q \in DOMAIN o /\ Head(q) = Head(p)
    BY <1>5, <1>8, <2>1, <2>2
  <2>4. p \notin DOMAIN u
    BY <1>7, <2>1 DEF Ends
  <2>5. /\ \A n : Head(<<n>>) = n
        /\ \A n : Head(<<n, "ip">>) = n /\ Head(<<n, "port">>) = n
    OBVIOUS
  <2>6. p \notin OwnPaths
    BY <2>1, <2>5 DEF Ends, OwnPaths
  <2>7. ~\E n \in Ends : p \in {<<n, "ip">>, <<n, "port">>} /\ \A r \in DOMAIN o : Head(r) # n
    BY <2>3, <2>5
  <2>8. p \in DOMAIN o
    BY <1>1, <2>4, <2>6, <2>7 DEF Extends
  <2> QED BY <1>5, <1>8, <2>8
<1> QED BY <1>10, <1>11, <1>12, <1>13 DEF Complete, ev
-----------------------------------------------------------------------------
(***************************************************************************)
(* Events are complete: the ladder                                         *)
(*                                                                         *)
(* A call carries what the parser it names has read up to tier 3, and its  *)
(* fields with the secrets hidden, or with a note, from then on.           *)
(***************************************************************************)
Read(j) == AnswerOf(j.line, j.ir.id).ir
ByParser(j) == j.ir.id \in Parser /\ "exception" \notin j.ir.errs
Holds(j, p) ==
  ByParser(j) =>
    /\ p \in {"store", "index", "infer"} => j.ir = Read(j)
    /\ p \in {"match", "matching", "ask", "call", "done"} => Hides(j.ir.errs, Read(j).fields, j.ir.fields)

EInv == TInv /\ \A t \in Threads : Holds(job[t], pc[t])

LEMMA HoldsMoves ==
  ASSUME EInv, TInv', NEW t \in Threads, NEW p, NEW j, Moves(t, p, j), Holds(j, p)
  PROVE  EInv'
<1>1. \A u \in Threads : (u = t /\ job'[u] = j /\ pc'[u] = p) \/ (job'[u] = job[u] /\ pc'[u] = pc[u])
  BY DEF EInv, TInv, Moves
<1>2. \A u \in Threads : Holds(job[u], pc[u])
  BY DEF EInv
<1>3. \A u \in Threads : Holds(job'[u], pc'[u])
  BY <1>1, <1>2
<1> QED BY <1>3 DEF EInv

LEMMA GotoE ==
  ASSUME EInv, TInv', NEW t \in Threads, NEW p, Goto(t, p), UNCHANGED job, Holds(job[t], p)
  PROVE  EInv'
<1>1. \A u \in Threads : (u = t /\ pc'[u] = p) \/ pc'[u] = pc[u]
  BY DEF EInv, TInv, Goto
<1>2. \A u \in Threads : Holds(job[u], pc'[u])
  BY <1>1 DEF EInv
<1> QED BY <1>2 DEF EInv

LEMMA SetE ==
  ASSUME EInv, TInv', NEW t \in Threads, NEW p, NEW ir, SetIR(t, ir), Goto(t, p),
         Holds([job[t] EXCEPT !.ir = ir], p)
  PROVE  EInv'
BY HoldsMoves, SetMoves DEF EInv

LEMMA BrokenE == ASSUME EInv, TInv', NEW t \in Threads, Broken(t) PROVE EInv'
<1> DEFINE ir == [NewIR("engine.error", 7, 0) EXCEPT !.errs = {"exception"}]
           j == [job[t] EXCEPT !.ir = ir, !.broke = TRUE]
<1>1. "exception" \in ir.errs
  BY DEF NewIR
<1>2. Moves(t, "done", j)
  BY BrokenMoves DEF EInv
<1> HIDE DEF ir
<1>3. j.ir = ir
  BY DEF EInv, TInv, GoodJob
<1> HIDE DEF j
<1>4. Holds(j, "done")
  BY <1>1, <1>3 DEF Holds, ByParser
<1> QED BY <1>2, <1>4, HoldsMoves

\* A step after tier 3 that leaves the fields of a call alone, and takes no note away.
LEMMA HidesAlike ==
  ASSUME NEW errs, NEW more, ("inference_error" \in errs) <=> ("inference_error" \in more),
         NEW f, NEW h, Hides(errs, f, h)
  PROVE  Hides(more, f, h)
<1>1. \A n, v : Shown(errs, n, v) = Shown(more, n, v)
  BY DEF Shown
<1> QED BY <1>1 DEF Hides

LEMMA SameFields ==
  ASSUME NEW j, NEW p \in {"match", "matching", "ask", "call", "done"}, Holds(j, p),
         NEW k, NEW q \in {"match", "matching", "ask", "call", "done"}, k.line = j.line,
         k.ir.id = j.ir.id \/ k.ir.id \notin Parser, j.ir.errs \subseteq k.ir.errs,
         ("inference_error" \in j.ir.errs) <=> ("inference_error" \in k.ir.errs), k.ir.fields = j.ir.fields
  PROVE  Holds(k, q)
<1> SUFFICES ASSUME ByParser(k) PROVE Hides(k.ir.errs, Read(k).fields, k.ir.fields)
  BY DEF Holds
<1>1. k.ir.id = j.ir.id /\ ByParser(j)
  BY DEF ByParser
<1>2. Read(k) = Read(j)
  BY <1>1 DEF Read
<1>3. Hides(j.ir.errs, Read(j).fields, j.ir.fields)
  BY <1>1 DEF Holds
<1>4. Hides(k.ir.errs, Read(j).fields, j.ir.fields)
  BY <1>3, HidesAlike
<1> QED BY <1>2, <1>4

LEMMA BegunHolds ==
  ASSUME OwnIds, NEW n \in Names, NEW ir, ir = NoMatch \/ Reading(n, ir) \/ Raised(ir)
  PROVE  Holds(Begun(n, ir), First(ir))
<1> DEFINE j == Begun(n, ir)
           p == First(ir)
<1>1. j.ir = ir /\ j.line = n
  BY DEF Begun, NoJob
<1> HIDE DEF j, p
<1>2. CASE Reading(n, ir)
  <2>1. PICK i \in 1..Parsers9 : ir = Answers[n][i].ir
    BY <1>2 DEF Reading
  <2>2. AnswerOf(n, IdAt(i)) = Answers[n][i]
    BY OwnAnswer
  <2>3. ir.id = IdAt(i)
    BY <2>1, AnswersAre DEF Answering, Reads
  <2>4. j.ir = Read(j)
    BY <1>1, <2>1, <2>2, <2>3 DEF Read
  <2>5. p \in {"store", "infer"}
    BY DEF p, First
  <2>6. Holds(j, p)
    BY <2>4, <2>5 DEF Holds
  <2> QED BY <2>6 DEF j, p
<1>3. CASE ir = NoMatch
  <2>1. ir.id \in Engine
    BY <1>3 DEF NoMatch, NewIR, Engine
  <2>2. ~ByParser(j)
    BY <1>1, <2>1, ParserIds DEF ByParser
  <2> QED BY <2>2 DEF Holds, j, p
<1>4. CASE Raised(ir)
  <2>1. "exception" \in ir.errs
    BY <1>4 DEF Raised, NewIR
  <2>2. ~ByParser(j)
    BY <1>1, <2>1 DEF ByParser
  <2> QED BY <2>2 DEF Holds, j, p
<1> QED BY <1>2, <1>3, <1>4

LEMMA RouteE == ASSUME OwnIds, EInv, TInv', NEW t \in Threads, NEW n \in Names, Route(t, n) PROVE EInv'
<1>1. CacheTypes /\ faults \in Nat
  BY DEF EInv, TInv, Counters
<1>2. PICK ir : /\ job' = [job EXCEPT ![t] = Begun(n, ir)] /\ Goto(t, First(ir))
                /\ ir = NoMatch \/ Reading(n, ir) \/ Raised(ir)
  BY <1>1, RouteIs
<1>3. Holds(Begun(n, ir), First(ir))
  BY <1>2, BegunHolds
<1>4. Moves(t, First(ir), Begun(n, ir))
  BY <1>2 DEF Moves, Goto
<1> QED BY <1>3, <1>4, HoldsMoves

LEMMA StoreE == ASSUME EInv, TInv', NEW t \in Threads, Store(t) PROVE EInv'
<1>1. pc[t] = "store" /\ Holds(job[t], "store")
  BY DEF EInv, Store
<1>2. Holds(job[t], "index")
  BY <1>1 DEF Holds
<1> QED BY <1>2, GotoE, BrokenE DEF Store

LEMMA AddReferenceE == ASSUME EInv, TInv', NEW t \in Threads, AddReference(t) PROVE EInv'
<1>1. pc[t] = "index" /\ Holds(job[t], "index")
  BY DEF EInv, AddReference
<1>2. Holds(job[t], "infer")
  BY <1>1 DEF Holds
<1> QED BY <1>2, GotoE DEF AddReference

\* A parser has no field that is not named, and no note of tier 3.
LEMMA ReadOK ==
  ASSUME NEW j, j.line \in Names, j.ir.id \in Parser
  PROVE  DOMAIN Read(j) = Slots /\ FieldsOK(Read(j).fields) /\ "inference_error" \notin Read(j).errs
<1>1. PICK i \in 1..Parsers9 : AnswerOf(j.line, j.ir.id) = Answers[j.line][i]
  BY AnswerIs
<1>2. Reads(Answers[j.line][i].ir, IdAt(i), TierAt(i))
  BY AnswersAre DEF Answering
<1> QED BY <1>1, <1>2 DEF Read, Reads

LEMMA MinedFields ==
  ASSUME NEW ir, DOMAIN ir = Slots, NEW errs
  PROVE  Mined(ir, errs).fields = ir.fields
BY DEF Mined, Slots

LEMMA InferAndMineE == ASSUME OwnIds, EInv, TInv', NEW t \in Threads, InferAndMine(t) PROVE EInv'
<1> DEFINE j == job[t]
<1>1. pc[t] = "infer" /\ GoodJob(j, "infer") /\ Holds(j, "infer")
  BY DEF EInv, TInv, InferAndMine
<1>3. DOMAIN j.ir = Slots /\ GoodIR(j.ir) /\ j.line \in Names /\ "ir" \in DOMAIN j
  BY <1>1 DEF GoodJob, GoodIR
<1>2. PICK ir \in {Infer(j.ir, Line[j.line])} \cup InferRaised(j.ir, Line[j.line]) :
        /\ Inferred(j.ir, ir)
        /\ \/ SetIR(t, ir) /\ Goto(t, "done")
           \/ \E errs \in {{}, {"template_mining_error"}} : SetIR(t, Mined(ir, errs)) /\ Goto(t, "match")
  BY <1>3, InferAndMineIs
<1>4. GoodIR(ir) /\ ir.id = j.ir.id /\ j.ir.errs \subseteq ir.errs
  BY <1>2, <1>3, InferGoodIR DEF Inferred
<1> DEFINE i == [j EXCEPT !.ir = ir]
<1>5. i.ir = ir /\ i.line = j.line
  BY <1>1 DEF GoodJob
<1> HIDE DEF j, i
<1>6. Holds(i, "match") /\ Holds(i, "done")
  <2> SUFFICES ASSUME ByParser(i) PROVE Hides(ir.errs, Read(i).fields, ir.fields)
    BY <1>5 DEF Holds
  <2>1. ByParser(j) /\ Read(i) = Read(j)
    BY <1>4, <1>5 DEF ByParser, Read
  <2>2. j.ir = Read(j)
    BY <1>1, <2>1 DEF Holds
  <2>3. FieldsOK(j.ir.fields) /\ "inference_error" \notin j.ir.errs
    BY <1>3, <2>1, <2>2, ReadOK DEF ByParser
  <2>4. Hides(ir.errs, j.ir.fields, ir.fields)
    BY <1>2, <1>3, <2>3, InferHides
  <2> QED BY <2>1, <2>2, <2>4
<1>8. CASE SetIR(t, ir) /\ Goto(t, "done")
  BY <1>6, <1>8, SetE DEF i, j
<1>9. ASSUME NEW errs \in {{}, {"template_mining_error"}}, SetIR(t, Mined(ir, errs)) /\ Goto(t, "match")
      PROVE  EInv'
  <2> DEFINE m == Mined(ir, errs)
             k == [j EXCEPT !.ir = m]
  <2>1. k.ir = m /\ k.line = j.line
    BY <1>1 DEF GoodJob
  <2>2. m.errs = ir.errs \cup errs /\ (m.id = ir.id \/ m.id = "engine.drain3")
    BY <1>4, MinedIs
  <2>3. m.fields = ir.fields
    BY <1>4, MinedFields DEF GoodIR
  <2>4. "engine.drain3" \notin Parser
    BY <1>3, ParserIds DEF Engine
  <2>6. ("inference_error" \in ir.errs) <=> ("inference_error" \in m.errs)
    <3> HIDE DEF m
    <3> QED BY <2>2
  <2> HIDE DEF m, k
  <2>5. Holds(k, "match")
    BY <1>5, <1>6, <2>1, <2>2, <2>3, <2>4, <2>6, SameFields
  <2> QED BY <1>9, <2>5, SetE DEF k, j, m
<1> QED BY <1>2, <1>8, <1>9

LEMMA StartMatchE == ASSUME EInv, TInv', NEW t \in Threads, StartMatch(t) PROVE EInv'
<1> DEFINE j == [job[t] EXCEPT !.ids = Ids]
<1>1. Moves(t, "matching", j) /\ pc[t] = "match"
  BY DEF EInv, TInv, Moves, Goto, StartMatch
<1>2. Holds(job[t], "match") /\ GoodJob(job[t], "match")
  BY <1>1 DEF EInv, TInv
<1>3. j.ir = job[t].ir /\ j.line = job[t].line
  BY <1>2 DEF GoodJob
<1> HIDE DEF j
<1>4. Holds(j, "matching")
  BY <1>2, <1>3, SameFields
<1> QED BY <1>1, <1>4, HoldsMoves

LEMMA EndMatchE == ASSUME EInv, TInv', NEW t \in Threads, EndMatch(t) PROVE EInv'
<1>1. pc[t] = "matching" /\ GoodJob(job[t], "matching") /\ Holds(job[t], "matching")
  BY DEF EInv, TInv, EndMatch
<1>2. CASE \E ir \in Tier5(job[t].ir, job[t].line) : SetIR(t, ir) /\ Goto(t, "ask")
  <2>1. PICK ir \in Tier5(job[t].ir, job[t].line) : SetIR(t, ir) /\ Goto(t, "ask")
    BY <1>2
  <2>2. ir = job[t].ir \/ ir = [job[t].ir EXCEPT !.errs = @ \cup {"similarity_candidate_error"}]
    BY <2>1, Tier5Is
  <2> DEFINE k == [job[t] EXCEPT !.ir = ir]
  <2>3. k.ir = ir /\ k.line = job[t].line
    BY <1>1 DEF GoodJob
  <2>4. ir.id = job[t].ir.id /\ job[t].ir.errs \subseteq ir.errs /\ ir.fields = job[t].ir.fields
    BY <1>1, <2>2 DEF GoodJob, GoodIR, Slots
  <2>6. ("inference_error" \in job[t].ir.errs) <=> ("inference_error" \in ir.errs)
    BY <1>1, <2>2 DEF GoodJob, GoodIR, Slots
  <2> HIDE DEF k
  <2>5. Holds(k, "ask")
    BY <1>1, <2>3, <2>4, <2>6, SameFields
  <2> QED BY <2>1, <2>5, SetE DEF k
<1> QED BY <1>2, BrokenE DEF EndMatch

LEMMA ReturnE ==
  ASSUME OwnIds, EInv, TInv', NEW t \in Threads, pc[t] \in {"ask", "call"}, Return(t)
  PROVE  EInv'
<1> DEFINE j == job[t]
           q == Quarantine(j.ir)
           k == [j EXCEPT !.ir = q]
<1>1. GoodJob(j, "ask") /\ Holds(j, pc[t])
  BY DEF EInv, TInv, GoodJob
<1>2. k.ir = q /\ k.line = j.line
  BY <1>1 DEF GoodJob
<1>3. SetIR(t, q) /\ Goto(t, "done")
  BY DEF Return
<1>4. GoodIR(j.ir) /\ j.line \in Names
  BY <1>1 DEF GoodJob
<1>5. q.errs = j.ir.errs /\ (q.id = j.ir.id \/ q.id = "engine.quarantine")
  BY <1>4, QuarantineIs
<1>6. q.fields = j.ir.fields
  BY <1>4 DEF Quarantine, GoodIR, Slots
<1>7. "engine.quarantine" \notin Parser
  BY <1>4, ParserIds DEF Engine
<1> HIDE DEF j, q, k
<1>8. Holds(k, "done")
  BY <1>1, <1>2, <1>5, <1>6, <1>7, SameFields
<1> QED BY <1>3, <1>8, SetE DEF k, j

LEMMA AskE == ASSUME OwnIds, EInv, TInv', NEW t \in Threads, Ask(t) PROVE EInv'
<1>1. pc[t] = "ask" /\ Holds(job[t], "ask")
  BY DEF EInv, Ask
<1>2. Holds(job[t], "call")
  BY <1>1 DEF Holds
<1> QED BY <1>1, <1>2, GotoE, ReturnE DEF Ask

LEMMA ReplyE == ASSUME OwnIds, EInv, TInv', NEW t \in Threads, Reply(t) PROVE EInv'
BY ReturnE DEF Reply

LEMMA NextE == OwnIds /\ EInv /\ [Next]_vars => EInv'
<1> SUFFICES ASSUME OwnIds, EInv, [Next]_vars PROVE EInv'
  OBVIOUS
<1>1. TInv'
  BY NextT DEF EInv
<1>2. CASE Tick
  BY <1>1, <1>2 DEF Tick, EInv
<1>3. CASE UNCHANGED vars
  BY <1>1, <1>3 DEF vars, EInv
<1> QED BY <1>1, <1>2, <1>3, RouteE, StoreE, AddReferenceE, InferAndMineE, StartMatchE, EndMatchE, AskE, ReplyE
        DEF Next

LEMMA InitE == Init => EInv
<1> SUFFICES ASSUME Init PROVE \A t \in Threads : Holds(job[t], pc[t])
  BY InitT DEF EInv
<1>1. ASSUME NEW t \in Threads PROVE pc[t] = "idle"
  BY DEF Init
<1> QED BY <1>1 DEF Holds

LEMMA NothingRead ==
  ASSUME NEW errs, NEW ev
  PROVE  Complete(errs, NoFields, ev)
<1>1. DOMAIN NoFields = {}
  BY DEF NoFields
<1> QED BY <1>1 DEF Complete

LEMMA HeldCompletes == ASSUME EInv PROVE EventComplete
<1> SUFFICES ASSUME NEW t \in Returned
             PROVE  Complete(job[t].ir.errs, IF ByParser(job[t]) THEN Read(job[t]).fields ELSE NoFields,
                             Normalize(job[t].ir))
  BY DEF EventComplete, Complete, Result, ByParser, Read
<1> DEFINE j == job[t]
<1>1. CASE ~ByParser(j)
  BY <1>1, NothingRead
<1>2. CASE ByParser(j)
  <2>1. pc[t] = "done" /\ j.line \in Names /\ Holds(j, "done")
    BY DEF Returned, EInv, TInv, GoodJob
  <2> HIDE DEF j
  <2>2. FieldsOK(Read(j).fields)
    BY <1>2, <2>1, ReadOK DEF ByParser
  <2>3. Hides(j.ir.errs, Read(j).fields, j.ir.fields)
    BY <1>2, <2>1 DEF Holds
  <2>4. Complete(j.ir.errs, Read(j).fields, Normalize(j.ir))
    BY <2>2, <2>3, NormalizeCompletes
  <2> QED BY <1>2, <2>4 DEF j
<1> QED BY <1>1, <1>2

\* Whatever raises on the way, tier 3 included, and whichever threads run, the event
\* of a line has every value that the parser it names has read, and every one it has
\* mapped but where the normalizer puts its own; it hides the secrets among them unless
\* tier 3 raised; and it adds nothing to an endpoint of which the parser maps a part:
\* for packs with ids of their own.
THEOREM EventAlwaysComplete == ASSUME OwnIds PROVE Spec => []EventComplete
<1>1. EInv /\ [Next]_vars => EInv'
  BY NextE
<1>2. Spec => []EInv
  BY <1>1, InitE, PTL DEF Spec
<1>3. EInv => EventComplete
  BY HeldCompletes
<1> QED BY <1>2, <1>3, PTL
=============================================================================
