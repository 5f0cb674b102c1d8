------------------------------- MODULE Intake -------------------------------
(***************************************************************************)
(* How uli-collector (collector/cmd/uli-collector/main.go) gets its lines: *)
(* handleTCP frames the bytes of a connection, and tailFile follows a file *)
(* that another program writes, cuts and replaces.  Collector is about     *)
(* what becomes of the lines then.                                         *)
(***************************************************************************)
EXTENDS Naturals, Sequences, SequencesExt, FiniteSetsExt

CONSTANTS
  Messages,      \* what the senders of a connection send
  MaxMessages, MaxWritten, MaxReplaced   \* bounds: messages of a connection, lines
                 \* written to the file, and replacements of it
ASSUME MessagesAssumption == \A m \in Messages : m \in Seq(Range(m)) /\ m # <<>>

VARIABLES
  sent,     \* the messages sent on a connection, how and where in it each begins
  stream,   \* and its bytes
  file,     \* the pieces in the file that has the path, and which file that is
  inode,
  half,     \* the program has written half of its last line
  offset,   \* offset of tailFile, in pieces
  opened,   \* the file it has open (0: none), and what is in it
  held,
  pos,      \* how far the bufio.Reader has read it,
  buffer,   \* and what it has not returned yet
  added,    \* the lines given to the batcher
  written, replaced,
  clean, base   \* history: the file is the one tailFile started at 0 and has only
                \* grown; lines added before that

tail == <<file, inode, half, offset, opened, held, pos, buffer, added, written, replaced, clean, base>>

InitIntake ==
  /\ sent = <<>> /\ stream = <<>>
  /\ file = <<>> /\ inode = 1 /\ half = FALSE
  /\ offset = 0 /\ opened = 0 /\ held = <<>> /\ pos = 0 /\ buffer = <<>>
  /\ added = <<>> /\ written = 0 /\ replaced = 0
  /\ clean = TRUE /\ base = 0
-----------------------------------------------------------------------------
(***************************************************************************)
(* handleTCP, as a function of the bytes up to the end of the stream.  A   *)
(* byte is a digit, SP, NL or anything else.                               *)
(***************************************************************************)
NL == "nl"
SP == "sp"
Blank == {NL, "cr"}
Digits == <<"0", "1", "2", "3", "4", "5", "6", "7", "8", "9">>
Value(d) == (CHOOSE i \in DOMAIN Digits : Digits[i] = d) - 1
MaxFrame == 1048576   \* the longest counted message
TrimRight(q) == SubSeq(q, 1, Max({0} \cup {i \in DOMAIN q : q[i] \notin Blank}))
Places(q, i, c) == {j \in i..Len(q) : q[j] = c}

Count(q) ==   \* strconv.Atoi, 0 if it fails
  LET n[k \in 0..Len(q)] == IF k = 0 THEN 0 ELSE 10 * n[k-1] + Value(q[k])
  IN IF Range(q) \subseteq Range(Digits) THEN n[Len(q)] ELSE 0

\* The message that begins with byte i, and where the next begins; none if the
\* connection is closed.  Each message is counted or ends with a newline,
\* whichever its first byte says.
CountedShort(q, i) ==   \* mutant: the blank is taken for the first byte
  LET sp == Places(q, i, SP)
      n  == IF sp = {} THEN 0 ELSE Count(TrimRight(SubSeq(q, i, Min(sp) - 1)))
  IN IF n = 0 \/ n > MaxFrame \/ Min(sp) + n - 1 > Len(q) THEN <<>>
     ELSE <<SubSeq(q, Min(sp), Min(sp) + n - 1), Min(sp) + n>>
Counted(q, i) ==
  LET sp == Places(q, i, SP)
      n  == IF sp = {} THEN 0 ELSE Count(TrimRight(SubSeq(q, i, Min(sp) - 1)))
  IN IF n = 0 \/ n > MaxFrame \/ Min(sp) + n > Len(q) THEN <<>>
     ELSE <<SubSeq(q, Min(sp) + 1, Min(sp) + n), Min(sp) + n + 1>>
Ended(q, i) ==
  LET nl == Places(q, i, NL)
      e  == IF nl = {} THEN Len(q) ELSE Min(nl)
  IN <<TrimRight(SubSeq(q, i, e)), e + 1>>

Message(q, i) ==
  IF i > Len(q) THEN <<>> ELSE IF q[i] \in Range(Digits) THEN Counted(q, i) ELSE Ended(q, i)
Kept(text) == IF text = <<>> THEN <<>> ELSE <<text>>

handleTCP(q) ==
  LET from[i \in 1..Len(q) + 1] ==
        LET m == Message(q, i) IN IF m = <<>> THEN <<>> ELSE Kept(m[1]) \o from[m[2]]
  IN from[1]

\* RFC 6587: a message is counted, which some senders end with a newline all the
\* same, or is a line.  handleTCP takes a line that begins with a digit for a
\* count, and closes the connection at a count above MaxFrame.
Decimal(n) ==
  LET dec[k \in 0..n] == IF k < 10 THEN <<Digits[k + 1]>> ELSE dec[k \div 10] \o <<Digits[(k % 10) + 1]>>
  IN dec[n]
Framed(text, how) ==
  IF how = "newline" THEN text \o <<NL>>
  ELSE Decimal(Len(text)) \o <<SP>> \o text \o (IF how = "counted_nl" THEN <<NL>> ELSE <<>>)

Send ==
  /\ Len(sent) < MaxMessages
  /\ \E text \in Messages, how \in {"counted", "counted_nl", "newline"} :
       /\ IF how = "newline" THEN Range(text) \cap Blank = {} /\ text[1] \notin Range(Digits)
          ELSE Len(text) <= MaxFrame
       /\ sent' = Append(sent, [text |-> text, how |-> how, at |-> Len(stream)])
       /\ stream' = stream \o Framed(text, how)
-----------------------------------------------------------------------------
(***************************************************************************)
(* tailFile.  The program writes its lines in one piece or two; the pieces *)
(* of a line are its halves and the newline, so that no piece occurs twice.*)
(***************************************************************************)
Grow(q) ==
  /\ file' = file \o q
  /\ held' = IF opened = inode THEN held \o q ELSE held

\* The program writes a line, or half of one and then the rest.
Write ==
  /\ \/ /\ ~half /\ written < MaxWritten /\ written' = written + 1
        /\ \/ Grow(<<<<written', "a">>, <<written', "b">>, <<written', NL>>>>) /\ UNCHANGED half
           \/ Grow(<<<<written', "a">>>>) /\ half' = TRUE
     \/ /\ half /\ half' = FALSE
        /\ Grow(<<<<written, "b">>, <<written, NL>>>>) /\ UNCHANGED written
  /\ UNCHANGED <<inode, offset, opened, pos, buffer, added, replaced, clean, base>>

\* The file is rotated: another takes its place, or it is cut to nothing.
Replace ==
  /\ ~half /\ file # <<>> /\ replaced < MaxReplaced
  /\ replaced' = replaced + 1
  /\ file' = <<>> /\ clean' = FALSE
  /\ \/ inode' = inode + 1 /\ UNCHANGED held
     \/ held' = (IF opened = inode THEN <<>> ELSE held) /\ UNCHANGED inode
  /\ UNCHANGED <<half, offset, opened, pos, buffer, added, written, base>>

\* A pass begins at the offset, or at 0 if the file is shorter.
Start(size) == IF size < offset THEN 0 ELSE offset
Open ==
  /\ opened = 0
  /\ opened' = inode /\ held' = file /\ buffer' = <<>>
  /\ offset' = Start(Len(file)) /\ pos' = offset'
  /\ clean' = (clean \/ offset' = 0)
  /\ base' = IF offset' = 0 THEN Len(added) ELSE base
  /\ UNCHANGED <<file, inode, half, added, written, replaced>>

\* strings.TrimRight: the newline goes.
Trimmed(line) == IF line # <<>> /\ line[Len(line)][2] = NL THEN SubSeq(line, 1, Len(line) - 1) ELSE line

AdvanceTrimmed(line) == Len(Trimmed(line))   \* mutant: newlines do not count
Advance(line) == Len(line)
Consume(line) ==
  /\ offset' = offset + Advance(line)
  /\ added' = IF Trimmed(line) = <<>> THEN added ELSE Append(added, Trimmed(line))

\* ReadString: the next line of the buffer; the rest of the file goes into the
\* buffer when there is none; at its end, what the buffer has is a line.
Ends == {i \in DOMAIN buffer : buffer[i][2] = NL}
Read ==
  /\ opened # 0
  /\ \/ /\ Ends # {}
        /\ Consume(SubSeq(buffer, 1, Min(Ends)))
        /\ buffer' = SubSeq(buffer, Min(Ends) + 1, Len(buffer))
        /\ UNCHANGED <<pos, opened, held>>
     \/ /\ Ends = {} /\ pos < Len(held)
        /\ buffer' = buffer \o SubSeq(held, pos + 1, Len(held))
        /\ pos' = Len(held)
        /\ UNCHANGED <<offset, added, opened, held>>
     \/ /\ Ends = {} /\ pos >= Len(held)
        /\ Consume(buffer)
        /\ opened' = 0 /\ held' = <<>> /\ pos' = 0 /\ buffer' = <<>>
  /\ UNCHANGED <<file, inode, half, written, replaced, clean, base>>

TailStep == Write \/ Replace \/ Open \/ Read
Listen == Send /\ UNCHANGED tail
Follow == TailStep /\ UNCHANGED <<sent, stream>>
IntakeSpec == InitIntake /\ [][Listen \/ Follow]_<<sent, stream, tail>>
-----------------------------------------------------------------------------
(***************************************************************************)
(* Properties                                                              *)
(***************************************************************************)
Text(ms) == [i \in DOMAIN ms |-> ms[i].text]

\* A connection on which counted messages and lines that do not begin with a
\* digit come in any order is framed as it was sent; when it breaks off, all that
\* came in whole is there, and perhaps the beginning of a line, but never a part
\* of a counted message.
FramesExact ==
  /\ handleTCP(stream) = Text(sent)
  /\ sent # <<>> =>
       LET m == Last(sent)  whole == Text(Front(sent))
       IN \A k \in m.at .. Len(stream) - 1 :
            LET got == handleTCP(SubSeq(stream, 1, k))
            IN \/ got = whole
               \/ /\ Len(got) = Len(sent) /\ Front(got) = whole
                  /\ IF m.how = "newline" THEN IsPrefix(Last(got), m.text) ELSE Last(got) = m.text

\* What tailFile adds comes once and in the order it was written, whatever
\* replaces the file when, and between two passes it has added what is before
\* the offset, as long as the file has only grown since it began with it.
TailFollows ==
  /\ \A i, j \in DOMAIN added : \A k \in DOMAIN added[i], l \in DOMAIN added[j] :
       i < j \/ (i = j /\ k < l) =>
         LET p == added[i][k]  q == added[j][l]
         IN p[1] < q[1] \/ (p[1] = q[1] /\ p[2] = "a" /\ q[2] = "b")
  /\ clean /\ opened = 0 =>
       UNION {Range(added[i]) : i \in base + 1 .. Len(added)} = {p \in Range(SubSeq(file, 1, offset)) : p[2] # NL}
=============================================================================
