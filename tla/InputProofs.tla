----------------------------- MODULE InputProofs -----------------------------
(***************************************************************************)
(* What holds of the three ways in, for any size of rings, buffers, blocks *)
(* and queues, any times of the panel and any number of faults.  Of the    *)
(* host's: a command is run under a drawing only if it may be, and lines   *)
(* are run whole and the urgent ones in order, short of a disturbance.  Of *)
(* the finger's: the vehicle moves only while a finger holds its key and   *)
(* only after a hold, and a page is left for the one that opened it.  Of   *)
(* the bus's: a scalar comes out of libcanard's memory as it was sent.     *)
(***************************************************************************)
EXTENDS CommandIntake, CanPayload, TouchHmi, SequenceTheorems, WellFoundedInduction, TLAPS

-----------------------------------------------------------------------------
(* CommandIntake: what runs under a drawing.                               *)

(* Under a drawing only the nested parser reads; outside it, only the main *)
(* loop's pollSerialGui does; a command that is being handled is one that  *)
(* draws.                                                                  *)
OneParser ==
  /\ drawing /\ Polling => nested
  /\ ~drawing /\ Polling => loop = "poll"
  /\ handling => drawing /\ loop = "poll"

LEMMA OneParserInit == Init => OneParser
BY DEF Init, OneParser, Polling

(* A byte of pollSerialGui is read and looked at. *)
LEMMA ByteKeeps ==
  ASSUME OneParser, Polling, read'.at # "out", UNCHANGED threadVars
  PROVE  OneParser'
BY DEF OneParser, Polling, threadVars

LEMMA OneParserStep ==
  ASSUME OneParser, [Next]_vars
  PROVE  OneParser'
<1>1. CASE PollBegin
  BY <1>1 DEF PollBegin, OneParser, Polling
<1>2. CASE PollEnd
  BY <1>2 DEF PollEnd, OneParser, Polling
<1>3. CASE ReadCheck \/ ReadByte \/ ReadTail
  <2>1. Polling /\ read'.at # "out" /\ UNCHANGED threadVars
    BY <1>3 DEF ReadCheck, ReadByte, ReadTail, Polling
  <2> QED
    BY <2>1, ByteKeeps
<1>4. CASE ByteDiscarded \/ ByteAdded \/ EmptyLine \/ LineDeferred \/ LineRuns
  <2>1. read.at = "store" /\ read'.at = "check" /\ UNCHANGED threadVars
    BY <1>4 DEF ByteDiscarded, ByteAdded, EmptyLine, LineDeferred, LineRuns, TakeByte
  <2> QED
    BY <2>1, ByteKeeps DEF Polling
<1>5. CASE LineRunsAndDraws
  BY <1>5 DEF LineRunsAndDraws, OneParser, Polling
<1>6. CASE ServiceDeferred
  BY <1>6 DEF ServiceDeferred, OneParser, Polling
<1>7. CASE DeferredDone \/ MainDraw
  BY <1>7 DEF DeferredDone, MainDraw, OneParser, Polling
<1>8. CASE DrawEnd
  BY <1>8 DEF DrawEnd, OneParser, Polling
<1>9. CASE Host \/ UNCHANGED vars
  <2>1. UNCHANGED <<read, threadVars>>
    BY <1>9 DEF Host, HostSends, HostSend, HostStart, NewHost, vars
  <2> QED
    BY <2>1 DEF OneParser, Polling, threadVars
<1> QED
  BY <1>1, <1>2, <1>3, <1>4, <1>5, <1>6, <1>7, <1>8, <1>9 DEF Next, Thread

(* Whichever parser a byte meets, however the lines fall between them and  *)
(* whatever the rings lose: no command changes under a drawing what it     *)
(* draws (pollSerialGui, hostCommandRealtimeCritical).                     *)
THEOREM DrawingUndisturbed == Spec => NoCommandUnderDrawing
<1>1. OneParser /\ [Next]_vars => OneParser'
  BY OneParserStep
<1>2. ASSUME OneParser, [Next]_vars, ran' # ran, drawing
      PROVE  Critical(ran'.text)
  <2>1. LineRuns \/ LineRunsAndDraws \/ ServiceDeferred
    BY <1>2 DEF Next, Thread, Host, HostSends, HostSend, HostStart, NewHost, PollBegin, PollEnd,
                ReadCheck, ReadByte, ReadTail, ByteDiscarded, ByteAdded, EmptyLine, LineDeferred,
                Defer, DeferredDone, MainDraw, DrawEnd, vars
  <2>2. LineRuns
    BY <1>2, <2>1 DEF LineRunsAndDraws, ServiceDeferred, OneParser, Polling
  <2>3. nested
    BY <1>2, <2>2 DEF LineRuns, TakeByte, OneParser, Polling
  <2>4. Critical(line) /\ ran'.text = line
    BY <2>2, <2>3 DEF LineRuns, Run, Defers
  <2> QED
    BY <2>4
<1> QED
  BY <1>1, <1>2, OneParserInit, PTL DEF Spec, NoCommandUnderDrawing

-----------------------------------------------------------------------------
(* CommandIntake: the lines, short of a disturbance.                       *)

(* No overflow, no other host, no command that draws while it is parsed.   *)
Calm == resyncs = 0 /\ host = 1 /\ innerDraws = 0

(* A command that the host sends: its kind, and the number the next urgent *)
(* one has when it is sent.  Its line is two bytes and a newline.          *)
Command == [kind : Kinds, at : 0..(Numbers - 1)]
Following(n) == (n + 1) % Numbers
After(c) == IF c.kind = "deferrable" THEN c.at ELSE Following(c.at)
ByteOf(c, half) == [kind |-> c.kind, part |-> half, host |-> 1, side |-> 0,
                    number |-> IF c.kind = "deferrable" THEN 0 ELSE c.at]
AnyByte == [kind : Kinds \cup {"newline"}, part : {0, 1, 2}, host : {0, 1}, side : {0},
            number : 0..(Numbers - 1)]

(* The place of the ring k bytes behind the one at t. *)
Place(t, k) == IF t + k < RxSize THEN t + k ELSE t + k - RxSize

(* What is in the line buffer, in the ring (n bytes) and still to be sent  *)
(* is, in this order, the lines of m commands, whose bytes are s; their    *)
(* numbers go on from the last urgent one that ran.                        *)
Streaming(s, c, m, n) ==
  /\ m \in Nat /\ n \in Nat /\ n < RxSize
  /\ 3 * m = Len(line) + n + Len(sending)
  /\ \A i \in 1..m : /\ c[i] \in Command
                     /\ s[3 * i - 2] = ByteOf(c[i], 1) /\ s[3 * i - 1] = ByteOf(c[i], 2)
                     /\ s[3 * i] = Newline
  /\ \A i \in 1..(m - 1) : c[i + 1].at = After(c[i])
  /\ m = 0 => number = Following(ran.urgent)
  /\ m > 0 => c[1].at = Following(ran.urgent) /\ number = After(c[m])
  /\ head = Place(tail, n)
  /\ \A j \in 1..Len(line) : line[j] = s[j]
  /\ \A j \in 1..n : ring[Place(tail, j - 1)] = s[Len(line) + j]
  /\ \A j \in 1..Len(sending) : sending[j] = s[Len(line) + n + j]

IntakeShapes ==
  /\ ring \in [0..(RxSize - 1) -> AnyByte] /\ head \in 0..(RxSize - 1) /\ tail \in 0..(RxSize - 1)
  /\ line \in Seq(AnyByte) /\ Len(line) <= 2 /\ sending \in Seq(AnyByte)
  /\ number \in 0..(Numbers - 1) /\ ran.urgent \in 0..(Numbers - 1)
  /\ deferred \in Seq(Seq(AnyByte))
  /\ \A i \in 1..Len(deferred) : Whole(deferred[i]) /\ ~Critical(deferred[i])

(* The reading and the rest of the thread. *)
Reading ==
  /\ ~discard /\ ~discarding /\ seenResyncs = 0 /\ ~handling
  /\ read.at \in {"byte", "tail", "store"} => head # tail
  /\ read.at \in {"tail", "store"} => read.byte = ring[tail]
  /\ read.at = "store" => read.tail = tail

LinesInv ==
  /\ resyncs \in Nat /\ host \in Nat /\ host >= 1 /\ innerDraws \in Nat
  /\ Calm => IntakeShapes /\ Reading /\ \E s, c, m, n : Streaming(s, c, m, n)

LEMMA IntakeConstants ==
  /\ RxSize \in Nat /\ RxSize >= 2 /\ LineMax \in Nat /\ LineMax >= 2
  /\ Numbers \in Nat /\ Numbers >= 1
  /\ Kinds \subseteq {"hello", "critical", "deferrable"}
BY IntakeAssumption

LEMMA PlaceNext ==
  ASSUME NEW t \in 0..(RxSize - 1), NEW k \in Nat, k >= 1, k < RxSize
  PROVE  Place(Place(t, 1), k - 1) = Place(t, k)
BY IntakeConstants DEF Place

LEMMA Next1Is ==
  ASSUME NEW i \in 0..(RxSize - 1)
  PROVE  Next1(i) = Place(i, 1) /\ Next1(i) \in 0..(RxSize - 1)
<1>1. CASE i + 1 < RxSize
  <2>1. (i + 1) % RxSize = i + 1
    BY <1>1, IntakeConstants
  <2> QED
    BY <1>1, <2>1, IntakeConstants DEF Next1, Place
<1>2. CASE i + 1 = RxSize
  <2>1. RxSize % RxSize = 0
    BY IntakeConstants
  <2> QED
    BY <1>2, <2>1, IntakeConstants DEF Next1, Place
<1> QED
  BY <1>1, <1>2, IntakeConstants

LEMMA FollowingIs ==
  ASSUME NEW n \in 0..(Numbers - 1)
  PROVE  Following(n) \in 0..(Numbers - 1)
BY IntakeConstants DEF Following

(* The bytes of a command. *)
LEMMA BytesAre ==
  ASSUME NEW c \in Command
  PROVE  /\ ByteOf(c, 1) \in AnyByte /\ ByteOf(c, 2) \in AnyByte
         /\ ByteOf(c, 1) # Newline /\ ByteOf(c, 2) # Newline
         /\ ByteOf(c, 1).part = 1 /\ ByteOf(c, 1).kind = c.kind
         /\ ByteOf(c, 1).number = (IF c.kind = "deferrable" THEN 0 ELSE c.at)
         /\ ByteOf(c, 2) = [ByteOf(c, 1) EXCEPT !.part = 2, !.side = ByteOf(c, 2).side]
         /\ After(c) \in 0..(Numbers - 1)
<1>1. c.at \in 0..(Numbers - 1) /\ c.kind \in Kinds /\ 0 \in 0..(Numbers - 1)
  BY IntakeConstants DEF Command
<1>2. ByteOf(c, 1) \in AnyByte /\ ByteOf(c, 2) \in AnyByte
  BY <1>1 DEF ByteOf, AnyByte
<1>3. ByteOf(c, 1).part # Newline.part /\ ByteOf(c, 2).part # Newline.part
  BY DEF ByteOf, Newline
<1>4. After(c) \in 0..(Numbers - 1)
  BY <1>1, FollowingIs DEF After
<1>5. /\ ByteOf(c, 1).part = 1 /\ ByteOf(c, 1).kind = c.kind
      /\ ByteOf(c, 1).number = (IF c.kind = "deferrable" THEN 0 ELSE c.at)
  BY DEF ByteOf
<1>6. ByteOf(c, 2) = [ByteOf(c, 1) EXCEPT !.part = 2, !.side = ByteOf(c, 2).side]
  <2> DEFINE k == IF c.kind = "deferrable" THEN 0 ELSE c.at
             r == ByteOf(c, 1)
             q == ByteOf(c, 2)
             Second == [kind : {c.kind}, part : {2}, host : {1}, side : {0}, number : {k}]
  <2>1. r \in [kind : {c.kind}, part : {1}, host : {1}, side : {0}, number : {k}] /\ q \in Second
    BY DEF ByteOf
  <2> HIDE DEF k, r, q
  <2>2. q.side = 0
    BY <2>1
  <2>3. [r EXCEPT !.part = 2, !.side = 0] \in Second
    BY <2>1
  <2>4. \A x, y \in Second : x = y
    OBVIOUS
  <2> QED
    BY <2>1, <2>2, <2>3, <2>4 DEF r, q
<1> QED
  BY <1>2, <1>3, <1>4, <1>5, <1>6

LEMMA NewlineIs == Newline \in AnyByte
BY IntakeConstants DEF Newline, AnyByte

LEMMA LinesInitInv == Init => LinesInv
<1> SUFFICES ASSUME Init PROVE LinesInv
  OBVIOUS
<1>1. IntakeShapes
  <2>1. 0 \in 0..(RxSize - 1) /\ 0 \in 0..(Numbers - 1) /\ Numbers - 1 \in 0..(Numbers - 1)
    BY IntakeConstants
  <2> QED
    BY <2>1, NewlineIs DEF Init, IntakeShapes, Nothing
<1>2. Reading
  BY DEF Init, Reading
<1>3. Following(Numbers - 1) = 0
  <2>1. Numbers % Numbers = 0
    BY IntakeConstants
  <2>2. (Numbers - 1) + 1 = Numbers
    BY IntakeConstants
  <2> QED
    BY <2>1, <2>2 DEF Following
<1>4. Streaming(<<>>, <<>>, 0, 0)
  BY <1>3, IntakeConstants DEF Init, Streaming, Place, Nothing
<1> QED
  BY <1>1, <1>2, <1>4 DEF Init, LinesInv

(* The next byte of the stream is the one at the ring's tail. *)
LEMMA NextByte ==
  ASSUME IntakeShapes, Reading, read.at = "store",
         NEW s, NEW c, NEW m, NEW n, Streaming(s, c, m, n)
  PROVE  /\ n >= 1 /\ m >= 1 /\ read.byte = s[Len(line) + 1]
         /\ Len(line) \in {0, 1, 2}
         /\ (read.byte = Newline) <=> (Len(line) = 2)
         /\ c[1] \in Command /\ s[1] = ByteOf(c[1], 1) /\ s[2] = ByteOf(c[1], 2) /\ s[3] = Newline
<1>1. head # tail /\ read.byte = ring[tail]
  BY DEF Reading
<1>2. Len(line) \in {0, 1, 2} /\ Len(sending) \in Nat /\ tail \in 0..(RxSize - 1)
  <2>1. line \in Seq(AnyByte) /\ sending \in Seq(AnyByte) /\ Len(line) <= 2
    BY DEF IntakeShapes
  <2>2. Len(line) \in Nat /\ Len(sending) \in Nat
    BY <2>1
  <2>3. Len(line) = 0 \/ Len(line) = 1 \/ Len(line) = 2
    <3> DEFINE l == Len(line)
    <3>1. l \in Nat /\ l <= 2
      BY <2>1, <2>2
    <3> HIDE DEF l
    <3>2. l = 0 \/ l = 1 \/ l = 2
      BY <3>1
    <3> QED
      BY <3>2 DEF l
  <2> QED
    BY <2>2, <2>3 DEF IntakeShapes
<1>3. m \in Nat /\ n \in Nat /\ 3 * m = Len(line) + n + Len(sending) /\ head = Place(tail, n)
  BY DEF Streaming
<1>4. n >= 1 /\ Place(tail, 1 - 1) = tail
  BY <1>1, <1>2, <1>3, IntakeConstants DEF Place
<1>5. m >= 1
  BY <1>2, <1>3, <1>4
<1>6. read.byte = s[Len(line) + 1]
  <2>1. 1 \in 1..n
    BY <1>3, <1>4
  <2> QED
    BY <1>1, <1>4, <2>1 DEF Streaming
<1>7. /\ c[1] \in Command /\ s[3 * 1 - 2] = ByteOf(c[1], 1)
      /\ s[3 * 1 - 1] = ByteOf(c[1], 2) /\ s[3 * 1] = Newline
  <2>1. 1 \in 1..m
    BY <1>3, <1>5
  <2> QED
    BY <2>1 DEF Streaming
<1>8. s[1] = ByteOf(c[1], 1) /\ s[2] = ByteOf(c[1], 2) /\ s[3] = Newline
  BY <1>7
<1>9. s[1] # Newline /\ s[2] # Newline
  BY <1>7, <1>8, BytesAre
<1>10. (read.byte = Newline) <=> (Len(line) = 2)
  <2>1. CASE Len(line) = 0
    BY <1>6, <1>9, <2>1
  <2>2. CASE Len(line) = 1
    BY <1>6, <1>9, <2>2
  <2>3. CASE Len(line) = 2
    BY <1>6, <1>8, <2>3
  <2> QED
    BY <1>2, <2>1, <2>2, <2>3
<1> QED
  BY <1>2, <1>4, <1>5, <1>6, <1>7, <1>8, <1>10

(* A line that ends is the whole line of the next command. *)
LEMMA LineIsWhole ==
  ASSUME IntakeShapes, Reading, read.at = "store", read.byte = Newline,
         NEW s, NEW c, NEW m, NEW n, Streaming(s, c, m, n)
  PROVE  /\ line = <<ByteOf(c[1], 1), ByteOf(c[1], 2)>> /\ Whole(line)
         /\ Critical(line) <=> c[1].kind # "deferrable"
         /\ Critical(line) => Head(line).number = Following(ran.urgent)
         /\ Critical(line) => After(c[1]) = Following(Head(line).number)
         /\ ~Critical(line) => After(c[1]) = Following(ran.urgent)
<1>1. /\ m >= 1 /\ Len(line) = 2 /\ c[1] \in Command
      /\ s[1] = ByteOf(c[1], 1) /\ s[2] = ByteOf(c[1], 2)
  BY NextByte
<1>2. line[1] = ByteOf(c[1], 1) /\ line[2] = ByteOf(c[1], 2)
  <2>1. 1 \in 1..Len(line) /\ 2 \in 1..Len(line)
    BY <1>1
  <2> QED
    BY <1>1, <2>1 DEF Streaming
<1>3. line = <<line[1], line[2]>> /\ Head(line) = line[1]
  BY <1>1 DEF IntakeShapes
<1>4. Whole(line)
  BY <1>1, <1>2, BytesAre DEF Whole
<1>5. KindOf(line) = c[1].kind /\ c[1].kind \in {"hello", "critical", "deferrable"}
  <2>1. line[1].part = 1 /\ line[1].kind = c[1].kind
    BY <1>1, <1>2, BytesAre
  <2>2. c[1].kind \in Kinds
    BY <1>1 DEF Command
  <2> QED
    BY <1>3, <2>1, <2>2, IntakeConstants DEF KindOf
<1>6. Critical(line) <=> c[1].kind # "deferrable"
  BY <1>5 DEF Critical
<1>7. c[1].at = Following(ran.urgent)
  BY <1>1 DEF Streaming
<1> QED
  BY <1>1, <1>2, <1>3, <1>4, <1>6, <1>7, BytesAre DEF After

(* What a step does to the stream.                                         *)
LEMMA StreamSame ==
  ASSUME NEW s, NEW c, NEW m, NEW n, Streaming(s, c, m, n),
         UNCHANGED <<ring, head, tail, line, sending, number>>, ran'.urgent = ran.urgent
  PROVE  Streaming(s, c, m, n)'
BY DEF Streaming

(* A byte goes from the ring into the line. *)
LEMMA StreamTaken ==
  ASSUME IntakeShapes, Reading, read.at = "store", read.byte # Newline,
         NEW s, NEW c, NEW m, NEW n, Streaming(s, c, m, n),
         line' = Append(line, read.byte), tail' = Next1(tail),
         UNCHANGED <<ring, head, sending, number>>, ran'.urgent = ran.urgent
  PROVE  Streaming(s, c, m, n - 1)' /\ line' \in Seq(AnyByte) /\ Len(line') <= 2
<1>1. /\ n >= 1 /\ m >= 1 /\ read.byte = s[Len(line) + 1] /\ Len(line) \in {0, 1, 2}
      /\ Len(line) # 2
  BY NextByte
<1>2. /\ tail \in 0..(RxSize - 1) /\ line \in Seq(AnyByte) /\ ring \in [0..(RxSize - 1) -> AnyByte]
  BY DEF IntakeShapes
<1>3. tail' = Place(tail, 1) /\ tail' \in 0..(RxSize - 1)
  BY <1>2, Next1Is
<1>4. read.byte \in AnyByte
  BY <1>2 DEF Reading
<1>5. Len(line') = Len(line) + 1 /\ line' \in Seq(AnyByte)
      /\ \A j \in 1..Len(line') : line'[j] = IF j = Len(line) + 1 THEN read.byte ELSE line[j]
  BY <1>2, <1>4
<1>6. m \in Nat /\ n \in Nat /\ n < RxSize /\ head = Place(tail, n)
      /\ 3 * m = Len(line) + n + Len(sending)
  BY DEF Streaming
<1>7. Len(line) \in Nat
  BY <1>1
<1> DEFINE l == Len(line)
           l2 == Len(line')
<1> HIDE DEF l, l2
<1>8. l2 = l + 1 /\ l \in Nat
  BY <1>5, <1>7 DEF l, l2
<1>9. n - 1 \in Nat /\ n - 1 < RxSize /\ 3 * m = l2 + (n - 1) + Len(sending)
  <2> DEFINE d == Len(sending)
  <2>1. 3 * m = l + n + d /\ d \in Nat
    BY <1>6 DEF l, IntakeShapes
  <2> HIDE DEF d
  <2> QED
    BY <1>1, <1>6, <1>8, <2>1, IntakeConstants DEF d
<1>10. head = Place(tail', n - 1)
  BY <1>1, <1>2, <1>3, <1>6, IntakeConstants DEF Place
<1>11. \A j \in 1..l2 : line'[j] = s[j]
  <2> SUFFICES ASSUME NEW j \in 1..l2 PROVE line'[j] = s[j]
    OBVIOUS
  <2>1. CASE j = l + 1
    BY <1>1, <1>5, <2>1 DEF l, l2
  <2>2. CASE j # l + 1
    <3>1. j \in 1..l
      BY <1>8, <2>2
    <3>2. line[j] = s[j]
      BY <3>1 DEF Streaming, l
    <3> QED
      BY <1>5, <2>2, <3>2 DEF l, l2
  <2> QED
    BY <2>1, <2>2
<1>12. \A j \in 1..(n - 1) : ring[Place(tail', j - 1)] = s[l2 + j]
  <2> SUFFICES ASSUME NEW j \in 1..(n - 1) PROVE ring[Place(tail', j - 1)] = s[l2 + j]
    OBVIOUS
  <2>1. j + 1 \in 1..n
    BY <1>6
  <2>2. ring[Place(tail, (j + 1) - 1)] = s[l + (j + 1)]
    BY <2>1 DEF Streaming, l
  <2>3. Place(tail', j - 1) = Place(tail, (j + 1) - 1)
    <3>1. j \in Nat /\ j >= 1 /\ j < RxSize /\ (j + 1) - 1 = j
      BY <1>6, IntakeConstants
    <3> QED
      BY <1>2, <1>3, <3>1, PlaceNext
  <2>4. l + (j + 1) = l2 + j
    BY <1>8
  <2> QED
    BY <2>2, <2>3, <2>4
<1>13. \A j \in 1..Len(sending) : sending[j] = s[l2 + (n - 1) + j]
  <2> SUFFICES ASSUME NEW j \in 1..Len(sending) PROVE sending[j] = s[l2 + (n - 1) + j]
    OBVIOUS
  <2>1. sending[j] = s[l + n + j]
    BY DEF Streaming, l
  <2>2. l + n + j = l2 + (n - 1) + j
    BY <1>6, <1>8
  <2> QED
    BY <2>1, <2>2
<1>14. Len(line') <= 2
  BY <1>1, <1>5
<1>15. Streaming(s, c, m, n - 1)'
  BY <1>6, <1>9, <1>10, <1>11, <1>12, <1>13 DEF Streaming, l2
<1> QED
  BY <1>5, <1>14, <1>15

(* A line ends: the stream begins with the next command. *)
LEMMA StreamLine ==
  ASSUME IntakeShapes, Reading, read.at = "store", read.byte = Newline,
         NEW s, NEW c, NEW m, NEW n, Streaming(s, c, m, n),
         line' = <<>>, tail' = Next1(tail), After(c[1]) = Following(ran'.urgent),
         UNCHANGED <<ring, head, sending, number>>
  PROVE  \E s1, c1, m1, n1 : Streaming(s1, c1, m1, n1)'
<1> DEFINE s1 == [j \in Nat |-> s[j + 3]]
           c1 == [i \in Nat |-> c[i + 1]]
<1>1. /\ n >= 1 /\ m >= 1 /\ Len(line) = 2
  BY NextByte
<1>2. /\ tail \in 0..(RxSize - 1) /\ sending \in Seq(AnyByte)
  BY DEF IntakeShapes
<1>3. tail' = Place(tail, 1)
  BY <1>2, Next1Is
<1>4. m \in Nat /\ n \in Nat /\ n < RxSize /\ head = Place(tail, n)
      /\ 3 * m = 2 + n + Len(sending)
  BY <1>1 DEF Streaming
<1>5. m - 1 \in Nat /\ n - 1 \in Nat /\ n - 1 < RxSize
      /\ 3 * (m - 1) = 0 + (n - 1) + Len(sending)
  <2> DEFINE d == Len(sending)
  <2>1. 3 * m = 2 + n + d /\ d \in Nat
    BY <1>2, <1>4
  <2> HIDE DEF d
  <2> QED
    BY <1>1, <1>4, <2>1, IntakeConstants DEF d
<1>6. head = Place(tail', n - 1)
  BY <1>1, <1>2, <1>3, <1>4, IntakeConstants DEF Place
<1>7. Len(line') = 0
  OBVIOUS
<1>8. \A i \in 1..(m - 1) : /\ c1[i] \in Command
                            /\ s1[3 * i - 2] = ByteOf(c1[i], 1) /\ s1[3 * i - 1] = ByteOf(c1[i], 2)
                            /\ s1[3 * i] = Newline
  <2> SUFFICES ASSUME NEW i \in 1..(m - 1)
               PROVE  /\ c1[i] \in Command
                      /\ s1[3 * i - 2] = ByteOf(c1[i], 1) /\ s1[3 * i - 1] = ByteOf(c1[i], 2)
                      /\ s1[3 * i] = Newline
    OBVIOUS
  <2>1. i + 1 \in 1..m /\ i \in Nat /\ 3 * i - 2 \in Nat /\ 3 * i - 1 \in Nat /\ 3 * i \in Nat
    BY <1>4
  <2>2. /\ c[i + 1] \in Command /\ s[3 * (i + 1) - 2] = ByteOf(c[i + 1], 1)
        /\ s[3 * (i + 1) - 1] = ByteOf(c[i + 1], 2) /\ s[3 * (i + 1)] = Newline
    BY <2>1 DEF Streaming
  <2>3. /\ (3 * i - 2) + 3 = 3 * (i + 1) - 2 /\ (3 * i - 1) + 3 = 3 * (i + 1) - 1
        /\ 3 * i + 3 = 3 * (i + 1)
    BY <2>1
  <2>4. /\ c1[i] = c[i + 1] /\ s1[3 * i - 2] = s[(3 * i - 2) + 3]
        /\ s1[3 * i - 1] = s[(3 * i - 1) + 3] /\ s1[3 * i] = s[3 * i + 3]
    BY <2>1
  <2> QED
    BY <2>2, <2>3, <2>4
<1>9. \A i \in 1..((m - 1) - 1) : c1[i + 1].at = After(c1[i])
  <2> SUFFICES ASSUME NEW i \in 1..((m - 1) - 1) PROVE c1[i + 1].at = After(c1[i])
    OBVIOUS
  <2>1. i + 1 \in 1..(m - 1) /\ i \in Nat /\ i + 1 \in Nat
    BY <1>4
  <2>2. c[(i + 1) + 1].at = After(c[i + 1])
    BY <2>1 DEF Streaming
  <2> QED
    BY <2>1, <2>2
<1>10. m - 1 = 0 => number = Following(ran'.urgent)
  BY <1>1, <1>4 DEF Streaming
<1>11. m - 1 > 0 => c1[1].at = Following(ran'.urgent) /\ number = After(c1[m - 1])
  <2> SUFFICES ASSUME m - 1 > 0
               PROVE  c1[1].at = Following(ran'.urgent) /\ number = After(c1[m - 1])
    OBVIOUS
  <2>1. 1 \in 1..(m - 1) /\ m - 1 \in Nat /\ (m - 1) + 1 = m
    BY <1>4
  <2>2. c[1 + 1].at = After(c[1]) /\ number = After(c[m])
    BY <1>1, <2>1 DEF Streaming
  <2>3. c1[1] = c[1 + 1] /\ c1[m - 1] = c[(m - 1) + 1]
    BY <2>1
  <2> QED
    BY <2>1, <2>2, <2>3
<1>12. \A j \in 1..(n - 1) : ring[Place(tail', j - 1)] = s1[0 + j]
  <2> SUFFICES ASSUME NEW j \in 1..(n - 1) PROVE ring[Place(tail', j - 1)] = s1[0 + j]
    OBVIOUS
  <2>1. j + 1 \in 1..n /\ 0 + j \in Nat
    BY <1>4
  <2>2. ring[Place(tail, (j + 1) - 1)] = s[2 + (j + 1)]
    BY <1>1, <2>1 DEF Streaming
  <2>3. Place(tail', j - 1) = Place(tail, (j + 1) - 1)
    BY <1>2, <1>3, <1>4, IntakeConstants DEF Place
  <2>4. s1[0 + j] = s[(0 + j) + 3] /\ (0 + j) + 3 = 2 + (j + 1)
    BY <2>1
  <2> QED
    BY <2>2, <2>3, <2>4
<1>13. \A j \in 1..Len(sending) : sending[j] = s1[0 + (n - 1) + j]
  <2> SUFFICES ASSUME NEW j \in 1..Len(sending) PROVE sending[j] = s1[0 + (n - 1) + j]
    OBVIOUS
  <2>1. sending[j] = s[2 + n + j]
    BY <1>1 DEF Streaming
  <2>2. 0 + (n - 1) + j \in Nat /\ (0 + (n - 1) + j) + 3 = 2 + n + j
    BY <1>1, <1>4
  <2> QED
    BY <2>1, <2>2
<1> HIDE DEF s1, c1
<1>14. Streaming(s1, c1, m - 1, n - 1)'
  BY <1>5, <1>6, <1>7, <1>8, <1>9, <1>10, <1>11, <1>12, <1>13 DEF Streaming
<1> QED
  BY <1>14

(* A byte of the host's goes into the ring. *)
LEMMA StreamSent ==
  ASSUME IntakeShapes, NEW s, NEW c, NEW m, NEW n, Streaming(s, c, m, n),
         sending # <<>>, Next1(head) # tail,
         ring' = [ring EXCEPT ![head] = Head(sending)], head' = Next1(head),
         sending' = Tail(sending), UNCHANGED <<tail, line, number, deferred>>, ran'.urgent = ran.urgent
  PROVE  Streaming(s, c, m, n + 1)' /\ IntakeShapes'
<1>1. /\ tail \in 0..(RxSize - 1) /\ head \in 0..(RxSize - 1) /\ sending \in Seq(AnyByte)
      /\ ring \in [0..(RxSize - 1) -> AnyByte]
  BY DEF IntakeShapes
<1>2. m \in Nat /\ n \in Nat /\ n < RxSize /\ head = Place(tail, n)
      /\ 3 * m = Len(line) + n + Len(sending)
  BY DEF Streaming
<1>3. head' = Place(head, 1) /\ head' \in 0..(RxSize - 1)
  BY <1>1, Next1Is
<1>4. n + 1 < RxSize /\ head' = Place(tail, n + 1)
  <2>1. n \in Nat /\ n < RxSize /\ head = Place(tail, n) /\ Place(head, 1) # tail
    BY <1>1, <1>2, Next1Is
  <2>2. tail \in 0..(RxSize - 1) /\ head \in 0..(RxSize - 1)
    BY <1>1
  <2>3. n + 1 < RxSize
    BY <2>1, <2>2, IntakeConstants DEF Place
  <2>4. Place(head, 1) = Place(tail, n + 1)
    BY <2>1, <2>2, <2>3, IntakeConstants DEF Place
  <2> QED
    BY <1>3, <2>3, <2>4
<1>5. /\ Len(sending') = Len(sending) - 1 /\ Head(sending) \in AnyByte /\ Head(sending) = sending[1]
      /\ sending' \in Seq(AnyByte) /\ Len(sending) \in Nat /\ Len(sending) >= 1
      /\ \A j \in 1..Len(sending') : sending'[j] = sending[j + 1]
  BY <1>1
<1>6. Len(line) \in Nat
  BY DEF IntakeShapes
<1> DEFINE l == Len(line)
           d == Len(sending)
           d2 == Len(sending')
<1> HIDE DEF l, d, d2
<1>7. l \in Nat /\ d \in Nat /\ d >= 1 /\ d2 = d - 1 /\ 3 * m = l + n + d
  BY <1>2, <1>5, <1>6 DEF l, d, d2
<1>8. 3 * m = l + (n + 1) + d2
  BY <1>2, <1>7
<1>9. sending[1] = s[l + n + 1]
  <2>1. 1 \in 1..d
    BY <1>7
  <2> QED
    BY <2>1 DEF Streaming, l, d
<1>10. \A j \in 1..(n + 1) : ring'[Place(tail, j - 1)] = s[l + j]
  <2> SUFFICES ASSUME NEW j \in 1..(n + 1) PROVE ring'[Place(tail, j - 1)] = s[l + j]
    OBVIOUS
  <2>0. n \in Nat /\ n < RxSize /\ n + 1 < RxSize /\ head = Place(tail, n)
    BY <1>2, <1>4
  <2>1. CASE j = n + 1
    <3>1. j - 1 = n /\ l + n + 1 = l + j
      BY <1>7, <2>0, <2>1
    <3> QED
      BY <1>1, <1>5, <1>9, <2>0, <3>1
  <2>2. CASE j # n + 1
    <3>1. j \in 1..n
      BY <2>0, <2>2
    <3>2. ring[Place(tail, j - 1)] = s[l + j]
      BY <3>1 DEF Streaming, l
    <3>3. Place(tail, j - 1) # head /\ Place(tail, j - 1) \in 0..(RxSize - 1)
      <4>1. tail \in 0..(RxSize - 1) /\ head = Place(tail, n) /\ n \in Nat /\ n < RxSize
        BY <1>1, <2>0
      <4>2. j \in Nat /\ 1 <= j /\ j <= n
        BY <2>0, <3>1
      <4>3. RxSize \in Nat /\ tail \in Nat /\ tail < RxSize
        BY <4>1, IntakeConstants
      <4>4. Place(tail, j - 1) = IF tail + (j - 1) < RxSize
                                 THEN tail + (j - 1) ELSE tail + (j - 1) - RxSize
        BY DEF Place
      <4>5. head = IF tail + n < RxSize THEN tail + n ELSE tail + n - RxSize
        BY <4>1 DEF Place
      <4> HIDE DEF Place
      <4>6. CASE tail + (j - 1) < RxSize
        BY <4>1, <4>2, <4>3, <4>4, <4>5, <4>6
      <4>7. CASE ~(tail + (j - 1) < RxSize)
        BY <4>1, <4>2, <4>3, <4>4, <4>5, <4>7
      <4> QED
        BY <4>6, <4>7
    <3> QED
      BY <1>1, <3>2, <3>3
  <2> QED
    BY <2>1, <2>2
<1>11. \A j \in 1..d2 : sending'[j] = s[l + (n + 1) + j]
  <2> SUFFICES ASSUME NEW j \in 1..d2 PROVE sending'[j] = s[l + (n + 1) + j]
    OBVIOUS
  <2>1. j + 1 \in 1..d
    BY <1>7
  <2>2. sending[j + 1] = s[l + n + (j + 1)]
    BY <2>1 DEF Streaming, l, d
  <2>3. l + n + (j + 1) = l + (n + 1) + j
    BY <1>2, <1>7
  <2> QED
    BY <1>5, <2>2, <2>3 DEF d2
<1>12. Streaming(s, c, m, n + 1)'
  <2>1. /\ line' = line /\ tail' = tail /\ number' = number
        /\ \A i \in 1..m : /\ c[i] \in Command
                           /\ s[3 * i - 2] = ByteOf(c[i], 1) /\ s[3 * i - 1] = ByteOf(c[i], 2)
                           /\ s[3 * i] = Newline
        /\ \A i \in 1..(m - 1) : c[i + 1].at = After(c[i])
        /\ m = 0 => number = Following(ran'.urgent)
        /\ m > 0 => c[1].at = Following(ran'.urgent) /\ number = After(c[m])
        /\ \A j \in 1..Len(line) : line[j] = s[j]
    BY DEF Streaming
  <2>2. /\ m \in Nat /\ n + 1 \in Nat /\ n + 1 < RxSize /\ head' = Place(tail, n + 1)
        /\ 3 * m = Len(line) + (n + 1) + Len(sending')
    BY <1>2, <1>4, <1>8 DEF l, d2
  <2>3. /\ \A j \in 1..(n + 1) : ring'[Place(tail, j - 1)] = s[Len(line) + j]
        /\ \A j \in 1..Len(sending') : sending'[j] = s[Len(line) + (n + 1) + j]
    BY <1>10, <1>11 DEF l, d2
  <2> QED
    BY <2>1, <2>2, <2>3 DEF Streaming
<1>13. ring' \in [0..(RxSize - 1) -> AnyByte]
  BY <1>1, <1>5
<1> QED
  BY <1>3, <1>5, <1>12, <1>13 DEF IntakeShapes

LEMMA NextThree ==
  ASSUME NEW k \in Nat
  PROVE  /\ (k + 1) - k = 1 /\ (k + 2) - k = 2 /\ (k + 3) - k = 3
         /\ ~(k + 1 <= k) /\ ~(k + 2 <= k) /\ ~(k + 3 <= k)
         /\ k + 1 \in Nat /\ k + 2 \in Nat /\ k + 3 \in Nat
OBVIOUS

(* The host starts a line. *)
LEMMA StreamStarts ==
  ASSUME IntakeShapes, NEW s, NEW c, NEW m, NEW n, Streaming(s, c, m, n),
         NEW d \in Command, sending = <<>>, d.at = number,
         sending' = <<ByteOf(d, 1), ByteOf(d, 2), Newline>>, number' = After(d),
         UNCHANGED <<ring, head, tail, line>>, ran'.urgent = ran.urgent
  PROVE  \E s1, c1, m1, n1 : Streaming(s1, c1, m1, n1)'
<1> DEFINE text == <<ByteOf(d, 1), ByteOf(d, 2), Newline>>
           s1 == [j \in Nat |-> IF j <= 3 * m THEN s[j] ELSE text[j - 3 * m]]
           c1 == [i \in Nat |-> IF i <= m THEN c[i] ELSE d]
<1>1. m \in Nat /\ n \in Nat /\ n < RxSize /\ head = Place(tail, n) /\ 3 * m = Len(line) + n
  BY DEF Streaming, IntakeShapes
<1>2. /\ sending'[1] = ByteOf(d, 1) /\ sending'[2] = ByteOf(d, 2) /\ sending'[3] = Newline
      /\ Len(sending') = 3
  OBVIOUS
<1>2a. text[1] = ByteOf(d, 1) /\ text[2] = ByteOf(d, 2) /\ text[3] = Newline
  OBVIOUS
<1>3. \A j \in 1..(3 * m) : s1[j] = s[j]
  BY <1>1
<1>4. s1[3 * m + 1] = ByteOf(d, 1) /\ s1[3 * m + 2] = ByteOf(d, 2) /\ s1[3 * m + 3] = Newline
  <2>1. /\ (3 * m + 1) - 3 * m = 1 /\ (3 * m + 2) - 3 * m = 2 /\ (3 * m + 3) - 3 * m = 3
        /\ ~(3 * m + 1 <= 3 * m) /\ ~(3 * m + 2 <= 3 * m) /\ ~(3 * m + 3 <= 3 * m)
        /\ 3 * m + 1 \in Nat /\ 3 * m + 2 \in Nat /\ 3 * m + 3 \in Nat
    <3>1. m \in Nat
      BY <1>1
    <3>2. 3 * m \in Nat
      BY <3>1
    <3> QED
      BY <3>2, NextThree
  <2> HIDE DEF text
  <2> QED
    BY <1>2a, <2>1
<1>5. \A i \in 1..m : c1[i] = c[i]
  BY <1>1
<1>6. c1[m + 1] = d
  BY <1>1
<1> HIDE DEF s1, c1
<1>7. \A i \in 1..(m + 1) : /\ c1[i] \in Command
                            /\ s1[3 * i - 2] = ByteOf(c1[i], 1) /\ s1[3 * i - 1] = ByteOf(c1[i], 2)
                            /\ s1[3 * i] = Newline
  <2> SUFFICES ASSUME NEW i \in 1..(m + 1)
               PROVE  /\ c1[i] \in Command
                      /\ s1[3 * i - 2] = ByteOf(c1[i], 1) /\ s1[3 * i - 1] = ByteOf(c1[i], 2)
                      /\ s1[3 * i] = Newline
    OBVIOUS
  <2>1. CASE i = m + 1
    <3>1. 3 * i - 2 = 3 * m + 1 /\ 3 * i - 1 = 3 * m + 2 /\ 3 * i = 3 * m + 3
      BY <1>1, <2>1
    <3> QED
      BY <1>4, <1>6, <2>1, <3>1
  <2>2. CASE i # m + 1
    <3>1. /\ i \in 1..m /\ 3 * i - 2 \in 1..(3 * m) /\ 3 * i - 1 \in 1..(3 * m)
          /\ 3 * i \in 1..(3 * m)
      BY <1>1, <2>2
    <3>2. /\ c[i] \in Command /\ s[3 * i - 2] = ByteOf(c[i], 1)
          /\ s[3 * i - 1] = ByteOf(c[i], 2) /\ s[3 * i] = Newline
      BY <3>1 DEF Streaming
    <3> QED
      BY <1>3, <1>5, <3>1, <3>2
  <2> QED
    BY <2>1, <2>2
<1>8. \A i \in 1..((m + 1) - 1) : c1[i + 1].at = After(c1[i])
  <2> SUFFICES ASSUME NEW i \in 1..((m + 1) - 1) PROVE c1[i + 1].at = After(c1[i])
    OBVIOUS
  <2>1. CASE i = m
    <3>1. m > 0 /\ number = After(c[m])
      BY <1>1, <2>1 DEF Streaming
    <3> QED
      BY <1>1, <1>5, <1>6, <2>1, <3>1
  <2>2. CASE i # m
    <3>1. i \in 1..(m - 1) /\ i \in 1..m /\ i + 1 \in 1..m
      BY <1>1, <2>2
    <3>2. c[i + 1].at = After(c[i])
      BY <3>1 DEF Streaming
    <3> QED
      BY <1>5, <3>1, <3>2
  <2> QED
    BY <2>1, <2>2
<1>9. c1[1].at = Following(ran.urgent) /\ number' = After(c1[m + 1])
  <2>1. CASE m = 0
    BY <1>6, <2>1 DEF Streaming
  <2>2. CASE m # 0
    <3>1. 1 \in 1..m
      BY <1>1, <2>2
    <3>2. c[1].at = Following(ran.urgent)
      BY <1>1, <2>2 DEF Streaming
    <3> QED
      BY <1>5, <1>6, <3>1, <3>2
  <2> QED
    BY <2>1, <2>2
<1>10. \A j \in 1..Len(line) : line[j] = s1[j]
  <2> SUFFICES ASSUME NEW j \in 1..Len(line) PROVE line[j] = s1[j]
    OBVIOUS
  <2>1. line[j] = s[j]
    BY DEF Streaming
  <2>2. j \in 1..(3 * m)
    <3>1. Len(line) \in Nat
      BY DEF IntakeShapes
    <3> QED
      BY <1>1, <3>1
  <2> QED
    BY <1>3, <2>1, <2>2
<1>11. \A j \in 1..n : ring[Place(tail, j - 1)] = s1[Len(line) + j]
  <2> SUFFICES ASSUME NEW j \in 1..n PROVE ring[Place(tail, j - 1)] = s1[Len(line) + j]
    OBVIOUS
  <2>1. ring[Place(tail, j - 1)] = s[Len(line) + j]
    BY DEF Streaming
  <2>2. Len(line) + j \in 1..(3 * m)
    <3>1. Len(line) \in Nat
      BY DEF IntakeShapes
    <3> QED
      BY <1>1, <3>1
  <2> QED
    BY <1>3, <2>1, <2>2
<1>12. \A j \in 1..3 : sending'[j] = s1[Len(line) + n + j]
  <2>1. Len(line) + n = 3 * m
    BY <1>1
  <2> QED
    BY <1>2, <1>4, <2>1
<1>13. m + 1 \in Nat /\ 3 * (m + 1) = Len(line) + n + 3 /\ m + 1 # 0 /\ m + 1 > 0
  BY <1>1
<1>14. Streaming(s1, c1, m + 1, n)'
  <2>1. /\ line' = line /\ tail' = tail /\ head' = head /\ ring' = ring
        /\ ran'.urgent = ran.urgent /\ Len(sending') = 3
    BY <1>2
  <2> DEFINE k == m + 1
  <2>2. /\ k \in Nat /\ n \in Nat /\ n < RxSize /\ 3 * k = Len(line') + n + Len(sending')
        /\ k # 0 /\ k > 0 /\ head' = Place(tail', n)
    BY <1>1, <1>13, <2>1
  <2>3. /\ \A i \in 1..k : /\ c1[i] \in Command
                           /\ s1[3 * i - 2] = ByteOf(c1[i], 1) /\ s1[3 * i - 1] = ByteOf(c1[i], 2)
                           /\ s1[3 * i] = Newline
        /\ \A i \in 1..(k - 1) : c1[i + 1].at = After(c1[i])
        /\ c1[1].at = Following(ran'.urgent) /\ number' = After(c1[k])
    BY <1>7, <1>8, <1>9, <2>1
  <2>4. /\ \A j \in 1..Len(line') : line'[j] = s1[j]
        /\ \A j \in 1..n : ring'[Place(tail', j - 1)] = s1[Len(line') + j]
        /\ \A j \in 1..Len(sending') : sending'[j] = s1[Len(line') + n + j]
    BY <1>10, <1>11, <1>12, <2>1
  <2> HIDE DEF k
  <2>5. Streaming(s1, c1, k, n)'
    BY <2>2, <2>3, <2>4 DEF Streaming
  <2> QED
    BY <2>5 DEF k
<1> QED
  BY <1>14

(* What the action property asks of a step. *)
RunsInOrder ==
  ran' # ran => /\ Whole(ran'.text)
                /\ ran'.urgent # ran.urgent => ran'.urgent = Following(ran.urgent)

CalmOn ==
  /\ IntakeShapes /\ Reading /\ \E s, c, m, n : Streaming(s, c, m, n)

(* The thread moves on without touching a line. *)
LEMMA ReadingKeeps ==
  ASSUME CalmOn, Calm, Reading',
         UNCHANGED <<ring, head, tail, line, sending, number, ran, deferred>>
  PROVE  CalmOn' /\ RunsInOrder
<1>1. PICK s, c, m, n : Streaming(s, c, m, n)
  BY DEF CalmOn
<1>2. Streaming(s, c, m, n)'
  BY <1>1, StreamSame
<1>3. IntakeShapes'
  BY DEF CalmOn, IntakeShapes
<1> QED
  BY <1>2, <1>3 DEF CalmOn, RunsInOrder

LEMMA ByteAddedKeeps ==
  ASSUME CalmOn, Calm, ByteAdded
  PROVE  CalmOn' /\ RunsInOrder
<1>1. PICK s, c, m, n : Streaming(s, c, m, n)
  BY DEF CalmOn
<1>2. /\ read.at = "store" /\ read.byte # Newline /\ tail' = Next1(read.tail)
      /\ read' = [at |-> "check"]
      /\ UNCHANGED <<ring, head, discard, resyncs, seenResyncs, deferred, handling, sending,
                     number, ran>>
  BY DEF ByteAdded, TakeByte, threadVars, hostVars
<1>3. IntakeShapes /\ Reading /\ read.tail = tail
  BY <1>2 DEF CalmOn, Reading
<1>4. Len(line) # 2 /\ Len(line) \in {0, 1, 2}
  BY <1>1, <1>2, <1>3, NextByte
<1>5. line' = Append(line, read.byte) /\ UNCHANGED discarding
  <2>1. Len(line) = 0 \/ Len(line) = 1
    BY <1>4
  <2>2. Len(line) < LineMax
    <3> DEFINE l == Len(line)
    <3>1. (l = 0 \/ l = 1) /\ LineMax \in Nat /\ LineMax >= 2
      BY <2>1, IntakeConstants
    <3> HIDE DEF l
    <3>2. l < LineMax
      BY <3>1
    <3> QED
      BY <3>2 DEF l
  <2> QED
    BY <2>2 DEF ByteAdded
<1>6. Streaming(s, c, m, n - 1)' /\ line' \in Seq(AnyByte) /\ Len(line') <= 2
  BY <1>1, <1>2, <1>3, <1>5, StreamTaken
<1>7. tail' \in 0..(RxSize - 1)
  BY <1>2, <1>3, Next1Is DEF IntakeShapes
<1>8. IntakeShapes'
  BY <1>2, <1>3, <1>6, <1>7 DEF IntakeShapes
<1>9. Reading'
  BY <1>2, <1>3, <1>5 DEF Reading
<1> QED
  BY <1>2, <1>6, <1>8, <1>9 DEF CalmOn, RunsInOrder

(* A complete line is deferred, runs, or runs and draws. *)
LEMMA LineKeeps ==
  ASSUME CalmOn, Calm, LineDeferred \/ LineRuns
  PROVE  CalmOn' /\ RunsInOrder
<1>1. PICK s, c, m, n : Streaming(s, c, m, n)
  BY DEF CalmOn
<1>2. /\ read.at = "store" /\ read.byte = Newline /\ tail' = Next1(read.tail)
      /\ read' = [at |-> "check"] /\ line' = <<>>
      /\ UNCHANGED <<ring, head, discard, resyncs, seenResyncs, discarding, handling, sending,
                     number>>
  BY DEF LineDeferred, LineRuns, TakeByte, threadVars, hostVars
<1>3. IntakeShapes /\ Reading /\ read.tail = tail
  BY <1>2 DEF CalmOn, Reading
<1>4. /\ line = <<ByteOf(c[1], 1), ByteOf(c[1], 2)>> /\ Whole(line)
      /\ Critical(line) => Head(line).number = Following(ran.urgent)
      /\ Critical(line) => After(c[1]) = Following(Head(line).number)
      /\ ~Critical(line) => After(c[1]) = Following(ran.urgent)
  BY <1>1, <1>2, <1>3, LineIsWhole
<1>5. tail' \in 0..(RxSize - 1) /\ line' \in Seq(AnyByte) /\ Len(line') <= 2
  BY <1>2, <1>3, Next1Is DEF IntakeShapes
<1>6. ran.urgent \in 0..(Numbers - 1) /\ line \in Seq(AnyByte) /\ deferred \in Seq(Seq(AnyByte))
  BY <1>3 DEF IntakeShapes
<1>7. CASE LineDeferred
  <2>1. ~Critical(line) /\ ran' = ran
    BY <1>7 DEF LineDeferred, Defers, Defer
  <2>2. \E s1, c1, m1, n1 : Streaming(s1, c1, m1, n1)'
    BY <1>1, <1>2, <1>3, <1>4, <2>1, StreamLine
  <2>3. /\ deferred' \in Seq(Seq(AnyByte))
        /\ \A i \in 1..Len(deferred') : Whole(deferred'[i]) /\ ~Critical(deferred'[i])
    <3>1. deferred' = deferred \/ deferred' = Append(deferred, line)
      BY <1>7 DEF LineDeferred, Defer
    <3>2. CASE deferred' = deferred
      BY <1>3, <3>2 DEF IntakeShapes
    <3>3. CASE deferred' = Append(deferred, line)
      <4>1. /\ deferred' \in Seq(Seq(AnyByte)) /\ Len(deferred') = Len(deferred) + 1
            /\ Len(deferred) \in Nat
            /\ \A i \in 1..Len(deferred') :
                 deferred'[i] = IF i = Len(deferred) + 1 THEN line ELSE deferred[i]
        BY <1>6, <3>3
      <4>2. \A i \in 1..Len(deferred) : Whole(deferred[i]) /\ ~Critical(deferred[i])
        BY <1>3 DEF IntakeShapes
      <4> SUFFICES ASSUME NEW i \in 1..Len(deferred')
                   PROVE  Whole(deferred'[i]) /\ ~Critical(deferred'[i])
        BY <4>1
      <4>3. CASE i = Len(deferred) + 1
        BY <1>4, <2>1, <4>1, <4>3
      <4>4. CASE i # Len(deferred) + 1
        <5>1. i \in 1..Len(deferred)
          BY <4>1, <4>4
        <5> QED
          BY <4>1, <4>2, <4>4, <5>1
      <4> QED
        BY <4>3, <4>4
    <3> QED
      BY <3>1, <3>2, <3>3
  <2>4. IntakeShapes'
    BY <1>2, <1>3, <1>5, <2>1, <2>3 DEF IntakeShapes
  <2>5. Reading'
    BY <1>2, <1>3 DEF Reading
  <2> QED
    BY <2>1, <2>2, <2>4, <2>5 DEF CalmOn, RunsInOrder
<1>8. CASE LineRuns
  <2>1. /\ ran'.text = line /\ deferred' = deferred
        /\ ran'.urgent = IF Critical(line) THEN Head(line).number ELSE ran.urgent
    BY <1>8 DEF LineRuns, Run
  <2>2. After(c[1]) = Following(ran'.urgent)
    BY <1>4, <2>1
  <2>3. \E s1, c1, m1, n1 : Streaming(s1, c1, m1, n1)'
    BY <1>1, <1>2, <1>3, <2>2, StreamLine
  <2>4. ran'.urgent \in 0..(Numbers - 1)
    BY <1>4, <1>6, <2>1, FollowingIs
  <2>5. IntakeShapes'
    BY <1>2, <1>3, <1>5, <2>1, <2>4 DEF IntakeShapes
  <2>6. Reading'
    BY <1>2, <1>3 DEF Reading
  <2> QED
    BY <1>4, <2>1, <2>3, <2>5, <2>6 DEF CalmOn, RunsInOrder
<1> QED
  BY <1>7, <1>8

LEMMA DrawingRuns ==
  ASSUME CalmOn, Calm, LineRunsAndDraws
  PROVE  RunsInOrder
<1>1. PICK s, c, m, n : Streaming(s, c, m, n)
  BY DEF CalmOn
<1>2. read.at = "store" /\ read.byte = Newline /\ IntakeShapes /\ Reading
  BY DEF LineRunsAndDraws, CalmOn
<1>3. Whole(line) /\ (Critical(line) => Head(line).number = Following(ran.urgent))
  BY <1>1, <1>2, LineIsWhole
<1>4. /\ ran'.text = line
      /\ ran'.urgent = IF Critical(line) THEN Head(line).number ELSE ran.urgent
  BY DEF LineRunsAndDraws, Run
<1> QED
  BY <1>3, <1>4 DEF RunsInOrder

LEMMA ServiceKeeps ==
  ASSUME CalmOn, Calm, ServiceDeferred
  PROVE  CalmOn' /\ RunsInOrder
<1>1. PICK s, c, m, n : Streaming(s, c, m, n)
  BY DEF CalmOn
<1>2. /\ deferred # <<>> /\ deferred' = Tail(deferred) /\ Run(Head(deferred))
      /\ UNCHANGED <<ring, head, tail, discard, resyncs, seenResyncs, line, discarding, handling,
                     read, sending, number>>
  BY DEF ServiceDeferred, portVars, hostVars
<1>3. IntakeShapes /\ Reading
  BY DEF CalmOn
<1>4. /\ deferred \in Seq(Seq(AnyByte))
      /\ \A i \in 1..Len(deferred) : Whole(deferred[i]) /\ ~Critical(deferred[i])
  BY <1>3 DEF IntakeShapes
<1>5. /\ Head(deferred) = deferred[1] /\ 1 \in 1..Len(deferred)
      /\ deferred' \in Seq(Seq(AnyByte)) /\ Len(deferred') = Len(deferred) - 1
      /\ Len(deferred) \in Nat
      /\ \A i \in 1..Len(deferred') : deferred'[i] = deferred[i + 1]
  BY <1>2, <1>4
<1>6. Whole(Head(deferred)) /\ ~Critical(Head(deferred))
  BY <1>4, <1>5
<1>7. ran'.text = Head(deferred) /\ ran'.urgent = ran.urgent
  BY <1>2, <1>6 DEF Run
<1>8. \A i \in 1..Len(deferred') : Whole(deferred'[i]) /\ ~Critical(deferred'[i])
  <2> SUFFICES ASSUME NEW i \in 1..Len(deferred')
               PROVE  Whole(deferred'[i]) /\ ~Critical(deferred'[i])
    OBVIOUS
  <2>1. i + 1 \in 1..Len(deferred)
    BY <1>5
  <2> QED
    BY <1>4, <1>5, <2>1
<1>9. Streaming(s, c, m, n)'
  BY <1>1, <1>2, <1>7, StreamSame
<1>10. IntakeShapes'
  BY <1>2, <1>3, <1>5, <1>7, <1>8 DEF IntakeShapes
<1>11. Reading'
  BY <1>2, <1>3 DEF Reading
<1> QED
  BY <1>6, <1>7, <1>9, <1>10, <1>11 DEF CalmOn, RunsInOrder

LEMMA HostKeeps ==
  ASSUME CalmOn, Calm, resyncs \in Nat, HostSends
  PROVE  /\ (Calm' => CalmOn') /\ RunsInOrder
<1>1. PICK s, c, m, n : Streaming(s, c, m, n)
  BY DEF CalmOn
<1>2. IntakeShapes /\ Reading /\ resyncs = 0 /\ host = 1
  BY DEF CalmOn, Calm
<1>3. CASE HostSend
  <2>1. /\ sending # <<>> /\ sending' = Tail(sending)
        /\ UNCHANGED <<seenResyncs, line, discarding, deferred, handling, read, number, ran>>
        /\ Receive(IF Head(sending) = Newline THEN Head(sending)
                   ELSE [Head(sending) EXCEPT !.side = resyncs])
    BY <1>3 DEF HostSend, parseVars, threadVars
  <2>2. (IF Head(sending) = Newline THEN Head(sending) ELSE [Head(sending) EXCEPT !.side = resyncs])
          = Head(sending)
    <3>1. Head(sending) \in AnyByte
      BY <1>2, <2>1 DEF IntakeShapes
    <3> DEFINE b == Head(sending)
    <3>2. b \in AnyByte
      BY <3>1
    <3> HIDE DEF b
    <3>3. [b EXCEPT !.side = 0] = b
      BY <3>2 DEF AnyByte
    <3> QED
      BY <1>2, <3>3 DEF b
  <2>3. Receive(Head(sending)) /\ ~discard
    BY <1>2, <2>1, <2>2 DEF Reading
  <2> SUFFICES ASSUME Calm' PROVE CalmOn' /\ RunsInOrder
    BY <2>1 DEF RunsInOrder
  <2>4. /\ Next1(head) # tail /\ ring' = [ring EXCEPT ![head] = Head(sending)]
        /\ head' = Next1(head) /\ UNCHANGED <<tail, discard, resyncs>>
    BY <1>2, <2>3 DEF Receive, Calm
  <2>5. Streaming(s, c, m, n + 1)' /\ IntakeShapes'
    BY <1>1, <1>2, <2>1, <2>4, StreamSent
  <2>6. Reading'
    <3>1. /\ tail \in 0..(RxSize - 1) /\ head \in 0..(RxSize - 1)
          /\ ring \in [0..(RxSize - 1) -> AnyByte]
      BY <1>2 DEF IntakeShapes
    <3>2. head # tail => ring'[tail] = ring[tail]
      BY <2>4, <3>1
    <3> QED
      BY <1>2, <2>1, <2>4, <3>2 DEF Reading
  <2> QED
    BY <2>1, <2>5, <2>6 DEF CalmOn, RunsInOrder
<1>4. CASE \E kind \in Kinds : HostStart(kind)
  <2>1. PICK kind \in Kinds : HostStart(kind)
    BY <1>4
  <2>2. number \in 0..(Numbers - 1)
    BY <1>2 DEF IntakeShapes
  <2> DEFINE d == [kind |-> kind, at |-> number]
  <2>3. PICK e : e = d
    OBVIOUS
  <2>4. e \in Command /\ e.at = number /\ e.kind = kind
    BY <2>2, <2>3 DEF Command
  <2>5. /\ sending = <<>>
        /\ UNCHANGED <<ring, head, tail, discard, resyncs, seenResyncs, line, discarding, deferred,
                       handling, read, ran>>
    BY <2>1 DEF HostStart, portVars, parseVars, threadVars
  <2>6. sending' = <<ByteOf(e, 1), ByteOf(e, 2), Newline>>
    BY <1>2, <2>1, <2>4 DEF HostStart, ByteOf
  <2>7. number' = After(e)
    BY <2>1, <2>4 DEF HostStart, After, Following
  <2>8. \E s1, c1, m1, n1 : Streaming(s1, c1, m1, n1)'
    BY <1>1, <1>2, <2>4, <2>5, <2>6, <2>7, StreamStarts
  <2>9. sending' \in Seq(AnyByte) /\ number' \in 0..(Numbers - 1)
    <3>1. /\ ByteOf(e, 1) \in AnyByte /\ ByteOf(e, 2) \in AnyByte /\ Newline \in AnyByte
          /\ After(e) \in 0..(Numbers - 1)
      BY <2>4, BytesAre, NewlineIs
    <3> DEFINE x == ByteOf(e, 1)
               y == ByteOf(e, 2)
               z == Newline
    <3>2. x \in AnyByte /\ y \in AnyByte /\ z \in AnyByte /\ sending' = <<x, y, z>>
      BY <2>6, <3>1
    <3> HIDE DEF x, y, z
    <3>3. sending' \in Seq(AnyByte)
      BY <3>2
    <3> QED
      BY <2>7, <3>1, <3>3
  <2>10. IntakeShapes'
    BY <1>2, <2>5, <2>9 DEF IntakeShapes
  <2>11. Reading'
    BY <1>2, <2>5 DEF Reading
  <2> QED
    BY <2>5, <2>8, <2>10, <2>11 DEF CalmOn, RunsInOrder
<1> QED
  BY <1>3, <1>4 DEF HostSends

LEMMA LinesStep ==
  ASSUME LinesInv, [Next]_vars
  PROVE  LinesInv' /\ (Calm => RunsInOrder)
<1>1. resyncs \in Nat /\ host \in Nat /\ host >= 1 /\ innerDraws \in Nat /\ (Calm => CalmOn)
  BY DEF LinesInv, CalmOn
<1>2. /\ resyncs' \in Nat /\ resyncs' >= resyncs /\ host' \in Nat /\ host' >= host
      /\ innerDraws' \in Nat /\ innerDraws' >= innerDraws
  <2>1. (resyncs' = resyncs \/ resyncs' = resyncs + 1) /\ (host' = host \/ host' = host + 1)
        /\ (innerDraws' = innerDraws \/ innerDraws' = innerDraws + 1)
    BY DEF Next, Thread, Host, HostSends, HostSend, HostStart, NewHost, Receive, PollBegin, PollEnd,
           ReadCheck, ReadByte, ReadTail, ByteDiscarded, ByteAdded, EmptyLine, LineDeferred,
           LineRuns, LineRunsAndDraws, ServiceDeferred, DeferredDone, MainDraw, DrawEnd, TakeByte,
           vars, portVars, hostVars, threadVars
  <2> QED
    BY <1>1, <2>1
<1>3. Calm' => Calm
  BY <1>1, <1>2 DEF Calm
<1> SUFFICES ASSUME Calm PROVE (Calm' => CalmOn') /\ RunsInOrder
  <2>1. (Calm' => CalmOn') => LinesInv'
    BY <1>1, <1>2 DEF LinesInv, CalmOn
  <2> QED
    BY <1>3, <2>1
<1>4. CalmOn /\ Reading /\ IntakeShapes
  BY <1>1 DEF CalmOn
<1>5. CASE PollBegin
  <2>1. UNCHANGED <<ring, head, tail, line, sending, number, ran, deferred>> /\ Reading'
    BY <1>4, <1>5 DEF PollBegin, Reading, Calm, portVars, hostVars
  <2> QED
    BY <1>4, <2>1, ReadingKeeps
<1>6. CASE PollEnd \/ ReadCheck \/ ReadByte \/ ReadTail
  <2>1. UNCHANGED <<ring, head, tail, line, sending, number, ran, deferred>> /\ Reading'
    BY <1>4, <1>6 DEF PollEnd, ReadCheck, ReadByte, ReadTail, Reading, portVars, parseVars,
                      threadVars, hostVars
  <2> QED
    BY <1>4, <2>1, ReadingKeeps
<1>7. CASE ByteDiscarded
  BY <1>4, <1>7 DEF ByteDiscarded, Reading
<1>8. CASE ByteAdded
  BY <1>4, <1>8, ByteAddedKeeps
<1>9. CASE EmptyLine
  <2>1. PICK s, c, m, n : Streaming(s, c, m, n)
    BY <1>4 DEF CalmOn
  <2>2. read.at = "store" /\ read.byte = Newline /\ line = <<>>
    BY <1>9 DEF EmptyLine, TakeByte
  <2>3. Len(line) = 2
    BY <1>4, <2>1, <2>2, NextByte
  <2> QED
    BY <2>2, <2>3
<1>10. CASE LineDeferred \/ LineRuns
  BY <1>4, <1>10, LineKeeps
<1>11. CASE LineRunsAndDraws
  <2>1. innerDraws' = innerDraws + 1
    BY <1>11 DEF LineRunsAndDraws
  <2>2. ~Calm'
    BY <1>1, <2>1 DEF Calm
  <2> QED
    BY <1>4, <1>11, <2>2, DrawingRuns
<1>12. CASE ServiceDeferred
  BY <1>4, <1>12, ServiceKeeps
<1>13. CASE DeferredDone \/ MainDraw
  <2>1. UNCHANGED <<ring, head, tail, line, sending, number, ran, deferred>> /\ Reading'
    BY <1>4, <1>13 DEF DeferredDone, MainDraw, Reading, portVars, parseVars, hostVars
  <2> QED
    BY <1>4, <2>1, ReadingKeeps
<1>14. CASE DrawEnd
  <2>1. UNCHANGED <<ring, head, tail, line, sending, number, ran, deferred>> /\ Reading'
    BY <1>4, <1>14 DEF DrawEnd, Reading, portVars, hostVars
  <2> QED
    BY <1>4, <2>1, ReadingKeeps
<1>15. CASE HostSends
  BY <1>1, <1>4, <1>15, HostKeeps
<1>16. CASE NewHost
  <2>1. host' = host + 1 /\ ran' = ran
    BY <1>16 DEF NewHost
  <2>2. ~Calm'
    BY <1>1, <2>1 DEF Calm
  <2> QED
    BY <2>1, <2>2 DEF RunsInOrder
<1>17. CASE UNCHANGED vars
  <2>1. UNCHANGED <<ring, head, tail, line, sending, number, ran, deferred>> /\ Reading'
    BY <1>4, <1>17 DEF vars, Reading, portVars, parseVars, threadVars, hostVars
  <2> QED
    BY <1>4, <2>1, ReadingKeeps
<1> QED
  BY <1>5, <1>6, <1>7, <1>8, <1>9, <1>10, <1>11, <1>12, <1>13, <1>14, <1>15, <1>16, <1>17
     DEF Next, Thread, Host

(* For rings, queues and line buffers of any size, wherever the interrupt  *)
(* falls between the accesses of read() and whichever parser meets a byte: *)
(* short of an overflow, another host and a command that draws while it is *)
(* parsed, what runs is a whole line, and no urgent line is lost or late   *)
(* (read, pollSerialGui, enqueueDeferredCommand).                          *)
THEOREM LinesKept == Spec => LinesWholeAndInOrder
<1>1. LinesInv /\ [Next]_vars => LinesInv'
  BY LinesStep
<1>2. ASSUME LinesInv, [Next]_vars, ran' # ran, resyncs = 0 /\ host = 1 /\ innerDraws = 0
      PROVE  /\ Whole(ran'.text)
             /\ ran'.urgent # ran.urgent => ran'.urgent = (ran.urgent + 1) % Numbers
  <2>1. Calm /\ RunsInOrder
    BY <1>2, LinesStep DEF Calm
  <2> QED
    BY <1>2, <2>1 DEF RunsInOrder, Following
<1> QED
  BY <1>1, <1>2, LinesInitInv, PTL DEF Spec, LinesWholeAndInOrder

-----------------------------------------------------------------------------
(* TouchHmi: the shapes of its records, and what each operation does.      *)

LEMMA TouchConstants ==
  /\ TapTicks \in Nat \ {0} /\ RepeatTicks \in Nat \ {0} /\ HoldTicks \in Nat \ {0}
  /\ ServiceTicks \in Nat \ {0} /\ DriveTicks \in Nat \ {0} /\ CooldownTicks \in Nat \ {0}
  /\ IdleTicks \in Nat \ {0} /\ HoldTicks <= ServiceTicks
BY TouchAssumption

IsTouch(t) ==
  t \in [down : BOOLEAN, key : {t.key}, age : 0..ServiceTicks, canceled : BOOLEAN,
         holdSent : BOOLEAN, repeated : BOOLEAN, block : BOOLEAN]
IsDisplay(d) ==
  d \in [usable : BOOLEAN, init : {"IDLE", "RUNNING"}, attempt : {1, 2}, since : 0..CooldownTicks]
IsPanel(p) ==
  /\ p \in [ui : {p.ui}, touch : {p.touch}, drive : {p.drive}, steer : {p.steer}, age : {p.age},
            idle : {p.idle}, display : {p.display}]
  /\ IsTouch(p.touch) /\ IsDisplay(p.display)

LEMMA ResetIs ==
  ASSUME NEW t, IsTouch(t)
  PROVE  /\ IsTouch(Reset(t)) /\ Reset(t).block = t.block /\ ~Reset(t).down
         /\ IsTouch(NoTouch) /\ ~NoTouch.down /\ ~NoTouch.block
<1>1. t.block \in BOOLEAN
  BY DEF IsTouch
<1>2. 0 \in 0..ServiceTicks
  BY TouchConstants
<1>3. IsTouch(NoTouch) /\ ~NoTouch.down /\ ~NoTouch.block
  BY <1>2 DEF IsTouch, NoTouch
<1>4. Reset(t) = [NoTouch EXCEPT !.block = t.block]
  BY DEF Reset
<1>5. IsTouch([NoTouch EXCEPT !.block = t.block])
      /\ [NoTouch EXCEPT !.block = t.block].block = t.block
      /\ [NoTouch EXCEPT !.block = t.block].down = NoTouch.down
  BY <1>1, <1>3 DEF IsTouch
<1> QED
  BY <1>3, <1>4, <1>5

(* What the operations do to the fields that matter here. *)
LEMMA StopDriveIs ==
  ASSUME NEW p, IsPanel(p)
  PROVE  /\ IsPanel(StopDriveTest(p)) /\ StopDriveTest(p).touch = p.touch
         /\ StopDriveTest(p).ui = p.ui /\ StopDriveTest(p).drive = NoKey
         /\ StopDriveTest(p).steer = p.steer /\ StopDriveTest(p).display = p.display
BY DEF IsPanel, StopDriveTest

LEMMA StopAllIs ==
  ASSUME NEW p, IsPanel(p)
  PROVE  /\ IsPanel(StopAllManualTest(p)) /\ StopAllManualTest(p).touch = p.touch
         /\ StopAllManualTest(p).ui = p.ui /\ ~Running(StopAllManualTest(p))
         /\ StopAllManualTest(p).display = p.display
<1> DEFINE r == StopDriveTest(p)
<1>1. IsPanel(r) /\ r.touch = p.touch /\ r.ui = p.ui /\ r.drive = NoKey /\ r.display = p.display
  BY StopDriveIs
<1>2. StopAllManualTest(p) = [r EXCEPT !.steer = NoKey]
  BY DEF StopAllManualTest
<1> HIDE DEF r
<1> QED
  BY <1>1, <1>2 DEF IsPanel, Running

LEMMA InvalidateIs ==
  ASSUME NEW p, IsPanel(p)
  PROVE  /\ IsPanel(InvalidateTouch(p)) /\ ~InvalidateTouch(p).touch.down
         /\ InvalidateTouch(p).ui = p.ui /\ InvalidateTouch(p).drive = p.drive
         /\ InvalidateTouch(p).steer = p.steer /\ InvalidateTouch(p).display = p.display
<1>1. IsTouch(Reset(p.touch)) /\ ~Reset(p.touch).down
  BY ResetIs DEF IsPanel
<1>2. InvalidateTouch(p) = [p EXCEPT !.touch = Reset(p.touch)]
  BY DEF InvalidateTouch
<1> QED
  BY <1>1, <1>2 DEF IsPanel

(* setMenu forgets the press, and starts nothing. *)
LEMMA GoToIs ==
  ASSUME NEW p, IsPanel(p), NEW next
  PROVE  /\ IsPanel(GoTo(p, next)) /\ ~GoTo(p, next).touch.down
         /\ GoTo(p, next).display = p.display
         /\ ~Running(p) => ~Running(GoTo(p, next))
         /\ next.menu # p.ui.menu => ~Running(GoTo(p, next))
<1> DEFINE s == IF next.menu # p.ui.menu /\ (Running(p) \/ p.ui.menu = "ESC_MANUAL_TEST")
                THEN StopAllManualTest(p) ELSE p
           v == InvalidateTouch(s)
<1>1. /\ IsPanel(s) /\ s.display = p.display
      /\ ~Running(p) => ~Running(s)
      /\ next.menu # p.ui.menu => ~Running(s)
  <2>1. CASE next.menu # p.ui.menu /\ (Running(p) \/ p.ui.menu = "ESC_MANUAL_TEST")
    BY <2>1, StopAllIs
  <2>2. CASE ~(next.menu # p.ui.menu /\ (Running(p) \/ p.ui.menu = "ESC_MANUAL_TEST"))
    BY <2>2
  <2> QED
    BY <2>1, <2>2
<1>2. GoTo(p, next) = [v EXCEPT !.ui = next, !.idle = 0]
  BY DEF GoTo
<1> HIDE DEF s
<1>3. IsPanel(v) /\ ~v.touch.down /\ v.drive = s.drive /\ v.steer = s.steer
      /\ v.display = s.display
  BY <1>1, InvalidateIs
<1> HIDE DEF v
<1>4. /\ IsPanel(GoTo(p, next)) /\ GoTo(p, next).touch = v.touch
      /\ GoTo(p, next).drive = v.drive /\ GoTo(p, next).steer = v.steer
      /\ GoTo(p, next).display = v.display
  BY <1>2, <1>3 DEF IsPanel
<1> QED
  BY <1>1, <1>3, <1>4 DEF Running

(* The keys that move the vehicle are on the test page only, one in each   *)
(* of four zones (touchKeyAt).                                             *)
LEMMA MotionZones ==
  ASSUME NEW u, NEW zone, TouchKeyAt(u, zone) \in MotionKeys
  PROVE  u.menu = "ESC_MANUAL_TEST" /\ TouchKeyAt(u, zone) = TestKey(zone)
<1>1. ASSUME InMiddle(zone) \/ InBottom(zone)  PROVE Slot(zone) \in {0, 1, 2}
  <2>1. \E i \in 0..2 : zone \in {Middle[i + 1], Bottom[i + 1]}
    <3>1. /\ Middle[0 + 1] = "mid0" /\ Middle[1 + 1] = "mid1" /\ Middle[2 + 1] = "mid2"
          /\ Bottom[0 + 1] = "bottom0" /\ Bottom[1 + 1] = "bottom1" /\ Bottom[2 + 1] = "bottom2"
      BY DEF Middle, Bottom
    <3>2. 0 \in 0..2 /\ 1 \in 0..2 /\ 2 \in 0..2
      OBVIOUS
    <3> QED
      BY <1>1, <3>1, <3>2 DEF InMiddle, InBottom
  <2>2. Slot(zone) \in 0..2
    BY <2>1 DEF Slot
  <2> QED
    BY <2>2
<1>2. ASSUME InMiddle(zone) \/ InBottom(zone)
      PROVE  CardKeys[Slot(zone) + 1] \notin MotionKeys /\ FooterKey(zone) \notin MotionKeys
  <2>1. /\ CardKeys[0 + 1] \notin MotionKeys /\ CardKeys[1 + 1] \notin MotionKeys
        /\ CardKeys[2 + 1] \notin MotionKeys
    BY DEF CardKeys, MotionKeys
  <2>2. /\ <<"LEFT", "OK", "RIGHT">>[0 + 1] \notin MotionKeys
        /\ <<"LEFT", "OK", "RIGHT">>[1 + 1] \notin MotionKeys
        /\ <<"LEFT", "OK", "RIGHT">>[2 + 1] \notin MotionKeys
    BY DEF MotionKeys
  <2> QED
    BY <1>1, <1>2, <2>1, <2>2 DEF FooterKey
<1>3. NoKey \notin MotionKeys /\ "TOP_LEFT" \notin MotionKeys /\ "MENU" \notin MotionKeys
  BY DEF NoKey, MotionKeys
<1> QED
  BY <1>2, <1>3 DEF TouchKeyAt

LEMMA OneZoneEach ==
  ASSUME NEW z1, NEW z2, TestKey(z1) \in MotionKeys, TestKey(z2) = TestKey(z1)
  PROVE  z1 = z2
BY DEF TestKey, MotionKeys, NoKey

-----------------------------------------------------------------------------
(* The keys.                                                               *)

(* A finger holds the key of the test that runs. *)
Holding(p) ==
  /\ p.touch.down /\ p.touch.holdSent /\ ~p.touch.canceled /\ p.touch.key \in MotionKeys
  /\ \/ p.drive = p.touch.key /\ p.steer = NoKey
     \/ p.steer = p.touch.key /\ p.drive = NoKey

(* A key that moves nothing starts nothing. *)
LEMMA OtherKeys ==
  ASSUME NEW p, IsPanel(p), ~Running(p), NEW key, key \notin MotionKeys, NEW allowed
  PROVE  /\ IsPanel(HandleSoftKey(p, key, allowed)) /\ ~Running(HandleSoftKey(p, key, allowed))
         /\ HandleSoftKey(p, key, allowed).display = p.display
         /\ \/ /\ HandleSoftKey(p, key, allowed).touch = p.touch
               /\ HandleSoftKey(p, key, allowed).ui = p.ui
            \/ ~HandleSoftKey(p, key, allowed).touch.down
<1> DEFINE next == Destination(p.ui, key)
           v == InvalidateTouch(p)
<1>1. CASE p.ui.menu = "ESC_MANUAL_TEST" /\ key # "TOP_LEFT"
  <2>1. HandleSoftKey(p, key, allowed) = ManualKey(p, key, allowed)
    BY <1>1 DEF HandleSoftKey
  <2>2. ManualKey(p, key, allowed) = p \/ ManualKey(p, key, allowed) = StopAllManualTest(p)
    BY DEF ManualKey, MotionKeys
  <2> QED
    BY <2>1, <2>2, StopAllIs
<1>2. CASE /\ ~(p.ui.menu = "ESC_MANUAL_TEST" /\ key # "TOP_LEFT")
           /\ next # p.ui /\ next.menu = p.ui.menu
  <2>1. HandleSoftKey(p, key, allowed) = [v EXCEPT !.ui = next]
    BY <1>2 DEF HandleSoftKey
  <2> HIDE DEF next
  <2>2. IsPanel(v) /\ ~v.touch.down /\ v.drive = p.drive /\ v.steer = p.steer
        /\ v.display = p.display
    BY InvalidateIs
  <2> HIDE DEF v
  <2>3. /\ IsPanel([v EXCEPT !.ui = next]) /\ [v EXCEPT !.ui = next].touch = v.touch
        /\ [v EXCEPT !.ui = next].drive = v.drive /\ [v EXCEPT !.ui = next].steer = v.steer
        /\ [v EXCEPT !.ui = next].display = v.display
    BY <2>2 DEF IsPanel
  <2> QED
    BY <2>1, <2>2, <2>3 DEF Running
<1>3. CASE /\ ~(p.ui.menu = "ESC_MANUAL_TEST" /\ key # "TOP_LEFT")
           /\ next # p.ui /\ next.menu # p.ui.menu
  <2>1. HandleSoftKey(p, key, allowed) = GoTo(p, next)
    BY <1>3 DEF HandleSoftKey
  <2> QED
    BY <2>1, GoToIs
<1>4. CASE ~(p.ui.menu = "ESC_MANUAL_TEST" /\ key # "TOP_LEFT") /\ next = p.ui
  BY <1>4 DEF HandleSoftKey
<1> QED
  BY <1>1, <1>2, <1>3, <1>4

(* A key that moves the vehicle starts its own test, when nothing runs. *)
LEMMA MotionKeyIs ==
  ASSUME NEW p, IsPanel(p), ~Running(p), p.ui.menu = "ESC_MANUAL_TEST",
         NEW key \in MotionKeys, NEW allowed
  PROVE  /\ IsPanel(HandleSoftKey(p, key, allowed))
         /\ HandleSoftKey(p, key, allowed).display = p.display
         /\ HandleSoftKey(p, key, allowed).touch = p.touch
         /\ HandleSoftKey(p, key, allowed).ui = p.ui
         /\ \/ ~Running(HandleSoftKey(p, key, allowed))
            \/ /\ HandleSoftKey(p, key, allowed).drive = key
               /\ HandleSoftKey(p, key, allowed).steer = NoKey
            \/ /\ HandleSoftKey(p, key, allowed).steer = key
               /\ HandleSoftKey(p, key, allowed).drive = NoKey
<1>1. p.drive = NoKey /\ p.steer = NoKey
  BY DEF Running
<1>2. \/ HandleSoftKey(p, key, allowed) = p
      \/ HandleSoftKey(p, key, allowed) = [p EXCEPT !.drive = key, !.age = 0]
      \/ HandleSoftKey(p, key, allowed) = [p EXCEPT !.steer = key]
  <2>1. HandleSoftKey(p, key, allowed) = ManualKey(p, key, allowed)
    BY DEF HandleSoftKey, MotionKeys
  <2>2. \/ ManualKey(p, key, allowed) = RunDriveTest(p, key, allowed)
        \/ ManualKey(p, key, allowed) = RunSteeringTest(p, key, allowed)
    BY DEF ManualKey, MotionKeys
  <2> QED
    BY <1>1, <2>1, <2>2 DEF RunDriveTest, RunSteeringTest
<1>3. CASE HandleSoftKey(p, key, allowed) = p
  BY <1>3
<1>4. CASE HandleSoftKey(p, key, allowed) = [p EXCEPT !.drive = key, !.age = 0]
  BY <1>1, <1>4 DEF IsPanel
<1>5. CASE HandleSoftKey(p, key, allowed) = [p EXCEPT !.steer = key]
  BY <1>1, <1>5 DEF IsPanel
<1> QED
  BY <1>2, <1>3, <1>4, <1>5

(* Holding the corner key opens the service pages, or nothing happens. *)
LEMMA ServiceIs ==
  ASSUME NEW p, IsPanel(p), NEW allowed
  PROVE  \/ EnterServiceMode(p, allowed) = p
         \/ /\ IsPanel(EnterServiceMode(p, allowed)) /\ ~EnterServiceMode(p, allowed).touch.down
            /\ ~Running(EnterServiceMode(p, allowed))
            /\ EnterServiceMode(p, allowed).display = p.display
<1>1. CASE ~allowed \/ Running(p)
  BY <1>1 DEF EnterServiceMode
<1>2. CASE ~(~allowed \/ Running(p))
  <2> DEFINE g == GoTo(p, SetMenu(p.ui, "SYSTEM_ROOT"))
  <2>1. EnterServiceMode(p, allowed) = [g EXCEPT !.touch = [g.touch EXCEPT !.block = TRUE]]
    BY <1>2 DEF EnterServiceMode
  <2>2. IsPanel(g) /\ ~g.touch.down /\ ~Running(g) /\ g.display = p.display
    BY <1>2, GoToIs
  <2> HIDE DEF g
  <2> DEFINE b == [g.touch EXCEPT !.block = TRUE]
  <2>3. IsTouch(b) /\ ~b.down
    BY <2>2 DEF IsPanel, IsTouch
  <2> HIDE DEF b
  <2>4. /\ IsPanel([g EXCEPT !.touch = b]) /\ [g EXCEPT !.touch = b].touch = b
        /\ [g EXCEPT !.touch = b].drive = g.drive /\ [g EXCEPT !.touch = b].steer = g.steer
        /\ [g EXCEPT !.touch = b].display = g.display
    BY <2>2, <2>3 DEF IsPanel
  <2> QED
    BY <2>1, <2>2, <2>3, <2>4 DEF Running, b
<1> QED
  BY <1>1, <1>2

-----------------------------------------------------------------------------
(* A pass of the main loop, up to the panel's turn.                        *)

(* A test runs on its page, with the display at rest; while the display    *)
(* can be used a finger holds its key.                                     *)
SafePanel(p) ==
  /\ IsPanel(p)
  /\ p.display.init = "RUNNING" => ~p.display.usable
  /\ p.touch.block => ~p.touch.down
  /\ Running(p) => p.display.init = "IDLE" /\ p.ui.menu = "ESC_MANUAL_TEST"
  /\ Running(p) /\ p.display.usable => Holding(p)

(* Either c is p with at most its drive test stopped, or the press is      *)
(* forgotten and nothing runs.                                             *)
Calmer(c, p) ==
  \/ /\ c.touch = p.touch /\ c.ui = p.ui /\ c.steer = p.steer /\ c.drive \in {p.drive, NoKey}
     /\ c.display.usable = p.display.usable
     /\ Running(c) => c.display = p.display
  \/ ~c.touch.down /\ ~Running(c)

LEMMA AgedIs ==
  ASSUME SafePanel(Panel)
  PROVE  /\ SafePanel(TouchAged(Panel))
         /\ TouchAged(Panel).touch = touch /\ TouchAged(Panel).ui = ui
         /\ TouchAged(Panel).drive = drive /\ TouchAged(Panel).steer = steer
         /\ TouchAged(Panel).display.usable = display.usable
         /\ TouchAged(Panel).display.since = UpTo(display.since, CooldownTicks)
<1> DEFINE d == [display EXCEPT !.since = UpTo(display.since, CooldownTicks)]
           a == IF drive # NoKey THEN UpTo(driveAge, DriveTicks) ELSE 0
           i == IF ui.menu \in SystemPages THEN UpTo(idle, IdleTicks) ELSE 0
<1>1. /\ Panel.ui = ui /\ Panel.touch = touch /\ Panel.drive = drive /\ Panel.steer = steer
      /\ Panel.age = driveAge /\ Panel.idle = idle /\ Panel.display = display
  BY DEF Panel
<1>2. IsDisplay(display) /\ IsTouch(touch)
  BY <1>1 DEF SafePanel, IsPanel
<1>3. UpTo(display.since, CooldownTicks) \in 0..CooldownTicks
  <2>1. display.since \in 0..CooldownTicks
    BY <1>2 DEF IsDisplay
  <2> QED
    BY <2>1, TouchConstants DEF UpTo
<1>4. /\ IsDisplay(d) /\ d.usable = display.usable /\ d.init = display.init
      /\ d.since = UpTo(display.since, CooldownTicks)
  BY <1>2, <1>3 DEF IsDisplay
<1>5. TouchAged(Panel) = [Panel EXCEPT !.age = a, !.idle = i, !.display = d]
  BY <1>1 DEF TouchAged
<1> HIDE DEF a, i, d
<1>6. TouchAged(Panel) = [ui |-> ui, touch |-> touch, drive |-> drive, steer |-> steer,
                          age |-> a, idle |-> i, display |-> d]
  BY <1>5 DEF Panel
<1>7. IsPanel(TouchAged(Panel))
  BY <1>2, <1>4, <1>6 DEF IsPanel
<1> QED
  BY <1>1, <1>4, <1>6, <1>7 DEF SafePanel, Running, Holding

LEMMA StopAllSafe ==
  ASSUME NEW p, SafePanel(p)
  PROVE  SafePanel(StopAllManualTest(p))
<1>1. /\ IsPanel(StopAllManualTest(p)) /\ StopAllManualTest(p).touch = p.touch
      /\ StopAllManualTest(p).ui = p.ui /\ ~Running(StopAllManualTest(p))
      /\ StopAllManualTest(p).display = p.display
  BY StopAllIs DEF SafePanel
<1> QED
  BY <1>1 DEF SafePanel

(* serviceDisplayRecovery: a recovery stops what runs before it begins. *)
LEMMA RecoveryCalms ==
  ASSUME NEW p, SafePanel(p), NEW works
  PROVE  /\ SafePanel(ServiceDisplayRecovery(p, works))
         /\ Calmer(ServiceDisplayRecovery(p, works), p)
         /\ Running(ServiceDisplayRecovery(p, works)) /\ ~p.display.usable =>
              p.display.since < CooldownTicks
<1> DEFINE r == ServiceDisplayRecovery(p, works)
           v == InvalidateTouch(p)
<1>0. IsPanel(p) /\ IsDisplay(p.display)
  BY DEF SafePanel, IsPanel
<1>1. CASE p.display.init = "RUNNING"
  <2>0. ~Running(p) /\ r = InitEnds(p, works)
    BY <1>1 DEF SafePanel, ServiceDisplayRecovery
  <2>1. CASE works
    <3> DEFINE d == [[p.display EXCEPT !.init = "IDLE"] EXCEPT !.usable = TRUE]
    <3>1. IsPanel(v) /\ ~v.touch.down /\ v.ui = p.ui /\ v.drive = p.drive /\ v.steer = p.steer
          /\ v.display = p.display
      BY <1>0, InvalidateIs
    <3>2. r = [[v EXCEPT !.display = [p.display EXCEPT !.init = "IDLE"]] EXCEPT !.display = d]
      BY <2>0, <2>1, <3>1 DEF InitEnds, IsPanel
    <3>3. IsDisplay(d) /\ d.init = "IDLE" /\ d.usable
      BY <1>0 DEF IsDisplay
    <3> HIDE DEF v, d
    <3>4. IsPanel(r) /\ r.touch = v.touch /\ r.ui = v.ui /\ r.drive = v.drive
          /\ r.steer = v.steer /\ r.display = d
      BY <3>1, <3>2, <3>3 DEF IsPanel
    <3>5. ~Running(r)
      BY <2>0, <3>1, <3>4 DEF Running
    <3> QED
      BY <3>1, <3>3, <3>4, <3>5 DEF SafePanel, Calmer
  <2>2. CASE ~works /\ p.display.attempt < 2
    <3>1. r = [p EXCEPT !.display = [p.display EXCEPT !.attempt = 2]]
      BY <2>0, <2>2 DEF InitEnds
    <3>2. /\ IsDisplay([p.display EXCEPT !.attempt = 2])
          /\ [p.display EXCEPT !.attempt = 2].init = p.display.init
          /\ [p.display EXCEPT !.attempt = 2].usable = p.display.usable
      BY <1>0 DEF IsDisplay
    <3>3. IsPanel(r) /\ r.touch = p.touch /\ r.ui = p.ui /\ r.drive = p.drive
          /\ r.steer = p.steer /\ r.display = [p.display EXCEPT !.attempt = 2]
      BY <1>0, <3>1, <3>2 DEF IsPanel
    <3> QED
      BY <2>0, <3>2, <3>3 DEF SafePanel, Calmer, Running
  <2>3. CASE ~works /\ ~(p.display.attempt < 2)
    <3>1. r = [p EXCEPT !.display = [p.display EXCEPT !.init = "IDLE"]]
      BY <2>0, <2>3 DEF InitEnds
    <3>2. /\ IsDisplay([p.display EXCEPT !.init = "IDLE"])
          /\ [p.display EXCEPT !.init = "IDLE"].init = "IDLE"
          /\ [p.display EXCEPT !.init = "IDLE"].usable = p.display.usable
      BY <1>0 DEF IsDisplay
    <3>3. IsPanel(r) /\ r.touch = p.touch /\ r.ui = p.ui /\ r.drive = p.drive
          /\ r.steer = p.steer /\ r.display = [p.display EXCEPT !.init = "IDLE"]
      BY <1>0, <3>1, <3>2 DEF IsPanel
    <3> QED
      BY <2>0, <3>2, <3>3 DEF SafePanel, Calmer, Running
  <2> QED
    BY <2>0, <2>1, <2>2, <2>3
<1>2. CASE p.display.init = "IDLE" /\ ~p.display.usable /\ p.display.since >= CooldownTicks
  <2> DEFINE q == IF Running(p) \/ p.ui.menu = "ESC_MANUAL_TEST" THEN StopAllManualTest(p) ELSE p
             w == InvalidateTouch(q)
             d == [usable |-> FALSE, init |-> "RUNNING", attempt |-> 1, since |-> 0]
  <2>1. r = [w EXCEPT !.display = d]
    BY <1>2 DEF ServiceDisplayRecovery, BeginRecovery
  <2>2. IsPanel(q) /\ ~Running(q)
    BY <1>0, StopAllIs
  <2> HIDE DEF q
  <2>3. IsPanel(w) /\ ~w.touch.down /\ w.drive = q.drive /\ w.steer = q.steer
    BY <2>2, InvalidateIs
  <2>4. IsDisplay(d) /\ ~d.usable
    BY TouchConstants DEF IsDisplay
  <2> HIDE DEF w, d
  <2>5. IsPanel(r) /\ r.touch = w.touch /\ r.drive = w.drive /\ r.steer = w.steer /\ r.display = d
    BY <2>1, <2>3, <2>4 DEF IsPanel
  <2> QED
    BY <2>2, <2>3, <2>4, <2>5 DEF SafePanel, Calmer, Running
<1>3. CASE /\ p.display.init # "RUNNING"
           /\ ~(p.display.init = "IDLE" /\ ~p.display.usable /\ p.display.since >= CooldownTicks)
  <2>1. r = p
    BY <1>3 DEF ServiceDisplayRecovery
  <2>2. p.display.init = "IDLE" /\ p.display.since \in 0..CooldownTicks
    BY <1>0, <1>3 DEF IsDisplay
  <2>3. ~p.display.usable => p.display.since < CooldownTicks
    BY <1>3, <2>2, TouchConstants
  <2> QED
    BY <2>1, <2>3 DEF Calmer
<1> QED
  BY <1>1, <1>2, <1>3

(* A service page goes home; nothing runs there. *)
LEMMA ReturnCalms ==
  ASSUME NEW p, SafePanel(p)
  PROVE  SafePanel(AutoReturn(p)) /\ Calmer(AutoReturn(p), p)
<1>1. CASE p.ui.menu \in SystemPages /\ ~p.touch.down /\ p.idle >= IdleTicks
  <2>1. AutoReturn(p) = GoTo(p, SetMenu(p.ui, "HOME"))
    BY <1>1 DEF AutoReturn
  <2>2. ~Running(p)
    BY <1>1 DEF SafePanel, SystemPages
  <2> QED
    BY <2>1, <2>2, GoToIs DEF SafePanel, Calmer
<1>2. CASE ~(p.ui.menu \in SystemPages /\ ~p.touch.down /\ p.idle >= IdleTicks)
  BY <1>2 DEF AutoReturn, Calmer
<1> QED
  BY <1>1, <1>2

LEMMA DeadlineCalms ==
  ASSUME NEW p, SafePanel(p)
  PROVE  SafePanel(DriveDeadline(p)) /\ Calmer(DriveDeadline(p), p)
<1>1. CASE p.drive # NoKey /\ p.age >= DriveTicks
  <2>1. DriveDeadline(p) = StopDriveTest(p)
    BY <1>1 DEF DriveDeadline
  <2> QED
    BY <1>1, <2>1, StopDriveIs DEF SafePanel, Calmer, Running, Holding
<1>2. CASE ~(p.drive # NoKey /\ p.age >= DriveTicks)
  BY <1>2 DEF DriveDeadline, Calmer
<1> QED
  BY <1>1, <1>2

LEMMA BeforeThePanel ==
  ASSUME SafePanel(Panel), NEW works, NEW c,
         c = DriveDeadline(AutoReturn(ServiceDisplayRecovery(TouchAged(Panel), works)))
  PROVE  /\ SafePanel(c) /\ Calmer(c, TouchAged(Panel))
         /\ Running(c) /\ ~c.display.usable => UpTo(display.since, CooldownTicks) < CooldownTicks
         /\ Running(c) => c.display.since = UpTo(display.since, CooldownTicks)
<1> DEFINE a == TouchAged(Panel)
           b == ServiceDisplayRecovery(a, works)
           r == AutoReturn(b)
<1>1. /\ SafePanel(a) /\ a.touch = touch /\ a.ui = ui /\ a.drive = drive /\ a.steer = steer
      /\ a.display.usable = display.usable
      /\ a.display.since = UpTo(display.since, CooldownTicks)
  BY AgedIs
<1> HIDE DEF a
<1>2. /\ SafePanel(b) /\ Calmer(b, a)
      /\ Running(b) /\ ~a.display.usable => a.display.since < CooldownTicks
  BY <1>1, RecoveryCalms
<1> HIDE DEF b
<1>3. SafePanel(r) /\ Calmer(r, b)
  BY <1>2, ReturnCalms
<1> HIDE DEF r
<1>4. SafePanel(c) /\ Calmer(c, r)
  BY <1>3, DeadlineCalms DEF r, b, a
<1>5. (~Running(a) => ~Running(b)) /\ (~Running(b) => ~Running(r)) /\ (~Running(r) => ~Running(c))
  BY <1>2, <1>3, <1>4 DEF Calmer, Running
<1>6. Calmer(c, a)
  BY <1>2, <1>3, <1>4, <1>5 DEF Calmer, Running
<1>7. Running(c) => c.display = a.display
  BY <1>6 DEF Calmer
<1>8. Running(c) /\ ~c.display.usable => UpTo(display.since, CooldownTicks) < CooldownTicks
  BY <1>1, <1>2, <1>5, <1>7
<1> QED
  BY <1>1, <1>4, <1>6, <1>7, <1>8 DEF a

-----------------------------------------------------------------------------
(* The panel's turn: what pollTouch makes of a finger.                     *)

AgeOf(t) == IF t.down THEN UpTo(t.age, ServiceTicks) ELSE 0
OnKey(t, u, where) ==
  t.down /\ ~t.canceled /\ where # "up" /\ TouchKeyAt(u, where) = t.key
HoldsMotion(t) == t.down /\ t.holdSent /\ ~t.canceled /\ t.key \in MotionKeys
Gone(t) == ~t.down \/ t.canceled

(* The kinds of event: t is the machine before, e the event. *)
Quiet(t, e) == e.key = NoKey /\ Gone(e.touch) /\ ~HoldsMotion(t)
IsPress(t, u, where, e) ==
  /\ e.type = "PRESS" /\ ~t.down /\ where # "up"
  /\ e.key = TouchKeyAt(u, where) /\ e.touch.key = e.key /\ e.touch.age = 0
IsRelease(t, e) ==
  e.type = "RELEASE" /\ t.down /\ Gone(e.touch) /\ (HoldsMotion(t) => e.key \in MotionKeys)
IsHold(t, u, where, e) ==
  /\ e.type = "HOLD" /\ OnKey(t, u, where) /\ ~t.holdSent /\ e.key = t.key
  /\ e.touch.down /\ ~e.touch.canceled /\ e.touch.holdSent /\ e.touch.key = t.key
  /\ e.touch.age = AgeOf(t)
  /\ e.key = "MENU" \/ (e.key \in MotionKeys /\ AgeOf(t) >= HoldTicks)
IsRepeat(t, u, where, e) ==
  /\ e.type = "REPEAT" /\ OnKey(t, u, where) /\ e.key = t.key /\ e.touch.key = t.key
  /\ e.key \in {"LEFT", "RIGHT"}
IsStill(t, u, where, e) ==
  /\ e.key = NoKey /\ OnKey(t, u, where)
  /\ e.touch.down /\ ~e.touch.canceled /\ e.touch.holdSent = t.holdSent /\ e.touch.key = t.key
  /\ e.touch.age = AgeOf(t)

LEMMA PollKinds ==
  ASSUME NEW t, IsTouch(t), t.block => ~t.down, NEW u, NEW where, NEW e,
         e = PollTouch(t, u, where)
  PROVE  /\ IsTouch(e.touch) /\ (e.touch.block => ~e.touch.down)
         /\ \/ Quiet(t, e) \/ IsPress(t, u, where, e) \/ IsRelease(t, e)
            \/ IsHold(t, u, where, e) \/ IsRepeat(t, u, where, e) \/ IsStill(t, u, where, e)
<1> DEFINE a == [t EXCEPT !.age = AgeOf(t)]
<1>1. AgeOf(t) \in 0..ServiceTicks
  <2>1. t.age \in 0..ServiceTicks
    BY DEF IsTouch
  <2> QED
    BY <2>1, TouchConstants DEF AgeOf, UpTo
<1>2. /\ IsTouch(a) /\ a.down = t.down /\ a.key = t.key /\ a.canceled = t.canceled
      /\ a.holdSent = t.holdSent /\ a.repeated = t.repeated /\ a.block = t.block
      /\ a.age = AgeOf(t)
  BY <1>1 DEF IsTouch
<1>3. e = CASE a.block -> NoEvent(IF where = "up" THEN NoTouch ELSE a)
            [] ~a.block /\ where = "up" -> Lifted(a)
            [] OTHER -> TouchDown(a, TouchKeyAt(u, where))
  BY DEF PollTouch, AgeOf
<1> HIDE DEF a
<1>4. 0 \in 0..ServiceTicks /\ TRUE \in BOOLEAN
  BY TouchConstants
<1>5. NoKey \notin MotionKeys
  BY DEF NoKey, MotionKeys
<1>6. CASE a.block
  <2>1. e.key = NoKey /\ e.touch = IF where = "up" THEN NoTouch ELSE a
    BY <1>3, <1>6 DEF NoEvent, Event
  <2>2. ~a.down
    BY <1>2, <1>6
  <2>3. ~e.touch.down /\ IsTouch(e.touch)
    BY <1>2, <2>1, <2>2, ResetIs
  <2> QED
    BY <1>2, <2>1, <2>2, <2>3 DEF Quiet, Gone, HoldsMotion
<1>7. CASE ~a.block /\ where = "up"
  <2>1. e = Lifted(a)
    BY <1>3, <1>7
  <2>2. CASE a.down
    <3>1. e.type = "RELEASE" /\ e.touch = Reset(a)
      BY <2>1, <2>2 DEF Lifted, Event
    <3>2. a.key \in MotionKeys /\ a.holdSent => e.key = a.key
      BY <2>1, <2>2 DEF Lifted, Event, MotionKeys
    <3>3. IsTouch(e.touch) /\ ~e.touch.down
      BY <1>2, <3>1, ResetIs
    <3> QED
      BY <1>2, <2>2, <3>1, <3>2, <3>3 DEF IsRelease, HoldsMotion, Gone
  <2>3. CASE ~a.down
    <3>1. e.key = NoKey /\ e.touch = a
      BY <2>1, <2>3 DEF Lifted, NoEvent, Event
    <3> QED
      BY <1>2, <2>3, <3>1 DEF Quiet, HoldsMotion, Gone
  <2> QED
    BY <2>2, <2>3
<1>8. CASE ~a.block /\ where # "up"
  <2> DEFINE k == TouchKeyAt(u, where)
  <2>1. e = TouchDown(a, k)
    BY <1>3, <1>8
  <2> HIDE DEF k
  <2>2. CASE ~a.down
    <3>1. e = Event("PRESS", k, [a EXCEPT !.down = TRUE, !.key = k, !.age = 0, !.canceled = k = NoKey])
      BY <2>1, <2>2 DEF TouchDown, Pressed
    <3>2. e.type = "PRESS" /\ e.key = k
          /\ e.touch = [a EXCEPT !.down = TRUE, !.key = k, !.age = 0, !.canceled = k = NoKey]
      BY <3>1 DEF Event
    <3>3. (k = NoKey) \in BOOLEAN
      OBVIOUS
    <3>4. IsTouch(e.touch) /\ e.touch.key = k /\ e.touch.age = 0 /\ e.touch.block = a.block
      BY <1>2, <1>4, <3>2, <3>3 DEF IsTouch
    <3> QED
      BY <1>2, <1>8, <2>2, <3>2, <3>4 DEF IsPress, k
  <2>3. CASE a.down /\ k # a.key
    <3> DEFINE g == [a EXCEPT !.canceled = TRUE]
    <3>1. e = SlidOff(a)
      BY <2>1, <2>3 DEF TouchDown
    <3>2. \/ e = Event("RELEASE", a.key, g) /\ ~a.canceled /\ a.holdSent /\ a.key \in MotionKeys
          \/ e = NoEvent(g) /\ ~HoldsMotion(t)
      BY <1>2, <3>1 DEF SlidOff, HoldsMotion
    <3>3. IsTouch(g) /\ g.canceled /\ g.block = a.block
      BY <1>2 DEF IsTouch
    <3> HIDE DEF g
    <3>4. CASE e = Event("RELEASE", a.key, g) /\ ~a.canceled /\ a.holdSent /\ a.key \in MotionKeys
      <4>1. e.type = "RELEASE" /\ e.key = a.key /\ e.touch = g
        BY <3>4 DEF Event
      <4> QED
        BY <1>2, <1>8, <2>3, <3>3, <3>4, <4>1 DEF IsRelease, Gone
    <3>5. CASE e = NoEvent(g) /\ ~HoldsMotion(t)
      <4>1. e.key = NoKey /\ e.touch = g
        BY <3>5 DEF NoEvent, Event
      <4> QED
        BY <1>8, <3>3, <3>5, <4>1 DEF Quiet, Gone
    <3> QED
      BY <3>2, <3>4, <3>5
  <2>4. CASE a.down /\ k = a.key /\ a.canceled
    <3>1. e.key = NoKey /\ e.touch = a
      BY <2>1, <2>4 DEF TouchDown, NoEvent, Event
    <3> QED
      BY <1>2, <1>8, <2>4, <3>1 DEF Quiet, HoldsMotion, Gone
  <2>5. CASE a.down /\ k = a.key /\ ~a.canceled
    <3>1. e = Held(a)
      BY <2>1, <2>5 DEF TouchDown
    <3>2. OnKey(t, u, where)
      BY <1>2, <1>8, <2>5 DEF OnKey, k
    <3>3. CASE ~a.holdSent /\ HoldDue(a)
      <4> DEFINE g == [a EXCEPT !.holdSent = TRUE]
      <4>1. e = Event("HOLD", a.key, g)
        BY <3>1, <3>3 DEF Held, HoldDue, MotionKeys
      <4>2. /\ IsTouch(g) /\ g.down = a.down /\ g.canceled = a.canceled /\ g.holdSent
            /\ g.key = a.key /\ g.age = a.age /\ g.block = a.block
        BY <1>2 DEF IsTouch
      <4> HIDE DEF g
      <4>3. e.type = "HOLD" /\ e.key = a.key /\ e.touch = g
        BY <4>1 DEF Event
      <4>4. a.key = "MENU" \/ (a.key \in MotionKeys /\ a.age >= HoldTicks)
        BY <3>3 DEF HoldDue
      <4> QED
        BY <1>2, <1>8, <2>5, <3>2, <3>3, <4>2, <4>3, <4>4 DEF IsHold
    <3>4. CASE ~(~a.holdSent /\ HoldDue(a)) /\ a.key \in {"LEFT", "RIGHT"} /\ a.age >= RepeatTicks
      <4> DEFINE g == [a EXCEPT !.repeated = TRUE]
      <4>1. e = Event("REPEAT", a.key, g)
        BY <3>1, <3>4 DEF Held
      <4>2. IsTouch(g) /\ g.key = a.key /\ g.block = a.block
        BY <1>2 DEF IsTouch
      <4> HIDE DEF g
      <4>3. e.type = "REPEAT" /\ e.key = a.key /\ e.touch = g
        BY <4>1 DEF Event
      <4> QED
        BY <1>2, <1>8, <3>2, <3>4, <4>2, <4>3 DEF IsRepeat
    <3>5. CASE /\ ~(~a.holdSent /\ HoldDue(a))
               /\ ~(a.key \in {"LEFT", "RIGHT"} /\ a.age >= RepeatTicks)
      <4>1. e.key = NoKey /\ e.touch = a
        BY <3>1, <3>5 DEF Held, NoEvent, Event
      <4> QED
        BY <1>2, <1>8, <2>5, <3>2, <4>1 DEF IsStill
    <3> QED
      BY <3>3, <3>4, <3>5
  <2> QED
    BY <2>2, <2>3, <2>4, <2>5
<1> QED
  BY <1>6, <1>7, <1>8

(* What handleTouch leaves of a panel: r.  A test that runs has its finger *)
(* on the key; a press of such a key that is still on is one that the      *)
(* finger has just made, or one that it has kept; and a test that starts   *)
(* was held for.                                                           *)
FingerOn(t, u, where) == where # "up" /\ TouchKeyAt(u, where) = t.key

Pressing(t) == t.down /\ ~t.canceled /\ t.key \in MotionKeys

TurnIs(c, where, r) ==
  /\ SafePanel(r) /\ r.display = c.display
  /\ ~c.display.usable => r = c
  /\ c.display.usable /\ Pressing(r.touch) =>
       /\ r.ui = c.ui /\ FingerOn(r.touch, c.ui, where)
       /\ \/ r.touch.age = 0
          \/ /\ Pressing(c.touch) /\ c.touch.key = r.touch.key
             /\ r.touch.age = UpTo(c.touch.age, ServiceTicks)
  /\ Running(r) =>
       \/ r.drive = c.drive /\ r.steer = c.steer
       \/ /\ c.display.usable /\ Pressing(c.touch) /\ FingerOn(c.touch, c.ui, where)
          /\ UpTo(c.touch.age, ServiceTicks) >= HoldTicks

(* Where no press is left, nothing is left to show. *)
LEMMA TurnEnds ==
  ASSUME NEW c, SafePanel(c), c.display.usable, NEW where, NEW r,
         IsPanel(r), r.display = c.display, ~Running(r), ~Pressing(r.touch),
         r.touch.block => ~r.touch.down
  PROVE  TurnIs(c, where, r)
BY DEF TurnIs, SafePanel

LEMMA PanelTurn ==
  ASSUME NEW c, SafePanel(c), NEW allowed, NEW where, NEW r,
         r = HandleTouch(c, PollTouch(c.touch, c.ui, where), allowed)
  PROVE  TurnIs(c, where, r)
<1> DEFINE e == PollTouch(c.touch, c.ui, where)
           n == [c EXCEPT !.touch = e.touch]
           w == [c EXCEPT !.touch = e.touch, !.idle = 0]
<1>0. IsTouch(c.touch) /\ (c.touch.block => ~c.touch.down) /\ IsDisplay(c.display)
  BY DEF SafePanel, IsPanel
<1>1. /\ IsTouch(e.touch) /\ (e.touch.block => ~e.touch.down)
      /\ \/ Quiet(c.touch, e) \/ IsPress(c.touch, c.ui, where, e) \/ IsRelease(c.touch, e)
         \/ IsHold(c.touch, c.ui, where, e) \/ IsRepeat(c.touch, c.ui, where, e)
         \/ IsStill(c.touch, c.ui, where, e)
  BY <1>0, PollKinds
<1>2. CASE c.display.init # "IDLE" \/ ~c.display.usable
  <2>1. ~c.display.usable
    BY <1>0, <1>2 DEF SafePanel, IsDisplay
  <2>2. r = c
    BY <2>1 DEF HandleTouch
  <2> QED
    BY <2>1, <2>2 DEF TurnIs
<1>3. CASE ~(c.display.init # "IDLE" \/ ~c.display.usable)
  <2>1. r = IF e.key = NoKey THEN n ELSE HandleEvent(w, e, allowed)
    BY <1>3 DEF HandleTouch
  <2> HIDE DEF e
  <2>2. /\ IsPanel(n) /\ n.touch = e.touch /\ n.ui = c.ui /\ n.drive = c.drive
        /\ n.steer = c.steer /\ n.display = c.display
        /\ IsPanel(w) /\ w.touch = e.touch /\ w.ui = c.ui /\ w.drive = c.drive
        /\ w.steer = c.steer /\ w.display = c.display
    <3> DEFINE t == e.touch
    <3>1. IsTouch(t)
      BY <1>1
    <3> HIDE DEF t
    <3>2. IsPanel(c)
      BY DEF SafePanel
    <3>3. /\ IsPanel([c EXCEPT !.touch = t]) /\ [c EXCEPT !.touch = t].touch = t
          /\ [c EXCEPT !.touch = t].ui = c.ui /\ [c EXCEPT !.touch = t].drive = c.drive
          /\ [c EXCEPT !.touch = t].steer = c.steer
          /\ [c EXCEPT !.touch = t].display = c.display
      BY <3>1, <3>2 DEF IsPanel
    <3>4. /\ IsPanel([c EXCEPT !.touch = t, !.idle = 0])
          /\ [c EXCEPT !.touch = t, !.idle = 0].touch = t
          /\ [c EXCEPT !.touch = t, !.idle = 0].ui = c.ui
          /\ [c EXCEPT !.touch = t, !.idle = 0].drive = c.drive
          /\ [c EXCEPT !.touch = t, !.idle = 0].steer = c.steer
          /\ [c EXCEPT !.touch = t, !.idle = 0].display = c.display
      BY <3>1, <3>2 DEF IsPanel
    <3> QED
      BY <3>3, <3>4 DEF t
  <2> HIDE DEF n, w
  <2>3. c.display.init = "IDLE" /\ c.display.usable
    BY <1>3
  <2>4. Running(c) => HoldsMotion(c.touch)
    BY <2>3 DEF SafePanel, Holding, HoldsMotion
  <2>5. NoKey \notin MotionKeys /\ "TEST_STOP" \notin MotionKeys
        /\ "MENU" \notin MotionKeys /\ "LEFT" \notin MotionKeys /\ "RIGHT" \notin MotionKeys
    BY DEF NoKey, MotionKeys
  <2>6. CASE Quiet(c.touch, e)
    <3>1. r = n /\ ~Running(c)
      BY <2>1, <2>4, <2>6 DEF Quiet
    <3>2. ~Running(r) /\ ~Pressing(r.touch)
      BY <2>2, <2>6, <3>1 DEF Running, Pressing, Quiet, Gone
    <3> QED
      BY <1>1, <2>2, <2>3, <3>1, <3>2, TurnEnds
  <2>7. CASE IsPress(c.touch, c.ui, where, e)
    <3>1. ~Running(c) /\ ~Running(n) /\ ~Running(w)
      BY <2>2, <2>4, <2>7 DEF IsPress, HoldsMotion, Running
    <3>2. /\ IsPanel(r) /\ r.touch = e.touch /\ r.ui = c.ui /\ r.display = c.display
          /\ ~Running(r)
      <4>1. r = n \/ r = w \/ r = StopAllManualTest(w)
        BY <2>1, <2>7 DEF IsPress, HandleEvent
      <4> QED
        BY <2>2, <3>1, <4>1, StopAllIs
    <3>3. SafePanel(r)
      BY <1>1, <2>3, <3>2 DEF SafePanel
    <3> QED
      BY <2>3, <2>7, <3>2, <3>3 DEF TurnIs, IsPress, Pressing, FingerOn
  <2>8. CASE IsRelease(c.touch, e)
    <3>1. CASE e.key \in MotionKeys
      <4>1. r = StopAllManualTest(w)
        BY <2>1, <2>5, <2>8, <3>1 DEF IsRelease, HandleEvent
      <4>2. IsPanel(r) /\ r.touch = e.touch /\ r.display = c.display /\ ~Running(r)
        BY <2>2, <4>1, StopAllIs
      <4>3. ~Pressing(r.touch)
        BY <2>8, <4>2 DEF IsRelease, Gone, Pressing
      <4> QED
        BY <1>1, <2>3, <4>2, <4>3, TurnEnds
    <3>2. CASE e.key \notin MotionKeys
      <4>1. ~Running(n) /\ ~Running(w)
        BY <2>2, <2>4, <2>8, <3>2 DEF IsRelease, Running
      <4>2. r = n \/ r = HandleSoftKey(w, e.key, allowed)
        BY <2>1, <2>8, <3>2 DEF IsRelease, HandleEvent
      <4>3. IsPanel(r) /\ r.display = c.display /\ ~Running(r)
            /\ (r.touch = e.touch \/ ~r.touch.down)
        <5>1. CASE r = n
          BY <2>2, <4>1, <5>1
        <5>2. CASE r = HandleSoftKey(w, e.key, allowed)
          BY <2>2, <3>2, <4>1, <5>2, OtherKeys
        <5> QED
          BY <4>2, <5>1, <5>2
      <4>4. ~Pressing(r.touch) /\ (r.touch.block => ~r.touch.down)
        BY <1>1, <2>8, <4>3 DEF IsRelease, Gone, Pressing
      <4> QED
        BY <2>3, <4>3, <4>4, TurnEnds
    <3> QED
      BY <3>1, <3>2
  <2>9. CASE IsHold(c.touch, c.ui, where, e)
    <3>1. ~Running(c) /\ ~Running(w)
      BY <2>2, <2>4, <2>9 DEF IsHold, HoldsMotion, Running
    <3>2. e.key # NoKey /\ r = HandleEvent(w, e, allowed)
      BY <2>1, <2>5, <2>9 DEF IsHold, NoKey
    <3>3. CASE e.key = "MENU"
      <4>1. r = EnterServiceMode(w, allowed)
        BY <2>9, <3>2, <3>3 DEF IsHold, HandleEvent
      <4>2. \/ r = w
            \/ IsPanel(r) /\ ~r.touch.down /\ ~Running(r) /\ r.display = w.display
        BY <2>2, <4>1, ServiceIs
      <4>3. e.touch.key = "MENU"
        BY <2>9, <3>3 DEF IsHold
      <4>4. IsPanel(r) /\ r.display = c.display /\ ~Running(r)
            /\ (r.touch = e.touch \/ ~r.touch.down)
        BY <2>2, <3>1, <4>2
      <4>5. ~Pressing(r.touch) /\ (r.touch.block => ~r.touch.down)
        BY <1>1, <2>5, <4>3, <4>4 DEF Pressing
      <4> QED
        BY <2>3, <4>4, <4>5, TurnEnds
    <3>4. CASE e.key \in MotionKeys
      <4>1. r = HandleSoftKey(w, e.key, allowed)
        BY <2>5, <2>9, <3>2, <3>4 DEF IsHold, HandleEvent
      <4>2. w.ui.menu = "ESC_MANUAL_TEST"
        BY <2>2, <2>9, <3>4, MotionZones DEF IsHold, OnKey
      <4>3. /\ IsPanel(r) /\ r.display = w.display /\ r.touch = w.touch /\ r.ui = w.ui
            /\ \/ ~Running(r)
               \/ r.drive = e.key /\ r.steer = NoKey
               \/ r.steer = e.key /\ r.drive = NoKey
        BY <2>2, <3>1, <3>4, <4>1, <4>2, MotionKeyIs
      <4>4. /\ Pressing(c.touch) /\ FingerOn(c.touch, c.ui, where)
            /\ AgeOf(c.touch) = UpTo(c.touch.age, ServiceTicks)
        BY <2>9, <3>4 DEF IsHold, OnKey, Pressing, FingerOn, AgeOf
      <4>5. Running(r) => Holding(r)
        BY <2>2, <2>9, <3>4, <4>3 DEF IsHold, Holding
      <4>6. SafePanel(r)
        BY <1>1, <2>2, <2>3, <4>2, <4>3, <4>5 DEF SafePanel
      <4>7. UpTo(c.touch.age, ServiceTicks) >= HoldTicks
        BY <2>5, <2>9, <3>4, <4>4 DEF IsHold
      <4>8. r.touch.key = c.touch.key /\ r.touch.age = UpTo(c.touch.age, ServiceTicks)
        BY <2>2, <2>9, <4>3, <4>4 DEF IsHold
      <4> QED
        BY <2>2, <2>3, <4>3, <4>4, <4>6, <4>7, <4>8 DEF TurnIs, FingerOn
    <3> QED
      BY <2>9, <3>3, <3>4 DEF IsHold
  <2>10. CASE IsRepeat(c.touch, c.ui, where, e)
    <3>1. e.key \notin MotionKeys /\ e.key # NoKey /\ e.touch.key = e.key
      BY <2>5, <2>10 DEF IsRepeat, NoKey
    <3>2. ~Running(c) /\ ~Running(w)
      BY <2>2, <2>4, <2>10, <3>1 DEF IsRepeat, HoldsMotion, Running
    <3>3. r = HandleSoftKey(w, e.key, allowed)
      BY <2>1, <2>10, <3>1 DEF IsRepeat, HandleEvent
    <3>4. IsPanel(r) /\ r.display = c.display /\ ~Running(r)
          /\ (r.touch = e.touch \/ ~r.touch.down)
      BY <2>2, <3>1, <3>2, <3>3, OtherKeys
    <3>5. ~Pressing(r.touch) /\ (r.touch.block => ~r.touch.down)
      BY <1>1, <3>1, <3>4 DEF Pressing
    <3> QED
      BY <2>3, <3>4, <3>5, TurnEnds
  <2>11. CASE IsStill(c.touch, c.ui, where, e)
    <3>1. r = n
      BY <2>1, <2>11 DEF IsStill
    <3>2. SafePanel(r)
      BY <1>1, <2>2, <2>11, <3>1 DEF IsStill, SafePanel, Running, Holding
    <3>3. AgeOf(c.touch) = UpTo(c.touch.age, ServiceTicks)
      BY <2>11 DEF IsStill, OnKey, AgeOf
    <3> QED
      BY <2>2, <2>3, <2>11, <3>1, <3>2, <3>3 DEF TurnIs, IsStill, OnKey, Pressing, FingerOn
  <2> QED
    BY <1>1, <2>6, <2>7, <2>8, <2>9, <2>10, <2>11
<1> QED
  BY <1>2, <1>3

-----------------------------------------------------------------------------
(* The invariant of the touch panel.                                       *)

(* A press of a motion key that is still on is known to rest where it is,  *)
(* and has been there as long as the machine has counted; when the finger  *)
(* has moved since the last pass, it is off the key.                       *)
FingerSeen ==
  display.usable /\ Pressing(touch) =>
    /\ polled => /\ FingerOn(touch, ui, finger)
                 /\ heldFor >= touch.age \/ heldFor >= HoldTicks - 1
    /\ ~polled => ~FingerOn(touch, ui, finger)

(* A test runs with no finger only under a display that waits for its      *)
(* recovery, and no longer than that has waited.                           *)
OffOnlyBlind == off > 0 => Running(Panel) /\ ~display.usable /\ off <= display.since

TouchInv ==
  /\ SafePanel(Panel) /\ off \in Nat /\ heldFor \in Nat
  /\ FingerSeen /\ OffOnlyBlind

LEMMA PanelFields ==
  /\ Panel.ui = ui /\ Panel.touch = touch /\ Panel.drive = drive /\ Panel.steer = steer
  /\ Panel.age = driveAge /\ Panel.idle = idle /\ Panel.display = display
BY DEF Panel

LEMMA TouchInitInv == TouchInit => TouchInv
<1> SUFFICES ASSUME TouchInit PROVE TouchInv
  OBVIOUS
<1>1. IsTouch(touch) /\ ~touch.down
  <2>1. 0 \in 0..ServiceTicks
    BY TouchConstants
  <2> QED
    BY <2>1 DEF TouchInit, NoTouch, IsTouch
<1>2. IsDisplay(display) /\ display.usable /\ display.init = "IDLE"
  BY TouchConstants DEF TouchInit, IsDisplay
<1>3. ~Running(Panel)
  BY PanelFields DEF TouchInit, Running
<1>4. IsPanel(Panel)
  BY <1>1, <1>2 DEF Panel, IsPanel
<1>5. SafePanel(Panel)
  BY <1>1, <1>2, <1>3, <1>4, PanelFields DEF SafePanel
<1> QED
  BY <1>1, <1>5 DEF TouchInit, TouchInv, FingerSeen, OffOnlyBlind, Pressing

LEMMA BecomesIs ==
  ASSUME NEW p, SafePanel(p), Becomes(p)
  PROVE  SafePanel(Panel)' /\ (Running(Panel)' <=> Running(p))
<1>1. /\ Panel.ui' = p.ui /\ Panel.touch' = p.touch /\ Panel.drive' = p.drive
      /\ Panel.steer' = p.steer /\ Panel.display' = p.display
  BY PanelFields DEF Becomes, Panel
<1>2. IsPanel(Panel)'
  BY <1>1 DEF SafePanel, IsPanel, Panel
<1> QED
  BY <1>1, <1>2 DEF SafePanel, Running, Holding

(* Where a pass leaves the panel, by the two lemmas above. *)
LEMMA PassIs ==
  ASSUME SafePanel(Panel), NEW works, NEW allowed, NEW p \in PassResults(works, allowed)
  PROVE  \E c : /\ SafePanel(c) /\ TurnIs(c, finger, p)
                /\ \/ /\ c.touch = touch /\ c.ui = ui /\ c.steer = steer
                      /\ c.drive \in {drive, NoKey} /\ c.display.usable = display.usable
                   \/ ~c.touch.down /\ ~Running(c)
                /\ Running(c) /\ ~c.display.usable =>
                     /\ UpTo(display.since, CooldownTicks) < CooldownTicks
                     /\ c.display.since = UpTo(display.since, CooldownTicks)
<1> DEFINE c == DriveDeadline(AutoReturn(ServiceDisplayRecovery(TouchAged(Panel), works)))
<1>1. p = HandleTouch(c, PollTouch(c.touch, c.ui, finger), allowed)
  BY DEF PassResults
<1>2. /\ SafePanel(c) /\ Calmer(c, TouchAged(Panel))
      /\ Running(c) /\ ~c.display.usable => UpTo(display.since, CooldownTicks) < CooldownTicks
      /\ Running(c) => c.display.since = UpTo(display.since, CooldownTicks)
  BY BeforeThePanel
<1> HIDE DEF c
<1>3. TurnIs(c, finger, p)
  BY <1>1, <1>2, PanelTurn
<1>4. \/ /\ c.touch = touch /\ c.ui = ui /\ c.steer = steer
         /\ c.drive \in {drive, NoKey} /\ c.display.usable = display.usable
      \/ ~c.touch.down /\ ~Running(c)
  BY <1>2, AgedIs DEF Calmer
<1> QED
  BY <1>2, <1>3, <1>4

(* A pass finds the finger where it is, and counts it. *)
LEMMA PassKeeps ==
  ASSUME TouchInv, NEW works, NEW allowed, Pass(works, allowed)
  PROVE  /\ TouchInv'
         /\ ((drive = NoKey /\ drive' # NoKey) \/ (steer = NoKey /\ steer' # NoKey) =>
               heldFor >= HoldTicks - 1 /\ ui'.menu = "ESC_MANUAL_TEST")
<1>1. PICK p \in PassResults(works, allowed) :
        /\ Becomes(p)
        /\ heldFor' = IF polled /\ finger # "up" /\ p.ui = ui
                      THEN UpTo(heldFor, HoldTicks - 1) ELSE 0
        /\ off' = IF Running(p) /\ KeyUnder(p.ui) \notin {p.drive, p.steer} \ {NoKey}
                  THEN UpTo(off, CooldownTicks + 1) ELSE 0
  BY DEF Pass
<1>2. polled' = TRUE /\ finger' = finger
  BY DEF Pass
<1>3. PICK c : /\ SafePanel(c) /\ TurnIs(c, finger, p)
               /\ \/ /\ c.touch = touch /\ c.ui = ui /\ c.steer = steer
                     /\ c.drive \in {drive, NoKey} /\ c.display.usable = display.usable
                  \/ ~c.touch.down /\ ~Running(c)
               /\ Running(c) /\ ~c.display.usable =>
                    /\ UpTo(display.since, CooldownTicks) < CooldownTicks
                    /\ c.display.since = UpTo(display.since, CooldownTicks)
  BY PassIs DEF TouchInv
<1>4. SafePanel(p) /\ p.display = c.display
  BY <1>3 DEF TurnIs
<1>5. SafePanel(Panel)' /\ (Running(Panel)' <=> Running(p))
  BY <1>1, <1>4, BecomesIs
<1>6. /\ ui' = p.ui /\ touch' = p.touch /\ drive' = p.drive /\ steer' = p.steer
      /\ display' = p.display
  BY <1>1 DEF Becomes
<1>7. /\ HoldTicks \in Nat /\ HoldTicks >= 1 /\ ServiceTicks \in Nat /\ CooldownTicks \in Nat
      /\ off \in Nat /\ heldFor \in Nat
      /\ touch.age \in Nat /\ display.since \in Nat /\ display.since <= CooldownTicks
  <2>1. IsTouch(touch) /\ IsDisplay(display)
    BY PanelFields DEF TouchInv, SafePanel, IsPanel
  <2>2. touch.age \in 0..ServiceTicks /\ display.since \in 0..CooldownTicks
    BY <2>1 DEF IsTouch, IsDisplay
  <2> QED
    BY <2>2, TouchConstants DEF TouchInv
<1>8. off' \in Nat /\ heldFor' \in Nat
  BY <1>1, <1>7 DEF UpTo
<1>9. ASSUME Pressing(c.touch), c.display.usable, FingerOn(c.touch, c.ui, finger)
      PROVE  /\ c.touch = touch /\ c.ui = ui /\ polled
             /\ heldFor >= touch.age \/ heldFor >= HoldTicks - 1
  <2>1. c.touch = touch /\ c.ui = ui /\ display.usable
    BY <1>3, <1>9 DEF Pressing
  <2> QED
    BY <1>9, <2>1 DEF TouchInv, FingerSeen
<1>10. FingerSeen'
  <2> SUFFICES ASSUME display'.usable, Pressing(touch')
               PROVE  /\ FingerOn(touch', ui', finger')
                      /\ heldFor' >= touch'.age \/ heldFor' >= HoldTicks - 1
    BY <1>2 DEF FingerSeen
  <2>1. /\ p.ui = c.ui /\ FingerOn(p.touch, c.ui, finger)
        /\ \/ p.touch.age = 0
           \/ /\ Pressing(c.touch) /\ c.touch.key = p.touch.key
              /\ p.touch.age = UpTo(c.touch.age, ServiceTicks)
    BY <1>3, <1>4, <1>6 DEF TurnIs
  <2>2. CASE p.touch.age = 0
    BY <1>2, <1>6, <1>8, <2>1, <2>2
  <2>3. CASE /\ Pressing(c.touch) /\ c.touch.key = p.touch.key
             /\ p.touch.age = UpTo(c.touch.age, ServiceTicks)
    <3>1. FingerOn(c.touch, c.ui, finger)
      BY <2>1, <2>3 DEF FingerOn
    <3>2. /\ c.touch = touch /\ c.ui = ui /\ polled
          /\ heldFor >= touch.age \/ heldFor >= HoldTicks - 1
      BY <1>4, <1>6, <1>9, <2>3, <3>1
    <3>3. heldFor' = UpTo(heldFor, HoldTicks - 1)
      BY <1>1, <2>1, <3>1, <3>2 DEF FingerOn
    <3>4. touch'.age = UpTo(touch.age, ServiceTicks)
      BY <1>6, <2>3, <3>2
    <3>5. heldFor' >= touch'.age \/ heldFor' >= HoldTicks - 1
      BY <1>7, <3>2, <3>3, <3>4 DEF UpTo
    <3> QED
      BY <1>2, <1>6, <2>1, <3>5
  <2> QED
    BY <2>1, <2>2, <2>3
<1>11. OffOnlyBlind'
  <2> SUFFICES ASSUME off' > 0
               PROVE  Running(p) /\ ~p.display.usable /\ off' <= p.display.since
    BY <1>5, <1>6 DEF OffOnlyBlind
  <2>1. /\ Running(p) /\ KeyUnder(p.ui) \notin {p.drive, p.steer} \ {NoKey}
        /\ off' = UpTo(off, CooldownTicks + 1)
    BY <1>1
  <2>2. ~p.display.usable
    <3> SUFFICES ASSUME p.display.usable PROVE FALSE
      OBVIOUS
    <3>1. Holding(p)
      BY <1>4, <2>1 DEF SafePanel
    <3>2. p.ui = c.ui /\ FingerOn(p.touch, c.ui, finger)
      BY <1>3, <1>4, <3>1 DEF TurnIs, Holding, Pressing
    <3>3. KeyUnder(p.ui) = p.touch.key
      BY <3>2 DEF KeyUnder, FingerOn
    <3>4. p.touch.key # NoKey /\ p.touch.key \in {p.drive, p.steer}
      BY <3>1 DEF Holding, MotionKeys, NoKey
    <3> QED
      BY <2>1, <3>3, <3>4
  <2>3. p = c
    BY <1>3, <1>4, <2>2 DEF TurnIs
  <2>4. /\ UpTo(display.since, CooldownTicks) < CooldownTicks
        /\ p.display.since = UpTo(display.since, CooldownTicks)
    BY <1>3, <2>1, <2>2, <2>3
  <2>5. p.display.since = display.since + 1
    BY <1>7, <2>4 DEF UpTo
  <2>6. off <= display.since
    BY <1>7 DEF TouchInv, OffOnlyBlind
  <2>7. off' <= off + 1
    BY <1>7, <2>1 DEF UpTo
  <2>8. off' <= p.display.since
    BY <1>7, <1>8, <2>5, <2>6, <2>7
  <2> QED
    BY <2>1, <2>2, <2>8
<1>12. ASSUME (drive = NoKey /\ drive' # NoKey) \/ (steer = NoKey /\ steer' # NoKey)
       PROVE  heldFor >= HoldTicks - 1 /\ ui'.menu = "ESC_MANUAL_TEST"
  <2>1. Running(p)
    BY <1>6, <1>12 DEF Running
  <2>2. ~(p.drive = c.drive /\ p.steer = c.steer)
    BY <1>3, <1>6, <1>12 DEF Running
  <2>3. /\ c.display.usable /\ Pressing(c.touch) /\ FingerOn(c.touch, c.ui, finger)
        /\ UpTo(c.touch.age, ServiceTicks) >= HoldTicks
    BY <1>3, <2>1, <2>2 DEF TurnIs
  <2>4. c.touch = touch /\ (heldFor >= touch.age \/ heldFor >= HoldTicks - 1)
    BY <1>9, <2>3
  <2>5. touch.age >= HoldTicks - 1
    BY <1>7, <2>3, <2>4 DEF UpTo
  <2>6. heldFor >= HoldTicks - 1
    BY <1>7, <2>4, <2>5
  <2> QED
    BY <1>4, <1>6, <2>1, <2>6 DEF SafePanel
<1> QED
  BY <1>5, <1>8, <1>10, <1>11, <1>12 DEF TouchInv

(* An order of the host forgets the press, and starts nothing. *)
LEMMA OrderKeeps ==
  ASSUME TouchInv, NEW p, Order(p), SafePanel(p), ~p.touch.down, Running(p) => Running(Panel),
         p.display = display
  PROVE  TouchInv'
<1>1. SafePanel(Panel)' /\ (Running(Panel)' <=> Running(p))
  BY BecomesIs DEF Order
<1>2. touch' = p.touch /\ display' = p.display
  BY DEF Order, Becomes
<1>3. off' = IF Running(p) THEN off ELSE 0
  BY DEF Order
<1>4. heldFor' \in Nat
  BY DEF Order, TouchInv
<1>5. FingerSeen'
  BY <1>2 DEF FingerSeen, Pressing
<1>6. OffOnlyBlind' /\ off' \in Nat
  BY <1>1, <1>2, <1>3 DEF TouchInv, OffOnlyBlind
<1> QED
  BY <1>1, <1>4, <1>5, <1>6 DEF TouchInv

LEMMA TouchStep ==
  ASSUME TouchInv, [TouchNext]_touchVars
  PROVE  /\ TouchInv'
         /\ ((drive = NoKey /\ drive' # NoKey) \/ (steer = NoKey /\ steer' # NoKey) =>
               heldFor >= HoldTicks - 1 /\ ui'.menu = "ESC_MANUAL_TEST")
<1>0. SafePanel(Panel) /\ IsPanel(Panel)
  BY DEF TouchInv, SafePanel
<1>1. CASE \E works, allowed \in BOOLEAN : Pass(works, allowed)
  BY <1>1, PassKeeps
<1>2. CASE \E where \in Zones \cup {"up"} : FingerMoves(where)
  <2>1. PICK where : FingerMoves(where)
    BY <1>2
  <2>2. /\ polled /\ ~polled' /\ finger' = where /\ where # finger
        /\ UNCHANGED <<ui, touch, drive, driveAge, steer, display, idle, heldFor, off>>
    BY <2>1 DEF FingerMoves
  <2>3. FingerSeen'
    <3> SUFFICES ASSUME display.usable, Pressing(touch), FingerOn(touch, ui, where) PROVE FALSE
      BY <2>2 DEF FingerSeen
    <3>1. FingerOn(touch, ui, finger)
      BY <2>2 DEF TouchInv, FingerSeen
    <3>2. TestKey(where) = touch.key /\ TestKey(finger) = touch.key /\ touch.key \in MotionKeys
      BY <3>1, MotionZones DEF FingerOn, Pressing
    <3> QED
      BY <2>2, <3>2, OneZoneEach
  <2>4. UNCHANGED Panel
    BY <2>2 DEF Panel
  <2> QED
    BY <2>2, <2>3, <2>4 DEF TouchInv, OffOnlyBlind
<1>3. CASE DisplayFails
  <2>1. /\ display.usable /\ display' = [display EXCEPT !.usable = FALSE]
        /\ UNCHANGED <<ui, touch, drive, driveAge, steer, idle, heldFor, off>>
    BY <1>3 DEF DisplayFails
  <2>2. off = 0
    BY <2>1 DEF TouchInv, OffOnlyBlind
  <2>3. /\ IsDisplay(display') /\ ~display'.usable /\ display'.init = display.init
    BY <1>0, <2>1, PanelFields DEF IsPanel, IsDisplay
  <2>4. /\ Panel.ui' = ui /\ Panel.touch' = touch /\ Panel.drive' = drive
        /\ Panel.steer' = steer /\ Panel.display' = display'
    BY <2>1 DEF Panel
  <2>5. IsPanel(Panel)'
    BY <1>0, <2>3, <2>4, PanelFields DEF IsPanel, Panel
  <2>6. SafePanel(Panel)'
    BY <1>0, <2>3, <2>4, <2>5, PanelFields DEF SafePanel, Running
  <2> QED
    BY <2>1, <2>2, <2>3, <2>6 DEF TouchInv, FingerSeen, OffOnlyBlind
<1>4. CASE GateCloses
  <2> DEFINE p == StopAllManualTest(Panel)
  <2>1. Becomes(p) /\ off' = 0 /\ UNCHANGED <<finger, polled, heldFor>>
    BY <1>4 DEF GateCloses
  <2>2. /\ SafePanel(p) /\ p.touch = touch /\ p.ui = ui /\ p.display = display /\ ~Running(p)
    BY <1>0, StopAllSafe, StopAllIs, PanelFields
  <2> HIDE DEF p
  <2>3. SafePanel(Panel)' /\ UNCHANGED <<ui, touch, display>>
    BY <2>1, <2>2, BecomesIs DEF Becomes
  <2>4. drive' = NoKey /\ steer' = NoKey
    BY <2>1, <2>2 DEF Becomes, Running
  <2> QED
    BY <2>1, <2>3, <2>4 DEF TouchInv, FingerSeen, OffOnlyBlind
<1>5. CASE TestDisplay
  <2> DEFINE p == InvalidateTouch(Panel)
  <2>1. ~Running(Panel) /\ Order(p)
    BY <1>5 DEF TestDisplay
  <2>2. /\ IsPanel(p) /\ ~p.touch.down /\ p.drive = drive /\ p.steer = steer
        /\ p.display = display
    BY <1>0, InvalidateIs, PanelFields
  <2> HIDE DEF p
  <2>3. ~Running(p)
    BY <2>1, <2>2, PanelFields DEF Running
  <2>4. SafePanel(p)
    BY <1>0, <2>2, <2>3, PanelFields DEF SafePanel
  <2>5. drive' = NoKey /\ steer' = NoKey
    BY <2>1, <2>3 DEF Order, Becomes, Running
  <2> QED
    BY <2>1, <2>2, <2>3, <2>4, <2>5, OrderKeeps
<1>6. CASE \E page \in ExternalPages : SetExternalMenu(page)
  <2>1. PICK page \in ExternalPages : SetExternalMenu(page)
    BY <1>6
  <2> DEFINE next == SetMenu(ui, page)
             p == GoTo(Panel, next)
  <2>2. Order(p)
    BY <2>1 DEF SetExternalMenu
  <2>3. next.menu # "ESC_MANUAL_TEST"
    BY DEF SetMenu, ExternalPages, Roots
  <2> HIDE DEF next
  <2>4. /\ IsPanel(p) /\ ~p.touch.down /\ p.display = display
        /\ ~Running(Panel) => ~Running(p)
        /\ next.menu # ui.menu => ~Running(p)
    BY <1>0, GoToIs, PanelFields
  <2> HIDE DEF p
  <2>5. ~Running(p)
    BY <1>0, <2>3, <2>4, PanelFields DEF SafePanel
  <2>6. SafePanel(p)
    BY <1>0, <2>4, <2>5, PanelFields DEF SafePanel
  <2>7. drive' = NoKey /\ steer' = NoKey
    BY <2>2, <2>5 DEF Order, Becomes, Running
  <2> QED
    BY <2>2, <2>4, <2>5, <2>6, <2>7, OrderKeeps
<1>7. CASE UNCHANGED touchVars
  <2>1. UNCHANGED <<ui, touch, finger, polled, drive, driveAge, steer, display, idle, heldFor, off>>
    BY <1>7 DEF touchVars
  <2>2. UNCHANGED Panel
    BY <2>1 DEF Panel
  <2> QED
    BY <2>1, <2>2 DEF TouchInv, FingerSeen, OffOnlyBlind
<1> QED
  BY <1>1, <1>2, <1>3, <1>4, <1>5, <1>6, <1>7 DEF TouchNext

LEMMA TouchInvKept == TouchSpec => []TouchInv
<1>1. TouchInv /\ [TouchNext]_touchVars => TouchInv'
  BY TouchStep
<1> QED
  BY <1>1, TouchInitInv, PTL DEF TouchSpec

(* However the finger slides, the display fails and recovers, the host     *)
(* orders pages and the gates close, no test goes on without a finger on   *)
(* its key for longer than a failed display waits for its recovery         *)
(* (pollTouch, handleTouch, serviceDisplayRecovery).                       *)
THEOREM DeadManKept == TouchSpec => []DeadMan
<1>1. TouchInv => DeadMan
  <2> SUFFICES ASSUME TouchInv PROVE DeadMan
    OBVIOUS
  <2>1. IsDisplay(display)
    BY PanelFields DEF TouchInv, SafePanel, IsPanel
  <2>2. display.since \in 0..CooldownTicks
    BY <2>1 DEF IsDisplay
  <2> QED
    BY <2>2, TouchConstants DEF TouchInv, OffOnlyBlind, DeadMan
<1> QED
  BY <1>1, TouchInvKept, PTL

(* No test starts but under a finger that has rested on its key, on the    *)
(* page that shows it, for the time of a hold (pollTouch, setMenu).        *)
THEOREM HoldKept == TouchSpec => StartsByHold
<1>1. TouchInv /\ [TouchNext]_touchVars =>
        ((drive = NoKey /\ drive' # NoKey) \/ (steer = NoKey /\ steer' # NoKey) =>
           heldFor >= HoldTicks - 1 /\ ui'.menu = "ESC_MANUAL_TEST")
  BY TouchStep
<1> QED
  BY <1>1, TouchInvKept, PTL DEF TouchSpec, StartsByHold

-----------------------------------------------------------------------------
(* TouchHmi: from page to page.                                            *)

IsPage(u) == u \in [menu : {u.menu}, page : {u.page}, view : {u.view}]

(* What BackReturns asks of a step from page u to page v. *)
WayBack(u, v) ==
  v.menu \notin {u.menu, Parent(u.menu)} \cup ExternalPages =>
    Back(v).menu = u.menu /\ Back(v).page = u.page

LEMMA SetMenuIs ==
  ASSUME NEW u, NEW next
  PROVE  SetMenu(u, next).menu = next /\ IsPage(SetMenu(u, next))
BY DEF SetMenu, IsPage

(* A page below a card or an action goes back to it. *)
LEMMA BelowGoesBack ==
  ASSUME NEW u, NEW next, next # "HOME", Parent(next) = u.menu,
         Domain(next) = Domain(u.menu), Domain(u.menu) # "NONE"
  PROVE  Back(SetMenu(u, next)).menu = u.menu /\ Back(SetMenu(u, next)).page = u.page
<1> DEFINE v == SetMenu(u, next)
<1>1. v.menu = next /\ v.page = u.page
  BY DEF SetMenu
<1> HIDE DEF v
<1>2. Back(v) = SetMenu(v, u.menu)
  BY <1>1 DEF Back
<1>3. SetMenu(v, u.menu).menu = u.menu /\ SetMenu(v, u.menu).page = v.page
  BY <1>1 DEF SetMenu
<1> QED
  BY <1>1, <1>2, <1>3 DEF v

(* The catalogue: the cards of a domain's root have it for their parent    *)
(* (menuChildren, menuParent), and so have the targets of actions.         *)
LEMMA CardsBelow ==
  ASSUME NEW page, HasChildren(page), NEW k \in DOMAIN Children(page)
  PROVE  \/ Children(page)[k] \in ExternalPages
         \/ /\ Children(page)[k] # "HOME" /\ Parent(Children(page)[k]) = page
            /\ Domain(Children(page)[k]) = Domain(page) /\ Domain(page) # "NONE"
<1>1. CASE page = "MAIN_MENU"
  <2>1. Children(page) = [i \in 0..2 |-> <<"ESC_ROOT", "PERCEPTION_ROOT", "NAVIGATION_ROOT">>[i + 1]]
    BY <1>1 DEF Children
  <2>2. k \in 0..2 /\ Children(page)[k] = <<"ESC_ROOT", "PERCEPTION_ROOT", "NAVIGATION_ROOT">>[k + 1]
    BY <2>1
  <2>3. k = 0 \/ k = 1 \/ k = 2
    BY <2>2
  <2>4. Children(page)[k] \in {"ESC_ROOT", "PERCEPTION_ROOT", "NAVIGATION_ROOT"}
    BY <2>2, <2>3
  <2> QED
    BY <2>4 DEF ExternalPages, Roots
<1>2. CASE page = "ESC_ROOT"
  <2>1. Children(page) = [i \in {0, 1, 2, 3, 11} |-> IF i = 11 THEN "ESC_MANUAL_TEST"
              ELSE <<"ESC_OVERVIEW", "ESC_MODE", "ESC_STEERING", "ESC_DRIVE">>[i + 1]]
    BY <1>2 DEF Children
  <2>2. k \in {0, 1, 2, 3, 11}
        /\ Children(page)[k] = IF k = 11 THEN "ESC_MANUAL_TEST"
              ELSE <<"ESC_OVERVIEW", "ESC_MODE", "ESC_STEERING", "ESC_DRIVE">>[k + 1]
    BY <2>1
  <2>3. Children(page)[k] \in {"ESC_OVERVIEW", "ESC_MODE", "ESC_STEERING", "ESC_DRIVE",
                               "ESC_MANUAL_TEST"}
    BY <2>2
  <2> HIDE DEF Children
  <2>4. Parent(Children(page)[k]) = "ESC_ROOT" /\ Domain(Children(page)[k]) = "ESC"
    BY <2>3 DEF Parent, Domain, Roots, EscPages, PerceptionPages, NavigationPages, SystemPages
  <2>5. Domain("ESC_ROOT") = "ESC"
    BY DEF Domain, EscPages, PerceptionPages, NavigationPages, SystemPages
  <2> QED
    BY <1>2, <2>3, <2>4, <2>5
<1>3. CASE page = "PERCEPTION_ROOT"
  <2>1. Children(page) = [i \in {0, 1, 8} |-> IF i = 8 THEN "PERCEPTION_TEST"
              ELSE <<"PERCEPTION_OVERVIEW", "PERCEPTION_CAMERA">>[i + 1]]
    BY <1>3 DEF Children
  <2>2. k \in {0, 1, 8}
        /\ Children(page)[k] = IF k = 8 THEN "PERCEPTION_TEST"
              ELSE <<"PERCEPTION_OVERVIEW", "PERCEPTION_CAMERA">>[k + 1]
    BY <2>1
  <2>3. Children(page)[k] \in {"PERCEPTION_OVERVIEW", "PERCEPTION_CAMERA", "PERCEPTION_TEST"}
    BY <2>2
  <2>4. Parent(Children(page)[k]) = "PERCEPTION_ROOT" /\ Domain(Children(page)[k]) = "PERCEPTION"
    BY <2>3 DEF Parent, Domain, Roots, EscPages, PerceptionPages, NavigationPages, SystemPages
  <2>5. Domain("PERCEPTION_ROOT") = "PERCEPTION"
    BY DEF Domain, EscPages, PerceptionPages, NavigationPages, SystemPages
  <2> QED
    BY <1>3, <2>3, <2>4, <2>5
<1>4. CASE page = "NAVIGATION_ROOT"
  <2>1. Children(page) = [i \in {0, 6, 11} |-> CASE i = 0 -> "NAVIGATION_OVERVIEW"
                                 [] i = 6 -> "NAV_MISSION" [] OTHER -> "NAV_TEST"]
    BY <1>4 DEF Children
  <2>2. k \in {0, 6, 11}
        /\ Children(page)[k] = CASE k = 0 -> "NAVIGATION_OVERVIEW"
                                 [] k = 6 -> "NAV_MISSION" [] OTHER -> "NAV_TEST"
    BY <2>1
  <2>3. Children(page)[k] \in {"NAVIGATION_OVERVIEW", "NAV_MISSION", "NAV_TEST"}
    BY <2>2
  <2>4. Parent(Children(page)[k]) = "NAVIGATION_ROOT" /\ Domain(Children(page)[k]) = "NAVIGATION"
    BY <2>3 DEF Parent, Domain, Roots, EscPages, PerceptionPages, NavigationPages, SystemPages
  <2>5. Domain("NAVIGATION_ROOT") = "NAVIGATION"
    BY DEF Domain, EscPages, PerceptionPages, NavigationPages, SystemPages
  <2> QED
    BY <1>4, <2>3, <2>4, <2>5
<1>5. CASE page = "SYSTEM_ROOT"
  <2>1. Children(page) = [i \in {0, 9} |-> IF i = 0 THEN "SYSTEM_OVERVIEW" ELSE "SYSTEM_TFT_TEST"]
    BY <1>5 DEF Children
  <2>2. Children(page)[k] \in {"SYSTEM_OVERVIEW", "SYSTEM_TFT_TEST"}
    BY <2>1
  <2>4. Parent(Children(page)[k]) = "SYSTEM_ROOT" /\ Domain(Children(page)[k]) = "SYSTEM"
    BY <2>2 DEF Parent, Domain, Roots, EscPages, PerceptionPages, NavigationPages, SystemPages
  <2>5. Domain("SYSTEM_ROOT") = "SYSTEM"
    BY DEF Domain, EscPages, PerceptionPages, NavigationPages, SystemPages
  <2> QED
    BY <1>5, <2>2, <2>4, <2>5
<1> QED
  BY <1>1, <1>2, <1>3, <1>4, <1>5 DEF HasChildren, Roots

LEMMA TargetsBelow ==
  ASSUME NEW page, NEW view, NEW next \in Target(page, view)
  PROVE  /\ next # "HOME" /\ Parent(next) = page
         /\ Domain(next) = Domain(page) /\ Domain(page) # "NONE"
<1>1. \/ page = "ESC_STEERING" /\ next = "ESC_STEERING_TEST_ANGLE"
      \/ page = "ESC_DRIVE" /\ next \in {"ESC_ERPM_PER_MPS", "ESC_MANUAL_SPEED"}
      \/ page = "PERCEPTION_CAMERA" /\ next = "PERCEPTION_INFERENCE"
  BY DEF Target
<1> QED
  BY <1>1 DEF Parent, Domain, Roots, EscPages, PerceptionPages, NavigationPages, SystemPages

(* The page a key leads to. *)
LEMMA DestinationGoesBack ==
  ASSUME NEW u, IsPage(u), NEW key
  PROVE  WayBack(u, Destination(u, key)) /\ IsPage(Destination(u, key))
<1>1. WayBack(u, u)
  BY DEF WayBack
<1>2. ASSUME NEW next, next \in {u.menu, Parent(u.menu)} \cup ExternalPages
      PROVE  WayBack(u, SetMenu(u, next)) /\ IsPage(SetMenu(u, next))
  BY <1>2, SetMenuIs DEF WayBack
<1>3. CASE key = "MENU"
  BY <1>2, <1>3 DEF Destination, ExternalPages
<1>4. CASE key = "TOP_LEFT"
  <2>1. Destination(u, key) = u \/ Destination(u, key) = SetMenu(u, Parent(u.menu))
    BY <1>4 DEF Destination, Back
  <2> QED
    BY <1>1, <1>2, <2>1
<1>5. CASE key \in {"CARD_0", "CARD_1", "CARD_2"}
  <2> DEFINE slot == CardSlot(key)
             next == CardAt(u.menu, u.page, slot)
  <2>1. Destination(u, key) = IF IsCard(u.menu, u.page, slot) THEN SetMenu(u, next) ELSE u
    BY <1>5 DEF Destination, ChooseCard
  <2>2. CASE IsCard(u.menu, u.page, slot)
    <3>1. \/ next \in ExternalPages
          \/ /\ next # "HOME" /\ Parent(next) = u.menu
             /\ Domain(next) = Domain(u.menu) /\ Domain(u.menu) # "NONE"
      BY <2>2, CardsBelow DEF IsCard, CardAt
    <3>2. Destination(u, key) = SetMenu(u, next)
      BY <2>1, <2>2
    <3> HIDE DEF next
    <3> QED
      BY <1>2, <3>1, <3>2, BelowGoesBack, SetMenuIs DEF WayBack
  <2>3. CASE ~IsCard(u.menu, u.page, slot)
    BY <1>1, <2>1, <2>3
  <2> QED
    BY <2>2, <2>3
<1>6. CASE key \in {"LEFT", "RIGHT"} /\ ~EditFooter(u.menu) /\ u.menu # "ESC_MANUAL_TEST"
  <2>1. Destination(u, key) = SelectRelative(u, Direction(key))
    BY <1>6 DEF Destination
  <2>2. PICK x : \/ Destination(u, key) = [u EXCEPT !.page = x]
                 \/ Destination(u, key) = [u EXCEPT !.view = x]
    BY <2>1 DEF SelectRelative
  <2>3. Destination(u, key).menu = u.menu /\ IsPage(Destination(u, key))
    BY <2>2 DEF IsPage
  <2> QED
    BY <2>3 DEF WayBack
<1>7. CASE key = "OK" /\ Target(u.menu, u.view) # {}
  <2> DEFINE next == CHOOSE page \in Target(u.menu, u.view) : TRUE
  <2>1. Destination(u, key) = SetMenu(u, next) /\ next \in Target(u.menu, u.view)
    BY <1>7 DEF Destination
  <2> HIDE DEF next
  <2> QED
    BY <2>1, TargetsBelow, BelowGoesBack, SetMenuIs DEF WayBack
<1>8. CASE /\ key # "MENU" /\ key # "TOP_LEFT" /\ key \notin {"CARD_0", "CARD_1", "CARD_2"}
           /\ ~(key \in {"LEFT", "RIGHT"} /\ ~EditFooter(u.menu) /\ u.menu # "ESC_MANUAL_TEST")
           /\ ~(key = "OK" /\ Target(u.menu, u.view) # {})
  <2>1. Destination(u, key) = u
    BY <1>8 DEF Destination
  <2> QED
    BY <1>1, <2>1
<1> QED
  BY <1>3, <1>4, <1>5, <1>6, <1>7, <1>8

-----------------------------------------------------------------------------
(* The page in a pass.                                                     *)

LEMMA GoToPage ==
  ASSUME NEW p, IsPanel(p), NEW next
  PROVE  GoTo(p, next).ui = next
<1> DEFINE s == IF next.menu # p.ui.menu /\ (Running(p) \/ p.ui.menu = "ESC_MANUAL_TEST")
                THEN StopAllManualTest(p) ELSE p
           v == InvalidateTouch(s)
<1>1. IsPanel(s)
  BY StopAllIs
<1>2. GoTo(p, next) = [v EXCEPT !.ui = next, !.idle = 0]
  BY DEF GoTo
<1> HIDE DEF s
<1>3. IsPanel(v)
  BY <1>1, InvalidateIs
<1> HIDE DEF v
<1> QED
  BY <1>2, <1>3 DEF IsPanel

LEMMA SoftKeyPage ==
  ASSUME NEW p, IsPanel(p), NEW key, NEW allowed
  PROVE  HandleSoftKey(p, key, allowed).ui \in {p.ui, Destination(p.ui, key)}
<1> DEFINE next == Destination(p.ui, key)
           v == InvalidateTouch(p)
<1>1. CASE p.ui.menu = "ESC_MANUAL_TEST" /\ key # "TOP_LEFT"
  <2>1. HandleSoftKey(p, key, allowed) = ManualKey(p, key, allowed)
    BY <1>1 DEF HandleSoftKey
  <2>2. \/ ManualKey(p, key, allowed) = p
        \/ ManualKey(p, key, allowed) = StopAllManualTest(p)
        \/ ManualKey(p, key, allowed) = StopDriveTest(p)
        \/ ManualKey(p, key, allowed) = [p EXCEPT !.drive = key, !.age = 0]
        \/ ManualKey(p, key, allowed) = [p EXCEPT !.steer = key]
    BY DEF ManualKey, RunDriveTest, RunSteeringTest
  <2>3. /\ StopAllManualTest(p).ui = p.ui /\ StopDriveTest(p).ui = p.ui
        /\ [p EXCEPT !.drive = key, !.age = 0].ui = p.ui /\ [p EXCEPT !.steer = key].ui = p.ui
    BY StopAllIs, StopDriveIs DEF IsPanel
  <2> QED
    BY <2>1, <2>2, <2>3
<1>2. CASE /\ ~(p.ui.menu = "ESC_MANUAL_TEST" /\ key # "TOP_LEFT")
           /\ next # p.ui /\ next.menu = p.ui.menu
  <2>1. HandleSoftKey(p, key, allowed) = [v EXCEPT !.ui = next]
    BY <1>2 DEF HandleSoftKey
  <2>2. IsPanel(v)
    BY InvalidateIs
  <2> HIDE DEF v, next
  <2>3. [v EXCEPT !.ui = next].ui = next
    BY <2>2 DEF IsPanel
  <2> QED
    BY <2>1, <2>3 DEF next
<1>3. CASE /\ ~(p.ui.menu = "ESC_MANUAL_TEST" /\ key # "TOP_LEFT")
           /\ next # p.ui /\ next.menu # p.ui.menu
  <2>1. HandleSoftKey(p, key, allowed) = GoTo(p, next)
    BY <1>3 DEF HandleSoftKey
  <2> QED
    BY <2>1, GoToPage
<1>4. CASE ~(p.ui.menu = "ESC_MANUAL_TEST" /\ key # "TOP_LEFT") /\ next = p.ui
  BY <1>4 DEF HandleSoftKey
<1> QED
  BY <1>1, <1>2, <1>3, <1>4

(* A pass goes where a key leads, or to the service pages, and only when   *)
(* the finger was down before it. *)
LEMMA TurnPage ==
  ASSUME NEW c, SafePanel(c), NEW allowed, NEW where, NEW r,
         r = HandleTouch(c, PollTouch(c.touch, c.ui, where), allowed)
  PROVE  \/ r.ui = c.ui
         \/ /\ c.touch.down
            /\ \/ r.ui = SetMenu(c.ui, "SYSTEM_ROOT")
               \/ \E key : r.ui = Destination(c.ui, key)
<1> DEFINE e == PollTouch(c.touch, c.ui, where)
           n == [c EXCEPT !.touch = e.touch]
           w == [c EXCEPT !.touch = e.touch, !.idle = 0]
<1>0. IsPanel(c) /\ IsTouch(c.touch) /\ (c.touch.block => ~c.touch.down)
  BY DEF SafePanel, IsPanel
<1>1. /\ IsTouch(e.touch)
      /\ \/ Quiet(c.touch, e) \/ IsPress(c.touch, c.ui, where, e) \/ IsRelease(c.touch, e)
         \/ IsHold(c.touch, c.ui, where, e) \/ IsRepeat(c.touch, c.ui, where, e)
         \/ IsStill(c.touch, c.ui, where, e)
  BY <1>0, PollKinds
<1>2. CASE c.display.init # "IDLE" \/ ~c.display.usable
  BY <1>2 DEF HandleTouch
<1>3. CASE ~(c.display.init # "IDLE" \/ ~c.display.usable)
  <2>1. r = IF e.key = NoKey THEN n ELSE HandleEvent(w, e, allowed)
    BY <1>3 DEF HandleTouch
  <2> HIDE DEF e
  <2>2. IsPanel(n) /\ n.ui = c.ui /\ IsPanel(w) /\ w.ui = c.ui
    <3> DEFINE t == e.touch
    <3>1. IsTouch(t)
      BY <1>1
    <3> HIDE DEF t
    <3>2. IsPanel([c EXCEPT !.touch = t]) /\ [c EXCEPT !.touch = t].ui = c.ui
      BY <1>0, <3>1 DEF IsPanel
    <3>3. IsPanel([c EXCEPT !.touch = t, !.idle = 0]) /\ [c EXCEPT !.touch = t, !.idle = 0].ui = c.ui
      BY <1>0, <3>1 DEF IsPanel
    <3> QED
      BY <3>2, <3>3 DEF t
  <2> HIDE DEF n, w
  <2>3. CASE Quiet(c.touch, e) \/ IsStill(c.touch, c.ui, where, e) \/ e.key = NoKey
    BY <2>1, <2>2, <2>3 DEF Quiet, IsStill
  <2>4. CASE IsPress(c.touch, c.ui, where, e)
    <3>1. r = n \/ r = w \/ r = StopAllManualTest(w)
      BY <2>1, <2>4 DEF IsPress, HandleEvent
    <3> QED
      BY <2>2, <3>1, StopAllIs
  <2>5. CASE e.key # NoKey /\ (IsRelease(c.touch, e) \/ IsHold(c.touch, c.ui, where, e)
                               \/ IsRepeat(c.touch, c.ui, where, e))
    <3>1. c.touch.down
      BY <2>5 DEF IsRelease, IsHold, IsRepeat, OnKey
    <3>2. \/ r = StopAllManualTest(w) \/ r = EnterServiceMode(w, allowed)
          \/ r = HandleSoftKey(w, e.key, allowed)
      <4>1. r = HandleEvent(w, e, allowed) /\ e.type \in {"RELEASE", "HOLD", "REPEAT"}
        BY <2>1, <2>5 DEF IsRelease, IsHold, IsRepeat
      <4> QED
        BY <4>1 DEF HandleEvent
    <3>3. CASE r = StopAllManualTest(w)
      BY <2>2, <3>3, StopAllIs
    <3>4. CASE r = EnterServiceMode(w, allowed)
      <4> DEFINE g == GoTo(w, SetMenu(w.ui, "SYSTEM_ROOT"))
      <4>1. r = w \/ r = [g EXCEPT !.touch = [g.touch EXCEPT !.block = TRUE]]
        BY <3>4 DEF EnterServiceMode
      <4>2. IsPanel(g) /\ g.ui = SetMenu(c.ui, "SYSTEM_ROOT")
        BY <2>2, GoToIs, GoToPage
      <4> HIDE DEF g
      <4>3. [g EXCEPT !.touch = [g.touch EXCEPT !.block = TRUE]].ui = g.ui
        BY <4>2 DEF IsPanel
      <4> QED
        BY <2>2, <3>1, <4>1, <4>2, <4>3
    <3>5. CASE r = HandleSoftKey(w, e.key, allowed)
      <4>1. r.ui \in {w.ui, Destination(w.ui, e.key)}
        BY <2>2, <3>5, SoftKeyPage
      <4> QED
        BY <2>2, <3>1, <4>1
    <3> QED
      BY <3>2, <3>3, <3>4, <3>5
  <2> QED
    BY <1>1, <2>3, <2>4, <2>5
<1> QED
  BY <1>2, <1>3

(* Before the panel's turn the page stays, or a page that nobody touches   *)
(* goes home.                                                              *)
LEMMA RecoveryPage ==
  ASSUME NEW p, SafePanel(p), NEW works
  PROVE  ServiceDisplayRecovery(p, works).ui = p.ui
<1> DEFINE v == InvalidateTouch(p)
           q == IF Running(p) \/ p.ui.menu = "ESC_MANUAL_TEST" THEN StopAllManualTest(p) ELSE p
           w == InvalidateTouch(q)
<1>1. IsPanel(p) /\ IsPanel(v) /\ v.ui = p.ui
  BY InvalidateIs DEF SafePanel
<1>2. IsPanel(q) /\ q.ui = p.ui
  BY <1>1, StopAllIs
<1>3. \/ ServiceDisplayRecovery(p, works) = p
      \/ \E d1, d2 : ServiceDisplayRecovery(p, works) = [[v EXCEPT !.display = d1] EXCEPT !.display = d2]
      \/ \E d : ServiceDisplayRecovery(p, works) = [p EXCEPT !.display = d]
      \/ \E d : ServiceDisplayRecovery(p, works) = [w EXCEPT !.display = d]
  BY DEF ServiceDisplayRecovery, InitEnds, BeginRecovery
<1> HIDE DEF q
<1>4. IsPanel(w) /\ w.ui = q.ui
  BY <1>2, InvalidateIs
<1> HIDE DEF v, w
<1>5. /\ \A d1, d2 : [[v EXCEPT !.display = d1] EXCEPT !.display = d2].ui = v.ui
      /\ \A d : [p EXCEPT !.display = d].ui = p.ui
      /\ \A d : [w EXCEPT !.display = d].ui = w.ui
  BY <1>1, <1>4 DEF IsPanel
<1>6. w.ui = p.ui
  BY <1>2, <1>4
<1>7. CASE \E d1, d2 : ServiceDisplayRecovery(p, works) = [[v EXCEPT !.display = d1] EXCEPT !.display = d2]
  <2>1. PICK d1, d2 : ServiceDisplayRecovery(p, works) = [[v EXCEPT !.display = d1] EXCEPT !.display = d2]
    BY <1>7
  <2>2. [[v EXCEPT !.display = d1] EXCEPT !.display = d2].ui = v.ui
    BY <1>5
  <2> QED
    BY <1>1, <2>1, <2>2
<1>8. CASE \E d : ServiceDisplayRecovery(p, works) = [p EXCEPT !.display = d]
  <2>1. PICK d : ServiceDisplayRecovery(p, works) = [p EXCEPT !.display = d]
    BY <1>8
  <2> QED
    BY <1>5, <2>1
<1>9. CASE \E d : ServiceDisplayRecovery(p, works) = [w EXCEPT !.display = d]
  <2>1. PICK d : ServiceDisplayRecovery(p, works) = [w EXCEPT !.display = d]
    BY <1>9
  <2>2. [w EXCEPT !.display = d].ui = w.ui
    BY <1>5
  <2> QED
    BY <1>6, <2>1, <2>2
<1> QED
  BY <1>3, <1>7, <1>8, <1>9

LEMMA BeforePage ==
  ASSUME SafePanel(Panel), NEW works, NEW c,
         c = DriveDeadline(AutoReturn(ServiceDisplayRecovery(TouchAged(Panel), works)))
  PROVE  c.ui = ui \/ (c.ui = SetMenu(ui, "HOME") /\ ~c.touch.down)
<1> DEFINE a == TouchAged(Panel)
           b == ServiceDisplayRecovery(a, works)
           r == AutoReturn(b)
<1>1. SafePanel(a) /\ a.ui = ui
  BY AgedIs
<1> HIDE DEF a
<1>2. SafePanel(b) /\ b.ui = ui
  BY <1>1, RecoveryCalms, RecoveryPage
<1> HIDE DEF b
<1>3. IsPanel(r) /\ (r.ui = ui \/ (r.ui = SetMenu(ui, "HOME") /\ ~r.touch.down))
  <2>1. r = b \/ r = GoTo(b, SetMenu(b.ui, "HOME"))
    BY DEF AutoReturn
  <2>2. IsPanel(b)
    BY <1>2 DEF SafePanel
  <2> HIDE DEF r
  <2>3. CASE r = b
    BY <1>2, <2>2, <2>3
  <2>4. CASE r = GoTo(b, SetMenu(b.ui, "HOME"))
    <3> DEFINE h == SetMenu(b.ui, "HOME")
               g == GoTo(b, h)
    <3>1. h = SetMenu(ui, "HOME")
      BY <1>2
    <3> HIDE DEF h
    <3>2. IsPanel(g) /\ g.ui = h /\ ~g.touch.down
      BY <2>2, GoToIs, GoToPage
    <3>3. r = g
      BY <2>4 DEF g, h
    <3> HIDE DEF g
    <3> QED
      BY <3>1, <3>2, <3>3
  <2> QED
    BY <2>1, <2>3, <2>4
<1> HIDE DEF r
<1>4. c = r \/ c = StopDriveTest(r)
  BY DEF DriveDeadline, r, b, a
<1> QED
  BY <1>3, <1>4, StopDriveIs

LEMMA PassPage ==
  ASSUME SafePanel(Panel), IsPage(ui), NEW works, NEW allowed, Pass(works, allowed)
  PROVE  WayBack(ui, ui') /\ IsPage(ui')
<1> DEFINE d == DriveDeadline(AutoReturn(ServiceDisplayRecovery(TouchAged(Panel), works)))
<1>1. PICK p \in PassResults(works, allowed) : Becomes(p)
  BY DEF Pass
<1>2. p = HandleTouch(d, PollTouch(d.touch, d.ui, finger), allowed)
  BY DEF PassResults
<1>3. SafePanel(d) /\ (d.ui = ui \/ (d.ui = SetMenu(ui, "HOME") /\ ~d.touch.down))
  BY BeforeThePanel, BeforePage
<1> HIDE DEF d
<1>4. \/ p.ui = d.ui
      \/ /\ d.touch.down
         /\ \/ p.ui = SetMenu(d.ui, "SYSTEM_ROOT")
            \/ \E key : p.ui = Destination(d.ui, key)
  BY <1>2, <1>3, TurnPage
<1>5. ui' = p.ui
  BY <1>1 DEF Becomes
<1>6. CASE ui' = ui
  BY <1>6 DEF WayBack
<1>7. CASE ui' = SetMenu(ui, "HOME") \/ ui' = SetMenu(ui, "SYSTEM_ROOT")
  BY <1>7, SetMenuIs DEF WayBack, ExternalPages, Roots
<1>8. CASE \E key : ui' = Destination(ui, key)
  BY <1>8, DestinationGoesBack
<1> QED
  BY <1>3, <1>4, <1>5, <1>6, <1>7, <1>8

LEMMA PageStep ==
  ASSUME TouchInv, IsPage(ui), [TouchNext]_touchVars
  PROVE  WayBack(ui, ui') /\ IsPage(ui')
<1>0. SafePanel(Panel) /\ IsPanel(Panel)
  BY DEF TouchInv, SafePanel
<1>1. CASE \E works, allowed \in BOOLEAN : Pass(works, allowed)
  BY <1>0, <1>1, PassPage
<1>2. CASE \/ \E where \in Zones \cup {"up"} : FingerMoves(where)
           \/ DisplayFails \/ GateCloses \/ TestDisplay \/ UNCHANGED touchVars
  <2>1. ui' = ui
    <3>1. StopAllManualTest(Panel).ui = ui /\ InvalidateTouch(Panel).ui = ui
      BY <1>0, StopAllIs, InvalidateIs, PanelFields
    <3> QED
      BY <1>2, <3>1 DEF FingerMoves, DisplayFails, GateCloses, TestDisplay, Order, Becomes, touchVars
  <2> QED
    BY <2>1 DEF WayBack
<1>3. CASE \E page \in ExternalPages : SetExternalMenu(page)
  <2>1. PICK page \in ExternalPages : SetExternalMenu(page)
    BY <1>3
  <2>2. ui' = GoTo(Panel, SetMenu(ui, page)).ui
    BY <2>1 DEF SetExternalMenu, Order, Becomes
  <2>3. ui' = SetMenu(ui, page)
    BY <1>0, <2>2, GoToPage
  <2> QED
    BY <2>3, SetMenuIs DEF WayBack
<1> QED
  BY <1>1, <1>2, <1>3 DEF TouchNext

(* Whatever is pressed, held, ordered by the host or returned by itself, a *)
(* page that a card or an action opened is left for the page that opened   *)
(* it, at the cards it showed (menuParent, menuChildren, setMenu).         *)
THEOREM WayBackKept == TouchSpec => BackReturns
<1>1. TouchInit => IsPage(ui)
  BY DEF TouchInit, FirstPage, IsPage
<1>2. TouchInv /\ IsPage(ui) /\ [TouchNext]_touchVars => IsPage(ui)'
  BY PageStep
<1>3. TouchSpec => []IsPage(ui)
  BY <1>1, <1>2, TouchInvKept, PTL DEF TouchSpec
<1>4. TouchInv /\ IsPage(ui) /\ [TouchNext]_touchVars =>
        [ui'.menu \notin {ui.menu, Parent(ui.menu)} \cup ExternalPages =>
           Back(ui').menu = ui.menu /\ Back(ui').page = ui.page]_touchVars
  BY PageStep DEF WayBack
<1> QED
  BY <1>3, <1>4, TouchInvKept, PTL DEF TouchSpec, BackReturns

-----------------------------------------------------------------------------
(* CanPayload.  Bits in bytes: sizes, the place of a bit, and products.    *)

LEMMA PayloadSizes ==
  /\ ByteBits \in Nat /\ ByteBits > 0 /\ FirstBytes \in Nat /\ FirstBytes > 0
  /\ PayloadFrame \in Nat /\ PayloadFrame > 0 /\ PayloadHead \in Nat /\ PayloadHead > 0
  /\ PayloadBlock \in Nat /\ PayloadBlock > 0 /\ MessageBytes \in Nat /\ MessageBytes > 0
  /\ PayloadHead >= FirstBytes /\ MaxBytes \in Nat /\ MaxBytes > FirstBytes
<1>1. \A x \in {ByteBits, FirstBytes, PayloadFrame, PayloadHead, PayloadBlock, MessageBytes} :
        x \in Nat /\ x # 0
  BY PayloadAssumption
<1>2. FirstBytes \in Nat /\ FirstBytes + 1 \in Nat
  BY <1>1
<1>3. MaxBytes \in Nat /\ MaxBytes > FirstBytes
  BY <1>2, PayloadAssumption
<1> QED
  BY <1>1, <1>3, PayloadAssumption

LEMMA LeastOfTwo ==
  ASSUME NEW a \in Int, NEW b \in Int
  PROVE  Min({a, b}) = IF a <= b THEN a ELSE b
<1> DEFINE m == IF a <= b THEN a ELSE b
<1>1. m \in {a, b} /\ \A y \in {a, b} : m <= y
  OBVIOUS
<1>2. \A x \in {a, b} : (\A y \in {a, b} : x <= y) => x = m
  OBVIOUS
<1> QED
  BY <1>1, <1>2 DEF Min

LEMMA GreatestOfTwo ==
  ASSUME NEW a \in Int, NEW b \in Int
  PROVE  Max({a, b}) = IF a <= b THEN b ELSE a
<1> DEFINE m == IF a <= b THEN b ELSE a
<1>1. m \in {a, b} /\ \A y \in {a, b} : m >= y
  OBVIOUS
<1>2. \A x \in {a, b} : (\A y \in {a, b} : x >= y) => x = m
  OBVIOUS
<1> QED
  BY <1>1, <1>2 DEF Max

(* The byte of a bit and its place in it.                                  *)
LEMMA PlaceOfBit ==
  ASSUME NEW x \in Nat
  PROVE  /\ x \div ByteBits \in Nat /\ x % ByteBits \in 0..(ByteBits - 1)
         /\ x = (x \div ByteBits) * ByteBits + (x % ByteBits)
<1> DEFINE q == x \div ByteBits
           r == x % ByteBits
<1>1. ByteBits \in Nat /\ ByteBits > 0
  BY PayloadSizes
<1>2. q \in Nat /\ r \in 0..(ByteBits - 1)
  BY <1>1
<1>3. q = x \div ByteBits /\ r = x % ByteBits
  OBVIOUS
<1> HIDE DEF q, r
<1>4. x = q * ByteBits + r
  BY <1>1, <1>2, <1>3
<1> QED
  BY <1>2, <1>3, <1>4

LEMMA BitAtPlace ==
  ASSUME NEW q \in Nat, NEW r \in 0..(ByteBits - 1)
  PROVE  /\ (q * ByteBits + r) \in Nat
         /\ (q * ByteBits + r) \div ByteBits = q /\ (q * ByteBits + r) % ByteBits = r
<1> DEFINE x == q * ByteBits + r
<1>1. ByteBits \in Nat /\ ByteBits > 0
  BY PayloadSizes
<1>2. x \in Nat /\ x = q * ByteBits + r
  BY <1>1
<1> HIDE DEF x
<1>3. x \div ByteBits = q /\ x % ByteBits = r
  BY <1>1, <1>2
<1> QED
  BY <1>2, <1>3

(* Bits on in the same byte.                                               *)
LEMMA SameByte ==
  ASSUME NEW x \in Nat, NEW j \in Nat, (x % ByteBits) + j < ByteBits
  PROVE  (x + j) \div ByteBits = x \div ByteBits /\ (x + j) % ByteBits = (x % ByteBits) + j
<1>1. ByteBits \in Nat /\ ByteBits > 0
  BY PayloadSizes
<1> QED
  BY <1>1

LEMMA Products ==
  ASSUME NEW u \in Int, NEW v \in Int
  PROVE  /\ u * ByteBits \in Int /\ (u + v) * ByteBits = u * ByteBits + v * ByteBits
         /\ (u - v) * ByteBits = u * ByteBits - v * ByteBits
         /\ (u <= v => u * ByteBits <= v * ByteBits)
         /\ (u < v => u * ByteBits + ByteBits <= v * ByteBits)
         /\ (u \in Nat => u * ByteBits \in Nat)
         /\ 0 * ByteBits = 0 /\ 1 * ByteBits = ByteBits
<1>1. ByteBits \in Nat /\ ByteBits > 0
  BY PayloadSizes
<1>2. u < v => u * ByteBits + ByteBits <= v * ByteBits
  <2> SUFFICES ASSUME u < v PROVE u * ByteBits + ByteBits <= v * ByteBits
    OBVIOUS
  <2>1. PICK k \in Nat : v = u + 1 + k
    <3>1. v - u - 1 \in Nat /\ v = u + 1 + (v - u - 1)
      OBVIOUS
    <3> QED
      BY <3>1
  <2>2. v * ByteBits = u * ByteBits + ByteBits + k * ByteBits /\ k * ByteBits \in Nat
    BY <1>1, <2>1
  <2> QED
    BY <1>1, <2>2
<1>3. u <= v => u * ByteBits <= v * ByteBits
  <2>1. u * ByteBits \in Int /\ v * ByteBits \in Int
    BY <1>1
  <2> QED
    BY <1>1, <1>2, <2>1
<1>4. u * ByteBits \in Int /\ (u + v) * ByteBits = u * ByteBits + v * ByteBits
      /\ (u - v) * ByteBits = u * ByteBits - v * ByteBits
      /\ (u \in Nat => u * ByteBits \in Nat)
      /\ 0 * ByteBits = 0 /\ 1 * ByteBits = ByteBits
  BY <1>1
<1> QED
  BY <1>2, <1>3, <1>4

LEMMA NatProduct ==
  ASSUME NEW u \in Nat
  PROVE  u * ByteBits \in Nat
<1>1. ByteBits \in Nat
  BY PayloadSizes
<1> QED
  BY <1>1

(* A bit of an area of N bytes is in one of its bytes.                     *)
LEMMA PlaceInArea ==
  ASSUME NEW N \in Nat, NEW x \in Nat, x < N * ByteBits
  PROVE  x \div ByteBits \in 0..(N - 1) /\ x % ByteBits \in 0..(ByteBits - 1)
<1> DEFINE q == x \div ByteBits
           r == x % ByteBits
<1>1. q \in Nat /\ r \in 0..(ByteBits - 1) /\ x = q * ByteBits + r
  BY PlaceOfBit
<1>2. ByteBits \in Nat /\ ByteBits > 0
  BY PayloadSizes
<1> HIDE DEF q, r
<1>3. q < N
  <2> SUFFICES ASSUME N <= q PROVE FALSE
    BY <1>1
  <2>1. N * ByteBits <= q * ByteBits /\ N * ByteBits \in Int /\ q * ByteBits \in Int
    BY <1>1, Products
  <2> QED
    BY <1>1, <1>2, <2>1
<1>4. q \in 0..(N - 1) /\ r \in 0..(ByteBits - 1)
  BY <1>1, <1>3
<1> QED
  BY <1>4 DEF q, r

OctetOf(T) == [0..(ByteBits - 1) -> T]
AreaOf(N, T) == [0..(N - 1) -> OctetOf(T)]
Bit(a, x) == a[x \div ByteBits][x % ByteBits]

LEMMA BitInArea ==
  ASSUME NEW T, NEW N \in Nat, NEW a \in AreaOf(N, T), NEW x \in Nat, x < N * ByteBits
  PROVE  Bit(a, x) \in T
BY PlaceInArea DEF AreaOf, OctetOf, Bit

(* A turn moves as many bits as both bytes have left.                      *)
LEMMA AtOnce ==
  ASSUME NEW from \in Nat, NEW to \in Nat, NEW left \in Nat, left > 0
  PROVE  /\ BitsAtOnce(from, to, left) \in 1..left
         /\ (from % ByteBits) + BitsAtOnce(from, to, left) <= ByteBits
         /\ (to % ByteBits) + BitsAtOnce(from, to, left) <= ByteBits
<1> DEFINE s == from % ByteBits
           d == to % ByteBits
<1>1. s \in 0..(ByteBits - 1) /\ d \in 0..(ByteBits - 1) /\ ByteBits \in Nat
  BY PlaceOfBit, PayloadSizes
<1>2. BitsAtOnce(from, to, left) = Min({left, ByteBits - Max({s, d})})
  BY DEF BitsAtOnce
<1> HIDE DEF s, d
<1>3. Max({s, d}) = IF s <= d THEN d ELSE s
  BY <1>1, GreatestOfTwo
<1> DEFINE g == ByteBits - Max({s, d})
<1>4. g \in Int /\ g >= 1 /\ s + g <= ByteBits /\ d + g <= ByteBits
  BY <1>1, <1>3
<1> HIDE DEF g
<1>5. Min({left, g}) = IF left <= g THEN left ELSE g
  BY <1>4, LeastOfTwo
<1>6. BitsAtOnce(from, to, left) = IF left <= g THEN left ELSE g
  BY <1>2, <1>5 DEF g
<1>7. /\ BitsAtOnce(from, to, left) \in 1..left
      /\ s + BitsAtOnce(from, to, left) <= ByteBits
      /\ d + BitsAtOnce(from, to, left) <= ByteBits
  BY <1>1, <1>4, <1>6
<1> QED
  BY <1>7 DEF s, d

(* out is dst with n bits of src from from on put at to.                   *)
Moved(out, src, from, n, dst, to, M) ==
  \A x \in Nat : x < M * ByteBits =>
    Bit(out, x) = IF to <= x /\ x < to + n THEN Bit(src, from + (x - to)) ELSE Bit(dst, x)

LEMMA OneTurn ==
  ASSUME NEW T, NEW N \in Nat, NEW M \in Nat, NEW src \in AreaOf(N, T), NEW dst \in AreaOf(M, T),
         NEW from \in Nat, NEW to \in Nat, NEW n \in Nat, n > 0,
         from + n <= N * ByteBits, to + n <= M * ByteBits,
         (from % ByteBits) + n <= ByteBits, (to % ByteBits) + n <= ByteBits
  PROVE  /\ MoveBits(src, from, n, dst, to) \in AreaOf(M, T)
         /\ Moved(MoveBits(src, from, n, dst, to), src, from, n, dst, to, M)
<1> DEFINE s == from % ByteBits
           d == to % ByteBits
           p == from \div ByteBits
           q == to \div ByteBits
           byte == [j \in DOMAIN dst[q] |-> IF j \in d..(d + n - 1) THEN src[p][(j - d) + s]
                                            ELSE dst[q][j]]
           out == [dst EXCEPT ![q] = byte]
<1>0. ByteBits \in Nat /\ ByteBits > 0 /\ N * ByteBits \in Int /\ M * ByteBits \in Int
  BY PayloadSizes, Products
<1>1. from < N * ByteBits /\ to < M * ByteBits
  BY <1>0
<1>2. p \in 0..(N - 1) /\ s \in 0..(ByteBits - 1) /\ q \in 0..(M - 1) /\ d \in 0..(ByteBits - 1)
  BY <1>1, PlaceInArea
<1>3. out = MoveBits(src, from, n, dst, to)
  BY DEF MoveBits
<1>4. dst[q] \in OctetOf(T) /\ src[p] \in OctetOf(T)
  BY <1>2 DEF AreaOf
<1>5. DOMAIN dst[q] = 0..(ByteBits - 1) /\ DOMAIN dst = 0..(M - 1)
  BY <1>4 DEF OctetOf, AreaOf
<1>6. s + n <= ByteBits /\ d + n <= ByteBits
  OBVIOUS
<1>7. byte \in OctetOf(T)
  <2>1. \A j \in 0..(ByteBits - 1) : j \in d..(d + n - 1) => (j - d) + s \in 0..(ByteBits - 1)
    <3> HIDE DEF s, d
    <3> QED
      BY <1>0, <1>2, <1>6
  <2> QED
    BY <1>4, <1>5, <2>1 DEF OctetOf
<1>8. out \in AreaOf(M, T)
  BY <1>7 DEF AreaOf
<1>9. ASSUME NEW x \in Nat, x < M * ByteBits
      PROVE  Bit(out, x) = IF to <= x /\ x < to + n THEN Bit(src, from + (x - to)) ELSE Bit(dst, x)
  <2> DEFINE y == x \div ByteBits
             j == x % ByteBits
  <2>1. y \in 0..(M - 1) /\ j \in 0..(ByteBits - 1) /\ x = y * ByteBits + j
    BY <1>9, PlaceInArea, PlaceOfBit
  <2>2. to = q * ByteBits + d
    BY PlaceOfBit
  <2>3. CASE y = q
    <3>1. Bit(out, x) = byte[j]
      BY <1>2, <1>5, <2>3 DEF Bit
    <3>2. byte[j] = IF j \in d..(d + n - 1) THEN src[p][(j - d) + s] ELSE dst[q][j]
      BY <1>5, <2>1
    <3>3. x - to = j - d
      <4>1. q * ByteBits \in Int /\ x = q * ByteBits + j
        BY <1>2, <2>1, <2>3, Products
      <4> DEFINE m == q * ByteBits
      <4>2. m \in Int /\ x = m + j /\ to = m + d
        BY <4>1, <2>2
      <4> HIDE DEF m, j, d
      <4> QED
        BY <1>2, <2>1, <4>2
    <3>4. j \in d..(d + n - 1) <=> (to <= x /\ x < to + n)
      <4> HIDE DEF j, d
      <4> QED
        BY <1>2, <2>1, <3>3
    <3>5. CASE j \in d..(d + n - 1)
      <4> DEFINE k == x - to
      <4>1. k \in Nat /\ s + k < ByteBits /\ k = j - d
        <5> HIDE DEF j, d, s
        <5> QED
          BY <1>0, <1>2, <1>6, <2>1, <3>3, <3>5
      <4> HIDE DEF k
      <4>2. (from + k) \div ByteBits = p /\ (from + k) % ByteBits = s + k
        BY <4>1, SameByte
      <4>3. Bit(src, from + k) = src[p][s + k]
        BY <4>2 DEF Bit
      <4>4. (j - d) + s = s + k
        <5> HIDE DEF j, d, s
        <5> QED
          BY <1>2, <2>1, <4>1
      <4> HIDE DEF byte, out
      <4>5. Bit(out, x) = Bit(src, from + k)
        BY <3>1, <3>2, <3>5, <4>3, <4>4
      <4> QED
        BY <3>4, <3>5, <4>5 DEF k
    <3>6. CASE j \notin d..(d + n - 1)
      <4> HIDE DEF byte, out
      <4>1. Bit(out, x) = dst[q][j] /\ Bit(dst, x) = dst[q][j]
        BY <2>3, <3>1, <3>2, <3>6 DEF Bit
      <4> QED
        BY <3>4, <3>6, <4>1
    <3> QED
      BY <3>5, <3>6
  <2>4. CASE y # q
    <3>1. Bit(out, x) = Bit(dst, x)
      BY <1>5, <2>1, <2>4 DEF Bit
    <3>2. ~(to <= x /\ x < to + n)
      <4> SUFFICES ASSUME to <= x, x < to + n PROVE FALSE
        OBVIOUS
      <4> DEFINE k == x - to
      <4>1. k \in Nat /\ d + k < ByteBits /\ x = to + k
        <5> HIDE DEF d
        <5> QED
          BY <1>0, <1>2, <1>6
      <4> HIDE DEF k
      <4>2. (to + k) \div ByteBits = q
        BY <4>1, SameByte
      <4> QED
        BY <2>4, <4>1, <4>2
    <3> QED
      BY <3>1, <3>2
  <2> QED
    BY <2>3, <2>4
<1> HIDE DEF out
<1> QED
  BY <1>3, <1>8, <1>9 DEF Moved

-----------------------------------------------------------------------------
(* Least elements and induction up to a number.                            *)

LEMMA SmallestOf ==
  ASSUME NEW T, T \subseteq Nat, T # {}
  PROVE  \E x \in T : \A y \in T : x <= y
<1> DEFINE R == OpToRel(<, Nat)
<1>1. IsWellFoundedOn(R, Nat)
  BY NatLessThanWellFounded
<1>2. \A x, y \in Nat : y < x => <<y, x>> \in R
  BY DEF OpToRel
<1> HIDE DEF R
<1>3. PICK x \in T : \A y \in T : ~ (<<y, x>> \in R)
  BY <1>1, WFMin
<1>4. \A y \in T : ~(y < x)
  BY <1>2, <1>3
<1> QED
  BY <1>4

(* What holds of 0 and of each number's successor up to k holds up to k.   *)
LEMMA CountUp ==
  ASSUME NEW k \in Nat, NEW S, 0 \in S, \A n \in 0..(k - 1) : n \in S => n + 1 \in S
  PROVE  0..k \subseteq S
<1> DEFINE T == {n \in 0..k : n \notin S}
<1> SUFFICES ASSUME T # {} PROVE FALSE
  OBVIOUS
<1>0. T \subseteq Nat
  OBVIOUS
<1>1. PICK x \in T : \A y \in T : x <= y
  <2> HIDE DEF T
  <2> QED
    BY <1>0, SmallestOf
<1>2. x \in 0..k /\ x # 0 /\ x - 1 \in 0..(k - 1) /\ (x - 1) + 1 = x /\ ~(x <= x - 1) /\ x - 1 \in 0..k
  BY <1>1
<1>3. x - 1 \in S
  BY <1>1, <1>2
<1> QED
  BY <1>1, <1>2, <1>3

-----------------------------------------------------------------------------
(* copyBitArray.                                                           *)

(* The turn after t of a copy of n bits.                                   *)
Turned(src, from, n, to, t) ==
  LET count == BitsAtOnce(from + t.done, to + t.done, n - t.done)
  IN IF t.done = n THEN t
     ELSE [done |-> t.done + count,
           out |-> MoveBits(src, from + t.done, count, t.out, to + t.done)]

Turns(f, src, from, n, dst, to, m) ==
  f = [k \in 0..m |-> IF k = 0 THEN [done |-> 0, out |-> dst] ELSE Turned(src, from, n, to, f[k - 1])]

LEMMA TurnsExist ==
  ASSUME NEW src, NEW from, NEW n, NEW dst, NEW to, NEW m \in Nat
  PROVE  \E f : Turns(f, src, from, n, dst, to, m)
<1> DEFINE S == {l \in Nat : \E f : Turns(f, src, from, n, dst, to, l)}
           base == [done |-> 0, out |-> dst]
<1>1. 0 \in S
  <2> DEFINE f == [k \in 0..0 |-> base]
  <2>1. f = [k \in 0..0 |-> IF k = 0 THEN base ELSE Turned(src, from, n, to, f[k - 1])]
    OBVIOUS
  <2> QED
    BY <2>1 DEF Turns
<1>2. ASSUME NEW l \in 0..(m - 1), l \in S PROVE l + 1 \in S
  <2>1. PICK f : Turns(f, src, from, n, dst, to, l)
    BY <1>2
  <2> DEFINE h == [k \in 0..(l + 1) |-> IF k = l + 1 THEN Turned(src, from, n, to, f[l]) ELSE f[k]]
  <2>2. \A k \in 0..l : f[k] = IF k = 0 THEN base ELSE Turned(src, from, n, to, f[k - 1])
    BY <2>1 DEF Turns
  <2>3. \A k \in 0..(l + 1) :
          h[k] = IF k = 0 THEN base ELSE Turned(src, from, n, to, h[k - 1])
    <3> TAKE k \in 0..(l + 1)
    <3>1. CASE k = l + 1
      <4>1. l \in 0..(l + 1) /\ l # l + 1 /\ k - 1 = l /\ k # 0 /\ h[l] = f[l]
        BY <3>1
      <4>2. h[k] = Turned(src, from, n, to, f[l])
        BY <3>1
      <4> QED
        BY <3>1, <4>1, <4>2
    <3>2. CASE k # l + 1
      <4>1. k \in 0..l /\ h[k] = f[k] /\ (k # 0 => k - 1 \in 0..l /\ k - 1 # l + 1 /\ h[k - 1] = f[k - 1])
        BY <3>2
      <4> HIDE DEF h
      <4> QED
        BY <2>2, <4>1
    <3> QED
      BY <3>1, <3>2
  <2>4. h = [k \in 0..(l + 1) |-> h[k]]
    OBVIOUS
  <2> HIDE DEF h
  <2>5. Turns(h, src, from, n, dst, to, l + 1)
    BY <2>3, <2>4 DEF Turns
  <2> QED
    BY <2>5
<1>3. m \in S
  <2> HIDE DEF S
  <2>1. 0..m \subseteq S
    BY <1>1, <1>2, CountUp
  <2> QED
    BY <2>1
<1> QED
  BY <1>3

LEMMA CopyIsTurns ==
  ASSUME NEW src, NEW from, NEW n \in Nat, NEW dst, NEW to
  PROVE  \E f : Turns(f, src, from, n, dst, to, n) /\ CopyBitArray(src, from, n, dst, to) = f[n].out
<1> DEFINE h == CHOOSE f : f = [k \in 0..n |->
                  IF k = 0 THEN [done |-> 0, out |-> dst] ELSE Turned(src, from, n, to, f[k - 1])]
<1>1. CopyBitArray(src, from, n, dst, to) = h[n].out
  BY DEF CopyBitArray, Turned
<1>2. PICK f : Turns(f, src, from, n, dst, to, n)
  BY TurnsExist
<1>3. f = [k \in 0..n |-> IF k = 0 THEN [done |-> 0, out |-> dst] ELSE Turned(src, from, n, to, f[k - 1])]
  BY <1>2 DEF Turns
<1>4. h = [k \in 0..n |-> IF k = 0 THEN [done |-> 0, out |-> dst] ELSE Turned(src, from, n, to, h[k - 1])]
  BY <1>3
<1>5. Turns(h, src, from, n, dst, to, n)
  BY <1>4 DEF Turns
<1> QED
  BY <1>1, <1>5

(* What the copy is: n bits of src from from on, put into dst at to.       *)
LEMMA Copies ==
  ASSUME NEW T, NEW N \in Nat, NEW M \in Nat, NEW src \in AreaOf(N, T), NEW dst \in AreaOf(M, T),
         NEW from \in Nat, NEW to \in Nat, NEW n \in Nat,
         from + n <= N * ByteBits, to + n <= M * ByteBits
  PROVE  /\ CopyBitArray(src, from, n, dst, to) \in AreaOf(M, T)
         /\ Moved(CopyBitArray(src, from, n, dst, to), src, from, n, dst, to, M)
<1>1. PICK f : Turns(f, src, from, n, dst, to, n) /\ CopyBitArray(src, from, n, dst, to) = f[n].out
  BY CopyIsTurns
<1>2. \A k \in 0..n : f[k] = IF k = 0 THEN [done |-> 0, out |-> dst]
                             ELSE Turned(src, from, n, to, f[k - 1])
  BY <1>1 DEF Turns
<1>0. N * ByteBits \in Int /\ M * ByteBits \in Int
  BY Products
<1> DEFINE Good(t, k) == /\ t.done \in 0..n /\ t.done >= k /\ t.out \in AreaOf(M, T)
                         /\ Moved(t.out, src, from, t.done, dst, to, M)
           S == {k \in 0..n : Good(f[k], k)}
<1>3. 0 \in S
  <2>1. f[0] = [done |-> 0, out |-> dst]
    BY <1>2
  <2>2. Moved(dst, src, from, 0, dst, to, M)
    BY DEF Moved
  <2> QED
    BY <2>1, <2>2
<1>4. ASSUME NEW k \in 0..(n - 1), k \in S PROVE k + 1 \in S
  <2> DEFINE t == f[k]
             u == f[k + 1]
  <2>1. Good(t, k)
    BY <1>4
  <2>2. u = Turned(src, from, n, to, t) /\ k + 1 \in 0..n
    <3>1. k + 1 \in 0..n /\ k + 1 # 0 /\ (k + 1) - 1 = k
      OBVIOUS
    <3> QED
      BY <1>2, <3>1
  <2> HIDE DEF t, u
  <2>3. Good(u, k + 1)
    <3>1. CASE t.done = n
      BY <2>1, <2>2, <3>1 DEF Turned
    <3>2. CASE t.done # n
      <4> DEFINE d == t.done
                 left == n - d
                 c == BitsAtOnce(from + d, to + d, left)
                 o == t.out
      <4>1. d \in Nat /\ d < n /\ d >= k /\ left \in Nat /\ left > 0
            /\ from + d \in Nat /\ to + d \in Nat
        BY <2>1, <3>2
      <4> DEFINE fd == from + d
                 td == to + d
      <4>2. /\ c \in 1..left /\ (fd % ByteBits) + c <= ByteBits /\ (td % ByteBits) + c <= ByteBits
        <5> HIDE DEF d, left
        <5> QED
          BY <4>1, AtOnce
      <4>3. u = [done |-> d + c, out |-> MoveBits(src, fd, c, o, td)]
        BY <2>2, <3>2 DEF Turned
      <4>4. o \in AreaOf(M, T) /\ Moved(o, src, from, d, dst, to, M)
        BY <2>1
      <4> HIDE DEF d, o
      <4>5. c \in Nat /\ c > 0 /\ fd + c <= N * ByteBits /\ td + c <= M * ByteBits
            /\ fd \in Nat /\ td \in Nat /\ d + c \in 0..n /\ d + c >= k + 1
        <5> HIDE DEF c
        <5> QED
          BY <1>0, <4>1, <4>2
      <4> HIDE DEF c
      <4>6. /\ MoveBits(src, fd, c, o, td) \in AreaOf(M, T)
            /\ Moved(MoveBits(src, fd, c, o, td), src, fd, c, o, td, M)
        <5> HIDE DEF fd, td
        <5> QED
          BY <4>2, <4>4, <4>5, OneTurn
      <4> DEFINE oo == MoveBits(src, fd, c, o, td)
      <4>7. Moved(oo, src, from, d + c, dst, to, M)
        <5> SUFFICES ASSUME NEW x \in Nat, x < M * ByteBits
                     PROVE  Bit(oo, x) = IF to <= x /\ x < to + (d + c) THEN Bit(src, from + (x - to))
                                         ELSE Bit(dst, x)
          BY DEF Moved
        <5>1. Bit(oo, x) = IF td <= x /\ x < td + c THEN Bit(src, fd + (x - td)) ELSE Bit(o, x)
          BY <4>6 DEF Moved
        <5>2. Bit(o, x) = IF to <= x /\ x < to + d THEN Bit(src, from + (x - to)) ELSE Bit(dst, x)
          BY <4>4 DEF Moved
        <5>3. fd + (x - td) = from + (x - to)
          BY <4>1
        <5>4. (td <= x /\ x < td + c) \/ (to <= x /\ x < to + d) <=> (to <= x /\ x < to + (d + c))
          BY <4>1, <4>5
        <5> HIDE DEF oo, td, fd
        <5> QED
          BY <5>1, <5>2, <5>3, <5>4
      <4> QED
        BY <4>3, <4>5, <4>6, <4>7
    <3> QED
      BY <3>1, <3>2
  <2> QED
    BY <2>2, <2>3 DEF u
<1>5. n \in S
  <2> HIDE DEF S
  <2>1. 0..n \subseteq S
    BY <1>3, <1>4, CountUp
  <2> QED
    BY <2>1
<1>6. Good(f[n], n)
  BY <1>5
<1>7. f[n].done = n
  BY <1>6
<1> QED
  BY <1>1, <1>6, <1>7

-----------------------------------------------------------------------------
(* Areas that hold the payload, and what is gathered from them.            *)

Bits == {"zero", "sent", "kept", "value"} \X Nat

(* a has N bytes: the payload's from byte base on, as far as L bytes of it *)
(* reach.                                                                  *)
HoldsFrom(a, N, base, L) ==
  /\ a \in AreaOf(N, Bits)
  /\ \A i \in 0..(N - 1) : base + i < L => a[i] = BitsOf("sent", base + i)

(* The first k bits of a scalar's storage are those from offset on.        *)
Gathered(o, offset, k) ==
  /\ o \in AreaOf(8, Bits)
  /\ \A x \in Nat : x < 8 * ByteBits => Bit(o, x) = IF x < k THEN <<"sent", offset + x>> ELSE Zero

LEMMA ByteTyped ==
  ASSUME NEW i \in Nat, NEW name \in {"sent", "kept"}
  PROVE  BitsOf(name, i) \in OctetOf(Bits)
<1>1. \A j \in 0..(ByteBits - 1) : i * ByteBits + j \in Nat
  BY BitAtPlace
<1> QED
  BY <1>1 DEF BitsOf, OctetOf, Bits

LEMMA BlankTyped ==
  ASSUME NEW N \in Nat
  PROVE  /\ BlankBytes(N) \in AreaOf(N, Bits)
         /\ \A x \in Nat : x < N * ByteBits => Bit(BlankBytes(N), x) = Zero
<1>1. ZeroByte \in OctetOf(Bits)
  BY DEF ZeroByte, Zero, OctetOf, Bits
<1>2. BlankBytes(N) \in AreaOf(N, Bits)
  BY <1>1 DEF BlankBytes, AreaOf
<1>3. ASSUME NEW x \in Nat, x < N * ByteBits PROVE Bit(BlankBytes(N), x) = Zero
  <2>1. x \div ByteBits \in 0..(N - 1) /\ x % ByteBits \in 0..(ByteBits - 1)
    BY <1>3, PlaceInArea
  <2> QED
    BY <2>1 DEF Bit, BlankBytes, ZeroByte
<1> QED
  BY <1>2, <1>3

LEMMA SentBit ==
  ASSUME NEW a, NEW N \in Nat, NEW base \in Nat, NEW L \in Nat, HoldsFrom(a, N, base, L),
         NEW y \in Nat, y < N * ByteBits, base * ByteBits + y < L * ByteBits
  PROVE  Bit(a, y) = <<"sent", base * ByteBits + y>>
<1> DEFINE i == y \div ByteBits
           j == y % ByteBits
<1>1. i \in 0..(N - 1) /\ j \in 0..(ByteBits - 1) /\ y = i * ByteBits + j
  BY PlaceInArea, PlaceOfBit
<1>2. Bit(a, y) = a[i][j]
  BY DEF Bit
<1> HIDE DEF i, j
<1>3. (base + i) * ByteBits = base * ByteBits + i * ByteBits
      /\ base * ByteBits \in Int /\ i * ByteBits \in Int /\ L * ByteBits \in Int
  BY <1>1, Products
<1>4. base + i < L
  <2> SUFFICES ASSUME L <= base + i PROVE FALSE
    BY <1>1
  <2>1. L * ByteBits <= (base + i) * ByteBits
    BY <1>1, Products
  <2> QED
    BY <1>1, <1>3, <2>1
<1>5. a[i] = BitsOf("sent", base + i)
  BY <1>1, <1>4 DEF HoldsFrom
<1>6. a[i][j] = <<"sent", (base + i) * ByteBits + j>>
  BY <1>1, <1>5 DEF BitsOf
<1>7. (base + i) * ByteBits + j = base * ByteBits + y
  BY <1>1, <1>3
<1> QED
  BY <1>2, <1>6, <1>7

(* Bits on, from an area that holds them.                                  *)
LEMMA Gather ==
  ASSUME NEW a, NEW N \in Nat, NEW base \in Nat, NEW L \in Nat, HoldsFrom(a, N, base, L),
         NEW o, NEW offset \in Nat, NEW done \in Nat, Gathered(o, offset, done), NEW n \in Nat,
         NEW at, at = offset + done, at >= base * ByteBits,
         at + n <= L * ByteBits, at + n <= (base + N) * ByteBits, done + n <= 8 * ByteBits
  PROVE  Gathered(CopyBitArray(a, at - base * ByteBits, n, o, done), offset, done + n)
<1> DEFINE B == base * ByteBits
           from == at - base * ByteBits
           out == CopyBitArray(a, from, n, o, done)
<1>1. /\ B \in Nat /\ L * ByteBits \in Int /\ N * ByteBits \in Int
      /\ (base + N) * ByteBits = B + N * ByteBits
  BY Products
<1>2. from \in Nat /\ from + n <= N * ByteBits /\ B + from = offset + done
  <2> HIDE DEF B
  <2>1. at - B \in Nat /\ (at - B) + n <= N * ByteBits /\ B + (at - B) = offset + done
    <3>1. at >= B
      BY DEF B
    <3> QED
      BY <1>1, <3>1
  <2> QED
    BY <2>1 DEF B
<1>3. a \in AreaOf(N, Bits) /\ o \in AreaOf(8, Bits)
  BY DEF HoldsFrom, Gathered
<1>4. out \in AreaOf(8, Bits) /\ Moved(out, a, from, n, o, done, 8)
  <2> HIDE DEF from
  <2> QED
    BY <1>2, <1>3, Copies
<1>5. ASSUME NEW x \in Nat, x < 8 * ByteBits
      PROVE  Bit(out, x) = IF x < done + n THEN <<"sent", offset + x>> ELSE Zero
  <2>1. Bit(out, x) = IF done <= x /\ x < done + n THEN Bit(a, from + (x - done)) ELSE Bit(o, x)
    BY <1>4, <1>5 DEF Moved
  <2>2. Bit(o, x) = IF x < done THEN <<"sent", offset + x>> ELSE Zero
    BY <1>5 DEF Gathered
  <2>3. CASE done <= x /\ x < done + n
    <3> DEFINE y == from + (x - done)
    <3>1. y \in Nat /\ y < N * ByteBits /\ B + y < L * ByteBits /\ B + y = offset + x
      <4> HIDE DEF B, from
      <4> QED
        BY <1>1, <1>2, <2>3
    <3> HIDE DEF y, from, out
    <3>2. Bit(a, y) = <<"sent", B + y>>
      BY <3>1, SentBit
    <3> HIDE DEF B
    <3> QED
      BY <2>1, <2>3, <3>1, <3>2 DEF y
  <2>4. CASE ~(done <= x /\ x < done + n)
    <3> HIDE DEF out
    <3> QED
      BY <2>1, <2>2, <2>4
  <2> QED
    BY <2>3, <2>4
<1> QED
  BY <1>4, <1>5 DEF Gathered

-----------------------------------------------------------------------------
(* The payload in memory, and descatterTransferPayload.                    *)

\* The byte of the payload after the n-th block.
Stop(n) == PayloadHead + n * PayloadBlock

Payloads == [length : Nat, head : AreaOf(PayloadHead, Bits),
             blocks : Seq(AreaOf(PayloadBlock, Bits)), tail : Seq(OctetOf(Bits))]

(* Head and blocks hold the first L bytes, as far as they reach, and there *)
(* are no more blocks than that takes.                                     *)
InMemory(p, L) ==
  /\ p \in Payloads /\ p.length = L
  /\ HoldsFrom(p.head, PayloadHead, 0, L)
  /\ \A b \in 1..Len(p.blocks) : HoldsFrom(p.blocks[b], PayloadBlock, Stop(b - 1), L) /\ Stop(b - 1) < L

(* The rest of them is in the last frame.                                  *)
InFrame(p, L) ==
  LET end == Stop(Len(p.blocks))
  IN p.tail = IF L <= end THEN <<>> ELSE [j \in 1..(L - end) |-> BitsOf("sent", end + j - 1)]

LEMMA Stops ==
  ASSUME NEW n \in Nat
  PROVE  /\ Stop(n) \in Nat /\ Stop(0) = PayloadHead /\ Stop(n + 1) = Stop(n) + PayloadBlock
         /\ \A m \in Nat : m < n => Stop(m) + PayloadBlock <= Stop(n)
         /\ \A m \in 0..n : Stop(n) - Stop(m) = (n - m) * PayloadBlock
<1>1. PayloadHead \in Nat /\ PayloadBlock \in Nat /\ PayloadBlock > 0
  BY PayloadSizes
<1>2. ASSUME NEW m \in Nat, m < n PROVE Stop(m) + PayloadBlock <= Stop(n)
  <2>1. PICK k \in Nat : n = m + 1 + k
    <3>1. n - m - 1 \in Nat /\ n = m + 1 + (n - m - 1)
      BY <1>2
    <3> QED
      BY <3>1
  <2>2. n * PayloadBlock = m * PayloadBlock + PayloadBlock + k * PayloadBlock
        /\ k * PayloadBlock \in Nat /\ m * PayloadBlock \in Nat
    BY <1>1, <2>1
  <2> QED
    BY <1>1, <2>2 DEF Stop
<1>3. ASSUME NEW m \in 0..n PROVE Stop(n) - Stop(m) = (n - m) * PayloadBlock
  BY <1>1 DEF Stop
<1>4. Stop(n) \in Nat /\ Stop(0) = PayloadHead /\ Stop(n + 1) = Stop(n) + PayloadBlock
  BY <1>1 DEF Stop
<1> QED
  BY <1>2, <1>3, <1>4

(* On the way through the chain up to block b, for n bits from offset on.  *)
Walks == [at : Nat, left : Nat, done : Nat, start : Nat, out : AreaOf(8, Bits)]

Walk(w, offset, n, b) ==
  /\ w \in Walks /\ w.at = offset + w.done /\ w.done + w.left = n
  /\ Gathered(w.out, offset, w.done)
  /\ w.left = 0 \/ (w.start = Stop(b) * ByteBits /\ w.at >= w.start)

LEMMA HeadRead ==
  ASSUME NEW p, NEW L \in Nat, InMemory(p, L),
         NEW offset \in Nat, NEW n \in Nat, offset + n <= L * ByteBits, n <= 8 * ByteBits
  PROVE  Walk(ReadHead(p, [at |-> offset, left |-> n, done |-> 0, start |-> PayloadHead * ByteBits,
                           out |-> BlankBytes(8)]), offset, n, 0)
<1> DEFINE w == [at |-> offset, left |-> n, done |-> 0, start |-> PayloadHead * ByteBits,
                 out |-> BlankBytes(8)]
           H == PayloadHead * ByteBits
<1>1. PayloadHead \in Nat /\ H \in Nat /\ 0 * ByteBits = 0 /\ L * ByteBits \in Int
      /\ 0 + PayloadHead = PayloadHead /\ Stop(0) = PayloadHead /\ ByteBits \in Nat
  BY PayloadSizes, Products, Stops
<1>2. Gathered(BlankBytes(8), offset, 0)
  <2>1. BlankBytes(8) \in AreaOf(8, Bits) /\ \A x \in Nat : x < 8 * ByteBits => Bit(BlankBytes(8), x) = Zero
    BY BlankTyped
  <2> QED
    BY <2>1 DEF Gathered
<1>3. BlankBytes(8) \in AreaOf(8, Bits)
  BY <1>2 DEF Gathered
<1>4. CASE offset >= H
  <2>1. ReadHead(p, w) = w
    BY <1>4 DEF ReadHead
  <2> HIDE DEF H
  <2>2. H = PayloadHead * ByteBits
    BY DEF H
  <2>3. w \in Walks
    BY <1>1, <1>3, <2>2 DEF Walks
  <2>4. Walk(w, offset, n, 0)
    BY <1>1, <1>2, <1>4, <2>2, <2>3 DEF Walk
  <2> QED
    BY <2>1, <2>4
<1>5. CASE offset < H
  <2> DEFINE k == Min({n, H - offset})
             out == CopyBitArray(p.head, offset, k, BlankBytes(8), 0)
             v == [at |-> offset + k, left |-> n - k, done |-> k, start |-> H, out |-> out]
  <2>1. k = IF n <= H - offset THEN n ELSE H - offset
    <3> HIDE DEF H
    <3> QED
      BY <1>1, LeastOfTwo
  <2>2. ReadHead(p, w) = v
    <3>1. ~(w.at >= H) /\ w.at = offset /\ w.left = n
      BY <1>1, <1>5
    <3>2. ReadHead(p, w) = [w EXCEPT !.out = CopyBitArray(p.head, w.at, k, w.out, 0),
                                     !.at = @ + k, !.done = k, !.left = @ - k]
      BY <3>1 DEF ReadHead
    <3> HIDE DEF k
    <3> QED
      BY <3>2
  <2> HIDE DEF H, k
  <2>3. k \in 0..n /\ offset + k <= H /\ (k = n \/ offset + k = H)
    BY <1>1, <1>5, <2>1
  <2>4. HoldsFrom(p.head, PayloadHead, 0, L)
    BY DEF InMemory
  <2>5. Gathered(out, offset, k)
    <3>1. /\ offset = offset + 0 /\ offset >= 0 * ByteBits /\ k \in Nat /\ 0 + k = k /\ 0 + k <= 8 * ByteBits
          /\ offset + k <= L * ByteBits /\ offset + k <= (0 + PayloadHead) * ByteBits
          /\ offset - 0 * ByteBits = offset
      BY <1>1, <2>3 DEF H
    <3>2. Gathered(CopyBitArray(p.head, offset - 0 * ByteBits, k, BlankBytes(8), 0), offset, 0 + k)
      BY <1>1, <1>2, <2>4, <3>1, Gather
    <3> QED
      BY <3>1, <3>2
  <2>6. out \in AreaOf(8, Bits)
    BY <2>5 DEF Gathered
  <2> HIDE DEF out
  <2>7. v \in Walks /\ v.at = offset + v.done /\ v.done + v.left = n
    BY <1>1, <2>3, <2>6 DEF Walks
  <2>8. v.left = 0 \/ (v.start = Stop(0) * ByteBits /\ v.at >= v.start)
    <3>1. H = Stop(0) * ByteBits
      BY <1>1 DEF H
    <3> QED
      BY <1>1, <2>3, <3>1
  <2>9. Walk(v, offset, n, 0)
    BY <2>5, <2>7, <2>8 DEF Walk
  <2> HIDE DEF v
  <2> QED
    BY <2>2, <2>9
<1>6. offset \in Int /\ H \in Int
  BY <1>1
<1>7. offset >= H \/ offset < H
  <2> HIDE DEF H
  <2> QED
    BY <1>6
<1> QED
  BY <1>4, <1>5, <1>7

LEMMA BlockRead ==
  ASSUME NEW p, NEW L \in Nat, InMemory(p, L), NEW b \in 1..Len(p.blocks),
         NEW w, NEW offset \in Nat, NEW n \in Nat, Walk(w, offset, n, b - 1), w.left # 0,
         offset + n <= L * ByteBits, n <= 8 * ByteBits
  PROVE  Walk(ReadBlock(p, b, w), offset, n, b)
<1> DEFINE B == PayloadBlock * ByteBits
           start == Stop(b - 1) * ByteBits
           stop == Stop(b) * ByteBits
           all == L * ByteBits
           end == start + Min({B, all - start})
           at == w.at
           left == w.left
           done == w.done
           k == Min({left, end - at})
           out == CopyBitArray(p.blocks[b], at - start, k, w.out, done)
           v == [at |-> at + k, left |-> left - k, done |-> done + k, start |-> end, out |-> out]
           u == [at |-> at, left |-> left, done |-> done, start |-> end, out |-> w.out]
<1>1. b - 1 \in Nat /\ b \in Nat /\ Stop(b - 1) \in Nat /\ Stop(b) = Stop(b - 1) + PayloadBlock
      /\ PayloadBlock \in Nat /\ Stop(b) \in Nat
  <2>1. Len(p.blocks) \in Nat
    BY DEF InMemory, Payloads
  <2>2. b - 1 \in Nat /\ b \in Nat /\ (b - 1) + 1 = b
    BY <2>1
  <2> QED
    BY <2>2, Stops, PayloadSizes
<1>2. HoldsFrom(p.blocks[b], PayloadBlock, Stop(b - 1), L) /\ Stop(b - 1) < L
  BY DEF InMemory
<1>3. /\ B \in Nat /\ start \in Nat /\ stop = start + B /\ all \in Nat /\ ByteBits \in Nat
      /\ start < all /\ (L < Stop(b) \/ stop <= all)
      /\ (Stop(b - 1) + PayloadBlock) * ByteBits = stop
  <2> DEFINE s == Stop(b - 1)
             t == Stop(b)
  <2>0. s \in Nat /\ t \in Nat /\ t = s + PayloadBlock /\ PayloadBlock \in Nat /\ s < L
    BY <1>1, <1>2
  <2> HIDE DEF s, t
  <2>1. /\ B \in Nat /\ s * ByteBits \in Nat /\ all \in Nat /\ t * ByteBits \in Nat
        /\ (s + PayloadBlock) * ByteBits = s * ByteBits + B
    <3>1. (s + PayloadBlock) * ByteBits = s * ByteBits + PayloadBlock * ByteBits
      BY <2>0, Products
    <3>2. s * ByteBits \in Nat /\ t * ByteBits \in Nat
      BY <2>0, NatProduct
    <3>3. PayloadBlock * ByteBits \in Nat /\ L * ByteBits \in Nat
      BY <2>0, NatProduct
    <3> QED
      BY <3>1, <3>2, <3>3
  <2>2. ByteBits \in Nat /\ ByteBits > 0
    BY PayloadSizes
  <2>3. s * ByteBits + ByteBits <= all
    BY <2>0, Products
  <2>4. L < t \/ t * ByteBits <= all
    <3>1. t <= L => t * ByteBits <= all
      BY <2>0, Products
    <3> QED
      BY <2>0, <3>1
  <2> HIDE DEF B, all
  <2>5. s * ByteBits < all
    BY <2>1, <2>2, <2>3
  <2>6. t * ByteBits = s * ByteBits + B /\ (s + PayloadBlock) * ByteBits = t * ByteBits
    BY <2>0, <2>1
  <2> QED
    BY <2>1, <2>2, <2>4, <2>5, <2>6 DEF s, t
<1>4. /\ w \in Walks /\ at = offset + done /\ done + left = n /\ left \in Nat /\ done \in Nat /\ left > 0
      /\ Gathered(w.out, offset, done) /\ w.start = start /\ at >= start /\ at \in Nat
      /\ w.out \in AreaOf(8, Bits)
  <2>1. /\ w \in Walks /\ at = offset + done /\ done + left = n
        /\ Gathered(w.out, offset, done) /\ w.start = start /\ w.at >= w.start
    BY DEF Walk
  <2>2. left \in Nat /\ done \in Nat /\ at \in Nat /\ w.out \in AreaOf(8, Bits)
    BY <2>1 DEF Walks
  <2> HIDE DEF start
  <2> QED
    BY <2>1, <2>2
<1>5. end = IF stop <= all THEN stop ELSE all
  <2> HIDE DEF B, start, all, stop
  <2>1. Min({B, all - start}) = IF B <= all - start THEN B ELSE all - start
    BY <1>3, LeastOfTwo
  <2> QED
    BY <1>3, <2>1
<1>6. p.length = L /\ w.start = start /\ w.out = w.out
  BY <1>4 DEF InMemory
<1>7. w = [at |-> at, left |-> left, done |-> done, start |-> start, out |-> w.out]
  BY <1>4, <1>6 DEF Walks
<1> HIDE DEF B, start, stop, all
<1>8. end \in Nat /\ end <= all /\ end <= stop /\ (end = stop \/ end = all) /\ stop \in Nat
  BY <1>3, <1>5
<1>9. CASE end > at
  <2>1. k = IF left <= end - at THEN left ELSE end - at
    <3>1. left \in Int /\ end - at \in Int
      <4> HIDE DEF end, at, left
      <4> QED
        BY <1>4, <1>8
    <3> HIDE DEF end, at, left
    <3> QED
      BY <3>1, LeastOfTwo
  <2>2. ReadBlock(p, b, w) = v
    <3>1. w.start + Min({PayloadBlock * ByteBits, p.length * ByteBits - w.start}) = end
      BY <1>6 DEF B, all
    <3>2. ReadBlock(p, b, w) =
            [w EXCEPT !.out = CopyBitArray(p.blocks[b], w.at - w.start, k, w.out, w.done),
                      !.at = @ + k, !.done = @ + k, !.left = @ - k, !.start = end]
      <4> HIDE DEF end
      <4> QED
        BY <1>9, <3>1 DEF ReadBlock
    <3> HIDE DEF k, end
    <3> QED
      BY <1>6, <1>7, <3>2
  <2> HIDE DEF k, end
  <2>3. k \in 0..left /\ at + k <= end /\ (k = left \/ at + k = end)
    <3>1. left \in Nat /\ at \in Nat /\ end \in Nat /\ end > at
      BY <1>4, <1>8, <1>9
    <3> HIDE DEF at, left
    <3> QED
      BY <2>1, <3>1
  <2>4. Gathered(out, offset, done + k)
    <3>1. k \in Nat /\ at + k <= L * ByteBits /\ at + k <= (Stop(b - 1) + PayloadBlock) * ByteBits
          /\ done + k <= 8 * ByteBits /\ at >= Stop(b - 1) * ByteBits
      <4>1. k \in Nat /\ at + k <= all /\ at + k <= stop /\ done + k <= 8 * ByteBits /\ at >= start
        <5> HIDE DEF at, left, done
        <5> QED
          BY <1>3, <1>4, <1>8, <2>3
      <4> QED
        BY <1>3, <4>1 DEF all, start
    <3>2. Gathered(CopyBitArray(p.blocks[b], at - Stop(b - 1) * ByteBits, k, w.out, done), offset, done + k)
      <4> HIDE DEF at, left, done
      <4> QED
        BY <1>1, <1>2, <1>4, <3>1, Gather
    <3> QED
      BY <3>2 DEF start
  <2>5. out \in AreaOf(8, Bits)
    BY <2>4 DEF Gathered
  <2> HIDE DEF out, at, left, done
  <2>6. v \in Walks /\ v.at = offset + v.done /\ v.done + v.left = n
    <3>1. at + k \in Nat /\ left - k \in Nat /\ done + k \in Nat
      BY <1>4, <2>3
    <3>2. v \in Walks
      BY <1>8, <2>5, <3>1 DEF Walks
    <3>3. at + k = offset + (done + k) /\ (done + k) + (left - k) = n
      BY <1>4, <2>3
    <3> QED
      BY <3>2, <3>3
  <2>7. v.left = 0 \/ (v.start = Stop(b) * ByteBits /\ v.at >= v.start)
    <3>1. left - k = 0 \/ (end = stop /\ at + k >= end)
      <4> SUFFICES ASSUME left - k # 0 PROVE end = stop /\ at + k >= end
        OBVIOUS
      <4>1. at + k = end /\ left - k > 0
        BY <1>4, <2>3
      <4>2. at + left <= all
        BY <1>4 DEF all
      <4> QED
        BY <1>3, <1>4, <1>8, <2>3, <4>1, <4>2
    <3> QED
      BY <3>1 DEF stop
  <2>8. Walk(v, offset, n, b)
    BY <2>4, <2>6, <2>7 DEF Walk
  <2> HIDE DEF v
  <2> QED
    BY <2>2, <2>8
<1>10. CASE ~(end > at)
  <2>1. ReadBlock(p, b, w) = u
    <3>1. w.start + Min({PayloadBlock * ByteBits, p.length * ByteBits - w.start}) = end
      BY <1>6 DEF B, all
    <3>2. ReadBlock(p, b, w) = [w EXCEPT !.start = end]
      <4> HIDE DEF end
      <4> QED
        BY <1>10, <3>1 DEF ReadBlock
    <3> HIDE DEF end
    <3> QED
      BY <1>7, <3>2
  <2> HIDE DEF end, at, left, done
  <2>2. u \in Walks /\ u.at = offset + u.done /\ u.done + u.left = n
    BY <1>4, <1>8 DEF Walks
  <2>3. end = stop /\ at >= end
    <3>1. at + left <= all
      BY <1>4 DEF all
    <3> QED
      BY <1>3, <1>4, <1>8, <1>10, <3>1
  <2>4. Walk(u, offset, n, b)
    BY <1>4, <2>2, <2>3 DEF Walk, stop
  <2> HIDE DEF u
  <2> QED
    BY <2>1, <2>4
<1> QED
  BY <1>9, <1>10

Reached(p, b, w) == IF w.left = 0 THEN w ELSE ReadBlock(p, b, w)

Chain(f, p, w, m) == f = [b \in 0..m |-> IF b = 0 THEN w ELSE Reached(p, b, f[b - 1])]

LEMMA ChainExists ==
  ASSUME NEW p, NEW w, NEW m \in Nat
  PROVE  \E f : Chain(f, p, w, m)
<1> DEFINE S == {l \in Nat : \E f : Chain(f, p, w, l)}
<1>1. 0 \in S
  <2> DEFINE f == [k \in 0..0 |-> w]
  <2>1. f = [k \in 0..0 |-> IF k = 0 THEN w ELSE Reached(p, k, f[k - 1])]
    OBVIOUS
  <2> QED
    BY <2>1 DEF Chain
<1>2. ASSUME NEW l \in 0..(m - 1), l \in S PROVE l + 1 \in S
  <2>1. PICK f : Chain(f, p, w, l)
    BY <1>2
  <2> DEFINE h == [k \in 0..(l + 1) |-> IF k = l + 1 THEN Reached(p, l + 1, f[l]) ELSE f[k]]
  <2>2. \A k \in 0..l : f[k] = IF k = 0 THEN w ELSE Reached(p, k, f[k - 1])
    BY <2>1 DEF Chain
  <2>3. \A k \in 0..(l + 1) : h[k] = IF k = 0 THEN w ELSE Reached(p, k, h[k - 1])
    <3> TAKE k \in 0..(l + 1)
    <3>1. CASE k = l + 1
      <4>1. l \in 0..(l + 1) /\ l # l + 1 /\ k - 1 = l /\ k # 0 /\ h[l] = f[l]
        BY <3>1
      <4>2. h[k] = Reached(p, l + 1, f[l])
        BY <3>1
      <4> QED
        BY <3>1, <4>1, <4>2
    <3>2. CASE k # l + 1
      <4>1. k \in 0..l /\ h[k] = f[k] /\ (k # 0 => k - 1 \in 0..l /\ k - 1 # l + 1 /\ h[k - 1] = f[k - 1])
        BY <3>2
      <4> HIDE DEF h
      <4> QED
        BY <2>2, <4>1
    <3> QED
      BY <3>1, <3>2
  <2>4. h = [k \in 0..(l + 1) |-> h[k]]
    OBVIOUS
  <2> HIDE DEF h
  <2>5. Chain(h, p, w, l + 1)
    BY <2>3, <2>4 DEF Chain
  <2> QED
    BY <2>5
<1>3. m \in S
  <2> HIDE DEF S
  <2>1. 0..m \subseteq S
    BY <1>1, <1>2, CountUp
  <2> QED
    BY <2>1
<1> QED
  BY <1>3

LEMMA BlocksAreChain ==
  ASSUME NEW p, NEW w, Len(p.blocks) \in Nat
  PROVE  \E f : Chain(f, p, w, Len(p.blocks)) /\ ReadBlocks(p, w) = f[Len(p.blocks)]
<1> DEFINE n == Len(p.blocks)
           h == CHOOSE f : f = [b \in 0..n |-> IF b = 0 THEN w ELSE Reached(p, b, f[b - 1])]
<1>1. ReadBlocks(p, w) = h[n]
  BY DEF ReadBlocks, Reached
<1>2. PICK f : Chain(f, p, w, n)
  BY ChainExists
<1>3. f = [b \in 0..n |-> IF b = 0 THEN w ELSE Reached(p, b, f[b - 1])]
  BY <1>2 DEF Chain
<1>4. h = [b \in 0..n |-> IF b = 0 THEN w ELSE Reached(p, b, h[b - 1])]
  BY <1>3
<1>5. Chain(h, p, w, n)
  BY <1>4 DEF Chain
<1> QED
  BY <1>1, <1>5

LEMMA BlocksRead ==
  ASSUME NEW p, NEW L \in Nat, InMemory(p, L),
         NEW w, NEW offset \in Nat, NEW n \in Nat, Walk(w, offset, n, 0),
         offset + n <= L * ByteBits, n <= 8 * ByteBits
  PROVE  Walk(ReadBlocks(p, w), offset, n, Len(p.blocks))
<1> DEFINE m == Len(p.blocks)
<1>0. m \in Nat
  BY DEF InMemory, Payloads
<1>1. PICK f : Chain(f, p, w, m) /\ ReadBlocks(p, w) = f[m]
  BY <1>0, BlocksAreChain
<1>2. \A b \in 0..m : f[b] = IF b = 0 THEN w ELSE Reached(p, b, f[b - 1])
  BY <1>1 DEF Chain
<1> DEFINE S == {b \in 0..m : Walk(f[b], offset, n, b)}
<1>3. 0 \in S
  BY <1>0, <1>2
<1>4. ASSUME NEW b \in 0..(m - 1), b \in S PROVE b + 1 \in S
  <2>1. b + 1 \in 1..m /\ b + 1 \in 0..m /\ b + 1 # 0 /\ (b + 1) - 1 = b
    BY <1>0
  <2> DEFINE c == b + 1
             v == f[b]
  <2>2. f[c] = Reached(p, c, v)
    BY <1>2, <2>1
  <2>3. Walk(v, offset, n, c - 1)
    BY <1>4, <2>1
  <2>4. c \in 1..Len(p.blocks)
    BY <2>1
  <2> HIDE DEF c, v, m
  <2>5. Walk(Reached(p, c, v), offset, n, c)
    <3>1. CASE v.left = 0
      BY <2>3, <3>1 DEF Walk, Reached
    <3>2. CASE v.left # 0
      BY <2>3, <2>4, <3>2, BlockRead DEF Reached
    <3> QED
      BY <3>1, <3>2
  <2> QED
    BY <2>1, <2>2, <2>5 DEF c
<1>5. m \in S
  <2> HIDE DEF S
  <2>1. 0..m \subseteq S
    BY <1>0, <1>3, <1>4, CountUp
  <2> QED
    BY <1>0, <2>1
<1> QED
  BY <1>1, <1>5

LEMMA AllAvailable ==
  ASSUME NEW p, NEW L \in Nat, p.length = L, NEW offset \in Nat, NEW bits \in Nat, bits > 0
  PROVE  Available(p, offset, bits) = bits <=> offset + bits <= L * ByteBits
<1> DEFINE all == L * ByteBits
<1>1. all \in Nat /\ all = p.length * ByteBits
  BY NatProduct
<1> HIDE DEF all
<1>2. Min({bits, all - offset}) = IF bits <= all - offset THEN bits ELSE all - offset
  BY <1>1, LeastOfTwo
<1>3. Available(p, offset, bits) = IF offset >= all THEN 0 ELSE Min({bits, all - offset})
  BY <1>1 DEF Available
<1>4. Available(p, offset, bits) = bits <=> offset + bits <= all
  BY <1>1, <1>2, <1>3
<1> QED
  BY <1>4 DEF all

LEMMA TailRead ==
  ASSUME NEW p, NEW L \in Nat, InMemory(p, L), InFrame(p, L),
         NEW w, NEW offset \in Nat, NEW n \in Nat, Walk(w, offset, n, Len(p.blocks)),
         offset + n <= L * ByteBits, n <= 8 * ByteBits
  PROVE  Gathered(ReadTailBits(p, w), offset, n)
<1>1. CASE w.left = 0
  <2>1. w.done = n
    BY <1>1 DEF Walk, Walks
  <2> QED
    BY <1>1, <2>1 DEF Walk, ReadTailBits
<1>2. CASE w.left # 0
  <2> DEFINE end == Stop(Len(p.blocks))
             N == L - end
             a == Area(p.tail)
             at == w.at
             left == w.left
             done == w.done
             start == end * ByteBits
             all == L * ByteBits
  <2>1. end \in Nat
    <3>1. Len(p.blocks) \in Nat
      BY DEF InMemory, Payloads
    <3> QED
      BY <3>1, Stops
  <2>2. /\ at = offset + done /\ done + left = n /\ left \in Nat /\ done \in Nat /\ left > 0
        /\ Gathered(w.out, offset, done) /\ w.start = start /\ at >= start /\ at \in Nat
    <3>1. left \in Nat /\ done \in Nat /\ at \in Nat
      BY DEF Walk, Walks
    <3>2. /\ at = offset + done /\ done + left = n
          /\ Gathered(w.out, offset, done) /\ w.start = start /\ w.at >= w.start
      BY <1>2 DEF Walk
    <3> QED
      BY <1>2, <3>1, <3>2
  <2>3. end < L
    <3> SUFFICES ASSUME L <= end PROVE FALSE
      BY <2>1
    <3>1. all <= start
      <4> HIDE DEF end
      <4> QED
        BY <2>1, Products
    <3>2. start \in Nat /\ all \in Nat
      <4> HIDE DEF end
      <4> QED
        BY <2>1, NatProduct
    <3> HIDE DEF all, start
    <3>3. at + left <= all
      BY <2>2 DEF all
    <3> QED
      BY <2>2, <3>1, <3>2, <3>3
  <2>4. p.tail = [j \in 1..N |-> BitsOf("sent", end + j - 1)] /\ N \in Nat /\ N > 0
    <3>1. ~(L <= end) /\ N \in Nat /\ N > 0
      <4> HIDE DEF end
      <4> QED
        BY <2>1, <2>3
    <3> QED
      BY <3>1 DEF InFrame
  <2> HIDE DEF N
  <2>5. Len(p.tail) = N /\ p.tail # <<>>
    <3>1. DOMAIN p.tail = 1..N
      BY <2>4
    <3>2. Len(p.tail) = N
      BY <2>4, <3>1
    <3>3. 1 \in DOMAIN p.tail
      BY <2>4, <3>1
    <3>4. DOMAIN <<>> = {}
      OBVIOUS
    <3>5. p.tail # <<>>
      BY <3>3, <3>4
    <3> QED
      BY <3>2, <3>5
  <2>6. HoldsFrom(a, N, end, L)
    <3>1. a = [i \in 0..(N - 1) |-> p.tail[i + 1]]
      BY <2>5 DEF Area
    <3>2. \A i \in 0..(N - 1) : p.tail[i + 1] = BitsOf("sent", end + i) /\ end + i \in Nat
      <4> HIDE DEF end
      <4>1. \A i \in 0..(N - 1) : i + 1 \in 1..N /\ end + (i + 1) - 1 = end + i /\ end + i \in Nat
        BY <2>1, <2>4
      <4> QED
        BY <2>4, <4>1
    <3>3. a \in AreaOf(N, Bits)
      BY <3>1, <3>2, ByteTyped DEF AreaOf
    <3> HIDE DEF a
    <3> QED
      BY <3>1, <3>2, <3>3 DEF HoldsFrom
  <2>7. ReadTailBits(p, w) = CopyBitArray(a, at - start, left, w.out, done)
    BY <1>2, <2>2, <2>5 DEF ReadTailBits
  <2>8. at + left <= all /\ done + left <= 8 * ByteBits /\ (end + N) * ByteBits = all
    <3>1. end + N = L
      <4> HIDE DEF end
      <4> QED
        BY <2>1 DEF N
    <3>2. at + left = offset + n
      <4> HIDE DEF at, left, done
      <4> QED
        BY <2>2
    <3> QED
      BY <2>2, <3>1, <3>2
  <2>9. Gathered(CopyBitArray(a, at - end * ByteBits, left, w.out, done), offset, done + left)
    <3> HIDE DEF a, at, left, done, end
    <3> QED
      BY <2>1, <2>2, <2>4, <2>6, <2>8, Gather
  <2> QED
    BY <2>2, <2>7, <2>9
<1> QED
  BY <1>1, <1>2

(* A scalar that is all there comes out as it was sent.                    *)
LEMMA DescatterReads ==
  ASSUME NEW p, NEW L \in Nat, InMemory(p, L), InFrame(p, L),
         NEW offset \in Nat, NEW bits \in Nat, bits > 0, bits <= 8 * ByteBits,
         offset + bits <= L * ByteBits
  PROVE  Gathered(Descatter(p, offset, bits), offset, bits)
<1> DEFINE w == [at |-> offset, left |-> bits, done |-> 0, start |-> PayloadHead * ByteBits,
                 out |-> BlankBytes(8)]
<1>1. Available(p, offset, bits) = bits
  BY AllAvailable DEF InMemory
<1>2. CASE p.blocks = <<>> /\ p.tail = <<>>
  <2>1. Descatter(p, offset, bits) = CopyBitArray(p.head, offset, bits, BlankBytes(8), 0)
    BY <1>1, <1>2 DEF Descatter
  <2>2. L <= PayloadHead
    <3>1. Len(p.blocks) = 0 /\ Stop(0) = PayloadHead /\ PayloadHead \in Nat
      BY <1>2, Stops, PayloadSizes
    <3> SUFFICES ASSUME ~(L <= PayloadHead) PROVE FALSE
      OBVIOUS
    <3>2. p.tail = [j \in 1..(L - PayloadHead) |-> BitsOf("sent", PayloadHead + j - 1)]
      BY <3>1 DEF InFrame
    <3>3. L - PayloadHead \in Nat /\ 1 \in 1..(L - PayloadHead)
      BY <3>1
    <3>4. DOMAIN p.tail = {}
      BY <1>2
    <3>5. DOMAIN p.tail = 1..(L - PayloadHead)
      BY <3>2
    <3> QED
      BY <3>3, <3>4, <3>5
  <2>3. HoldsFrom(p.head, PayloadHead, 0, L)
    BY DEF InMemory
  <2>4. Gathered(BlankBytes(8), offset, 0)
    <3>1. BlankBytes(8) \in AreaOf(8, Bits) /\ \A x \in Nat : x < 8 * ByteBits => Bit(BlankBytes(8), x) = Zero
      BY BlankTyped
    <3> QED
      BY <3>1 DEF Gathered
  <2>5. /\ offset = offset + 0 /\ offset >= 0 * ByteBits /\ 0 + bits = bits /\ 0 + bits <= 8 * ByteBits
        /\ offset + bits <= (0 + PayloadHead) * ByteBits /\ offset - 0 * ByteBits = offset
    <3>1. PayloadHead \in Nat /\ 0 * ByteBits = 0 /\ 0 + PayloadHead = PayloadHead
      BY PayloadSizes
    <3>2. L * ByteBits <= PayloadHead * ByteBits
      BY <2>2, <3>1, Products
    <3>3. L * ByteBits \in Nat /\ PayloadHead * ByteBits \in Nat
      BY <3>1, NatProduct
    <3> QED
      BY <3>1, <3>2, <3>3
  <2>6. PayloadHead \in Nat
    BY PayloadSizes
  <2>7. Gathered(CopyBitArray(p.head, offset - 0 * ByteBits, bits, BlankBytes(8), 0), offset, 0 + bits)
    BY <2>3, <2>4, <2>5, <2>6, Gather
  <2> QED
    BY <2>1, <2>5, <2>7
<1>3. CASE ~(p.blocks = <<>> /\ p.tail = <<>>)
  <2>1. Descatter(p, offset, bits) = ReadTailBits(p, ReadBlocks(p, ReadHead(p, w)))
    BY <1>1, <1>3 DEF Descatter
  <2>2. Walk(ReadHead(p, w), offset, bits, 0)
    BY HeadRead
  <2> HIDE DEF w
  <2>3. Walk(ReadBlocks(p, ReadHead(p, w)), offset, bits, Len(p.blocks))
    BY <2>2, BlocksRead
  <2> QED
    BY <2>1, <2>3, TailRead
<1> QED
  BY <1>2, <1>3

-----------------------------------------------------------------------------
(* The weights of bits, and canardDecodeScalar.                            *)

LEMMA EarlierBit ==
  ASSUME NEW x \in Nat, NEW y \in Nat
  PROVE  x < y <=> \/ x \div ByteBits < y \div ByteBits
                   \/ x \div ByteBits = y \div ByteBits /\ x % ByteBits < y % ByteBits
<1> DEFINE a == x \div ByteBits
           i == x % ByteBits
           b == y \div ByteBits
           j == y % ByteBits
<1>1. /\ a \in Nat /\ i \in 0..(ByteBits - 1) /\ x = a * ByteBits + i
      /\ b \in Nat /\ j \in 0..(ByteBits - 1) /\ y = b * ByteBits + j /\ ByteBits \in Nat
  BY PlaceOfBit, PayloadSizes
<1> HIDE DEF a, i, b, j
<1> DEFINE m == a * ByteBits
           n == b * ByteBits
<1>2. m \in Nat /\ n \in Nat /\ x = m + i /\ y = n + j
  BY <1>1, NatProduct
<1>3. (a < b => m + ByteBits <= n) /\ (b < a => n + ByteBits <= m) /\ (a = b => m = n)
  BY <1>1, Products
<1> HIDE DEF m, n
<1>4. x < y <=> a < b \/ (a = b /\ i < j)
  <2>1. CASE a < b
    BY <1>1, <1>2, <1>3, <2>1
  <2>2. CASE a = b
    BY <1>1, <1>2, <1>3, <2>2
  <2>3. CASE b < a
    BY <1>1, <1>2, <1>3, <2>3
  <2> QED
    BY <1>1, <2>1, <2>2, <2>3
<1> QED
  BY <1>4 DEF a, i, b, j

LEMMA Standard ==
  ASSUME NEW bits \in Nat, bits > 0, bits <= 8 * ByteBits
  PROVE  /\ StandardBits(bits) \in {ByteBits, 2 * ByteBits, 4 * ByteBits, 8 * ByteBits}
         /\ StandardBits(bits) \in Nat /\ bits <= StandardBits(bits)
         /\ StandardBits(bits) <= 8 * ByteBits
<1>1. ByteBits \in Nat
  BY PayloadSizes
<1> DEFINE S == {ByteBits, 2 * ByteBits, 4 * ByteBits, 8 * ByteBits}
           Fits(n) == /\ bits <= n
                      /\ \A m \in {ByteBits, 2 * ByteBits, 4 * ByteBits} : bits <= m => n <= m
<1>2. \E n \in S : Fits(n)
  <2>1. CASE bits <= ByteBits
    BY <1>1, <2>1
  <2>2. CASE bits > ByteBits /\ bits <= 2 * ByteBits
    BY <1>1, <2>2
  <2>3. CASE bits > 2 * ByteBits /\ bits <= 4 * ByteBits
    BY <1>1, <2>3
  <2>4. CASE bits > 4 * ByteBits
    BY <1>1, <2>4
  <2> QED
    BY <1>1, <2>1, <2>2, <2>3, <2>4
<1>3. StandardBits(bits) = CHOOSE n \in S : Fits(n)
  BY DEF StandardBits
<1>4. StandardBits(bits) \in S /\ Fits(StandardBits(bits))
  <2> HIDE DEF S, Fits
  <2> QED
    BY <1>2, <1>3
<1> QED
  BY <1>1, <1>4

(* Where the bit of weight w is on the wire: in its byte, from the top of  *)
(* a whole byte, or of the bits of the last.                               *)
LEMMA OnTheWire ==
  ASSUME NEW bits \in Nat, bits <= 8 * ByteBits, NEW w \in Nat, w < bits,
         NEW y, NEW j, NEW q, NEW r, y = w \div ByteBits, j = w % ByteBits,
         q = bits \div ByteBits, r = bits % ByteBits
  PROVE  /\ y \in 0..7 /\ j \in 0..(ByteBits - 1) /\ q \in Nat /\ r \in 0..(ByteBits - 1)
         /\ y < q \/ (y = q /\ j < r)
         /\ (y < q => WireOffset(bits, w) = y * ByteBits + (ByteBits - 1 - j))
         /\ (y = q => WireOffset(bits, w) = y * ByteBits + (r - 1 - j))
         /\ WireOffset(bits, w) \in Nat /\ WireOffset(bits, w) < bits
<1>1. /\ y \in Nat /\ j \in 0..(ByteBits - 1) /\ q \in Nat /\ r \in 0..(ByteBits - 1)
      /\ bits = q * ByteBits + r /\ ByteBits \in Nat /\ ByteBits > 0
  BY PlaceOfBit, PayloadSizes
<1>2. y < q \/ (y = q /\ j < r)
  BY EarlierBit
<1>3. y \in 0..7
  <2>1. ByteBits \in Nat /\ 8 * ByteBits \in Nat
    BY PayloadSizes
  <2>2. w < 8 * ByteBits /\ 8 \in Nat
    BY <2>1
  <2>3. w \div ByteBits \in 0..(8 - 1)
    BY <2>2, PlaceInArea
  <2> QED
    BY <2>3
<1> DEFINE m == y * ByteBits
           n == q * ByteBits
           width == Min({ByteBits, bits - m})
<1>4. m \in Nat /\ n \in Nat /\ bits = n + r /\ (y < q => m + ByteBits <= n) /\ (y = q => m = n)
  BY <1>1, NatProduct, Products
<1>5. width = IF ByteBits <= bits - m THEN ByteBits ELSE bits - m
  <2> HIDE DEF m
  <2> QED
    BY <1>1, <1>4, LeastOfTwo
<1>6. WireOffset(bits, w) = m + width - 1 - j
  BY DEF WireOffset
<1> HIDE DEF m, n, width
<1>7. CASE y < q
  <2>1. width = ByteBits
    BY <1>1, <1>4, <1>5, <1>7
  <2>2. WireOffset(bits, w) = m + (ByteBits - 1 - j) /\ WireOffset(bits, w) \in Nat
        /\ WireOffset(bits, w) < bits
    BY <1>1, <1>4, <1>6, <1>7, <2>1
  <2> QED
    BY <1>1, <1>2, <1>3, <1>7, <2>2 DEF m
<1>8. CASE y = q /\ j < r
  <2>1. width = r
    BY <1>1, <1>4, <1>5, <1>8
  <2>2. WireOffset(bits, w) = m + (r - 1 - j) /\ WireOffset(bits, w) \in Nat
        /\ WireOffset(bits, w) < bits
    BY <1>1, <1>4, <1>6, <1>8, <2>1
  <2> QED
    BY <1>1, <1>2, <1>3, <1>8, <2>2 DEF m
<1> QED
  BY <1>2, <1>7, <1>8

LEMMA SpareIs ==
  ASSUME NEW bits \in Nat, bits % ByteBits # 0
  PROVE  Spare(bits) = ByteBits - (bits % ByteBits)
<1> DEFINE r == bits % ByteBits
           s == ByteBits - r
<1>1. r \in 0..(ByteBits - 1) /\ r # 0 /\ ByteBits \in Nat
  BY PlaceOfBit, PayloadSizes
<1> HIDE DEF r
<1>2. s \in 0..(ByteBits - 1)
  BY <1>1
<1>3. Spare(bits) = s % ByteBits
  BY DEF Spare, r
<1> HIDE DEF s
<1>4. s % ByteBits = s
  BY <1>1, <1>2
<1> QED
  BY <1>3, <1>4 DEF s, r

(* The storage with its last, partial byte moved down, read by weight.     *)
Justified(o, bits) ==
  IF bits % ByteBits = 0 THEN o
  ELSE [o EXCEPT ![bits \div ByteBits] = ShiftRight(@, Spare(bits))]

LEMMA ReadByWeight ==
  ASSUME NEW o, NEW offset \in Nat, NEW bits \in Nat, bits > 0, bits <= 8 * ByteBits,
         Gathered(o, offset, bits), NEW w \in 0..(ScalarBits - 1)
  PROVE  ByWeight(Justified(o, bits))[w] =
           IF w < bits THEN <<"sent", offset + WireOffset(bits, w)>> ELSE Zero
<1> DEFINE y == w \div ByteBits
           j == w % ByteBits
           q == bits \div ByteBits
           r == bits % ByteBits
           u == ByteBits - 1 - j
           s == Justified(o, bits)
<1>1. /\ y \in Nat /\ j \in 0..(ByteBits - 1) /\ w = y * ByteBits + j
      /\ q \in Nat /\ r \in 0..(ByteBits - 1) /\ bits = q * ByteBits + r
      /\ ByteBits \in Nat /\ ByteBits > 0 /\ w \in Nat /\ w < 8 * ByteBits
  <2>1. ByteBits \in Nat /\ ByteBits > 0 /\ w \in Nat /\ w < 8 * ByteBits
    BY PayloadSizes DEF ScalarBits
  <2> QED
    BY <2>1, PlaceOfBit
<1>2. y \in 0..7
  <2>1. w \div ByteBits \in 0..(8 - 1)
    BY <1>1, PlaceInArea
  <2> QED
    BY <2>1
<1>3. u \in 0..(ByteBits - 1)
  <2> HIDE DEF j
  <2> QED
    BY <1>1
<1>4. ByWeight(s)[w] = s[y][u]
  BY DEF ByWeight
<1>5. o \in AreaOf(8, Bits) /\ \A x \in Nat : x < 8 * ByteBits =>
        Bit(o, x) = IF x < bits THEN <<"sent", offset + x>> ELSE Zero
  BY DEF Gathered
<1>6. ASSUME NEW v \in 0..(ByteBits - 1)
      PROVE  o[y][v] = IF y * ByteBits + v < bits THEN <<"sent", offset + (y * ByteBits + v)>> ELSE Zero
  <2> DEFINE x == y * ByteBits + v
  <2>1. x \in Nat /\ x \div ByteBits = y /\ x % ByteBits = v
    <3> HIDE DEF y
    <3> QED
      BY <1>1, BitAtPlace
  <2>2. x < 8 * ByteBits
    <3> DEFINE m == y * ByteBits
    <3>1. m + ByteBits <= 8 * ByteBits /\ m \in Nat /\ 8 * ByteBits \in Nat
      <4>1. y < 8 /\ y \in Int /\ 8 \in Int
        BY <1>2
      <4> HIDE DEF y
      <4>2. m + ByteBits <= 8 * ByteBits
        BY <4>1, Products
      <4>3. m \in Nat /\ 8 * ByteBits \in Nat
        BY <1>1, NatProduct
      <4> QED
        BY <4>2, <4>3
    <3>2. x = m + v
      OBVIOUS
    <3> HIDE DEF m, x
    <3> QED
      BY <1>1, <3>1, <3>2
  <2>3. Bit(o, x) = o[y][v]
    BY <2>1 DEF Bit
  <2> HIDE DEF x
  <2>4. o[y][v] = IF x < bits THEN <<"sent", offset + x>> ELSE Zero
    BY <1>5, <2>1, <2>2, <2>3
  <2> QED
    BY <2>4 DEF x
<1>7. \A v \in 0..(ByteBits - 1) :
         y * ByteBits + v < bits <=> y < q \/ (y = q /\ v < r)
  <2> TAKE v \in 0..(ByteBits - 1)
  <2> DEFINE x == y * ByteBits + v
  <2>1. x \in Nat /\ x \div ByteBits = y /\ x % ByteBits = v
    <3> HIDE DEF y
    <3> QED
      BY <1>1, BitAtPlace
  <2> HIDE DEF x
  <2>2. x < bits <=> y < q \/ (y = q /\ v < r)
    BY <2>1, EarlierBit
  <2> QED
    BY <2>2 DEF x
<1>8. w < bits <=> y < q \/ (y = q /\ j < r)
  BY <1>1, EarlierBit
<1>9. w < bits => /\ (y < q => WireOffset(bits, w) = y * ByteBits + (ByteBits - 1 - j))
                  /\ (y = q => WireOffset(bits, w) = y * ByteBits + (r - 1 - j))
  <2> SUFFICES ASSUME w < bits
               PROVE /\ (y < q => WireOffset(bits, w) = y * ByteBits + (ByteBits - 1 - j))
                     /\ (y = q => WireOffset(bits, w) = y * ByteBits + (r - 1 - j))
    OBVIOUS
  <2>1. y = w \div ByteBits /\ j = w % ByteBits /\ q = bits \div ByteBits /\ r = bits % ByteBits
    OBVIOUS
  <2>2. w \in Nat
    BY <1>1
  <2> HIDE DEF y, j, q, r
  <2> QED
    BY <2>1, <2>2, OnTheWire
<1>10. DOMAIN o = 0..7 /\ o[y] \in OctetOf(Bits)
  BY <1>2, <1>5 DEF AreaOf
<1>11. CASE r # 0 /\ y = q
  <2>1. Spare(bits) = ByteBits - r
    BY <1>11, SpareIs
  <2>2. s[y] = ShiftRight(o[y], ByteBits - r)
    BY <1>2, <1>10, <1>11, <2>1 DEF Justified
  <2>3. DOMAIN o[y] = 0..(ByteBits - 1)
    BY <1>10 DEF OctetOf
  <2>4. s[y][u] = IF u < ByteBits - r THEN Zero ELSE o[y][u - (ByteBits - r)]
    BY <1>3, <2>2, <2>3 DEF ShiftRight
  <2> HIDE DEF s, y, j, q, r
  <2>5. u < ByteBits - r <=> ~(j < r)
    BY <1>1
  <2>6. j < r => u - (ByteBits - r) = r - 1 - j /\ r - 1 - j \in 0..(ByteBits - 1) /\ r - 1 - j < r
    BY <1>1
  <2>7. CASE j < r
    <3>1. s[y][u] = o[y][r - 1 - j]
      BY <2>4, <2>5, <2>6, <2>7
    <3>2. w < bits /\ WireOffset(bits, w) = y * ByteBits + (r - 1 - j)
      BY <1>8, <1>9, <1>11, <2>7
    <3> DEFINE v == r - 1 - j
    <3>3. v \in 0..(ByteBits - 1) /\ v < r
      BY <2>6, <2>7
    <3> HIDE DEF v
    <3>4. o[y][v] = <<"sent", offset + (y * ByteBits + v)>>
      BY <1>6, <1>7, <1>11, <3>3
    <3> QED
      BY <1>4, <3>1, <3>2, <3>4 DEF v, s
  <2>8. CASE ~(j < r)
    BY <1>1, <1>4, <1>8, <1>11, <2>4, <2>5, <2>8 DEF s
  <2> QED
    BY <2>7, <2>8
<1>12. CASE ~(r # 0 /\ y = q)
  <2>1. s[y] = o[y]
    BY <1>10, <1>12 DEF Justified
  <2> HIDE DEF s, y, j, q, r
  <2>2. w < bits <=> y < q
    BY <1>1, <1>8, <1>12
  <2> HIDE DEF u
  <2>3. y * ByteBits + u < bits <=> y < q
    BY <1>1, <1>3, <1>7, <1>12
  <2>4. o[y][u] = IF y < q THEN <<"sent", offset + (y * ByteBits + u)>> ELSE Zero
    BY <1>3, <1>6, <2>3
  <2>5. y < q => WireOffset(bits, w) = y * ByteBits + u
    BY <1>9, <2>2 DEF u
  <2> QED
    BY <1>4, <2>1, <2>2, <2>4, <2>5 DEF s
<1> QED
  BY <1>11, <1>12

(* canardDecodeScalar gives what was sent, and its sign above.             *)
LEMMA DecodeReads ==
  ASSUME NEW p, NEW L \in Nat, InMemory(p, L), InFrame(p, L),
         NEW offset \in Nat, NEW bits \in Nat, bits > 0, bits <= 8 * ByteBits,
         offset + bits <= L * ByteBits, NEW signed \in BOOLEAN, NEW s,
         s = DecodeScalar(p, offset, bits, signed)
  PROVE  \A w \in DOMAIN s :
           s[w] = IF w < bits THEN <<"sent", offset + WireOffset(bits, w)>>
                  ELSE IF signed THEN s[bits - 1] ELSE Zero
<1> DEFINE o == Descatter(p, offset, bits)
           value == ByWeight(Justified(o, bits))
           n == StandardBits(bits)
<1>1. Gathered(o, offset, bits)
  BY DescatterReads
<1>2. s = [w \in 0..(n - 1) |->
             IF signed /\ w >= bits /\ value[bits - 1] # Zero THEN value[bits - 1] ELSE value[w]]
  BY DEF DecodeScalar, Justified
<1>3. n \in Nat /\ bits <= n /\ n <= 8 * ByteBits /\ ByteBits \in Nat
  BY Standard, PayloadSizes
<1> HIDE DEF o, n
<1>4. \A w \in 0..(n - 1) : value[w] = IF w < bits THEN <<"sent", offset + WireOffset(bits, w)>> ELSE Zero
  <2> TAKE w \in 0..(n - 1)
  <2>1. w \in 0..(ScalarBits - 1)
    BY <1>3 DEF ScalarBits
  <2> QED
    BY <1>1, <2>1, ReadByWeight
<1> HIDE DEF value
<1>5. bits - 1 \in 0..(n - 1) /\ bits - 1 < bits /\ ~(bits - 1 >= bits)
  BY <1>3
<1>6. value[bits - 1] # Zero
  <2>1. value[bits - 1] = <<"sent", offset + WireOffset(bits, bits - 1)>>
    BY <1>4, <1>5
  <2> QED
    BY <2>1 DEF Zero
<1>7. s[bits - 1] = value[bits - 1]
  BY <1>2, <1>5
<1>8. ASSUME NEW w \in 0..(n - 1)
      PROVE  s[w] = IF w < bits THEN <<"sent", offset + WireOffset(bits, w)>>
                    ELSE IF signed THEN s[bits - 1] ELSE Zero
  <2>1. s[w] = IF signed /\ w >= bits THEN value[bits - 1] ELSE value[w]
    BY <1>2, <1>6
  <2>2. w >= bits <=> ~(w < bits)
    BY <1>3
  <2> QED
    BY <1>4, <1>7, <2>1, <2>2
<1>9. DOMAIN s = 0..(n - 1)
  BY <1>2
<1> QED
  BY <1>8, <1>9

-----------------------------------------------------------------------------
(* canardEncodeScalar.                                                     *)

(* The storage with its last, partial byte moved up.                       *)
Raised(o, bits) ==
  IF bits % ByteBits = 0 THEN o
  ELSE [o EXCEPT ![bits \div ByteBits] = ShiftLeft(@, Spare(bits))]

LEMMA ByBytesTyped ==
  /\ ByBytes(Value) \in AreaOf(8, Bits)
  /\ \A y \in 0..7, v \in 0..(ByteBits - 1) :
       ByBytes(Value)[y][v] = <<"value", y * ByteBits + (ByteBits - 1 - v)>>
<1>1. ASSUME NEW y \in 0..7, NEW v \in 0..(ByteBits - 1)
      PROVE  /\ (y * ByteBits + ByteBits - 1) - v \in 0..(ScalarBits - 1)
             /\ (y * ByteBits + ByteBits - 1) - v = y * ByteBits + (ByteBits - 1 - v)
             /\ y * ByteBits + (ByteBits - 1 - v) \in Nat
  <2> DEFINE m == y * ByteBits
  <2>1. ByteBits \in Nat /\ ByteBits > 0 /\ y \in Nat /\ y < 8
    BY PayloadSizes
  <2>2. m + ByteBits <= 8 * ByteBits
    BY <2>1, Products
  <2>3. m \in Nat /\ 8 * ByteBits \in Nat
    BY <2>1, NatProduct
  <2> HIDE DEF m
  <2>4. /\ (m + ByteBits - 1) - v \in 0..(8 * ByteBits - 1)
        /\ (m + ByteBits - 1) - v = m + (ByteBits - 1 - v)
        /\ m + (ByteBits - 1 - v) \in Nat
    BY <2>1, <2>2, <2>3
  <2> QED
    BY <2>4 DEF m, ScalarBits
<1>2. \A y \in 0..7, v \in 0..(ByteBits - 1) :
        ByBytes(Value)[y][v] = Value[(y * ByteBits + ByteBits - 1) - v]
  <2> TAKE y \in 0..7, v \in 0..(ByteBits - 1)
  <2>1. ByBytes(Value)[y][v] = Value[y * ByteBits + ByteBits - 1 - v]
    BY DEF ByBytes
  <2> QED
    BY <2>1, <1>1
<1>3. \A y \in 0..7, v \in 0..(ByteBits - 1) :
        ByBytes(Value)[y][v] = <<"value", y * ByteBits + (ByteBits - 1 - v)>>
  <2>1. \A w \in 0..(ScalarBits - 1) : Value[w] = <<"value", w>>
    BY DEF Value
  <2> QED
    BY <1>1, <1>2, <2>1
<1>4. \A y \in 0..7, v \in 0..(ByteBits - 1) : ByBytes(Value)[y][v] \in Bits
  <2> TAKE y \in 0..7, v \in 0..(ByteBits - 1)
  <2>1. ByBytes(Value)[y][v] = <<"value", y * ByteBits + (ByteBits - 1 - v)>>
    BY <1>3
  <2> QED
    BY <1>1, <2>1 DEF Bits
<1>5. ByBytes(Value) = [y \in 0..7 |-> [v \in 0..(ByteBits - 1) |-> ByBytes(Value)[y][v]]]
  BY DEF ByBytes
<1>6. ByBytes(Value) \in AreaOf(8, Bits)
  BY <1>4, <1>5 DEF AreaOf, OctetOf
<1> QED
  BY <1>3, <1>6

LEMMA RaisedBits ==
  ASSUME NEW bits \in Nat, bits > 0, bits <= 8 * ByteBits
  PROVE  /\ Raised(ByBytes(Value), bits) \in AreaOf(8, Bits)
         /\ \A w \in 0..(bits - 1) : Bit(Raised(ByBytes(Value), bits), WireOffset(bits, w)) = <<"value", w>>
<1> DEFINE o == ByBytes(Value)
           s == Raised(o, bits)
           q == bits \div ByteBits
           r == bits % ByteBits
<1>1. /\ q \in Nat /\ r \in 0..(ByteBits - 1) /\ bits = q * ByteBits + r
      /\ ByteBits \in Nat /\ ByteBits > 0
  BY PlaceOfBit, PayloadSizes
<1>2. /\ o \in AreaOf(8, Bits)
      /\ \A y \in 0..7, v \in 0..(ByteBits - 1) : o[y][v] = <<"value", y * ByteBits + (ByteBits - 1 - v)>>
  BY ByBytesTyped
<1> HIDE DEF o
<1>3. DOMAIN o = 0..7 /\ \A y \in 0..7 : o[y] \in OctetOf(Bits) /\ DOMAIN o[y] = 0..(ByteBits - 1)
  BY <1>2 DEF AreaOf, OctetOf
<1>4. r # 0 => Spare(bits) = ByteBits - r
  BY SpareIs
<1>5. s \in AreaOf(8, Bits)
  <2>1. CASE r = 0
    BY <1>2, <2>1 DEF Raised
  <2>2. CASE r # 0 /\ q \in 0..7
    <3>1. ShiftLeft(o[q], Spare(bits)) \in OctetOf(Bits)
      <4>1. ShiftLeft(o[q], Spare(bits)) =
              [j \in 0..(ByteBits - 1) |-> IF j + (ByteBits - r) < ByteBits THEN o[q][j + (ByteBits - r)] ELSE Zero]
        BY <1>3, <1>4, <2>2 DEF ShiftLeft
      <4>2. Zero \in Bits
        BY DEF Zero, Bits
      <4>3. \A j \in 0..(ByteBits - 1) : j + (ByteBits - r) < ByteBits => o[q][j + (ByteBits - r)] \in Bits
        <5>1. \A v \in 0..(ByteBits - 1) : o[q][v] \in Bits
          BY <1>3, <2>2 DEF OctetOf
        <5> HIDE DEF q, r
        <5>2. \A j \in 0..(ByteBits - 1) : j + (ByteBits - r) < ByteBits => j + (ByteBits - r) \in 0..(ByteBits - 1)
          BY <1>1
        <5> QED
          BY <5>1, <5>2
      <4> HIDE DEF q, r
      <4> QED
        BY <4>1, <4>2, <4>3 DEF OctetOf
    <3> QED
      BY <1>2, <2>2, <3>1 DEF Raised, AreaOf
  <2>3. CASE r # 0 /\ q \notin 0..7
    <3>1. s = o
      <4>1. s = [o EXCEPT ![q] = ShiftLeft(o[q], Spare(bits))]
        BY <2>3 DEF Raised
      <4> DEFINE z == ShiftLeft(o[q], Spare(bits))
      <4> HIDE DEF z, q
      <4>2. [o EXCEPT ![q] = z] = [i \in 0..7 |-> o[i]]
        BY <1>3, <2>3
      <4>3. o = [i \in 0..7 |-> o[i]]
        BY <1>2 DEF AreaOf
      <4> QED
        BY <4>1, <4>2, <4>3 DEF z
    <3> QED
      BY <1>2, <3>1
  <2> QED
    BY <2>1, <2>2, <2>3
<1>6. ASSUME NEW w \in 0..(bits - 1) PROVE Bit(s, WireOffset(bits, w)) = <<"value", w>>
  <2> DEFINE y == w \div ByteBits
             j == w % ByteBits
             x == WireOffset(bits, w)
  <2>1. w \in Nat /\ w < bits
    OBVIOUS
  <2>2. w = y * ByteBits + j
    BY <2>1, PlaceOfBit
  <2>3. y = w \div ByteBits /\ j = w % ByteBits /\ q = bits \div ByteBits /\ r = bits % ByteBits
    OBVIOUS
  <2> HIDE DEF y, j, q, r
  <2>4. /\ y \in 0..7 /\ j \in 0..(ByteBits - 1)
        /\ y < q \/ (y = q /\ j < r)
        /\ (y < q => x = y * ByteBits + (ByteBits - 1 - j))
        /\ (y = q => x = y * ByteBits + (r - 1 - j))
    BY <2>1, <2>3, OnTheWire
  <2> HIDE DEF x, s
  <2>5. y \in Nat
    BY <2>4
  <2>6. CASE y < q
    <3> DEFINE v == ByteBits - 1 - j
    <3>1. v \in 0..(ByteBits - 1) /\ ByteBits - 1 - v = j
      BY <1>1, <2>4
    <3>2. x = y * ByteBits + v
      BY <2>4, <2>6
    <3> HIDE DEF v
    <3>3. x \div ByteBits = y /\ x % ByteBits = v
      BY <2>5, <3>1, <3>2, BitAtPlace
    <3>4. s[y] = o[y]
      <4>1. y # q
        BY <1>1, <2>4, <2>6
      <4> QED
        BY <1>3, <2>3, <2>4, <4>1 DEF s, Raised
    <3>5. o[y][v] = <<"value", y * ByteBits + (ByteBits - 1 - v)>>
      BY <1>2, <2>4, <3>1
    <3> QED
      BY <2>2, <3>1, <3>3, <3>4, <3>5 DEF Bit, x
  <2>7. CASE y = q /\ j < r
    <3> DEFINE v == r - 1 - j
               u == v + (ByteBits - r)
    <3>1. v \in 0..(ByteBits - 1) /\ u \in 0..(ByteBits - 1) /\ ByteBits - 1 - u = j /\ u < ByteBits /\ r # 0
      BY <1>1, <2>4, <2>7
    <3>2. x = y * ByteBits + v
      BY <2>4, <2>7
    <3> HIDE DEF v
    <3>3. x \div ByteBits = y /\ x % ByteBits = v
      BY <2>5, <3>1, <3>2, BitAtPlace
    <3>4. s[y] = ShiftLeft(o[y], ByteBits - r)
      BY <1>3, <1>4, <2>3, <2>4, <2>7, <3>1 DEF s, Raised
    <3>5. s[y][v] = o[y][u]
      BY <1>3, <2>4, <3>1, <3>4 DEF ShiftLeft
    <3> HIDE DEF u
    <3>6. o[y][u] = <<"value", y * ByteBits + (ByteBits - 1 - u)>>
      BY <1>2, <2>4, <3>1
    <3> QED
      BY <2>2, <3>1, <3>3, <3>5, <3>6 DEF Bit, x
  <2> QED
    BY <2>4, <2>6, <2>7
<1> QED
  BY <1>5, <1>6 DEF o

LEMMA MessageBits ==
  /\ Message \in AreaOf(MessageBytes, Bits)
  /\ \A x \in Nat : x < MessageBytes * ByteBits => Bit(Message, x) = <<"kept", x>>
<1>0. MessageBytes \in Nat
  BY PayloadSizes
<1>1. Message \in AreaOf(MessageBytes, Bits)
  BY ByteTyped DEF Message, AreaOf
<1>2. ASSUME NEW x \in Nat, x < MessageBytes * ByteBits PROVE Bit(Message, x) = <<"kept", x>>
  <2>1. /\ x \div ByteBits \in 0..(MessageBytes - 1) /\ x % ByteBits \in 0..(ByteBits - 1)
        /\ x = (x \div ByteBits) * ByteBits + (x % ByteBits)
    BY <1>0, <1>2, PlaceInArea, PlaceOfBit
  <2>2. Bit(Message, x) = <<"kept", (x \div ByteBits) * ByteBits + (x % ByteBits)>>
    BY <2>1 DEF Bit, Message, BitsOf
  <2> QED
    BY <2>1, <2>2
<1> QED
  BY <1>1, <1>2

(* canardEncodeScalar puts the value in its place and nothing elsewhere.   *)
LEMMA EncodeWrites ==
  ASSUME NEW offset \in Nat, NEW bits \in Nat, bits > 0, bits <= 8 * ByteBits,
         offset + bits <= MessageBytes * ByteBits, NEW s, s = EncodeScalar(Message, offset, bits, Value)
  PROVE  /\ \A w \in 0..(bits - 1) : Bit(s, offset + WireOffset(bits, w)) = <<"value", w>>
         /\ \A i \in (0..(MessageBytes * ByteBits - 1)) \ (offset..(offset + bits - 1)) :
              Bit(s, i) = <<"kept", i>>
<1> DEFINE r == Raised(ByBytes(Value), bits)
           all == MessageBytes * ByteBits
<1>1. s = CopyBitArray(r, 0, bits, Message, offset)
  BY DEF EncodeScalar, Raised
<1>2. r \in AreaOf(8, Bits) /\ \A w \in 0..(bits - 1) : Bit(r, WireOffset(bits, w)) = <<"value", w>>
  BY RaisedBits
<1> HIDE DEF r
<1>3. MessageBytes \in Nat /\ all \in Nat
  BY PayloadSizes, NatProduct
<1>4. Message \in AreaOf(MessageBytes, Bits) /\ \A x \in Nat : x < all => Bit(Message, x) = <<"kept", x>>
  BY MessageBits
<1>5. Moved(s, r, 0, bits, Message, offset, MessageBytes)
  <2>1. 0 + bits <= 8 * ByteBits
    OBVIOUS
  <2> QED
    BY <1>1, <1>2, <1>3, <1>4, <2>1, Copies
<1>6. \A x \in Nat : x < all =>
        Bit(s, x) = IF offset <= x /\ x < offset + bits THEN Bit(r, 0 + (x - offset)) ELSE Bit(Message, x)
  BY <1>5 DEF Moved
<1>7. ASSUME NEW w \in 0..(bits - 1) PROVE Bit(s, offset + WireOffset(bits, w)) = <<"value", w>>
  <2> DEFINE v == WireOffset(bits, w)
  <2>1. v \in Nat /\ v < bits
    <3>1. w \in Nat /\ w < bits
      OBVIOUS
    <3> QED
      BY <3>1, OnTheWire
  <2>2. Bit(r, v) = <<"value", w>>
    BY <1>2
  <2> HIDE DEF v
  <2>3. /\ offset + v \in Nat /\ offset + v < all /\ offset <= offset + v /\ offset + v < offset + bits
        /\ 0 + ((offset + v) - offset) = v
    BY <1>3, <2>1
  <2> HIDE DEF all
  <2>4. Bit(s, offset + v) = Bit(r, v)
    BY <1>6, <2>3
  <2> QED
    BY <2>2, <2>4 DEF v
<1>8. ASSUME NEW i \in (0..(all - 1)) \ (offset..(offset + bits - 1)) PROVE Bit(s, i) = <<"kept", i>>
  <2>1. i \in Nat /\ i < all /\ ~(offset <= i /\ i < offset + bits)
    <3> HIDE DEF all
    <3> QED
      BY <1>3
  <2> QED
    BY <1>4, <1>6, <2>1
<1> QED
  BY <1>7, <1>8

-----------------------------------------------------------------------------
(* Storing the payload: bufferBlockPushBytes and the last frame.           *)

\* The len bytes of the payload from byte from on.
SentBytes(from, len) == [i \in 1..len |-> BitsOf("sent", from + i - 1)]

LEMMA SentBytesAre ==
  ASSUME NEW from \in Nat, NEW len \in Nat
  PROVE  /\ SentBytes(from, len) \in Seq(OctetOf(Bits)) /\ Len(SentBytes(from, len)) = len
         /\ \A i \in 1..len : SentBytes(from, len)[i] = BitsOf("sent", from + i - 1)
         /\ len = 0 => SentBytes(from, len) = <<>>
<1>1. \A i \in 1..len : BitsOf("sent", from + i - 1) \in OctetOf(Bits)
  <2> TAKE i \in 1..len
  <2>1. from + i - 1 \in Nat
    OBVIOUS
  <2> QED
    BY <2>1, ByteTyped
<1>2. SentBytes(from, len) \in Seq(OctetOf(Bits)) /\ Len(SentBytes(from, len)) = len
  BY <1>1 DEF SentBytes
<1>3. len = 0 => SentBytes(from, len) = <<>>
  BY <1>2
<1> QED
  BY <1>2, <1>3 DEF SentBytes

LEMMA DroppedSent ==
  ASSUME NEW from \in Nat, NEW len \in Nat, NEW n \in Nat
  PROVE  /\ n <= len => Dropped(SentBytes(from, len), n) = SentBytes(from + n, len - n)
         /\ n >= len => Dropped(SentBytes(from, len), n) = <<>>
<1> DEFINE s == SentBytes(from, len)
<1>1. Len(s) = len /\ \A i \in 1..len : s[i] = BitsOf("sent", from + i - 1)
  BY SentBytesAre
<1> HIDE DEF s
<1>2. Dropped(s, n) = [i \in 1..(len - n) |-> s[i + n]]
  BY <1>1 DEF Dropped
<1>3. n <= len => Dropped(s, n) = SentBytes(from + n, len - n)
  <2> SUFFICES ASSUME n <= len PROVE Dropped(s, n) = SentBytes(from + n, len - n)
    OBVIOUS
  <2>1. \A i \in 1..(len - n) : i + n \in 1..len /\ from + (i + n) - 1 = from + n + i - 1
    OBVIOUS
  <2>2. \A i \in 1..(len - n) : s[i + n] = BitsOf("sent", from + n + i - 1)
    BY <1>1, <2>1
  <2> QED
    BY <1>2, <2>2 DEF SentBytes
<1>4. n >= len => Dropped(s, n) = <<>>
  <2> SUFFICES ASSUME n >= len PROVE Dropped(s, n) = <<>>
    OBVIOUS
  <2>1. 1..(len - n) = {}
    OBVIOUS
  <2>2. Dropped(s, n) = [i \in {} |-> s[i + n]]
    BY <1>2, <2>1
  <2>3. [i \in {} |-> s[i + n]] = <<>>
    <3>1. [i \in {} |-> s[i + n]] = [i \in 1..0 |-> s[i + n]]
      OBVIOUS
    <3>2. [i \in 1..0 |-> s[i + n]] \in Seq({}) /\ Len([i \in 1..0 |-> s[i + n]]) = 0
      OBVIOUS
    <3> QED
      BY <3>1, <3>2
  <2> QED
    BY <2>2, <2>3
<1> QED
  BY <1>3, <1>4 DEF s

LEMMA HoldsFull ==
  ASSUME NEW a, NEW N \in Nat, NEW base \in Nat, NEW L \in Nat, HoldsFrom(a, N, base, L),
         base + N <= L, NEW M \in Nat
  PROVE  HoldsFrom(a, N, base, M)
<1>1. \A i \in 0..(N - 1) : base + i < L
  OBVIOUS
<1> QED
  BY <1>1 DEF HoldsFrom

LEMMA BlankHolds ==
  ASSUME NEW N \in Nat, NEW base \in Nat, NEW L \in Nat, L <= base
  PROVE  HoldsFrom(BlankBytes(N), N, base, L)
<1>1. \A i \in 0..(N - 1) : ~(base + i < L)
  OBVIOUS
<1>2. BlankBytes(N) \in AreaOf(N, Bits)
  BY BlankTyped
<1> QED
  BY <1>1, <1>2 DEF HoldsFrom

LEMMA OverwrittenHolds ==
  ASSUME NEW a, NEW N \in Nat, NEW base \in Nat, NEW at \in Nat, NEW len \in Nat,
         HoldsFrom(a, N, base, base + at)
  PROVE  HoldsFrom(Overwritten(a, at, SentBytes(base + at, len)), N, base, base + at + len)
<1> DEFINE s == SentBytes(base + at, len)
           o == Overwritten(a, at, s)
<1>1. a \in AreaOf(N, Bits) /\ \A i \in 0..(N - 1) : base + i < base + at => a[i] = BitsOf("sent", base + i)
  BY DEF HoldsFrom
<1>2. s \in Seq(OctetOf(Bits)) /\ Len(s) = len /\ \A i \in 1..len : s[i] = BitsOf("sent", (base + at) + i - 1)
  <2>1. base + at \in Nat
    OBVIOUS
  <2> QED
    BY <2>1, SentBytesAre
<1> HIDE DEF s
<1>3. DOMAIN a = 0..(N - 1)
  BY <1>1 DEF AreaOf
<1>4. o = [i \in 0..(N - 1) |-> IF i - at + 1 \in 1..len THEN s[i - at + 1] ELSE a[i]]
  BY <1>2, <1>3 DEF Overwritten
<1> HIDE DEF o
<1>5. \A i \in 1..len : s[i] \in OctetOf(Bits)
  BY <1>2
<1>6. o \in AreaOf(N, Bits)
  <2>1. \A i \in 0..(N - 1) : a[i] \in OctetOf(Bits)
    BY <1>1 DEF AreaOf
  <2> QED
    BY <1>4, <1>5, <2>1 DEF AreaOf
<1>7. ASSUME NEW i \in 0..(N - 1), base + i < base + at + len PROVE o[i] = BitsOf("sent", base + i)
  <2>1. CASE i < at
    <3>1. ~(i - at + 1 \in 1..len) /\ base + i < base + at
      BY <2>1
    <3> QED
      BY <1>1, <1>4, <3>1
  <2>2. CASE ~(i < at)
    <3> DEFINE k == i - at + 1
    <3>1. k \in 1..len /\ (base + at) + k - 1 = base + i
      BY <1>7, <2>2
    <3> HIDE DEF k
    <3>2. o[i] = s[k]
      BY <1>4, <3>1 DEF k
    <3> QED
      BY <1>2, <3>1, <3>2
  <2> QED
    BY <2>1, <2>2
<1> QED
  BY <1>6, <1>7 DEF HoldsFrom, o, s

(* The last block, from a byte on, and as many blocks as it takes.         *)
LEMMA Filled ==
  ASSUME NEW blocks \in Seq(AreaOf(PayloadBlock, Bits)), NEW n, n = Len(blocks), n > 0,
         NEW at \in 0..(PayloadBlock - 1), NEW F, F = Stop(n - 1) + at,
         \A b \in 1..n : HoldsFrom(blocks[b], PayloadBlock, Stop(b - 1), F),
         NEW len \in Nat, len > 0, NEW r, r = FillBlocks(blocks, at, SentBytes(F, len))
  PROVE  /\ r \in Seq(AreaOf(PayloadBlock, Bits))
         /\ \A b \in 1..Len(r) : /\ HoldsFrom(r[b], PayloadBlock, Stop(b - 1), F + len)
                                 /\ Stop(b - 1) < F + len
         /\ F + len <= Stop(Len(r))
<1> DEFINE s == SentBytes(F, len)
           S == {k \in 0..len : len <= (k + 1) * PayloadBlock - at}
           K == Min(S)
<1>1. n \in Nat /\ n - 1 \in Nat /\ PayloadBlock \in Nat /\ PayloadBlock > 0 /\ at \in Nat
      /\ Stop(n - 1) \in Nat /\ F \in Nat
  <2>1. n \in Nat /\ n - 1 \in Nat /\ PayloadBlock \in Nat /\ PayloadBlock > 0
    BY PayloadSizes
  <2>2. Stop(n - 1) \in Nat
    BY <2>1, Stops
  <2> QED
    BY <2>1, <2>2
<1>2. Len(s) = len
  BY <1>1, SentBytesAre
<1>3. \A k \in Nat : k * PayloadBlock \in Nat /\ (k + 1) * PayloadBlock = k * PayloadBlock + PayloadBlock
                     /\ k <= k * PayloadBlock
  BY <1>1
<1>4. len \in S
  <2>1. len * PayloadBlock \in Nat /\ (len + 1) * PayloadBlock = len * PayloadBlock + PayloadBlock
        /\ len <= len * PayloadBlock
    BY <1>3
  <2>2. len <= (len + 1) * PayloadBlock - at
    BY <1>1, <2>1
  <2> QED
    BY <2>2
<1>5. K \in S /\ \A y \in S : K <= y
  <2>1. S \subseteq Nat /\ S # {}
    <3>1. S \subseteq Nat
      OBVIOUS
    <3> HIDE DEF S
    <3> QED
      BY <1>4, <3>1
  <2> HIDE DEF S
  <2>2. \E x \in S : \A y \in S : x <= y
    BY <2>1, SmallestOf
  <2> QED
    BY <2>2 DEF Min
<1>6. K \in 0..len /\ len <= (K + 1) * PayloadBlock - at
  BY <1>5
<1>7. K > 0 => len > K * PayloadBlock - at
  <2> SUFFICES ASSUME K > 0, ~(len > K * PayloadBlock - at) PROVE FALSE
    OBVIOUS
  <2> HIDE DEF K
  <2>1. K - 1 \in 0..len /\ (K - 1) + 1 = K /\ ~(K <= K - 1)
    BY <1>6
  <2>2. K * PayloadBlock \in Nat
    BY <1>3, <1>6
  <2>3. len <= ((K - 1) + 1) * PayloadBlock - at
    BY <1>1, <2>1, <2>2
  <2>4. K - 1 \in S
    BY <2>1, <2>3
  <2> QED
    BY <1>5, <2>1, <2>4
<1>8. r = [b \in 1..(n + K) |->
            IF b < n THEN blocks[b]
            ELSE IF b = n THEN Overwritten(blocks[n], at, s)
            ELSE Overwritten(BlankBytes(PayloadBlock), 0, Dropped(s, (b - n) * PayloadBlock - at))]
  BY <1>2 DEF FillBlocks
<1> HIDE DEF K, S
<1> DEFINE R(b) == IF b < n THEN blocks[b]
                   ELSE IF b = n THEN Overwritten(blocks[n], at, s)
                   ELSE Overwritten(BlankBytes(PayloadBlock), 0, Dropped(s, (b - n) * PayloadBlock - at))
<1>81. r = [b \in 1..(n + K) |-> R(b)]
  BY <1>8
<1>82. \A b \in 1..(n + K) : r[b] = R(b)
  <2> HIDE DEF R
  <2> QED
    BY <1>81
<1>9. K \in Nat /\ n + K \in Nat
  BY <1>1, <1>6
<1>10. ASSUME NEW b \in 1..(n + K)
       PROVE  HoldsFrom(r[b], PayloadBlock, Stop(b - 1), F + len) /\ Stop(b - 1) < F + len
  <2>1. b \in Nat /\ b - 1 \in Nat /\ Stop(b - 1) \in Nat
    <3>1. b \in Nat /\ b - 1 \in Nat
      BY <1>9
    <3> QED
      BY <3>1, Stops
  <2>2. CASE b < n
    <3>1. r[b] = blocks[b] /\ b \in 1..n
      <4>1. R(b) = blocks[b]
        BY <2>2
      <4> HIDE DEF R
      <4> QED
        BY <1>1, <1>82, <2>1, <2>2, <4>1
    <3>2. Stop(b - 1) + PayloadBlock <= Stop(n - 1)
      <4>1. b - 1 < n - 1
        BY <1>1, <2>1, <2>2
      <4> QED
        BY <1>1, <2>1, <4>1, Stops
    <3>3. Stop(b - 1) + PayloadBlock <= F /\ Stop(b - 1) < F + len /\ F + len \in Nat
      BY <1>1, <2>1, <3>2
    <3> QED
      BY <1>1, <2>1, <3>1, <3>3, HoldsFull
  <2>3. CASE b = n
    <3>1. r[b] = Overwritten(blocks[n], at, s) /\ n \in 1..n
      <4>1. ~(b < n)
        BY <1>1, <2>3
      <4>2. R(b) = Overwritten(blocks[n], at, s)
        BY <2>3, <4>1
      <4> HIDE DEF R
      <4> QED
        BY <1>1, <1>82, <2>3, <4>2
    <3>2. HoldsFrom(blocks[n], PayloadBlock, Stop(n - 1), Stop(n - 1) + at)
      BY <3>1
    <3> DEFINE e == Stop(n - 1)
    <3> HIDE DEF e
    <3>3. HoldsFrom(Overwritten(blocks[n], at, SentBytes(e + at, len)), PayloadBlock, e, e + at + len)
      BY <1>1, <3>2, OverwrittenHolds DEF e
    <3>4. F = e + at /\ e < F + len
      BY <1>1 DEF e
    <3> QED
      BY <2>3, <3>1, <3>3, <3>4 DEF e
  <2>4. CASE b > n
    <3> DEFINE m == (b - n) * PayloadBlock
               e == Stop(b - 1)
               t == Dropped(s, m - at)
    <3>1. b - n \in Nat /\ b - n >= 1 /\ b - n <= K
      BY <1>1, <1>9, <2>1, <2>4
    <3>2. m \in Nat /\ m >= PayloadBlock /\ m <= K * PayloadBlock /\ K > 0 /\ K * PayloadBlock \in Nat
      <4>1. PICK j \in Nat : b - n = 1 + j
        <5>1. (b - n) - 1 \in Nat /\ b - n = 1 + ((b - n) - 1)
          BY <3>1
        <5> QED
          BY <5>1
      <4>2. PICK i \in Nat : K = (b - n) + i
        <5>1. K - (b - n) \in Nat /\ K = (b - n) + (K - (b - n))
          BY <1>9, <3>1
        <5> QED
          BY <5>1
      <4>3. m = PayloadBlock + j * PayloadBlock /\ j * PayloadBlock \in Nat
        BY <1>1, <4>1
      <4>4. K * PayloadBlock = m + i * PayloadBlock /\ i * PayloadBlock \in Nat
        <5> DEFINE c == b - n
        <5>1. c \in Nat /\ K = c + i
          BY <3>1, <4>2
        <5> HIDE DEF c
        <5>2. K * PayloadBlock = c * PayloadBlock + i * PayloadBlock /\ i * PayloadBlock \in Nat
          BY <1>1, <5>1
        <5> QED
          BY <5>2 DEF c
      <4> HIDE DEF m
      <4> QED
        BY <1>1, <1>9, <3>1, <4>3, <4>4
    <3>3. e = F + (m - at)
      <4>1. Stop(b - 1) - Stop(n - 1) = ((b - 1) - (n - 1)) * PayloadBlock
        <5>1. n - 1 \in 0..(b - 1)
          BY <1>1, <2>1, <2>4
        <5> QED
          BY <2>1, <5>1, Stops
      <4>2. (b - 1) - (n - 1) = b - n
        BY <1>1, <2>1
      <4>3. Stop(b - 1) - Stop(n - 1) = m
        BY <4>1, <4>2
      <4> DEFINE v == Stop(n - 1)
      <4>4. e \in Nat /\ v \in Nat /\ e - v = m /\ F = v + at
        BY <1>1, <2>1, <4>3
      <4>5. m \in Nat /\ at \in Nat /\ F \in Nat
        BY <1>1, <3>2
      <4> HIDE DEF m, e, v
      <4>6. e = v + m
        BY <4>4, <4>5
      <4>7. F + (m - at) = v + m
        BY <4>4, <4>5
      <4> QED
        BY <4>6, <4>7
    <3> HIDE DEF m
    <3>4. m - at \in Nat /\ m - at < len
      BY <1>1, <1>7, <3>2
    <3>5. t = SentBytes(e, len - (m - at))
      <4> DEFINE d == m - at
      <4>1. d \in Nat /\ d <= len
        BY <3>4
      <4> HIDE DEF d
      <4>2. Dropped(s, d) = SentBytes(F + d, len - d)
        BY <1>1, <4>1, DroppedSent
      <4> QED
        BY <3>3, <4>2 DEF d
    <3>6. r[b] = Overwritten(BlankBytes(PayloadBlock), 0, t)
      <4>1. ~(b < n) /\ b # n
        BY <1>1, <2>1, <2>4
      <4> QED
        BY <1>82, <4>1 DEF m
    <3> HIDE DEF t
    <3> DEFINE l == len - (m - at)
    <3>7. l \in Nat /\ e \in Nat /\ e + 0 = e /\ e + 0 + l = F + len /\ e < F + len
      <4>1. e \in Nat
        BY <2>1
      <4> HIDE DEF e
      <4> QED
        <5>1. F \in Nat /\ m - at \in Nat /\ m - at < len
          BY <1>1, <3>4
        <5> DEFINE d == m - at
        <5>2. d \in Nat /\ d < len /\ e = F + d /\ l = len - d
          BY <3>3, <5>1
        <5> HIDE DEF d, l
        <5> QED
          BY <4>1, <5>1, <5>2
    <3> HIDE DEF l, e
    <3>8. HoldsFrom(BlankBytes(PayloadBlock), PayloadBlock, e, e + 0)
      BY <1>1, <3>7, BlankHolds
    <3>9. HoldsFrom(Overwritten(BlankBytes(PayloadBlock), 0, SentBytes(e + 0, l)), PayloadBlock, e, e + 0 + l)
      BY <1>1, <3>7, <3>8, OverwrittenHolds
    <3> QED
      BY <3>5, <3>6, <3>7, <3>9 DEF l, e
  <2> QED
    BY <1>1, <2>1, <2>2, <2>3, <2>4
<1>11. r \in Seq(AreaOf(PayloadBlock, Bits)) /\ Len(r) = n + K
  <2>1. \A b \in 1..(n + K) : r[b] \in AreaOf(PayloadBlock, Bits)
    BY <1>10 DEF HoldsFrom
  <2> HIDE DEF R
  <2>3. \A b \in 1..(n + K) : R(b) \in AreaOf(PayloadBlock, Bits)
    BY <1>82, <2>1
  <2> QED
    BY <1>9, <1>81, <2>3
<1>12. F + len <= Stop(n + K)
  <2>1. Stop(n + K) - Stop(n - 1) = ((n + K) - (n - 1)) * PayloadBlock /\ Stop(n + K) \in Nat
    <3>1. n - 1 \in 0..(n + K)
      BY <1>1, <1>9
    <3> QED
      BY <1>9, <3>1, Stops
  <2>2. (n + K) - (n - 1) = K + 1
    BY <1>1, <1>9
  <2>3. Stop(n + K) - Stop(n - 1) = (K + 1) * PayloadBlock
    BY <2>1, <2>2
  <2> DEFINE m == (K + 1) * PayloadBlock
  <2>4. m \in Nat /\ len <= m - at /\ Stop(n + K) - Stop(n - 1) = m
    BY <1>1, <1>3, <1>6, <1>9, <2>3
  <2> HIDE DEF m
  <2> QED
    BY <1>1, <2>1, <2>4
<1> QED
  BY <1>10, <1>11, <1>12

(* Places in the chain of blocks.                                          *)
LEMMA InChain ==
  ASSUME NEW k \in Nat, NEW e \in Nat
  PROVE  /\ k * PayloadBlock \in Nat
         /\ e < PayloadBlock => (k * PayloadBlock + e) % PayloadBlock = e
         /\ ((k * PayloadBlock + e) \div PayloadBlock) + 1 > k
<1>1. PayloadBlock \in Nat /\ PayloadBlock > 0
  BY PayloadSizes
<1> DEFINE m == k * PayloadBlock
           x == m + e
           q == x \div PayloadBlock
           r == x % PayloadBlock
<1>2. m \in Nat /\ x \in Nat
  BY <1>1
<1>3. e < PayloadBlock => r = e
  <2> HIDE DEF x
  <2>1. x = k * PayloadBlock + e
    BY DEF x
  <2> QED
    BY <1>1, <1>2, <2>1
<1>4. q \in Nat /\ r \in 0..(PayloadBlock - 1) /\ q = x \div PayloadBlock /\ r = x % PayloadBlock
  <2> HIDE DEF x
  <2> QED
    BY <1>1, <1>2
<1>5. x = q * PayloadBlock + r
  <2> HIDE DEF x, q, r
  <2> QED
    BY <1>1, <1>2, <1>4
<1>6. q + 1 > k
  <2> SUFFICES ASSUME q + 1 <= k PROVE FALSE
    BY <1>4
  <2> HIDE DEF q, r
  <2>1. PICK i \in Nat : k = q + 1 + i
    <3>1. k - (q + 1) \in Nat /\ k = q + 1 + (k - (q + 1))
      BY <1>4
    <3> QED
      BY <3>1
  <2>2. m = q * PayloadBlock + PayloadBlock + i * PayloadBlock /\ i * PayloadBlock \in Nat
        /\ q * PayloadBlock \in Nat
    BY <1>1, <1>4, <2>1
  <2> HIDE DEF m
  <2> QED
    BY <1>1, <1>2, <1>4, <1>5, <2>2
<1> QED
  BY <1>2, <1>3, <1>6

(* While the payload comes in, the blocks reach as far as it does.         *)
ComingIn(p, L) == InMemory(p, L) /\ L <= Stop(Len(p.blocks)) /\ p.tail = <<>>

LEMMA ChainReaches ==
  ASSUME NEW p, NEW L \in Nat, ComingIn(p, L), NEW n, n = Len(p.blocks)
  PROVE  /\ n \in Nat /\ (n = 0 <=> p.blocks = <<>>) /\ PayloadHead \in Nat /\ PayloadBlock \in Nat
         /\ Stop(0) = PayloadHead /\ PayloadBlock > 0 /\ Stop(n) \in Nat
         /\ n = 0 => L <= PayloadHead
         /\ n > 0 => /\ L > PayloadHead /\ n - 1 \in Nat /\ Stop(n - 1) \in Nat
                     /\ L > Stop(n - 1) /\ Stop(n) = Stop(n - 1) + PayloadBlock
                     /\ Stop(n - 1) = PayloadHead + (n - 1) * PayloadBlock /\ (n - 1) * PayloadBlock \in Nat
<1>1. p.blocks \in Seq(AreaOf(PayloadBlock, Bits)) /\ L <= Stop(n)
  BY DEF ComingIn, InMemory, Payloads
<1>2. n \in Nat /\ (n = 0 <=> p.blocks = <<>>)
  BY <1>1
<1>3. PayloadHead \in Nat /\ PayloadBlock \in Nat /\ PayloadBlock > 0
  BY PayloadSizes
<1>4. Stop(0) = PayloadHead /\ Stop(n) \in Nat
  BY <1>2, Stops
<1>5. ASSUME n > 0
      PROVE  /\ L > PayloadHead /\ n - 1 \in Nat /\ Stop(n - 1) \in Nat
             /\ L > Stop(n - 1) /\ Stop(n) = Stop(n - 1) + PayloadBlock
             /\ Stop(n - 1) = PayloadHead + (n - 1) * PayloadBlock /\ (n - 1) * PayloadBlock \in Nat
  <2>1. n - 1 \in Nat /\ (n - 1) + 1 = n
    BY <1>2, <1>5
  <2>2. Stop(n - 1) \in Nat /\ Stop(n) = Stop(n - 1) + PayloadBlock
    BY <2>1, Stops
  <2>3. n \in 1..Len(p.blocks)
    BY <1>2, <1>5
  <2>4. Stop(n - 1) < L
    BY <2>3 DEF ComingIn, InMemory
  <2>5. Stop(n - 1) = PayloadHead + (n - 1) * PayloadBlock
    BY DEF Stop
  <2>6. (n - 1) * PayloadBlock \in Nat
    BY <1>3, <2>1
  <2>7. L > PayloadHead
    <3> DEFINE m == (n - 1) * PayloadBlock
    <3>1. Stop(n - 1) = PayloadHead + m /\ m \in Nat
      BY <2>5, <2>6
    <3> HIDE DEF m
    <3> QED
      BY <1>3, <2>4, <3>1
  <2> QED
    BY <2>1, <2>2, <2>4, <2>5, <2>6, <2>7
<1>6. n = 0 => L <= PayloadHead
  BY <1>1, <1>4
<1> QED
  BY <1>2, <1>3, <1>4, <1>5, <1>6

LEMMA HeadWritten ==
  ASSUME NEW p, NEW L \in Nat, InMemory(p, L), NEW len \in Nat
  PROVE  /\ HoldsFrom(Overwritten(p.head, L, SentBytes(L, len)), PayloadHead, 0, L + len)
         /\ L >= PayloadHead => HoldsFrom(p.head, PayloadHead, 0, L + len)
<1>1. HoldsFrom(p.head, PayloadHead, 0, L) /\ PayloadHead \in Nat /\ 0 + L = L
  BY PayloadSizes DEF InMemory
<1>2. HoldsFrom(Overwritten(p.head, L, SentBytes(0 + L, len)), PayloadHead, 0, 0 + L + len)
  BY <1>1, OverwrittenHolds
<1>3. L >= PayloadHead => HoldsFrom(p.head, PayloadHead, 0, L + len)
  <2>1. L + len \in Nat /\ (L >= PayloadHead => 0 + PayloadHead <= L)
    BY <1>1
  <2> QED
    BY <1>1, <2>1, HoldsFull
<1> QED
  BY <1>1, <1>2, <1>3

(* bufferBlockPushBytes keeps the payload as it is in memory.              *)
LEMMA Pushed ==
  ASSUME NEW p, NEW L \in Nat, ComingIn(p, L), NEW len \in Nat, len > 0
  PROVE  ComingIn(BufferBlockPushBytes(p, SentBytes(L, len)), L + len)
<1> DEFINE s == SentBytes(L, len)
           n == Len(p.blocks)
           M == L + len
           room == IF L < PayloadHead THEN PayloadHead - L ELSE 0
           F == L + room
           index == IF p.blocks = <<>> THEN 0 ELSE (L - PayloadHead) % PayloadBlock
           blocks == IF p.blocks = <<>> \/ NewBlockDue(p, len)
                     THEN Append(p.blocks, BlankBytes(PayloadBlock)) ELSE p.blocks
           filled == IF len <= room THEN p.blocks ELSE FillBlocks(blocks, index, Dropped(s, room))
           front == Overwritten(p.head, L, s)
           q == [length |-> M, head |-> front, blocks |-> filled, tail |-> <<>>]
<1>1. /\ n \in Nat /\ (n = 0 <=> p.blocks = <<>>) /\ PayloadHead \in Nat /\ PayloadBlock \in Nat
      /\ Stop(0) = PayloadHead /\ PayloadBlock > 0 /\ Stop(n) \in Nat
      /\ n = 0 => L <= PayloadHead
      /\ n > 0 => /\ L > PayloadHead /\ n - 1 \in Nat /\ Stop(n - 1) \in Nat
                  /\ L > Stop(n - 1) /\ Stop(n) = Stop(n - 1) + PayloadBlock
                  /\ Stop(n - 1) = PayloadHead + (n - 1) * PayloadBlock /\ (n - 1) * PayloadBlock \in Nat
  BY ChainReaches
<1>2. /\ p \in Payloads /\ p.length = L /\ p.tail = <<>> /\ L <= Stop(n)
      /\ p.blocks \in Seq(AreaOf(PayloadBlock, Bits))
      /\ \A b \in 1..n : HoldsFrom(p.blocks[b], PayloadBlock, Stop(b - 1), L) /\ Stop(b - 1) < L
  BY DEF ComingIn, InMemory, Payloads
<1>3. Len(s) = len
  BY SentBytesAre
<1>4. HoldsFrom(front, PayloadHead, 0, M) /\ M \in Nat /\ M > L
  BY HeadWritten DEF ComingIn
<1>5. BufferBlockPushBytes(p, s) = q
  <2>1. p = [length |-> p.length, head |-> p.head, blocks |-> p.blocks, tail |-> p.tail]
    BY <1>2 DEF Payloads
  <2> HIDE DEF s
  <2>2. BufferBlockPushBytes(p, s) = [p EXCEPT !.length = M, !.head = front, !.blocks = filled]
    BY <1>2, <1>3 DEF BufferBlockPushBytes
  <2> HIDE DEF M, front, filled
  <2> QED
    BY <1>2, <2>1, <2>2
<1> HIDE DEF front
<1>6. /\ room \in Nat /\ F \in Nat /\ (L < PayloadHead => F = PayloadHead /\ n = 0)
      /\ (L >= PayloadHead => F = L /\ room = 0)
  <2>1. CASE L < PayloadHead
    BY <1>1, <2>1
  <2>2. CASE L >= PayloadHead
    BY <1>1, <2>2
  <2> QED
    BY <1>1, <2>1, <2>2
<1> HIDE DEF room, F
<1>7. F = L + room
  BY DEF F
<1>8. CASE len <= room
  <2>1. filled = p.blocks
    BY <1>8
  <2>2. M <= PayloadHead /\ n = 0
    <3>1. CASE L < PayloadHead
      BY <1>1, <1>6, <1>7, <1>8, <3>1
    <3>2. CASE L >= PayloadHead
      BY <1>6, <1>8, <3>2
    <3> QED
      BY <1>1, <3>1, <3>2
  <2>3. q \in Payloads
    BY <1>2, <1>4, <2>1 DEF Payloads, HoldsFrom
  <2>4. InMemory(q, M) /\ M <= Stop(Len(q.blocks))
    <3> HIDE DEF filled, M
    <3>1. q.length = M /\ q.head = front /\ q.blocks = p.blocks
      BY <2>1
    <3>2. M <= Stop(Len(p.blocks)) /\ 1..Len(p.blocks) = {}
      BY <1>1, <2>2
    <3> HIDE DEF q, n
    <3> QED
      BY <1>4, <2>3, <3>1, <3>2 DEF InMemory
  <2> QED
    BY <1>5, <2>4 DEF ComingIn
<1>9. CASE len > room
  <2> DEFINE l == len - room
             k == Len(blocks)
  <2>1. l \in Nat /\ l > 0 /\ F + l = M /\ Dropped(s, room) = SentBytes(F, l)
    <3>1. l \in Nat /\ l > 0 /\ F + l = M /\ room <= len
      BY <1>6, <1>7, <1>9
    <3>2. Dropped(s, room) = SentBytes(L + room, len - room)
      BY <1>6, <3>1, DroppedSent
    <3> QED
      BY <1>7, <3>1, <3>2
  <2>2. /\ blocks \in Seq(AreaOf(PayloadBlock, Bits)) /\ k > 0 /\ index \in 0..(PayloadBlock - 1)
        /\ F = Stop(k - 1) + index
        /\ \A b \in 1..k : HoldsFrom(blocks[b], PayloadBlock, Stop(b - 1), F)
    <3> DEFINE blank == BlankBytes(PayloadBlock)
    <3>1. blank \in AreaOf(PayloadBlock, Bits)
      BY <1>1, BlankTyped
    <3>2. ASSUME blocks = Append(p.blocks, blank), F = Stop(n), F = L \/ n = 0, index = 0
          PROVE  /\ blocks \in Seq(AreaOf(PayloadBlock, Bits)) /\ k > 0 /\ index \in 0..(PayloadBlock - 1)
                 /\ F = Stop(k - 1) + index
                 /\ \A b \in 1..k : HoldsFrom(blocks[b], PayloadBlock, Stop(b - 1), F)
      <4> HIDE DEF blocks, index, blank
      <4>1. k = n + 1 /\ k - 1 = n /\ blocks \in Seq(AreaOf(PayloadBlock, Bits))
            /\ blocks[n + 1] = blank /\ \A b \in 1..n : blocks[b] = p.blocks[b]
        BY <1>1, <1>2, <3>1, <3>2
      <4>2. F = Stop(k - 1) + index /\ k > 0 /\ index \in 0..(PayloadBlock - 1)
        BY <1>1, <1>6, <3>2, <4>1
      <4>3. ASSUME NEW b \in 1..k PROVE HoldsFrom(blocks[b], PayloadBlock, Stop(b - 1), F)
        <5>1. CASE b = n + 1
          <6>1. HoldsFrom(BlankBytes(PayloadBlock), PayloadBlock, Stop(n), F)
            <7> DEFINE e == Stop(n)
            <7>1. e \in Nat /\ F <= e
              BY <1>1, <1>6, <3>2
            <7> HIDE DEF e
            <7> QED
              BY <1>1, <1>6, <7>1, BlankHolds DEF e
          <6>2. b - 1 = n /\ blocks[b] = BlankBytes(PayloadBlock)
            BY <1>1, <4>1, <5>1 DEF blank
          <6> QED
            BY <6>1, <6>2
        <5>2. CASE b # n + 1
          <6>1. b \in 1..n /\ blocks[b] = p.blocks[b] /\ n # 0
            <7> HIDE DEF k, n
            <7>1. b \in 1..n /\ n # 0
              BY <1>1, <4>1, <5>2
            <7> QED
              BY <4>1, <7>1
          <6> QED
            BY <1>2, <3>2, <6>1
        <5> QED
          BY <5>1, <5>2
      <4> QED
        BY <4>1, <4>2, <4>3
    <3>3. CASE n = 0
      <4>1. blocks = Append(p.blocks, blank) /\ index = 0
        BY <1>1, <3>3
      <4>2. F = Stop(n)
        BY <1>1, <1>6, <3>3
      <4> HIDE DEF blocks, index, blank, k, n
      <4> QED
        BY <3>2, <3>3, <4>1, <4>2
    <3>4. CASE n > 0
      <4> DEFINE e == L - Stop(n - 1)
                 m == n - 1
      <4>1. /\ e \in Nat /\ e >= 1 /\ e <= PayloadBlock /\ F = L /\ p.blocks # <<>> /\ L = Stop(m) + e
            /\ Stop(n) = Stop(m) + PayloadBlock
        <5> DEFINE v == Stop(m)
        <5>1. v \in Nat /\ L > v /\ Stop(n) = v + PayloadBlock /\ L <= Stop(n) /\ L > PayloadHead
          BY <1>1, <1>2, <3>4
        <5>2. p.blocks # <<>> /\ F = L
          <6> HIDE DEF n
          <6> QED
            BY <1>1, <1>6, <3>4
        <5> HIDE DEF v, n
        <5>3. e = L - v
          BY DEF v
        <5> HIDE DEF e, m
        <5> QED
          BY <1>1, <5>1, <5>2, <5>3 DEF v
      <4>2. m \in Nat /\ L - PayloadHead = m * PayloadBlock + e /\ n = m + 1 /\ m * PayloadBlock \in Nat
        <5> DEFINE v == m * PayloadBlock
        <5>1. Stop(m) = PayloadHead + v /\ v \in Nat /\ m \in Nat /\ n = m + 1
          BY <1>1, <3>4
        <5> HIDE DEF v, e, m
        <5>2. L - PayloadHead = v + e
          BY <1>1, <4>1, <5>1
        <5> QED
          BY <5>1, <5>2 DEF v
      <4> HIDE DEF e, m
      <4>3. index = (m * PayloadBlock + e) % PayloadBlock
        BY <4>1, <4>2
      <4>4. NewBlockDue(p, len) <=> /\ ((L + len - PayloadHead) \div PayloadBlock) + 1 > n
                                    /\ (m * PayloadBlock + e) % PayloadBlock = 0
        BY <1>2, <4>2 DEF NewBlockDue
      <4>5. CASE e = PayloadBlock
        <5>1. n * PayloadBlock = m * PayloadBlock + PayloadBlock /\ n * PayloadBlock \in Nat
          BY <1>1, <4>2
        <5>2. (m * PayloadBlock + e) % PayloadBlock = 0
          <6>1. (n * PayloadBlock + 0) % PayloadBlock = 0
            BY <1>1, InChain
          <6>2. n * PayloadBlock + 0 = m * PayloadBlock + e
            BY <4>5, <5>1
          <6> QED
            BY <6>1, <6>2
        <5>3. ((L + len - PayloadHead) \div PayloadBlock) + 1 > n
          <6>1. ((n * PayloadBlock + len) \div PayloadBlock) + 1 > n
            BY <1>1, InChain
          <6>2. L + len - PayloadHead = n * PayloadBlock + len
            <7> DEFINE v == m * PayloadBlock
                       w == n * PayloadBlock
            <7>1. v \in Nat /\ w = v + PayloadBlock /\ L - PayloadHead = v + PayloadBlock
              BY <4>2, <4>5, <5>1
            <7> HIDE DEF v, w
            <7>2. L + len - PayloadHead = w + len
              <8>1. L - PayloadHead = w
                BY <7>1
              <8> HIDE DEF s, room, F, index, blocks, filled, q
              <8> QED
                BY <1>1, <8>1
            <7> QED
              BY <7>2 DEF w
          <6> QED
            BY <6>1, <6>2
        <5>4. blocks = Append(p.blocks, blank) /\ index = 0
          BY <4>3, <4>4, <5>2, <5>3
        <5>5. F = Stop(n)
          BY <4>1, <4>5
        <5> HIDE DEF blocks, index, blank, k, n
        <5> QED
          BY <3>2, <4>1, <5>4, <5>5
      <4>6. CASE e # PayloadBlock
        <5>1. e < PayloadBlock
          BY <1>1, <4>1, <4>6
        <5>2. (m * PayloadBlock + e) % PayloadBlock = e
          BY <4>1, <4>2, <5>1, InChain
        <5>3. blocks = p.blocks /\ index = e
          BY <4>1, <4>3, <4>4, <5>2
        <5> HIDE DEF blocks, index
        <5>4. k = n /\ k - 1 = m /\ index \in 0..(PayloadBlock - 1) /\ F = Stop(k - 1) + index
          <6>1. k = n
            BY <5>3
          <6> HIDE DEF k, n
          <6> QED
            BY <1>1, <4>1, <4>2, <5>1, <5>3, <6>1
        <5> QED
          BY <1>2, <3>4, <4>1, <5>3, <5>4
      <4> QED
        BY <4>5, <4>6
    <3>5. n = 0 \/ n > 0
      <4> HIDE DEF n
      <4> QED
        BY <1>1
    <3> QED
      BY <3>3, <3>4, <3>5
  <2>3. filled = FillBlocks(blocks, index, SentBytes(F, l))
    <3> HIDE DEF blocks, index, s, l
    <3>1. ~(len <= room)
      BY <1>6, <1>9
    <3> QED
      BY <2>1, <3>1
  <2> HIDE DEF blocks, index, filled, l, M
  <2>4. /\ filled \in Seq(AreaOf(PayloadBlock, Bits))
        /\ \A b \in 1..Len(filled) : /\ HoldsFrom(filled[b], PayloadBlock, Stop(b - 1), F + l)
                                     /\ Stop(b - 1) < F + l
        /\ F + l <= Stop(Len(filled))
    BY <2>1, <2>2, <2>3, Filled
  <2>5. q \in Payloads
    <3>1. front \in AreaOf(PayloadHead, Bits)
      BY <1>4 DEF HoldsFrom
    <3>2. <<>> \in Seq(OctetOf(Bits))
      OBVIOUS
    <3> QED
      BY <1>4, <2>4, <3>1, <3>2 DEF Payloads
  <2>6. q.length = M /\ q.head = front /\ q.blocks = filled /\ q.tail = <<>>
    OBVIOUS
  <2> HIDE DEF q
  <2>7. ComingIn(q, M)
    BY <1>4, <2>1, <2>4, <2>5, <2>6 DEF ComingIn, InMemory
  <2> QED
    BY <1>5, <2>7 DEF M
<1> QED
  BY <1>6, <1>8, <1>9

(* The last frame fills the head or the last block; the rest stays in it.  *)
LEMMA LastTaken ==
  ASSUME NEW p, NEW L \in Nat, ComingIn(p, L), NEW len \in Nat, len > 0,
         NEW q, q = TakeLastFrame(p, SentBytes(L, len))
  PROVE  InMemory(q, L + len) /\ InFrame(q, L + len)
<1> DEFINE s == SentBytes(L, len)
           n == Len(p.blocks)
           M == L + len
           at == L - PayloadHead - (n - 1) * PayloadBlock
           used == IF L < PayloadHead THEN PayloadHead - L
                   ELSE IF n = 0 THEN 0 ELSE PayloadBlock - at
           front == IF L < PayloadHead THEN Overwritten(p.head, L, s) ELSE p.head
           blocks == IF L < PayloadHead \/ n = 0 THEN p.blocks
                     ELSE [p.blocks EXCEPT ![n] = Overwritten(p.blocks[n], at, s)]
           rest == Dropped(s, used)
           end == Stop(n)
<1>1. /\ n \in Nat /\ (n = 0 <=> p.blocks = <<>>) /\ PayloadHead \in Nat /\ PayloadBlock \in Nat
      /\ Stop(0) = PayloadHead /\ PayloadBlock > 0 /\ Stop(n) \in Nat
      /\ n = 0 => L <= PayloadHead
      /\ n > 0 => /\ L > PayloadHead /\ n - 1 \in Nat /\ Stop(n - 1) \in Nat
                  /\ L > Stop(n - 1) /\ Stop(n) = Stop(n - 1) + PayloadBlock
                  /\ Stop(n - 1) = PayloadHead + (n - 1) * PayloadBlock /\ (n - 1) * PayloadBlock \in Nat
  BY ChainReaches
<1>2. /\ p \in Payloads /\ p.length = L /\ L <= Stop(n) /\ n = Len(p.blocks)
      /\ p.blocks \in Seq(AreaOf(PayloadBlock, Bits))
      /\ \A b \in 1..n : HoldsFrom(p.blocks[b], PayloadBlock, Stop(b - 1), L) /\ Stop(b - 1) < L
  BY DEF ComingIn, InMemory, Payloads
<1>3. Len(s) = len
  BY SentBytesAre
<1>4. q = [length |-> M, head |-> front, blocks |-> blocks, tail |-> rest]
  <2>1. p = [length |-> p.length, head |-> p.head, blocks |-> p.blocks, tail |-> p.tail]
    BY <1>2 DEF Payloads
  <2>2. q = [p EXCEPT !.length = M, !.head = front, !.blocks = blocks, !.tail = rest]
    <3> HIDE DEF s
    <3> QED
      BY <1>2, <1>3 DEF TakeLastFrame, s
  <2> HIDE DEF M, front, blocks, rest
  <2> QED
    BY <2>1, <2>2
<1>5. M \in Nat /\ M > L
  OBVIOUS
<1>6. HoldsFrom(front, PayloadHead, 0, M)
  <2>1. /\ HoldsFrom(Overwritten(p.head, L, SentBytes(L, len)), PayloadHead, 0, L + len)
        /\ L >= PayloadHead => HoldsFrom(p.head, PayloadHead, 0, L + len)
    BY HeadWritten DEF ComingIn
  <2>2. L < PayloadHead \/ L >= PayloadHead
    BY <1>1
  <2> QED
    BY <2>1, <2>2
<1> HIDE DEF front
<1>7. /\ n > 0 => at \in Nat /\ at <= PayloadBlock /\ Stop(n - 1) + at = L /\ ~(L < PayloadHead)
      /\ used \in Nat /\ L + used = end
  <2> DEFINE m == (n - 1) * PayloadBlock
             v == Stop(n - 1)
  <2>1. n > 0 => v \in Nat /\ m \in Nat /\ v = PayloadHead + m /\ L > v /\ L <= v + PayloadBlock
                 /\ end = v + PayloadBlock /\ L > PayloadHead
    BY <1>1, <1>2
  <2>2. at = L - PayloadHead - m
    OBVIOUS
  <2>3. n = 0 => L <= PayloadHead /\ end = PayloadHead
    BY <1>1
  <2>0. n \in Nat
    BY <1>1
  <2> HIDE DEF m, v, at, end, n
  <2>4. n > 0 => at \in Nat /\ at <= PayloadBlock /\ v + at = L /\ ~(L < PayloadHead)
    <3> SUFFICES ASSUME n > 0 PROVE at \in Nat /\ at <= PayloadBlock /\ v + at = L /\ ~(L < PayloadHead)
      OBVIOUS
    <3>1. v \in Nat /\ m \in Nat /\ v = PayloadHead + m /\ L > v /\ L <= v + PayloadBlock /\ L > PayloadHead
      BY <2>1
    <3>2. PayloadHead \in Nat /\ PayloadBlock \in Nat
      BY <1>1
    <3>3. at = L - v
      BY <2>2, <3>1, <3>2
    <3> QED
      BY <3>1, <3>2, <3>3
  <2>5. used \in Nat /\ L + used = end
    <3>1. CASE n = 0
      <4>1. CASE L < PayloadHead
        BY <1>1, <2>3, <3>1, <4>1
      <4>2. CASE ~(L < PayloadHead)
        BY <1>1, <2>3, <3>1, <4>2
      <4> QED
        BY <4>1, <4>2
    <3>2. CASE n > 0
      <4>1. used = PayloadBlock - at
        BY <2>4, <3>2
      <4> HIDE DEF used
      <4> QED
        <5>1. PayloadBlock \in Nat /\ at \in Nat /\ at <= PayloadBlock /\ v + at = L
              /\ v \in Nat /\ end = v + PayloadBlock
          BY <1>1, <2>1, <2>4, <3>2
        <5> QED
          BY <4>1, <5>1
    <3> QED
      BY <2>0, <3>1, <3>2
  <2> QED
    BY <2>4, <2>5 DEF v
<1> HIDE DEF at, used
<1>8. /\ blocks \in Seq(AreaOf(PayloadBlock, Bits)) /\ Len(blocks) = n
      /\ \A b \in 1..n : HoldsFrom(blocks[b], PayloadBlock, Stop(b - 1), M)
  <2>1. CASE n = 0
    BY <1>2, <2>1
  <2>2. CASE n > 0
    <3> DEFINE last == Overwritten(p.blocks[n], at, s)
    <3>1. blocks = [p.blocks EXCEPT ![n] = last]
      BY <1>7, <2>2
    <3>2. HoldsFrom(last, PayloadBlock, Stop(n - 1), M)
      <4> DEFINE e == Stop(n - 1)
      <4>1. e \in Nat /\ at \in Nat /\ e + at = L /\ n \in 1..n
        BY <1>1, <1>7, <2>2
      <4>2. HoldsFrom(p.blocks[n], PayloadBlock, e, e + at)
        BY <1>2, <4>1
      <4> HIDE DEF e
      <4>3. HoldsFrom(Overwritten(p.blocks[n], at, SentBytes(e + at, len)), PayloadBlock, e, e + at + len)
        BY <1>1, <4>1, <4>2, OverwrittenHolds
      <4> QED
        BY <4>1, <4>3 DEF e
    <3> HIDE DEF last, blocks, M
    <3>3. last \in AreaOf(PayloadBlock, Bits)
      BY <3>2 DEF HoldsFrom
    <3>4. /\ blocks \in Seq(AreaOf(PayloadBlock, Bits)) /\ Len(blocks) = n
          /\ blocks[n] = last /\ \A b \in 1..n : b # n => blocks[b] = p.blocks[b]
      <4> DEFINE k == n
      <4>1. k \in 1..Len(p.blocks) /\ Len(p.blocks) = k
        BY <1>1, <2>2
      <4> HIDE DEF k
      <4>2. blocks = [p.blocks EXCEPT ![k] = last]
        BY <3>1 DEF k
      <4>3. /\ blocks \in Seq(AreaOf(PayloadBlock, Bits)) /\ Len(blocks) = k
            /\ blocks[k] = last /\ \A b \in 1..k : b # k => blocks[b] = p.blocks[b]
        BY <1>2, <3>3, <4>1, <4>2
      <4> QED
        BY <4>3 DEF k
    <3>5. ASSUME NEW b \in 1..n PROVE HoldsFrom(blocks[b], PayloadBlock, Stop(b - 1), M)
      <4>1. CASE b = n
        BY <3>2, <3>4, <4>1
      <4>2. CASE b # n
        <5>1. b - 1 \in Nat /\ b - 1 < n - 1 /\ n - 1 \in Nat
          <6> HIDE DEF n
          <6> QED
            BY <1>1, <2>2, <4>2
        <5>2. Stop(b - 1) \in Nat /\ Stop(b - 1) + PayloadBlock <= Stop(n - 1)
          BY <5>1, Stops
        <5>3. Stop(b - 1) + PayloadBlock <= L
          <6> DEFINE e == Stop(n - 1)
                     g == Stop(b - 1)
          <6>1. e \in Nat /\ g \in Nat /\ L > e /\ g + PayloadBlock <= e
            BY <1>1, <2>2, <5>2
          <6> HIDE DEF e, g
          <6>2. g + PayloadBlock <= L
            BY <1>1, <6>1
          <6> QED
            BY <6>2 DEF g
        <5>4. HoldsFrom(p.blocks[b], PayloadBlock, Stop(b - 1), L) /\ blocks[b] = p.blocks[b]
          BY <1>2, <3>4, <4>2
        <5> QED
          BY <1>1, <1>5, <5>2, <5>3, <5>4, HoldsFull
      <4> QED
        BY <4>1, <4>2
    <3> QED
      BY <3>4, <3>5
  <2>3. n = 0 \/ n > 0
    <3> HIDE DEF n
    <3> QED
      BY <1>1
  <2> QED
    BY <2>1, <2>2, <2>3
<1> HIDE DEF blocks
<1>9. /\ rest \in Seq(OctetOf(Bits))
      /\ rest = IF M <= end THEN <<>> ELSE [j \in 1..(M - end) |-> BitsOf("sent", end + j - 1)]
  <2>0. end \in Nat /\ used \in Nat /\ L + used = end /\ M \in Nat /\ M = L + len
    BY <1>1, <1>7
  <2>1. CASE M <= end
    <3>1. used >= len
      <4> HIDE DEF end
      <4> QED
        BY <2>0, <2>1
    <3>2. rest = <<>>
      BY <2>0, <3>1, DroppedSent
    <3>3. <<>> \in Seq(OctetOf(Bits))
      OBVIOUS
    <3> QED
      BY <2>1, <3>2, <3>3
  <2>2. CASE ~(M <= end)
    <3>1. used <= len /\ len - used \in Nat /\ len - used = M - end
      <4> HIDE DEF end, M
      <4> QED
        BY <2>0, <2>2
    <3>2. rest = SentBytes(L + used, len - used)
      BY <2>0, <3>1, DroppedSent
    <3>3. rest = SentBytes(end, M - end)
      BY <2>0, <3>1, <3>2
    <3>4. SentBytes(end, M - end) \in Seq(OctetOf(Bits))
      <4> DEFINE d == M - end
      <4>1. d \in Nat
        BY <3>1
      <4> HIDE DEF end, d
      <4>2. SentBytes(end, d) \in Seq(OctetOf(Bits))
        BY <2>0, <4>1, SentBytesAre
      <4> QED
        BY <4>2 DEF d
    <3> QED
      BY <2>2, <3>3, <3>4 DEF SentBytes
  <2> QED
    BY <2>1, <2>2
<1> HIDE DEF rest, M
<1>10. q.length = M /\ q.head = front /\ q.blocks = blocks /\ q.tail = rest
  BY <1>4
<1>11. q \in Payloads
  <2>1. front \in AreaOf(PayloadHead, Bits)
    BY <1>6 DEF HoldsFrom
  <2> QED
    BY <1>4, <1>5, <1>8, <1>9, <2>1 DEF Payloads
<1>12. \A b \in 1..n : Stop(b - 1) < M
  <2> TAKE b \in 1..n
  <2> DEFINE e == Stop(b - 1)
  <2>1. e < L /\ e \in Nat
    <3>1. b - 1 \in Nat
      BY <1>1
    <3> QED
      BY <1>2, <3>1, Stops
  <2> HIDE DEF e
  <2>2. e < M
    BY <1>5, <2>1
  <2> QED
    BY <2>2 DEF e
<1>13. InMemory(q, M)
  BY <1>6, <1>8, <1>10, <1>11, <1>12 DEF InMemory
<1>14. InFrame(q, M)
  BY <1>8, <1>9, <1>10 DEF InFrame
<1> QED
  BY <1>13, <1>14 DEF M

-----------------------------------------------------------------------------
(* The invariant.                                                          *)

LEMMA EmptyComesIn ==
  ComingIn([length |-> 0, head |-> BlankBytes(PayloadHead), blocks |-> <<>>, tail |-> <<>>], 0)
<1> DEFINE p == [length |-> 0, head |-> BlankBytes(PayloadHead), blocks |-> <<>>, tail |-> <<>>]
<1>1. PayloadHead \in Nat /\ Stop(0) = PayloadHead
  BY PayloadSizes, Stops
<1>2. HoldsFrom(BlankBytes(PayloadHead), PayloadHead, 0, 0)
  BY <1>1, BlankHolds
<1>3. /\ <<>> \in Seq(AreaOf(PayloadBlock, Bits)) /\ <<>> \in Seq(OctetOf(Bits))
      /\ BlankBytes(PayloadHead) \in AreaOf(PayloadHead, Bits) /\ Len(<<>>) = 0
  BY <1>2 DEF HoldsFrom
<1>4. p \in Payloads
  BY <1>3 DEF Payloads
<1>5. p.length = 0 /\ p.head = BlankBytes(PayloadHead) /\ Len(p.blocks) = 0 /\ p.tail = <<>>
  BY <1>3
<1> HIDE DEF p
<1>6. 1..Len(p.blocks) = {} /\ 0 <= Stop(Len(p.blocks))
  BY <1>1, <1>5
<1> QED
  BY <1>2, <1>4, <1>5, <1>6 DEF ComingIn, InMemory, p

(* Payload of what came in; a scalar is what the code makes of it.         *)
PayloadInv ==
  /\ size \in (FirstBytes + 1)..MaxBytes /\ received \in 0..size
  /\ stage \in {"receiving", "complete", "read", "written"}
  /\ stage \in {"receiving", "written"} => ComingIn(payload, received) /\ received < size
  /\ stage \in {"complete", "read"} => InMemory(payload, received) /\ InFrame(payload, received)
  /\ stage = "read" =>
       \E offset \in 0..(MaxBytes * ByteBits), bits \in 1..ScalarBits, signed \in BOOLEAN :
         /\ reading = <<offset, bits, signed>>
         /\ scalar = DecodeScalar(payload, offset, bits, signed)
  /\ stage = "written" =>
       \E offset \in 0..(MaxBytes * ByteBits), bits \in 1..ScalarBits :
         /\ reading = <<offset, bits, FALSE>> /\ offset + bits <= MessageBytes * ByteBits
         /\ scalar = EncodeScalar(Message, offset, bits, Value)

LEMMA PayloadInvInit ==
  ASSUME PayloadInit
  PROVE  PayloadInv
<1>1. size \in Nat /\ 0 \in 0..size /\ 0 < size
  BY PayloadSizes DEF PayloadInit
<1> QED
  BY <1>1, EmptyComesIn DEF PayloadInit, PayloadInv

LEMMA SentIsPayload ==
  ASSUME NEW from \in Nat, NEW to \in Nat
  PROVE  Payload(from, to) = SentBytes(from, to - from)
BY DEF Payload, SentBytes

LEMMA PayloadInvStep ==
  ASSUME PayloadInv, [PayloadNext]_payloadVars
  PROVE  PayloadInv'
<1>0. /\ size \in Nat /\ received \in Nat /\ received <= size /\ size > FirstBytes
      /\ FirstBytes \in Nat /\ FirstBytes > 0 /\ PayloadFrame \in Nat /\ PayloadFrame > 0
  BY PayloadSizes DEF PayloadInv
<1>1. CASE FrameComesIn
  <2> DEFINE upTo == IF received = 0 THEN FirstBytes ELSE received + PayloadFrame
             len == upTo - received
  <2>1. /\ stage = "receiving" /\ upTo < size /\ received' = upTo
        /\ payload' = BufferBlockPushBytes(payload, Payload(received, upTo))
        /\ UNCHANGED <<size, reading, scalar, stage>>
    BY <1>1 DEF FrameComesIn
  <2>2. upTo \in Nat /\ len \in Nat /\ len > 0 /\ received + len = upTo
    BY <1>0
  <2> HIDE DEF upTo
  <2>3. Payload(received, upTo) = SentBytes(received, len)
    BY <1>0, <2>2, SentIsPayload
  <2> HIDE DEF len
  <2>4. ComingIn(payload, received)
    BY <2>1 DEF PayloadInv
  <2>5. ComingIn(payload', received')
    BY <1>0, <2>1, <2>2, <2>3, <2>4, Pushed
  <2>6. received' \in 0..size /\ received' < size
    BY <1>0, <2>1, <2>2
  <2> QED
    BY <2>1, <2>5, <2>6 DEF PayloadInv
<1>2. CASE LastFrameComesIn
  <2> DEFINE len == size - received
  <2>1. /\ stage = "receiving" /\ received' = size /\ stage' = "complete"
        /\ payload' = TakeLastFrame(payload, Payload(received, size))
        /\ UNCHANGED <<size, reading, scalar>>
    BY <1>2 DEF LastFrameComesIn
  <2>2. ComingIn(payload, received)
    BY <2>1 DEF PayloadInv
  <2>3. received < size
    BY <2>1 DEF PayloadInv
  <2>4. PayloadInv'
    <3>1. len \in Nat /\ len > 0 /\ received + len = size
      BY <1>0, <2>3
    <3>2. Payload(received, size) = SentBytes(received, len)
      BY <1>0, SentIsPayload
    <3> HIDE DEF len
    <3>3. InMemory(payload', size) /\ InFrame(payload', size)
      BY <1>0, <2>1, <2>2, <3>1, <3>2, LastTaken
    <3>4. size \in 0..size
      BY <1>0
    <3> QED
      BY <2>1, <3>3, <3>4 DEF PayloadInv
  <2> QED
    BY <2>4
<1>3. ASSUME NEW offset \in 0..(MaxBytes * ByteBits), NEW bits \in 1..ScalarBits,
             NEW signed \in BOOLEAN, ReadScalar(offset, bits, signed)
      PROVE  PayloadInv'
  <2>1. /\ stage = "complete" /\ stage' = "read" /\ UNCHANGED <<size, received, payload>>
        /\ reading' = <<offset, bits, signed>> /\ scalar' = DecodeScalar(payload, offset, bits, signed)
    BY <1>3 DEF ReadScalar
  <2>2. scalar' = DecodeScalar(payload', offset, bits, signed)
    BY <2>1
  <2> QED
    BY <2>1, <2>2 DEF PayloadInv
<1>4. ASSUME NEW offset \in 0..(MaxBytes * ByteBits), NEW bits \in 1..ScalarBits,
             WriteScalar(offset, bits)
      PROVE  PayloadInv'
  BY <1>4 DEF WriteScalar, PayloadInv
<1>5. CASE UNCHANGED payloadVars
  BY <1>5 DEF payloadVars, PayloadInv
<1> QED
  BY <1>1, <1>2, <1>3, <1>4, <1>5 DEF PayloadNext

LEMMA InvKeepsScalars ==
  ASSUME PayloadInv
  PROVE  ScalarsKept
<1>0. ScalarBits = 8 * ByteBits /\ ByteBits \in Nat /\ MaxBytes * ByteBits \in Nat /\ received \in Nat
  <2>1. ByteBits \in Nat /\ MaxBytes \in Nat /\ received \in Nat
    BY PayloadSizes DEF PayloadInv
  <2> QED
    BY <2>1, NatProduct DEF ScalarBits
<1>1. ReadsWhatWasSent
  <2> SUFFICES ASSUME stage = "read", Available(payload, reading[1], reading[2]) = reading[2]
               PROVE  \A w \in DOMAIN scalar :
                        scalar[w] = IF w < reading[2] THEN <<"sent", reading[1] + WireOffset(reading[2], w)>>
                                    ELSE IF reading[3] THEN scalar[reading[2] - 1] ELSE Zero
    BY DEF ReadsWhatWasSent
  <2>1. PICK offset \in 0..(MaxBytes * ByteBits), bits \in 1..ScalarBits, signed \in BOOLEAN :
          reading = <<offset, bits, signed>> /\ scalar = DecodeScalar(payload, offset, bits, signed)
    BY DEF PayloadInv
  <2>2. InMemory(payload, received) /\ InFrame(payload, received)
    BY DEF PayloadInv
  <2>3. reading[1] = offset /\ reading[2] = bits /\ reading[3] = signed
    BY <2>1
  <2>4. offset \in Nat /\ bits \in Nat /\ bits > 0 /\ bits <= 8 * ByteBits
    BY <1>0
  <2>5. offset + bits <= received * ByteBits
    BY <1>0, <2>2, <2>3, <2>4, AllAvailable DEF InMemory
  <2>6. \A w \in DOMAIN scalar :
          scalar[w] = IF w < bits THEN <<"sent", offset + WireOffset(bits, w)>>
                      ELSE IF signed THEN scalar[bits - 1] ELSE Zero
    BY <1>0, <2>1, <2>2, <2>4, <2>5, DecodeReads
  <2> QED
    BY <2>3, <2>6
<1>2. WritesOnlyItsBits
  <2> SUFFICES ASSUME stage = "written"
               PROVE  /\ \A w \in 0..(reading[2] - 1) :
                           Bit(scalar, reading[1] + WireOffset(reading[2], w)) = <<"value", w>>
                      /\ \A i \in (0..(MessageBytes * ByteBits - 1)) \ (reading[1]..(reading[1] + reading[2] - 1)) :
                           Bit(scalar, i) = <<"kept", i>>
    BY DEF WritesOnlyItsBits, Bit
  <2>1. PICK offset \in 0..(MaxBytes * ByteBits), bits \in 1..ScalarBits :
          /\ reading = <<offset, bits, FALSE>> /\ offset + bits <= MessageBytes * ByteBits
          /\ scalar = EncodeScalar(Message, offset, bits, Value)
    BY DEF PayloadInv
  <2>2. reading[1] = offset /\ reading[2] = bits
    BY <2>1
  <2>3. offset \in Nat /\ bits \in Nat /\ bits > 0 /\ bits <= 8 * ByteBits
    BY <1>0
  <2>4. /\ \A w \in 0..(bits - 1) : Bit(scalar, offset + WireOffset(bits, w)) = <<"value", w>>
        /\ \A i \in (0..(MessageBytes * ByteBits - 1)) \ (offset..(offset + bits - 1)) :
             Bit(scalar, i) = <<"kept", i>>
    BY <2>1, <2>3, EncodeWrites
  <2> QED
    BY <2>2, <2>4
<1> QED
  BY <1>1, <1>2 DEF ScalarsKept

(* A scalar comes out of a payload as it was sent, wherever head, blocks   *)
(* and last frame of canardHandleRxFrame divide it, and one that           *)
(* canardEncodeScalar puts into a message changes no other bit of it.      *)
THEOREM ScalarsComeThrough == PayloadSpec => []ScalarsKept
<1>1. PayloadInit => PayloadInv
  BY PayloadInvInit
<1>2. PayloadInv /\ [PayloadNext]_payloadVars => PayloadInv'
  BY PayloadInvStep
<1>3. PayloadInv => ScalarsKept
  BY InvKeepsScalars
<1> QED
  BY <1>1, <1>2, <1>3, PTL DEF PayloadSpec
=============================================================================
