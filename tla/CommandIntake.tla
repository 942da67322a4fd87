---------------------------- MODULE CommandIntake ---------------------------
(***************************************************************************)
(* How bytes from the host become commands: UsbCdcPort's receive ring,     *)
(* filled by the USB interrupt and drained by pollSerialGui, the line      *)
(* buffer serialRx, the queue of deferred commands, and the second,        *)
(* nested pollSerialGui that runs while the main loop is drawing.          *)
(*                                                                         *)
(* A line is two bytes and a newline.  A byte remembers the line it is     *)
(* from, the host that sent it and how many overflows of the ring it       *)
(* followed.  The interrupt comes between any two accesses of read() to    *)
(* the ring's indices.                                                     *)
(***************************************************************************)
EXTENDS Naturals, Sequences

CONSTANTS
  RxSize,         \* kRxSize: the ring holds one byte less
  LineMax,        \* sizeof(serialRx) - 1
  DeferSlots,     \* kDeferredCommandSlots: the queue holds one less
  DeferLength,    \* kDeferredCommandLength: commands are shorter
  Kinds,          \* which lines the host sends: hello, critical, deferrable
  Numbers,        \* urgent lines are numbered modulo this
  MaxOverflows, MaxHosts,   \* bounds
  MaxDisturbances \* bound: inner drawings and changes of host, together

ASSUME IntakeAssumption ==
  /\ RxSize \in Nat /\ RxSize >= 2
  /\ LineMax \in Nat /\ LineMax >= 2       \* a line of the host's fits in serialRx
  /\ DeferSlots \in Nat \ {0} /\ DeferLength \in Nat \ {0}
  /\ Kinds \subseteq {"hello", "critical", "deferrable"}
  /\ Numbers \in Nat \ {0} /\ MaxHosts \in Nat \ {0}
  /\ MaxOverflows \in Nat /\ MaxDisturbances \in Nat

VARIABLES
  ring, head, tail,     \* rx_, rx_head_, rx_tail_
  discard,              \* rx_discard_until_newline_
  resyncs,              \* rx_resync_count_
  seenResyncs,          \* gLastUsbRxResyncCount
  line,                 \* serialRx[0 .. serialRxLen)
  discarding,           \* serialRxDiscarding
  deferred,             \* gDeferredCommands
  loop,                 \* where the main loop is
  handling,             \* pollSerialGui waits for handleSerialCommand
  drawing,              \* gUiDrawActive
  nested,               \* gRealtimeParserActive: the nested pollSerialGui runs
  read,                 \* where the running pollSerialGui is
  fresh,                \* it has read no byte yet
  session,              \* the host whose session is established, or 0
  host, sending,        \* the host, and what it has left of its line
  number,               \* of the next urgent line; the others are not numbered
  ran,                  \* the last command parsed, and the last urgent one's number
  innerDraws

portVars == <<ring, head, tail, discard, resyncs>>
parseVars == <<seenResyncs, line, discarding, deferred>>
threadVars == <<loop, handling, drawing, nested, innerDraws>>
hostVars == <<host, sending, number>>
vars == <<portVars, parseVars, threadVars, read, fresh, session, hostVars, ran>>

Bytes == [kind : Kinds, number : 0..(Numbers - 1), part : {1, 2},
          host : 1..MaxHosts, side : 0..MaxOverflows]
Newline == [kind |-> "newline", number |-> 0, part |-> 0, host |-> 0, side |-> 0]
Nothing == [text |-> <<>>, urgent |-> Numbers - 1]

IsLine(s, max) == Len(s) <= max /\ \A i \in 1..Len(s) : s[i] \in Bytes

TypeOK ==
  /\ \A i \in 0..(RxSize - 1) : ring[i] \in Bytes \cup {Newline}
  /\ head \in 0..(RxSize - 1) /\ tail \in 0..(RxSize - 1)
  /\ discard \in BOOLEAN /\ discarding \in BOOLEAN
  /\ resyncs \in 0..MaxOverflows /\ seenResyncs \in 0..resyncs
  /\ IsLine(line, LineMax)
  /\ Len(deferred) < DeferSlots
  /\ \A i \in 1..Len(deferred) : IsLine(deferred[i], DeferLength - 1)
  /\ loop \in {"poll", "deferred", "draw"}
  /\ handling \in BOOLEAN /\ drawing \in BOOLEAN /\ nested \in BOOLEAN
  /\ nested => drawing
  /\ fresh \in BOOLEAN
  /\ session \in 0..MaxHosts /\ host \in 1..MaxHosts
  /\ innerDraws \in 0..MaxDisturbances

(* What a command is, by its first characters. *)
KindOf(text) == IF Head(text).part = 1 THEN Head(text).kind ELSE "unknown"
Whole(text) ==
  /\ Len(text) = 2 /\ text[1].part = 1
  /\ text[2] = [text[1] EXCEPT !.part = 2, !.side = text[2].side]

Init ==
  /\ ring = [i \in 0..(RxSize - 1) |-> Newline] /\ head = 0 /\ tail = 0
  /\ discard = FALSE /\ resyncs = 0 /\ seenResyncs = 0
  /\ line = <<>> /\ discarding = FALSE /\ deferred = <<>>
  /\ loop = "poll" /\ handling = FALSE /\ drawing = FALSE /\ nested = FALSE
  /\ read = [at |-> "out"] /\ fresh = TRUE
  /\ session = 0 /\ host = 1 /\ sending = <<>>
  /\ number = 0
  /\ ran = Nothing /\ innerDraws = 0

-----------------------------------------------------------------------------
(* The host and the USB interrupt.                                         *)

Next1(i) == (i + 1) % RxSize

(* onReceive, one byte. *)
Receive(b) ==
  IF discard
  THEN /\ discard' = (b # Newline)
       /\ UNCHANGED <<ring, head, tail, resyncs>>
  ELSE IF Next1(head) = tail
  THEN /\ resyncs < MaxOverflows /\ resyncs' = resyncs + 1
       /\ tail' = head
       /\ discard' = (b # Newline)
       /\ UNCHANGED <<ring, head>>
  ELSE /\ ring' = [ring EXCEPT ![head] = b]
       /\ head' = Next1(head)
       /\ UNCHANGED <<tail, discard, resyncs>>

HostStart(kind) ==
  /\ sending = <<>>
  /\ LET byte(part) == [kind |-> kind, part |-> part, host |-> host, side |-> 0,
                        number |-> IF kind = "deferrable" THEN 0 ELSE number]
     IN sending' = <<byte(1), byte(2), Newline>>
  /\ number' = IF kind = "deferrable" THEN number ELSE (number + 1) % Numbers
  /\ UNCHANGED <<portVars, parseVars, threadVars, read, fresh, session, host, ran>>

HostSend ==
  /\ sending # <<>>
  /\ LET b == Head(sending)
     IN Receive(IF b = Newline THEN b ELSE [b EXCEPT !.side = resyncs])
  /\ sending' = Tail(sending)
  /\ UNCHANGED <<parseVars, threadVars, read, fresh, session, host, number, ran>>

(* Another host opens the port.  If USB was re-enumerated, onUsbClassInit  *)
(* has emptied the ring and ended the session.                             *)
NewHost ==
  /\ host < MaxHosts /\ innerDraws + host <= MaxDisturbances
  /\ host' = host + 1
  /\ sending' = <<>> /\ UNCHANGED number
  /\ \/ UNCHANGED <<portVars, session>>
     \/ /\ head' = 0 /\ tail' = 0 /\ discard' = FALSE /\ session' = 0
        /\ UNCHANGED <<ring, resyncs>>
  /\ UNCHANGED <<parseVars, threadVars, read, fresh, ran>>

-----------------------------------------------------------------------------
(* pollSerialGui, at the level that runs.                                  *)

Polling == read.at # "out"

(* poll and the check of rxResyncCount. *)
PollBegin ==
  /\ ~Polling /\ read' = [at |-> "check"] /\ fresh' = TRUE
  /\ \/ ~drawing /\ loop = "poll" /\ ~handling /\ UNCHANGED nested
     \/ drawing /\ ~nested /\ nested' = TRUE
  /\ IF resyncs # seenResyncs
     THEN seenResyncs' = resyncs /\ line' = <<>> /\ discarding' = FALSE
     ELSE UNCHANGED <<seenResyncs, line, discarding>>
  /\ UNCHANGED <<portVars, deferred, loop, handling, drawing, innerDraws,
                 session, hostVars, ran>>

(* The while loop ends: nothing available, or a budget is used up. *)
PollEnd ==
  /\ read.at = "check" /\ (head = tail \/ ~fresh)
  /\ read' = [at |-> "out"]
  /\ IF nested
     THEN nested' = FALSE /\ UNCHANGED loop
     ELSE loop' = "deferred" /\ UNCHANGED nested
  /\ UNCHANGED <<portVars, parseVars, handling, drawing, innerDraws, fresh,
                 session, hostVars, ran>>

(* read(): the check for an empty ring, the byte, and the tail's load. *)
ReadCheck ==
  /\ read.at = "check" /\ head # tail
  /\ read' = [at |-> "byte"]
  /\ UNCHANGED <<portVars, parseVars, threadVars, fresh, session, hostVars, ran>>

ReadByte ==
  /\ read.at = "byte"
  /\ read' = [at |-> "tail", byte |-> ring[tail]]
  /\ UNCHANGED <<portVars, parseVars, threadVars, fresh, session, hostVars, ran>>

ReadTail ==
  /\ read.at = "tail"
  /\ read' = [at |-> "store", byte |-> read.byte, tail |-> tail]
  /\ UNCHANGED <<portVars, parseVars, threadVars, fresh, session, hostVars, ran>>

(* The tail's store; then the byte is looked at. *)
TakeByte(b) ==
  /\ read.at = "store" /\ read.byte = b
  /\ tail' = Next1(read.tail)
  /\ read' = [at |-> "check"] /\ fresh' = FALSE
  /\ UNCHANGED <<ring, head, discard, resyncs, seenResyncs>>

ByteDiscarded ==
  /\ discarding
  /\ TakeByte(read.byte)
  /\ discarding' = (read.byte # Newline)
  /\ UNCHANGED <<line, deferred, threadVars, session, hostVars, ran>>

ByteAdded ==
  /\ ~discarding /\ read.at = "store" /\ read.byte # Newline
  /\ TakeByte(read.byte)
  /\ IF Len(line) < LineMax
     THEN line' = Append(line, read.byte) /\ UNCHANGED discarding
     ELSE line' = <<>> /\ discarding' = TRUE
  /\ UNCHANGED <<deferred, threadVars, session, hostVars, ran>>

EmptyLine ==
  /\ ~discarding /\ line = <<>>
  /\ TakeByte(Newline)
  /\ UNCHANGED <<line, discarding, deferred, threadVars, session, hostVars, ran>>

(* hostCommandRealtimeCritical *)
Critical(text) == KindOf(text) \in {"hello", "critical"}

AlwaysDefers(text) == TRUE         \* mutant: urgent commands wait too
NeverDefers(text) == FALSE         \* mutant: nothing waits

Defers(text) == ~Critical(text)

(* handleSerialCommand past the deferral; without a session a command that *)
(* is not urgent is refused there, after it has been parsed.               *)
Run(text) ==
  /\ session' = IF KindOf(text) = "hello" /\ Whole(text)
                THEN text[1].host ELSE session
  /\ ran' = [text |-> text,
             urgent |-> IF Critical(text) THEN Head(text).number ELSE ran.urgent]

(* enqueueDeferredCommand. *)
Defer(text) ==
  /\ deferred' = IF Len(deferred) + 1 < DeferSlots /\ Len(text) < DeferLength
                 THEN Append(deferred, text) ELSE deferred
  /\ UNCHANGED <<session, ran>>

(* A complete line.  The nested parser defers; serialRxLen is reset after  *)
(* the command.                                                            *)
LineDeferred ==
  /\ ~discarding /\ line # <<>> /\ nested /\ Defers(line)
  /\ TakeByte(Newline)
  /\ Defer(line)
  /\ line' = <<>> /\ UNCHANGED <<discarding, threadVars, hostVars>>

LineRunsOn ==                      \* mutant: serialRxLen is not reset
  /\ ~discarding /\ line # <<>> /\ ~(nested /\ Defers(line))
  /\ TakeByte(Newline)
  /\ Run(line)
  /\ UNCHANGED <<line, discarding, deferred, threadVars, hostVars>>

LineRuns ==
  /\ ~discarding /\ line # <<>> /\ ~(nested /\ Defers(line))
  /\ TakeByte(Newline)
  /\ Run(line)
  /\ line' = <<>> /\ UNCHANGED <<discarding, deferred, threadVars, hostVars>>

(* The main loop's command draws: handleSerialCommand has not returned and *)
(* serialRxLen still counts its characters.                                *)
LineRunsAndDraws ==
  /\ ~discarding /\ line # <<>> /\ ~nested /\ KindOf(line) = "deferrable"
  /\ innerDraws + host <= MaxDisturbances /\ innerDraws' = innerDraws + 1
  /\ session # 0
  /\ read.at = "store" /\ read.byte = Newline /\ tail' = Next1(read.tail)
  /\ read' = [at |-> "out"] /\ fresh' = FALSE
  /\ Run(line)
  /\ handling' = TRUE /\ drawing' = TRUE
  /\ UNCHANGED <<ring, head, discard, resyncs, parseVars, loop, nested, hostVars>>

-----------------------------------------------------------------------------
(* The rest of the main loop.                                              *)

(* serviceDeferredCommands, one command; drawUiNow may follow from it. *)
ServiceDeferred ==
  /\ loop = "deferred" /\ ~drawing /\ deferred # <<>>
  /\ deferred' = Tail(deferred)
  /\ Run(Head(deferred))
  /\ drawing' \in IF session # 0 THEN BOOLEAN ELSE {FALSE}
  /\ UNCHANGED <<portVars, seenResyncs, line, discarding, loop, handling,
                 nested, innerDraws, read, fresh, hostVars>>

(* ... until none is left, or its budget is used up. *)
DeferredDone ==
  /\ loop = "deferred" /\ ~drawing
  /\ loop' = "draw"
  /\ UNCHANGED <<portVars, parseVars, handling, drawing, nested, innerDraws,
                 read, fresh, session, hostVars, ran>>

(* The main loop draws, or not, and goes round. *)
MainDraw ==
  /\ loop = "draw" /\ ~drawing
  /\ loop' = "poll" /\ drawing' \in BOOLEAN
  /\ UNCHANGED <<portVars, parseVars, handling, nested, innerDraws, read, fresh,
                 session, hostVars, ran>>

(* The drawing ends; a command that was drawing returns to pollSerialGui,  *)
(* which resets serialRxLen.                                               *)
DrawEnd ==
  /\ drawing /\ ~nested /\ drawing' = FALSE
  /\ IF handling
     THEN /\ handling' = FALSE /\ line' = <<>>
          /\ read' = [at |-> "check"] /\ fresh' = FALSE
     ELSE UNCHANGED <<handling, line, read, fresh>>
  /\ UNCHANGED <<portVars, seenResyncs, discarding, deferred, loop, nested,
                 innerDraws, session, hostVars, ran>>

Thread ==
  \/ PollBegin \/ PollEnd \/ ReadCheck \/ ReadByte \/ ReadTail
  \/ ByteDiscarded \/ ByteAdded \/ EmptyLine
  \/ LineDeferred \/ LineRuns \/ LineRunsAndDraws
  \/ ServiceDeferred \/ DeferredDone \/ MainDraw \/ DrawEnd

HostSends == HostSend \/ \E kind \in Kinds : HostStart(kind)
Host == HostSends \/ NewHost

Next == Thread \/ Host

Spec == Init /\ [][Next]_vars

(* The main loop and the drawing go on; the host sends lines of every kind *)
(* for ever, and paces itself once the overflows are used up.              *)
Fairness ==
  /\ WF_vars(Thread) /\ WF_vars(HostSends)
  /\ \A kind \in Kinds : SF_vars(HostStart(kind))

FairSpec == Spec /\ Fairness

-----------------------------------------------------------------------------
(* Properties.                                                             *)

(* Short of an overflow, a re-enumeration and a command that draws while   *)
(* it is being parsed, every command that runs is a whole line, and the    *)
(* urgent ones run in the order sent with none left out: whether the main  *)
(* or the nested parser sees a byte makes no difference.                   *)
LinesWholeAndInOrder ==
  [][ran' # ran /\ resyncs = 0 /\ host = 1 /\ innerDraws = 0 =>
       /\ Whole(ran'.text)
       /\ ran'.urgent # ran.urgent => ran'.urgent = (ran.urgent + 1) % Numbers]_vars

(* A command that is not urgent never runs under a drawing: a frame never  *)
(* mixes two pages.                                                        *)
NoCommandUnderDrawing ==
  [][ran' # ran /\ drawing => Critical(ran'.text)]_vars

(* Whatever an overflow, a re-enumeration, a torn read or a nested parser  *)
(* has done to the framing, whole lines run again in the end.              *)
Recovers == <>[](ran.text # <<>> => Whole(ran.text))

(* UsbCdcPort.cpp:527-531: "bytes from opposite sides of the overflow can  *)
(* never be concatenated into an accidental command".                      *)
OneSideOfOverflow ==
  \A i, j \in 1..Len(ran.text) : ran.text[i].side = ran.text[j].side

(* main.cpp:2477, 346-348: parsing stays "live during TFT bursts": short   *)
(* of an overflow, what runs is a line the host sent, also while a command *)
(* that is still being handled draws.                                      *)
WholeThoughDrawing ==
  resyncs = 0 /\ host = 1 /\ ran.text # <<>> => Whole(ran.text)
=============================================================================
