---------------------------- MODULE CanTransfer -----------------------------
(***************************************************************************)
(* The DroneCAN transport of lib/libcanard (canard.c): transfers cut into  *)
(* frames on one node, carried by a bus that may lose or repeat a frame,   *)
(* and put together again on the other.  Both nodes run the same library,  *)
(* each with one pool of memory blocks that its transmit queue, its        *)
(* receive sessions and their payload share.  The gateway's use of it      *)
(* (flushCanTx, clearCanardTxQueue, recoverCan in Neo3ProSensors.cpp)      *)
(* supplies the events that cut a transfer short.                          *)
(***************************************************************************)
EXTENDS Integers, SequencesExt

CONSTANTS
  Nodes,          \* the two nodes of the bus
  Sessions,       \* transfer descriptors: sender and data type, a number, the
                  \* lower the more urgent; the receiver is the other node
  Lengths,        \* [Sessions -> payload lengths in bytes]
  Tids,           \* transfer ids wrap at this (32)
  FrameBytes,     \* payload bytes of a frame besides the tail byte (7)
  HeadBytes,      \* CANARD_MULTIFRAME_RX_PAYLOAD_HEAD_SIZE
  BlockBytes,     \* CANARD_BUFFER_BLOCK_DATA_SIZE
  Pool,           \* blocks of a node's pool
  MaxTransfers,   \* bound: transfers begun, of all sessions
  MaxBusFaults    \* bound: frames lost or repeated, queues cleared, restarts

ASSUME TransferAssumption ==
  /\ \E a, b \in Nodes : a # b /\ Nodes = {a, b}
  /\ Sessions \subseteq Nodes \X Nat
  /\ Lengths \in [Sessions -> SUBSET Nat] /\ MaxTransfers \in Nat
  /\ {Tids, FrameBytes, HeadBytes, BlockBytes, Pool} \subseteq Nat \ {0, 1}
  /\ HeadBytes >= FrameBytes - 2       \* canardInit's CANARD_ASSERT
  /\ MaxBusFaults \in Nat

Other(n) == CHOOSE m \in Nodes : m # n

VARIABLES
  canard,     \* [Nodes -> the CanardInstance: its free blocks, queue, sessions]
  tid,        \* [Sessions -> the sender's transfer id, outside the instance]
  begun,      \* [Sessions -> transfers given to canardBroadcast]
  busFaults,
  last,       \* history: [Sessions -> last transfer delivered, and how often]
  arrived,    \* history: [Sessions -> the frames come in of the latest transfer]
  missed      \* history: [Sessions -> the whole arrival thrown away last, and
              \* how many were with no other transfer between them]

transferVars == <<canard, tid, begun, busFaults, last, arrived, missed>>

-----------------------------------------------------------------------------
(* Frames and the transmit queue.                                          *)

\* How many frames a payload takes: one if it fits beside the tail byte,
\* else the first frame gives two bytes to the CRC.
FrameCount(len) ==
  IF len <= FrameBytes THEN 1 ELSE (len + 2 + FrameBytes - 1) \div FrameBytes

\* The k-th frame of a transfer.  n stands for the content, so that a CRC
\* matches exactly when a whole transfer came in frame by frame.
Frame(s, n, t, len, k) ==
  [session |-> s, n |-> n, k |-> k, tid |-> t,
   sot |-> k = 1, eot |-> k = FrameCount(len), toggle |-> (k - 1) % 2,
   bytes |-> IF k = 1 /\ FrameCount(len) > 1 THEN FrameBytes - 2
             ELSE IF k < FrameCount(len) THEN FrameBytes
             ELSE IF k = 1 THEN len
             ELSE len + 2 - (k - 1) * FrameBytes,
   late |-> FALSE]

\* Mutant: ahead of its equals.
PushTxQueueAhead(q, f) ==
  LET behind == {j \in 1..Len(q) : q[j].session[2] >= f.session[2]}
      place == IF behind = {} THEN Len(q) + 1
               ELSE CHOOSE j \in behind : \A l \in behind : j <= l
  IN [j \in 1..(Len(q) + 1) |-> IF j < place THEN q[j] ELSE IF j = place THEN f ELSE q[j - 1]]

\* pushTxQueue: before the first frame that is less urgent, behind its equals.
PushTxQueue(q, f) ==
  LET behind == {j \in 1..Len(q) : q[j].session[2] > f.session[2]}
      place == IF behind = {} THEN Len(q) + 1
               ELSE CHOOSE j \in behind : \A l \in behind : j <= l
  IN [j \in 1..(Len(q) + 1) |-> IF j < place THEN q[j] ELSE IF j = place THEN f ELSE q[j - 1]]

\* enqueueTxFrames: a block for every frame; when the pool runs out, what is
\* queued so far stays queued and the transfer id is not used up.
Enqueued(i, len) == i.free >= FrameCount(len)

EnqueueTxFrames(i, s, n, t, len) ==
  LET fits == IF Enqueued(i, len) THEN FrameCount(len) ELSE i.free
      queued[k \in 0..fits] ==
        IF k = 0 THEN i.txq ELSE PushTxQueue(queued[k - 1], Frame(s, n, t, len, k))
  IN [i EXCEPT !.free = @ - fits, !.txq = queued[fits]]

IncrementTransferID(t) == (t + 1) % Tids

-----------------------------------------------------------------------------
(* The receiving side: one state per session, its payload in a head and in *)
(* blocks of the pool.                                                     *)

NewState == [tid |-> 0, toggle |-> 0, length |-> 0, blocks |-> 0, age |-> 2,
             n |-> 0, k |-> 0]

ForwardDistance(a, b) == (a - b) % Tids

\* need_restart of canardHandleRxFrame.  age 2 is a state never used or idle
\* past TRANSFER_TIMEOUT_USEC, age 1 one idle past IFACE_SWITCH_DELAY_USEC.
NeedRestart(r, f) ==
  \/ r.age = 2
  \/ f.sot /\ (ForwardDistance(r.tid, f.tid) > 1 \/ r.blocks > 0)
  \/ r.age = 1 /\ f.sot /\ ForwardDistance(f.tid, r.tid) < Tids \div 2

\* releaseStatePayload.
ReleasePayload(i, s) ==
  [i EXCEPT !.free = @ + i.rx[s].blocks, !.rx[s] = [@ EXCEPT !.blocks = 0, !.length = 0]]

\* prepareForNextTransfer.
PrepareForNext(i, s) ==
  [i EXCEPT !.rx[s] = [@ EXCEPT !.tid = IncrementTransferID(i.rx[s].tid), !.length = 0,
                                !.toggle = 0, !.n = 0, !.k = 0]]

\* bufferBlockPushBytes: the blocks a payload of length bytes occupies.
BlocksFor(length) ==
  IF length <= HeadBytes THEN 0
  ELSE (length - HeadBytes + BlockBytes - 1) \div BlockBytes

\* The blocks that a frame's bytes take of the pool.
Wanted(i, s, f) == BlocksFor(i.rx[s].length + f.bytes) - i.rx[s].blocks

\* The state takes a frame's bytes; without a block for them it gives up the
\* transfer and all it held of it.  k is the last frame of an unbroken run.
StorePayload(i, s, f) ==
  LET r == i.rx[s]
      follows == f.sot \/ (r.n = f.n /\ r.k > 0 /\ r.k = f.k - 1)
  IN IF Wanted(i, s, f) <= i.free
     THEN [i EXCEPT !.free = @ - Wanted(i, s, f),
                    !.rx[s] = [r EXCEPT !.length = @ + f.bytes, !.blocks = @ + Wanted(i, s, f),
                                        !.toggle = 1 - @, !.n = f.n,
                                        !.k = IF follows THEN f.k ELSE 0]]
     ELSE PrepareForNext(ReleasePayload(i, s), s)

CrcMatches(r, f) == r.n = f.n /\ r.k > 0 /\ r.k = f.k - 1

\* What comes of a frame: the instance after it, and whether its transfer was
\* handed to the application or given up for want of memory.
Result(i, what) == [canard |-> i, what |-> what]

Restarted(i, s, f) ==
  [ReleasePayload(i, s) EXCEPT
     !.rx[s] = [@ EXCEPT !.tid = IF f.sot THEN f.tid ELSE IncrementTransferID(f.tid),
                         !.toggle = 0]]

\* Mutant: the blocks are forgotten, not given back.
FinishedForgetting(i, s) == PrepareForNext([i EXCEPT !.rx[s].blocks = 0], s)

Finished(i, s) == PrepareForNext(ReleasePayload(i, s), s)

Started(i, s) == [i EXCEPT !.rx[s] = [@ EXCEPT !.age = 0, !.length = 0]]

\* The frame of a session whose state is ready for it.
TakeFrame(i, s, f) ==
  LET r == i.rx[s]
      j == IF f.sot THEN Started(i, s) ELSE i
  IN IF f.sot /\ f.eot THEN Result(PrepareForNext([i EXCEPT !.rx[s] = [@ EXCEPT !.age = 0]], s), "delivered")
     ELSE IF f.toggle # r.toggle \/ f.tid # r.tid THEN Result(i, "dropped")
     ELSE IF f.eot THEN Result(Finished(i, s), IF CrcMatches(r, f) THEN "delivered" ELSE "dropped")
     ELSE Result(StorePayload(j, s, f), IF Wanted(j, s, f) <= j.free THEN "stored" ELSE "no_memory")

\* createRxState: a state of its own for a session, in a block of the pool.
CreateRxState(i, s) ==
  [i EXCEPT !.free = @ - 1,
            !.rx = [x \in {s} \cup DOMAIN @ |-> IF x \in DOMAIN @ THEN @[x] ELSE NewState]]

\* canardHandleRxFrame.
HandleRxFrame(i, f) ==
  LET s == f.session
      known == s \in DOMAIN i.rx
      j == IF known THEN i ELSE CreateRxState(i, s)
  IN IF ~known /\ (~f.sot \/ i.free = 0)
     THEN Result(i, IF f.sot THEN "no_memory" ELSE "dropped")
     ELSE IF ~NeedRestart(j.rx[s], f) THEN TakeFrame(j, s, f)
     ELSE IF f.sot THEN TakeFrame(Restarted(j, s, f), s, f)
     ELSE Result(Restarted(j, s, f), "dropped")

\* The blocks that receive states hold: their own and their payload's.
BlocksHeld(i, states) == Cardinality(UNION {{s} \X (0..i.rx[s].blocks) : s \in states})

\* canardInit, of boot and of recoverCan.
FreshCanard == [free |-> Pool, txq |-> <<>>, rx |-> <<>>]

-----------------------------------------------------------------------------
(* The two nodes and the bus.                                              *)

TransferInit ==
  /\ canard = [m \in Nodes |-> FreshCanard]
  /\ tid = [s \in Sessions |-> 0]
  /\ begun = [s \in Sessions |-> 0]
  /\ busFaults = 0
  /\ last = [s \in Sessions |-> [n |-> 0, times |-> 1, long |-> FALSE]]
  /\ arrived = [s \in Sessions |-> [n |-> 0, k |-> 0]]
  /\ missed = [s \in Sessions |-> [n |-> 0, count |-> 0]]

BusFault(count) ==
  /\ busFaults + count <= MaxBusFaults
  /\ busFaults' = busFaults + count

\* canardBroadcast or canardRequestOrRespond with a fresh payload.
Broadcast(s, len) ==
  /\ Cardinality(UNION {{x} \X (1..begun[x]) : x \in Sessions}) < MaxTransfers
  /\ begun' = [begun EXCEPT ![s] = @ + 1]
  /\ canard' = [canard EXCEPT ![s[1]] = EnqueueTxFrames(@, s, begun[s] + 1, tid[s], len)]
  /\ tid' = IF Enqueued(canard[s[1]], len) THEN [tid EXCEPT ![s] = IncrementTransferID(@)] ELSE tid
  /\ UNCHANGED <<busFaults, last, arrived, missed>>

PopTxQueue(i) == [i EXCEPT !.txq = Tail(@), !.free = @ + 1]

\* The head of the queue goes out, if its deadline lets it, and comes in as
\* often as the bus has it: not at all, once, or twice.
Arrive(m, copies, f, first, final) ==
  LET s == f.session
      deliveries == Cardinality({i \in 1..copies :
                      (IF i = 1 THEN first ELSE final).what = "delivered"})
      unbroken == /\ copies = 1 /\ first.what # "no_memory"
                  /\ f.sot \/ arrived[s] = [n |-> f.n, k |-> f.k - 1]
  IN /\ canard' = [canard EXCEPT ![m] = PopTxQueue(@),
                                 ![Other(m)] = IF copies = 0 THEN @ ELSE final.canard]
     /\ arrived' = [arrived EXCEPT ![s] = IF unbroken /\ ~f.eot THEN [n |-> f.n, k |-> f.k]
                                             ELSE [n |-> 0, k |-> 0]]
     /\ last' = IF deliveries = 0 THEN last
                ELSE [last EXCEPT ![s] = [n |-> f.n, long |-> ~f.sot,
                                          times |-> deliveries + IF @.n = f.n THEN @.times ELSE 0]]
     /\ missed' = [missed EXCEPT ![s] =
                     IF deliveries > 0 THEN [n |-> 0, count |-> 0]
                     ELSE IF unbroken /\ f.eot
                     THEN [n |-> f.n, count |-> 1 + IF @.n = f.n - 1 THEN @.count ELSE 0]
                     ELSE @]

Transmit(m, copies) ==
  /\ canard[m].txq # <<>> /\ ~Head(canard[m].txq).late
  /\ BusFault(IF copies = 1 THEN 0 ELSE 1)
  /\ UNCHANGED <<tid, begun>>
  /\ LET f == Head(canard[m].txq)
         first == HandleRxFrame(canard[Other(m)], f)
         final == IF copies = 2 THEN HandleRxFrame(first.canard, f) ELSE first
     IN Arrive(m, copies, f, first, final)

\* flushCanTx drops a frame past its deadline instead.
DropLate(m) ==
  /\ canard[m].txq # <<>> /\ Head(canard[m].txq).late
  /\ canard' = [canard EXCEPT ![m] = PopTxQueue(@)]
  /\ UNCHANGED <<tid, begun, busFaults, last, arrived, missed>>

\* The queue without the frames past their deadline.
Punctual(q) ==
  LET upTo[j \in 0..Len(q)] ==
        IF j = 0 THEN <<>> ELSE IF q[j].late THEN upTo[j - 1] ELSE Append(upTo[j - 1], q[j])
  IN upTo[Len(q)]

\* canardCleanupStaleTransfers: idle sessions, then queued frames too late.
CleanupStaleTransfers(m) ==
  LET stale == {s \in DOMAIN canard[m].rx : canard[m].rx[s].age = 2}
      kept == Punctual(canard[m].txq)
  IN /\ canard' = [canard EXCEPT
           ![m] = [free |-> @.free + BlocksHeld(@, stale) + Len(@.txq) - Len(kept), txq |-> kept,
                   rx |-> Restrict(@.rx, DOMAIN @.rx \ stale)]]
     /\ UNCHANGED <<tid, begun, busFaults, last, arrived, missed>>

\* clearCanardTxQueue, when the peer is lost or the controller is bus-off.
ClearTxQueue(m) ==
  /\ canard[m].txq # <<>>
  /\ BusFault(1)
  /\ canard' = [canard EXCEPT ![m].txq = <<>>, ![m].free = @ + Len(canard[m].txq)]
  /\ UNCHANGED <<tid, begun, last, arrived, missed>>

\* recoverCan starts the library afresh; the transfer ids are kept outside it.
Recover(m) ==
  /\ BusFault(1)
  /\ canard' = [canard EXCEPT ![m] = FreshCanard]
  /\ arrived' = [s \in Sessions |-> IF s[1] = m THEN arrived[s] ELSE [n |-> 0, k |-> 0]]
  /\ UNCHANGED <<tid, begun, last, missed>>

Aged(r) == [r EXCEPT !.age = IF @ = 2 THEN 2 ELSE @ + 1]

\* More than a second goes by: frames queued 250 ms ago are late.
Wait ==
  /\ canard' = [m \in Nodes |->
       [canard[m] EXCEPT
          !.txq = [i \in DOMAIN @ |-> [@[i] EXCEPT !.late = TRUE]],
          !.rx = [s \in DOMAIN @ |-> Aged(@[s])]]]
  /\ UNCHANGED <<tid, begun, busFaults, last, arrived, missed>>

TransferNext ==
  \/ \E s \in Sessions : \E len \in Lengths[s] : Broadcast(s, len)
  \/ \E m \in Nodes, copies \in 0..2 : Transmit(m, copies)
  \/ \E m \in Nodes : DropLate(m) \/ CleanupStaleTransfers(m) \/ ClearTxQueue(m) \/ Recover(m)
  \/ Wait

TransferSpec == TransferInit /\ [][TransferNext]_transferVars

-----------------------------------------------------------------------------
(* Properties.                                                             *)

\* Every block of a pool is free, queued, or held by one session, whatever
\* path gave up a transfer (the out-of-memory, restart and bad-CRC returns of
\* canardHandleRxFrame, and canardCleanupStaleTransfers).
NoBlockLost ==
  \A m \in Nodes :
    canard[m].free + Len(canard[m].txq) + BlocksHeld(canard[m], DOMAIN canard[m].rx) = Pool

\* Transfers of a session are handed over in the order they were sent, and one
\* of several frames once only, however frames are repeated.  (A repeated
\* transfer of one frame is handed over twice: canardHandleRxFrame does not look
\* at its transfer id.)
InOrderOnce ==
  [][\A s \in Sessions : last'[s] # last[s] =>
       /\ last'[s].n >= last[s].n
       /\ last'[s].times > 1 => ~last'[s].long]_transferVars

\* However frames were lost, repeated or cut short before, of transfers that
\* come in whole, frame by frame and one after the other, at most two are thrown
\* away in a row.
ResyncsSoon == \A s \in Sessions : missed[s].count <= 2

\* Both: every block of the pool is accounted for, and no loss makes the
\* receiver miss more than two whole transfers in a row.
PoolSound == NoBlockLost /\ ResyncsSoon
=============================================================================
