----------------------------- MODULE CanReceive -----------------------------
(***************************************************************************)
(* The way of a CAN frame from the MCP2515 to libcanard: the controller's  *)
(* two receive buffers and its INT line, the EXTI interrupt that copies    *)
(* them into the RAM queue, the drains of the main loop that do the same,  *)
(* the queue, and the recovery that resets the controller.                 *)
(*                                                                         *)
(* Two threads use one SPI bus: the main loop and the interrupt, which     *)
(* preempts it between any two accesses to shared state but runs to its    *)
(* end.  A frame is its number in the order of arrival; only extended      *)
(* frames get past the controller's filters.  A transfer is claimed in one *)
(* step and takes effect, when chip select rises, in another.              *)
(***************************************************************************)
EXTENDS Naturals, Sequences, FiniteSets

CONSTANTS
  QueueSlots,        \* RAW_CAN_QUEUE_CAPACITY
  IrqFrames,         \* CAN_RX_IRQ_FRAME_BUDGET
  DrainFrames,       \* MAX_RX_PER_POLL and MAX_RX_REALTIME
  MaxFrames, MaxFaults,   \* bounds: frames on the bus, failed transfers
  MaxLiveRecoveries       \* bound: recoveries begun while can_ok_ is true

ASSUME CanAssumption ==
  /\ {QueueSlots, IrqFrames, DrainFrames} \subseteq Nat \ {0}
  /\ {MaxFrames, MaxFaults, MaxLiveRecoveries} \subseteq Nat

VARIABLES
  buf, full,         \* RXB0 and RXB1: contents and RXnIF
  err,               \* ERRIF
  normal,            \* the controller is in normal mode
  received,          \* the number of the last frame on the bus
  exti,              \* the interrupt is due
  intPending,        \* g_mcp_int_pending
  canOk,             \* can_ok_
  recoveryPending,   \* can_recovery_pending_
  spiBusy,           \* mcp_spi_busy_, held by the main loop
  slots, rawHead, rawTail, count,   \* raw_can_queue_, raw_can_head_, _tail_, _count_
  main,              \* where the main loop is
  irq,               \* where irqFastDrain is
  fifo,              \* the frames queued, in order
  handled, lost,     \* frames given to libcanard, and frames knowingly lost
  boundary,          \* the last frame before the last controller reset
  faults, recoveries

chipVars == <<buf, full, err, normal, received, exti>>
flagVars == <<canOk, recoveryPending, spiBusy, intPending>>
queueVars == <<slots, rawHead, rawTail, count, fifo>>
boundVars == <<faults, recoveries>>
receiveVars == <<chipVars, flagVars, queueVars, main, irq, handled, lost, boundary,
          boundVars>>

Buffers == {"RXB0", "RXB1"}
Indices == {"head", "tail", "count"}
Frames == 1..MaxFrames
Transfers == {"health", "status", "errif", "RXB0", "RXB1", "abort", "reset", "config"}
IntChecks == {"quiet", "unconsumed", "end"}

ReceiveTypeOK ==
  /\ buf \in [Buffers -> 0..MaxFrames] /\ full \subseteq Buffers
  /\ {err, normal, exti, intPending, canOk, recoveryPending, spiBusy} \subseteq BOOLEAN
  /\ received \in 0..MaxFrames /\ boundary \in 0..received
  /\ slots \in [0..(QueueSlots - 1) -> 0..MaxFrames]
  /\ rawHead \in 0..(QueueSlots - 1) /\ rawTail \in 0..(QueueSlots - 1)
  /\ count \in 0..QueueSlots
  /\ main.at \in {"idle", "polled", "clear", "process", "purge", "reinit"}
                   \cup Transfers \cup IntChecks
  /\ main.todo \in (SUBSET Buffers) \cup (SUBSET Indices)
  /\ main.left \in 0..DrainFrames /\ main.poll \in BOOLEAN
  /\ irq.at \in {"off", "status", "exit"} \cup Buffers
  /\ irq.todo \subseteq Buffers /\ irq.left \in 0..IrqFrames
  /\ fifo \in Seq(Frames) /\ handled \subseteq Frames /\ lost \subseteq Frames
  /\ faults \in 0..MaxFaults /\ recoveries \in 0..MaxLiveRecoveries

At(place) == [at |-> place, todo |-> {}, left |-> 0, poll |-> FALSE]
Off == [at |-> "off", todo |-> {}, left |-> 0]

ReceiveInit ==
  /\ buf = [b \in Buffers |-> 0] /\ full = {} /\ err = FALSE /\ normal = TRUE
  /\ received = 0 /\ exti = FALSE /\ intPending = FALSE
  /\ canOk = TRUE /\ recoveryPending = FALSE /\ spiBusy = FALSE
  /\ slots = [i \in 0..(QueueSlots - 1) |-> 0]
  /\ rawHead = 0 /\ rawTail = 0 /\ count = 0 /\ fifo = <<>>
  /\ main = At("idle") /\ irq = Off
  /\ handled = {} /\ lost = {} /\ boundary = 0 /\ faults = 0 /\ recoveries = 0

(* The INT pin, active low. *)
IntLow == full # {} \/ err

First(bs) == IF "RXB0" \in bs THEN "RXB0" ELSE "RXB1"

(* Board_McpIntPending *)
IntPending == intPending \/ IntLow

-----------------------------------------------------------------------------
(* The bus.  RXB0 rolls over to RXB1; with both full the frame is lost.    *)

Arrive ==
  /\ normal /\ received < MaxFrames
  /\ received' = received + 1
  /\ exti' = (exti \/ ~IntLow)
  /\ \/ /\ full = Buffers
        /\ err' = TRUE /\ lost' = lost \cup {received'}
        /\ UNCHANGED <<buf, full>>
     \/ \E b \in Buffers \ full :
          /\ b = "RXB1" => "RXB0" \in full
          /\ buf' = [buf EXCEPT ![b] = received'] /\ full' = full \cup {b}
          /\ UNCHANGED <<err, lost>>
  /\ UNCHANGED <<normal, flagVars, queueVars, main, irq, handled, boundary, boundVars>>

-----------------------------------------------------------------------------
(* What both threads do with the chip and the queue.                       *)

(* enqueueRawCan, with interrupts disabled *)
Enqueue(f) ==
  \/ /\ count >= QueueSlots
     /\ lost' = lost \cup {f} /\ UNCHANGED queueVars
  \/ /\ count < QueueSlots
     /\ slots' = [slots EXCEPT ![rawHead] = f]
     /\ rawHead' = (rawHead + 1) % QueueSlots /\ count' = count + 1
     /\ fifo' = Append(fifo, f)
     /\ UNCHANGED <<rawTail, lost>>

(* READ RX BUFFER: chip select rises and clears RXnIF. *)
ReadBuffer(b) ==
  full' = full \ {b} /\ Enqueue(buf[b]) /\ UNCHANGED <<buf, err, normal, received, exti>>

(* A transfer cut short may have cleared RXnIF all the same. *)
LoseBuffer(b) ==
  /\ \/ UNCHANGED <<full, lost>>
     \/ full' = full \ {b} /\ lost' = IF b \in full THEN lost \cup {buf[b]} ELSE lost
  /\ UNCHANGED <<buf, err, normal, received, exti, queueVars>>

-----------------------------------------------------------------------------
(* The interrupt.                                                          *)

IrqEnter ==
  /\ exti /\ irq.at = "off"
  /\ exti' = FALSE /\ intPending' = TRUE
  /\ irq' = IF canOk /\ ~spiBusy
            THEN [at |-> "status", todo |-> {}, left |-> IrqFrames] ELSE Off
  /\ UNCHANGED <<buf, full, err, normal, received, canOk, recoveryPending, spiBusy,
                 queueVars, main, handled, lost, boundary, boundVars>>

Leaving == [Off EXCEPT !.at = "exit"]

(* READ STATUS, unless the time budget is over.  With SPI2 in reset the    *)
(* transfer times out.                                                     *)
IrqStatus ==
  /\ irq.at = "status"
  /\ \/ /\ full # {} /\ main.at # "reinit"
        /\ irq' = [irq EXCEPT !.at = First(full), !.todo = full]
     \/ /\ full = {} \/ main.at = "reinit" \/ irq.left < IrqFrames
        /\ irq' = Leaving
  /\ UNCHANGED <<chipVars, flagVars, queueVars, main, handled, lost, boundary, boundVars>>

IrqRead(b) ==
  /\ irq.at = b
  /\ ReadBuffer(b)
  /\ irq' = IF count >= QueueSlots \/ irq.left = 1 THEN Leaving
            ELSE IF b = "RXB0" /\ "RXB1" \in irq.todo
            THEN [irq EXCEPT !.at = "RXB1", !.left = @ - 1]
            ELSE IF IntLow' THEN [irq EXCEPT !.at = "status", !.todo = {}, !.left = @ - 1]
            ELSE Leaving
  /\ UNCHANGED <<flagVars, main, handled, boundary, boundVars>>

IrqReadTimesOut(b) ==
  /\ irq.at = b /\ faults < MaxFaults /\ faults' = faults + 1
  /\ LoseBuffer(b) /\ irq' = Leaving
  /\ UNCHANGED <<flagVars, main, handled, boundary, recoveries>>

IrqExit ==
  /\ irq.at = "exit" /\ irq' = Off
  /\ intPending' = (intPending /\ IntLow)
  /\ UNCHANGED <<chipVars, canOk, recoveryPending, spiBusy, queueVars, main,
                 handled, lost, boundary, boundVars>>

Irq == IrqEnter \/ IrqStatus \/ IrqExit \/ \E b \in Buffers : IrqRead(b) \/ IrqReadTimesOut(b)

-----------------------------------------------------------------------------
(* The main loop, which goes on only when no interrupt is due.             *)

MainAt(place) == main.at = place /\ irq.at = "off" /\ ~exti

(* mcpTransfer, when it claims the bus and when it is over.  Nothing else  *)
(* claims it for longer than an interrupt, so the main loop never finds it *)
(* taken.                                                                  *)
Claim ==
  /\ main.at \in Transfers /\ ~spiBusy /\ irq.at = "off" /\ ~exti
  /\ spiBusy' = TRUE
  /\ UNCHANGED <<chipVars, canOk, recoveryPending, intPending, queueVars, main, irq,
                 handled, lost, boundary, boundVars>>

Done(place) == MainAt(place) /\ spiBusy /\ spiBusy' = FALSE

Failed(place) ==
  /\ Done(place) /\ faults < MaxFaults /\ faults' = faults + 1
  /\ canOk' = FALSE /\ recoveryPending' = TRUE
  /\ UNCHANGED <<intPending, irq, handled, recoveries>>

(* recoverCan up to abortMcpTxBounded; its cooldown is a matter of when. *)
RecoverBegin == recoveryPending' = FALSE /\ main' = At("abort")

(* poll: serviceCanHealth, when it is due *)
PollHealth ==
  /\ MainAt("idle")
  /\ \/ canOk /\ main' = At("health") /\ UNCHANGED recoveryPending
     \/ ~canOk /\ recoveryPending /\ RecoverBegin
  /\ UNCHANGED <<chipVars, canOk, spiBusy, intPending, queueVars, irq, handled, lost,
                 boundary, boundVars>>

HealthRead ==
  /\ Done("health")
  /\ main' = At("polled")
  /\ UNCHANGED <<chipVars, canOk, recoveryPending, intPending, queueVars, irq, handled,
                 lost, boundary, boundVars>>

(* Bus-off, NEO:CAN:RECOVER, or a lost peer and a silent bus: a recovery   *)
(* that finds the controller still in service.                             *)
LiveRecovery ==
  /\ MainAt("idle") /\ canOk
  /\ recoveries < MaxLiveRecoveries /\ recoveries' = recoveries + 1
  /\ RecoverBegin
  /\ UNCHANGED <<chipVars, canOk, spiBusy, intPending, queueVars, irq, handled, lost,
                 boundary, faults>>

(* poll, after the health check; with no interrupt the drain is run every  *)
(* 10 ms.                                                                  *)
Drain(poll) == [at |-> "status", todo |-> {}, left |-> DrainFrames, poll |-> poll]
Process == [At("process") EXCEPT !.left = DrainFrames]

PollOnEdge ==                        \* mutant: only the latched edge counts
  /\ main.at \in {"idle", "polled"} /\ irq.at = "off" /\ ~exti
  /\ \/ canOk /\ intPending /\ main' = Drain(TRUE) /\ UNCHANGED recoveryPending
     \/ canOk /\ ~intPending /\ main' = Process /\ UNCHANGED recoveryPending
     \/ ~canOk /\ recoveryPending' = TRUE /\ main' = At("idle")
  /\ UNCHANGED <<chipVars, canOk, spiBusy, intPending, queueVars, irq, handled, lost,
                 boundary, boundVars>>

Poll ==
  /\ main.at \in {"idle", "polled"} /\ irq.at = "off" /\ ~exti
  /\ \/ canOk /\ main' = Drain(TRUE) /\ UNCHANGED recoveryPending
     \/ canOk /\ ~IntPending /\ main' = Process /\ UNCHANGED recoveryPending
     \/ ~canOk /\ recoveryPending' = TRUE /\ main' = At("idle")
  /\ UNCHANGED <<chipVars, canOk, spiBusy, intPending, queueVars, irq, handled, lost,
                 boundary, boundVars>>

PollRealtime ==
  /\ MainAt("idle") /\ canOk /\ IntPending
  /\ main' = Drain(FALSE)
  /\ UNCHANGED <<chipVars, flagVars, queueVars, irq, handled, lost, boundary, boundVars>>

(* drainCan, one transfer or check of the INT pin at a time.  A time       *)
(* budget may end it after any transfer.                                   *)
Finish == IF main.poll THEN Process ELSE At("idle")
Over(left) == [main EXCEPT !.at = "end", !.todo = {}, !.left = left]
Again(left) ==
  {Over(left)} \cup
  (IF left > 0 THEN {[main EXCEPT !.at = "status", !.todo = {}, !.left = left]} ELSE {})

DrainStatus ==
  /\ Done("status")
  /\ main' = [main EXCEPT !.todo = full,
                           !.at = IF full = {} THEN "quiet" ELSE First(full)]
  /\ UNCHANGED <<chipVars, canOk, recoveryPending, intPending, queueVars, irq, handled,
                 lost, boundary, boundVars>>

DrainChecksInt ==
  /\ main.at \in IntChecks /\ MainAt(main.at)
  /\ \/ ~IntLow /\ main' = [main EXCEPT !.at = "clear"]
     \/ IntLow /\ main.at = "quiet" /\ main' = [main EXCEPT !.at = "errif"]
     \/ IntLow /\ main.at = "unconsumed" /\ main' \in Again(main.left)
     \/ IntLow /\ main.at = "end" /\ main' = Finish
  /\ UNCHANGED <<chipVars, flagVars, queueVars, irq, handled, lost, boundary, boundVars>>

(* CANINTF is read, and ERRIF, if set, cleared. *)
ClearErrif == err' = FALSE /\ UNCHANGED <<buf, full, normal, received, exti>>

DrainErrif ==
  /\ Done("errif") /\ ClearErrif
  /\ main' = [main EXCEPT !.at = "unconsumed"]
  /\ UNCHANGED <<canOk, recoveryPending, intPending, queueVars, irq, handled, lost,
                 boundary, boundVars>>

DrainClears ==
  /\ MainAt("clear") /\ intPending' = FALSE /\ main' = Finish
  /\ UNCHANGED <<chipVars, canOk, recoveryPending, spiBusy, queueVars, irq, handled,
                 lost, boundary, boundVars>>

DrainRead(b) ==
  /\ Done(b) /\ ReadBuffer(b)
  /\ \/ /\ count >= QueueSlots /\ main' = Finish
        /\ recoveryPending' = (recoveryPending \/ main.poll)
     \/ /\ count < QueueSlots /\ UNCHANGED recoveryPending
        /\ IF b = "RXB0" /\ "RXB1" \in main.todo /\ main.left > 1
           THEN main' \in {[main EXCEPT !.at = "RXB1", !.left = @ - 1], Over(main.left - 1)}
           ELSE main' \in Again(main.left - 1)
  /\ UNCHANGED <<canOk, intPending, irq, handled, boundary, boundVars>>

(* A transfer of drainCan or of serviceCanHealth fails. *)
DrainFails ==
  /\ \/ /\ \/ Failed("health") /\ main' = At("polled")
           \/ Failed("status") /\ main' = Finish
           \/ Failed("errif") /\ main' \in {Finish, [main EXCEPT !.at = "unconsumed"]}
        /\ UNCHANGED <<chipVars, queueVars, lost>>
     \/ \E b \in Buffers : Failed(b) /\ LoseBuffer(b) /\ main' = Finish
  /\ UNCHANGED boundary

(* processRawCanQueue: a frame is taken with interrupts disabled; the time *)
(* budget may end it after any frame.                                      *)
Dequeue ==
  /\ MainAt("process") /\ count > 0 /\ main.left > 0
  /\ rawTail' = (rawTail + 1) % QueueSlots /\ count' = count - 1
  /\ fifo' = IF fifo = <<>> THEN fifo ELSE Tail(fifo)
  /\ handled' = handled \cup ({slots[rawTail]} \ {0})
  /\ main' \in {[main EXCEPT !.left = @ - 1], At("idle")}
  /\ UNCHANGED <<chipVars, flagVars, slots, rawHead, irq, lost, boundary, boundVars>>

ProcessDone ==
  /\ MainAt("process") /\ (count = 0 \/ main.left = 0)
  /\ main' = At("idle")
  /\ UNCHANGED <<chipVars, flagVars, queueVars, irq, handled, lost, boundary, boundVars>>

-----------------------------------------------------------------------------
(* recoverCan after its first part.                                        *)

AbortOnly ==                         \* mutant: the queue is not purged
  /\ Done("abort") /\ main' = At("reinit")
  /\ UNCHANGED <<chipVars, canOk, recoveryPending, intPending, queueVars, irq, handled,
                 lost, boundary, boundVars>>

Abort ==
  /\ \/ /\ Done("abort")
        /\ UNCHANGED <<canOk, recoveryPending, intPending, irq, handled, boundVars>>
     \/ Failed("abort")
  /\ main' = [At("purge") EXCEPT !.todo = Indices]
  /\ UNCHANGED <<chipVars, queueVars, lost, boundary>>

PurgeTwo(i) ==                       \* mutant: the tail is not cleared
  /\ MainAt("purge") /\ i \in main.todo
  /\ rawHead' = (IF i = "head" THEN 0 ELSE rawHead)
  /\ count' = (IF i = "count" THEN 0 ELSE count)
  /\ main' = IF main.todo = {i} THEN At("reinit") ELSE [main EXCEPT !.todo = @ \ {i}]
  /\ fifo' = (IF main.todo = {i} THEN <<>> ELSE fifo)
  /\ lost' = lost \cup (IF main.todo = {i} THEN {fifo[j] : j \in 1..Len(fifo)} ELSE {})
  /\ UNCHANGED <<chipVars, flagVars, slots, rawTail, irq, handled, boundary, boundVars>>

(* raw_can_head_ = raw_can_tail_ = raw_can_count_ = 0U: three stores, with *)
(* interrupts enabled, that the compiler may order as it likes.            *)
Purge(i) ==
  /\ MainAt("purge") /\ i \in main.todo
  /\ rawHead' = (IF i = "head" THEN 0 ELSE rawHead)
  /\ rawTail' = (IF i = "tail" THEN 0 ELSE rawTail)
  /\ count' = (IF i = "count" THEN 0 ELSE count)
  /\ \/ main.todo # {i} /\ main' = [main EXCEPT !.todo = @ \ {i}] /\ UNCHANGED <<fifo, lost>>
     \/ /\ main.todo = {i} /\ main' = At("reinit")
        /\ fifo' = SubSeq(fifo, Len(fifo) + 1 - count', Len(fifo))
        /\ lost' = lost \cup {fifo[j] : j \in 1..(Len(fifo) - count')}
  /\ UNCHANGED <<chipVars, flagVars, slots, irq, handled, boundary, boundVars>>

(* Board_ReinitSpi2, and initMcp up to MCP_RESET *)
Reinit ==
  /\ MainAt("reinit")
  /\ \/ canOk' = FALSE /\ main' = At("reset") /\ UNCHANGED <<recoveryPending, faults>>
     \/ /\ faults < MaxFaults /\ faults' = faults + 1
        /\ canOk' = FALSE /\ recoveryPending' = TRUE /\ main' = At("idle")
  /\ UNCHANGED <<chipVars, spiBusy, intPending, queueVars, irq, handled, lost, boundary,
                 recoveries>>

ChipReset ==
  /\ normal' = FALSE /\ full' = {} /\ err' = FALSE /\ boundary' = received
  /\ lost' = lost \cup {buf[b] : b \in full}
  /\ UNCHANGED <<buf, received, exti>>

ResetDone ==
  /\ Done("reset") /\ ChipReset /\ main' = At("config")
  /\ UNCHANGED <<canOk, recoveryPending, intPending, queueVars, irq, handled, boundVars>>

(* The registers are written; the controller receives again a little       *)
(* before can_ok_ says so.                                                 *)
Configure ==
  /\ MainAt("config") /\ spiBusy
  /\ \/ ~normal /\ normal' = TRUE /\ UNCHANGED <<spiBusy, canOk, recoveryPending, main>>
     \/ /\ normal /\ spiBusy' = FALSE /\ main' = At("idle")
        /\ canOk' = TRUE /\ recoveryPending' = FALSE /\ UNCHANGED normal
  /\ UNCHANGED <<buf, full, err, received, exti, intPending, queueVars, irq, handled,
                 lost, boundary, boundVars>>

InitFails ==
  /\ \/ Failed("reset") /\ ChipReset
     \/ (Failed("reset") \/ Failed("config")) /\ UNCHANGED <<chipVars, lost, boundary>>
  /\ main' = At("idle")
  /\ UNCHANGED queueVars

Main ==
  \/ PollHealth \/ HealthRead \/ LiveRecovery \/ Poll \/ PollRealtime
  \/ Claim \/ DrainStatus \/ DrainChecksInt \/ DrainErrif \/ DrainClears
  \/ (\E b \in Buffers : DrainRead(b)) \/ DrainFails
  \/ Dequeue \/ ProcessDone
  \/ Abort \/ (\E i \in Indices : Purge(i)) \/ Reinit \/ ResetDone \/ Configure \/ InitFails

ReceiveNext == Arrive \/ Irq \/ Main

ReceiveSpec == ReceiveInit /\ [][ReceiveNext]_receiveVars

(* Both threads run: the interrupt when it is due, the main loop for ever. *)
FairReceiveSpec == ReceiveSpec /\ WF_receiveVars(Irq) /\ WF_receiveVars(Main)

-----------------------------------------------------------------------------
(* Properties.                                                             *)

(* Neo3ProSensors.h: "hardware-RX -> RAM FIFO".  Outside the stores that   *)
(* empty it, the ring's indices and slots are a queue of exactly the       *)
(* frames put in and not yet taken out, in that order.                     *)
RamFifo ==
  main.at # "purge" =>
    /\ count = Len(fifo)
    /\ \A i \in 1..count : slots[(rawTail + i - 1) % QueueSlots] = fifo[i]

(* The same as long as every recovery has begun out of service.            *)
FifoKept == recoveries = 0 => RamFifo

(* Every frame the bus brought is in one place only: a receive buffer, the *)
(* queue, libcanard's hands, or among those known to be lost.  Two threads *)
(* that drain the same chip neither read a frame twice nor drop one in     *)
(* between, short of a recovery that begins in service.                    *)
Holders(f) ==
  {<<b, 0>> : b \in {c \in full : buf[c] = f}}
    \cup {<<"queue", i>> : i \in {j \in 1..Len(fifo) : fifo[j] = f}}
    \cup {<<"handled", 0>> : g \in handled \cap {f}}
    \cup {<<"lost", 0>> : g \in lost \cap {f}}

OnceEach ==
  recoveries = 0 => \A f \in 1..received : Cardinality(Holders(f)) = 1

(* recoverCan: the queue is purged "exactly at this boundary", so no frame *)
(* from before a controller reset is handled after it.  It holds of        *)
(* recoveries that begin out of service; of the others, the interrupt that *)
(* enqueues between purge and reset breaks it.                             *)
NoFrameCrossesReset ==
  [][recoveries = 0 => \A f \in handled' \ handled : f > boundary]_receiveVars

(* Whatever fails and whenever a recovery comes, the controller is in      *)
(* service again in the end, with its buffers read and its error cleared.  *)
InService == []<>(canOk /\ ~IntLow)

(* A frame the bus brings is handled or lost in the end: interrupts that   *)
(* came while the chip was busy or out of service are made up for.         *)
Delivered ==
  <>[](recoveries > 0 \/ \A f \in Frames : received >= f => f \in handled \cup lost)

(* Both: whatever fails and whenever a recovery comes, the controller is   *)
(* in service again in the end, and a frame the bus brings is handled or   *)
(* known to be lost.                                                       *)
FramesRecover == InService /\ Delivered

(* Both: the ring in RAM is a queue, and every frame the bus brought is in one place only, short of a recovery   *)
(* that begins in service.                                                 *)
FramesKept == ReceiveTypeOK /\ FifoKept /\ OnceEach
=============================================================================
