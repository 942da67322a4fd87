-------------------------- MODULE CanReceiveProofs --------------------------
(***************************************************************************)
(* What holds of the reception of CAN frames for any size of the queue,    *)
(* any budgets of the two drains, and any number of frames, failed         *)
(* transfers and recoveries: wherever the interrupt preempts the main      *)
(* loop, the two neither read a frame twice nor lose one unseen, and the   *)
(* queue in RAM stays a queue, short of a recovery that begins in service. *)
(***************************************************************************)
EXTENDS CanReceive, SequenceTheorems, FiniteSetTheorems, TLAPS

-----------------------------------------------------------------------------
(* The inductive invariant.                                                *)

Places == {"idle", "polled", "clear", "process", "purge", "reinit"} \cup Transfers \cup IntChecks
MainStates == [at : Places, todo : (SUBSET Buffers) \cup (SUBSET Indices),
               left : 0..DrainFrames, poll : BOOLEAN]
IrqStates == [at : {"off", "status", "exit"} \cup Buffers, todo : SUBSET Buffers,
              left : 0..IrqFrames]

(* The types.                                                              *)
ControlShapes ==
  /\ err \in BOOLEAN /\ normal \in BOOLEAN /\ exti \in BOOLEAN /\ intPending \in BOOLEAN
  /\ canOk \in BOOLEAN /\ recoveryPending \in BOOLEAN /\ spiBusy \in BOOLEAN
  /\ main \in MainStates /\ irq \in IrqStates
  /\ faults \in 0..MaxFaults /\ recoveries \in 0..MaxLiveRecoveries
DataShapes ==
  /\ buf \in [Buffers -> 0..MaxFrames] /\ full \subseteq Buffers
  /\ received \in 0..MaxFrames /\ boundary \in 0..received
  /\ slots \in [0..(QueueSlots - 1) -> 0..MaxFrames]
  /\ rawHead \in 0..(QueueSlots - 1) /\ rawTail \in 0..(QueueSlots - 1)
  /\ count \in 0..QueueSlots
  /\ fifo \in Seq(Frames) /\ handled \subseteq Frames /\ lost \subseteq Frames
Shapes == ControlShapes /\ DataShapes

(* The main loop reads only a buffer that READ STATUS found full; INT has  *)
(* been low since, so that no interrupt was due and none can come before.  *)
MainReadsFull ==
  /\ main.at \in {"status"} \cup Buffers => main.left >= 1
  /\ main.at \in Buffers =>
       /\ main.at \in full /\ ~exti /\ irq.at = "off"
       /\ main.at = "RXB0" /\ "RXB1" \in main.todo => "RXB1" \in full

(* The interrupt likewise, while the main loop stands still.               *)
IrqReadsFull ==
  /\ irq.at \in {"status"} \cup Buffers => irq.left >= 1
  /\ irq.at \in Buffers =>
       /\ irq.at \in full
       /\ irq.at = "RXB0" /\ "RXB1" \in irq.todo => "RXB1" \in full

(* A full buffer holds a frame that came.  Frames are counted in and out.  *)
Filled == \A b \in full : buf[b] \in 1..received
QueueCounted == count <= Len(fifo) /\ (main.at # "purge" => count = Len(fifo))

(* A recovery that began out of service goes on undisturbed by the         *)
(* interrupt: the indices it has cleared stay so, and it leaves the queue  *)
(* empty.                                                                  *)
Emptied == {"reinit", "reset", "config"}
Recovering == {"abort", "purge"} \cup Emptied
RecoveryAlone ==
  /\ main.at \in Recovering => ~canOk /\ irq.at = "off"
  /\ main.at \in Emptied => fifo = <<>>
  /\ main.at = "purge" => /\ "head" \notin main.todo => rawHead = 0
                          /\ "tail" \notin main.todo => rawTail = 0
                          /\ "count" \notin main.todo => count = 0

(* The ring is the queue.                                                  *)
RingIsQueue ==
  main.at # "purge" =>
    /\ rawHead = (rawTail + count) % QueueSlots
    /\ \A i \in 1..count : slots[(rawTail + i - 1) % QueueSlots] = fifo[i]

(* Every frame that came is somewhere, and nowhere else.                   *)
Buffered(f) == \E b \in full : buf[b] = f
Queued(f) == \E i \in 1..Len(fifo) : fifo[i] = f
Somewhere == \A f \in 1..received : Buffered(f) \/ Queued(f) \/ f \in handled \/ f \in lost
NowhereElse ==
  /\ \A b, c \in full : buf[b] = buf[c] => b = c
  /\ \A i, j \in 1..Len(fifo) : fifo[i] = fifo[j] => i = j
  /\ \A f \in Frames : /\ Buffered(f) => ~Queued(f) /\ f \notin handled /\ f \notin lost
                       /\ Queued(f) => f \notin handled /\ f \notin lost
                       /\ f \in handled => f \notin lost
OnlyCame ==
  /\ \A i \in 1..Len(fifo) : fifo[i] \in 1..received
  /\ \A i \in 0..(QueueSlots - 1) : slots[i] \in 0..received
  /\ handled \subseteq 1..received /\ lost \subseteq 1..received

(* What is in the buffers or the queue came after the last reset.          *)
SinceReset ==
  /\ \A b \in full : buf[b] > boundary
  /\ \A i \in 1..Len(fifo) : fifo[i] > boundary

Undisturbed == RecoveryAlone /\ RingIsQueue /\ Somewhere /\ NowhereElse /\ SinceReset

ReceiveInv ==
  /\ Shapes /\ MainReadsFull /\ IrqReadsFull /\ Filled /\ QueueCounted /\ OnlyCame
  /\ recoveries = 0 => Undisturbed

-----------------------------------------------------------------------------
(* Constants, places and the records of the two threads.                   *)

LEMMA CanConstants ==
  /\ QueueSlots \in Nat /\ QueueSlots > 0 /\ IrqFrames \in Nat /\ IrqFrames > 0
  /\ DrainFrames \in Nat /\ DrainFrames > 0
  /\ MaxFrames \in Nat /\ MaxFaults \in Nat /\ MaxLiveRecoveries \in Nat
BY CanAssumption

LEMMA PlacesAre ==
  /\ {"idle", "polled", "clear", "process", "purge", "reinit", "health", "status", "errif",
      "RXB0", "RXB1", "abort", "reset", "config", "quiet", "unconsumed", "end"} = Places
  /\ Transfers = {"health", "status", "errif", "RXB0", "RXB1", "abort", "reset", "config"}
  /\ IntChecks = {"quiet", "unconsumed", "end"} /\ Buffers = {"RXB0", "RXB1"}
  /\ Recovering = {"abort", "purge", "reinit", "reset", "config"}
  /\ Emptied = {"reinit", "reset", "config"}
BY DEF Places, Transfers, IntChecks, Buffers, Recovering, Emptied

LEMMA AtIs ==
  ASSUME NEW place \in Places
  PROVE  At(place) \in MainStates /\ At(place).at = place /\ At(place).todo = {}
         /\ At(place).left = 0
<1>1. 0 \in 0..DrainFrames /\ {} \in SUBSET Buffers
  BY CanConstants
<1> QED
  BY <1>1 DEF At, MainStates

LEMMA OtherStates ==
  /\ Process \in MainStates /\ Process.at = "process"
  /\ \A p \in BOOLEAN : /\ Drain(p) \in MainStates /\ Drain(p).at = "status"
                        /\ Drain(p).left = DrainFrames
  /\ Off \in IrqStates /\ Off.at = "off" /\ Leaving \in IrqStates /\ Leaving.at = "exit"
<1>1. 0 \in 0..DrainFrames /\ DrainFrames \in 0..DrainFrames /\ 0 \in 0..IrqFrames
  BY CanConstants
<1>2. Process \in MainStates /\ Process.at = "process"
  <2>1. ASSUME NEW m \in MainStates
        PROVE  [m EXCEPT !.left = DrainFrames]
                 = [at |-> m.at, todo |-> m.todo, left |-> DrainFrames, poll |-> m.poll]
    BY DEF MainStates
  <2>2. /\ At("process") \in MainStates /\ At("process").at = "process"
        /\ At("process").todo = {} /\ At("process").poll = FALSE
    BY AtIs, PlacesAre DEF At
  <2>3. Process = [at |-> "process", todo |-> {}, left |-> DrainFrames, poll |-> FALSE]
    BY <2>1, <2>2 DEF Process
  <2> QED
    BY <1>1, <2>3, PlacesAre DEF MainStates
<1>3. ASSUME NEW p \in BOOLEAN
      PROVE  Drain(p) \in MainStates /\ Drain(p).at = "status" /\ Drain(p).left = DrainFrames
  BY <1>1, PlacesAre DEF Drain, MainStates
<1>4. Off \in IrqStates /\ Off.at = "off"
  BY <1>1 DEF Off, IrqStates
<1>5. Leaving \in IrqStates /\ Leaving.at = "exit"
  <2>1. Leaving = [at |-> "exit", todo |-> {}, left |-> 0]
    BY DEF Leaving, Off
  <2> QED
    BY <1>1, <2>1 DEF IrqStates
<1> QED
  BY <1>2, <1>3, <1>4, <1>5

(* The main loop goes from m to another place, with the frames left.       *)
LEMMA GoesTo ==
  ASSUME NEW m \in MainStates, NEW place \in Places,
         NEW todo \in (SUBSET Buffers) \cup (SUBSET Indices), NEW left \in 0..DrainFrames
  PROVE  LET n == [at |-> place, todo |-> todo, left |-> left, poll |-> m.poll]
         IN n \in MainStates /\ n.at = place /\ n.todo = todo /\ n.left = left
BY DEF MainStates

LEMMA MainFields ==
  ASSUME NEW m \in MainStates
  PROVE  /\ m.at \in Places /\ m.todo \in (SUBSET Buffers) \cup (SUBSET Indices)
         /\ m.left \in 0..DrainFrames /\ m.poll \in BOOLEAN
         /\ m = [at |-> m.at, todo |-> m.todo, left |-> m.left, poll |-> m.poll]
BY DEF MainStates

(* Where a drain goes after it has read a buffer or found INT low.         *)
LEMMA AgainIs ==
  ASSUME ReceiveInv, NEW left \in 0..DrainFrames, NEW m \in Again(left)
  PROVE  m \in MainStates /\ (m.at = "end" \/ (m.at = "status" /\ m.left >= 1))
<1>1. main \in MainStates
  BY DEF ReceiveInv, Shapes, ControlShapes, DataShapes
<1>2. {} \in (SUBSET Buffers) \cup (SUBSET Indices) /\ "end" \in Places /\ "status" \in Places
  BY PlacesAre
<1>3. CASE m = Over(left)
  <2>1. m = [at |-> "end", todo |-> {}, left |-> left, poll |-> main.poll]
    BY <1>1, <1>3 DEF Over, MainStates
  <2> QED
    BY <1>1, <1>2, <2>1, GoesTo
<1>4. CASE left > 0 /\ m = [main EXCEPT !.at = "status", !.todo = {}, !.left = left]
  <2>1. m = [at |-> "status", todo |-> {}, left |-> left, poll |-> main.poll]
    BY <1>1, <1>4 DEF MainStates
  <2>2. left >= 1
    BY <1>4
  <2> QED
    BY <1>1, <1>2, <2>1, <2>2, GoesTo
<1> QED
  BY <1>3, <1>4 DEF Again

LEMMA FinishIs ==
  ASSUME ReceiveInv
  PROVE  Finish \in MainStates /\ Finish.at \in {"process", "idle"}
BY OtherStates, AtIs, PlacesAre DEF Finish

LEMMA FirstIs ==
  ASSUME NEW bs, bs \subseteq Buffers, bs # {}
  PROVE  /\ First(bs) \in bs /\ First(bs) \in Buffers
         /\ First(bs) = "RXB1" => bs = {"RXB1"}
BY DEF First, Buffers

-----------------------------------------------------------------------------
(* The control of the main loop.                                           *)

(* The main loop moves while no interrupt is due or running.               *)
LEMMA MainAlone ==
  ASSUME ReceiveInv, Main
  PROVE  irq.at = "off" /\ ~exti /\ irq' = irq /\ exti' = exti
<1>1. CASE PollHealth \/ HealthRead \/ LiveRecovery \/ Poll \/ PollRealtime \/ Claim
  BY <1>1 DEF PollHealth, HealthRead, LiveRecovery, Poll, PollRealtime, Claim, MainAt, Done,
              chipVars
<1>2. CASE DrainStatus \/ DrainChecksInt \/ DrainErrif \/ DrainClears \/ Dequeue \/ ProcessDone
  BY <1>2 DEF DrainStatus, DrainChecksInt, DrainErrif, DrainClears, Dequeue, ProcessDone, MainAt,
              Done, chipVars, ClearErrif
<1>3. ASSUME NEW b \in Buffers, DrainRead(b) PROVE irq.at = "off" /\ ~exti /\ irq' = irq /\ exti' = exti
  BY <1>3 DEF DrainRead, MainAt, Done, ReadBuffer
<1>4. CASE DrainFails
  BY <1>4 DEF DrainFails, Failed, MainAt, Done, chipVars, LoseBuffer
<1>5. CASE Abort \/ Reinit \/ ResetDone \/ Configure \/ InitFails
  BY <1>5 DEF Abort, Reinit, ResetDone, Configure, InitFails, Failed, MainAt, Done, chipVars, ChipReset
<1>6. ASSUME NEW i \in Indices, Purge(i) PROVE irq.at = "off" /\ ~exti /\ irq' = irq /\ exti' = exti
  BY <1>6 DEF Purge, MainAt, chipVars
<1> QED
  BY <1>1, <1>2, <1>3, <1>4, <1>5, <1>6 DEF Main

(* Where a step of the main loop leads.                                    *)
Leads ==
  /\ main' \in MainStates
  /\ main'.at \in {"status"} \cup Buffers => main'.left >= 1
  /\ main'.at \in Buffers =>
       /\ main'.at \in full'
       /\ main'.at = "RXB0" /\ "RXB1" \in main'.todo => "RXB1" \in full'

LEMMA LeadsElsewhere ==
  ASSUME main' \in MainStates, main'.at \notin {"status"} \cup Buffers
  PROVE  Leads
BY DEF Leads

LEMMA LeadsFrom ==
  ASSUME ReceiveInv, Main
  PROVE  Leads
<1>0. main \in MainStates /\ main.at \in Places /\ main.left \in 0..DrainFrames
  BY MainFields DEF ReceiveInv, Shapes, ControlShapes, DataShapes
<1>p. \A place \in Places : At(place) \in MainStates /\ At(place).at = place
  BY AtIs
<1>1. CASE PollHealth \/ HealthRead \/ LiveRecovery
  <2>1. main' \in {At("health"), At("abort"), At("polled")}
    BY <1>1 DEF PollHealth, HealthRead, LiveRecovery, RecoverBegin
  <2>2. main' \in MainStates /\ main'.at \in {"health", "abort", "polled"}
    BY <1>p, <2>1, PlacesAre
  <2> QED
    BY <2>2, LeadsElsewhere, PlacesAre
<1>2. CASE Poll \/ PollRealtime
  <2>1. main' \in {Drain(TRUE), Drain(FALSE), Process, At("idle")}
    BY <1>2 DEF Poll, PollRealtime
  <2>2. CASE main' \in {Drain(TRUE), Drain(FALSE)}
    <3>1. main' \in MainStates /\ main'.at = "status" /\ main'.left = DrainFrames
      BY <2>2, OtherStates
    <3>2. DrainFrames >= 1 /\ "status" \notin Buffers
      BY CanConstants, PlacesAre
    <3> QED
      BY <3>1, <3>2 DEF Leads
  <2>3. CASE main' \in {Process, At("idle")}
    <3>1. main' \in MainStates /\ main'.at \in {"process", "idle"}
      BY <1>p, <2>3, OtherStates, PlacesAre
    <3> QED
      BY <3>1, LeadsElsewhere, PlacesAre
  <2> QED
    BY <2>1, <2>2, <2>3
<1>3. CASE Claim
  <2>1. main' = main /\ full' = full
    BY <1>3 DEF Claim, chipVars
  <2> QED
    BY <1>0, <2>1 DEF Leads, ReceiveInv, MainReadsFull
<1>4. CASE DrainStatus
  <2> DEFINE place == IF full = {} THEN "quiet" ELSE First(full)
  <2>1. /\ main.at = "status" /\ full' = full
        /\ main' = [main EXCEPT !.todo = full, !.at = place]
    BY <1>4 DEF DrainStatus, Done, MainAt, chipVars
  <2>2. full \subseteq Buffers
    BY DEF ReceiveInv, Shapes, ControlShapes, DataShapes
  <2>3. place \in Places
    BY <2>2, FirstIs, PlacesAre
  <2>4. place \in Buffers => place \in full
    BY <2>2, FirstIs, PlacesAre
  <2>5. main.left >= 1
    BY <2>1 DEF ReceiveInv, MainReadsFull
  <2> HIDE DEF place
  <2>6. main' = [at |-> place, todo |-> full, left |-> main.left, poll |-> main.poll]
    BY <1>0, <2>1 DEF MainStates
  <2>7. main' \in MainStates /\ main'.at = place /\ main'.todo = full /\ main'.left = main.left
    BY <1>0, <2>2, <2>3, <2>6, GoesTo
  <2> QED
    BY <2>1, <2>4, <2>5, <2>7 DEF Leads
<1>5. CASE DrainChecksInt
  <2>1. \/ main' = [main EXCEPT !.at = "clear"] \/ main' = [main EXCEPT !.at = "errif"]
        \/ main' \in Again(main.left) \/ main' = Finish
    BY <1>5 DEF DrainChecksInt
  <2>2. ASSUME NEW place \in {"clear", "errif"}, main' = [main EXCEPT !.at = place]
        PROVE  Leads
    <3>1. main' = [at |-> place, todo |-> main.todo, left |-> main.left, poll |-> main.poll]
      BY <1>0, <2>2 DEF MainStates
    <3>2. main' \in MainStates /\ main'.at = place
      BY <1>0, <3>1, GoesTo, MainFields, PlacesAre
    <3> QED
      BY <3>2, LeadsElsewhere, PlacesAre
  <2>3. CASE main' \in Again(main.left)
    <3>1. main' \in MainStates /\ (main'.at = "end" \/ (main'.at = "status" /\ main'.left >= 1))
      BY <1>0, <2>3, AgainIs
    <3> QED
      BY <3>1, PlacesAre DEF Leads
  <2>4. CASE main' = Finish
    BY <2>4, FinishIs, LeadsElsewhere, PlacesAre
  <2> QED
    BY <2>1, <2>2, <2>3, <2>4
<1>6. CASE DrainErrif
  <2>1. main' = [main EXCEPT !.at = "unconsumed"]
    BY <1>6 DEF DrainErrif
  <2>2. main' = [at |-> "unconsumed", todo |-> main.todo, left |-> main.left, poll |-> main.poll]
    BY <1>0, <2>1 DEF MainStates
  <2>3. main' \in MainStates /\ main'.at = "unconsumed"
    BY <1>0, <2>2, GoesTo, MainFields, PlacesAre
  <2> QED
    BY <2>3, LeadsElsewhere, PlacesAre
<1>7. CASE DrainClears \/ ProcessDone
  <2>1. main' = Finish \/ main' = At("idle")
    BY <1>7 DEF DrainClears, ProcessDone
  <2>2. main' \in MainStates /\ main'.at \in {"process", "idle"}
    BY <1>p, <2>1, FinishIs, PlacesAre
  <2> QED
    BY <2>2, LeadsElsewhere, PlacesAre
<1>8. ASSUME NEW b \in Buffers, DrainRead(b) PROVE Leads
  <2>1. main.at = b /\ full' = full \ {b}
    BY <1>8 DEF DrainRead, Done, MainAt, ReadBuffer
  <2>2. main.left >= 1 /\ (b = "RXB0" /\ "RXB1" \in main.todo => "RXB1" \in full)
    BY <2>1 DEF ReceiveInv, MainReadsFull
  <2>3. main.left - 1 \in 0..DrainFrames
    BY <1>0, <2>2, CanConstants
  <2>4. CASE main' = Finish
    BY <2>4, FinishIs, LeadsElsewhere, PlacesAre
  <2>5. CASE main' \in Again(main.left - 1)
    <3>1. main' \in MainStates /\ (main'.at = "end" \/ (main'.at = "status" /\ main'.left >= 1))
      BY <2>3, <2>5, AgainIs
    <3> QED
      BY <3>1, PlacesAre DEF Leads
  <2>6. CASE /\ b = "RXB0" /\ "RXB1" \in main.todo /\ main.left > 1
             /\ main' = [main EXCEPT !.at = "RXB1", !.left = main.left - 1]
    <3>1. main' = [at |-> "RXB1", todo |-> main.todo, left |-> main.left - 1, poll |-> main.poll]
      BY <1>0, <2>6 DEF MainStates
    <3>2. main' \in MainStates /\ main'.at = "RXB1" /\ main'.left = main.left - 1
      BY <1>0, <2>3, <3>1, GoesTo, MainFields, PlacesAre
    <3>3. main.left - 1 >= 1 /\ "RXB1" \in full'
      BY <1>0, <2>1, <2>2, <2>6
    <3> QED
      BY <3>2, <3>3 DEF Leads
  <2>7. \/ main' = Finish \/ main' \in Again(main.left - 1)
        \/ /\ b = "RXB0" /\ "RXB1" \in main.todo /\ main.left > 1
           /\ main' = [main EXCEPT !.at = "RXB1", !.left = main.left - 1]
    BY <1>8 DEF DrainRead, Again
  <2> QED
    BY <2>4, <2>5, <2>6, <2>7
<1>9. CASE DrainFails
  <2>1. main' = At("polled") \/ main' = Finish \/ main' = [main EXCEPT !.at = "unconsumed"]
    BY <1>9 DEF DrainFails
  <2>2. CASE main' = [main EXCEPT !.at = "unconsumed"]
    <3>1. main' = [at |-> "unconsumed", todo |-> main.todo, left |-> main.left, poll |-> main.poll]
      BY <1>0, <2>2 DEF MainStates
    <3>2. main' \in MainStates /\ main'.at = "unconsumed"
      BY <1>0, <3>1, GoesTo, MainFields, PlacesAre
    <3> QED
      BY <3>2, LeadsElsewhere, PlacesAre
  <2>3. CASE main' = At("polled") \/ main' = Finish
    <3>1. main' \in MainStates /\ main'.at \in {"polled", "process", "idle"}
      BY <1>p, <2>3, FinishIs, PlacesAre
    <3> QED
      BY <3>1, LeadsElsewhere, PlacesAre
  <2> QED
    BY <2>1, <2>2, <2>3
<1>10. CASE Dequeue
  <2>1. /\ main.at = "process" /\ main.left > 0
        /\ main' = [main EXCEPT !.left = main.left - 1] \/ main' = At("idle")
    BY <1>10 DEF Dequeue, MainAt
  <2>2. CASE main' = [main EXCEPT !.left = main.left - 1]
    <3>1. main' = [at |-> "process", todo |-> main.todo, left |-> main.left - 1, poll |-> main.poll]
      BY <1>0, <2>1, <2>2 DEF MainStates
    <3>2. main.left - 1 \in 0..DrainFrames
      BY <1>0, <2>1, CanConstants
    <3>3. main' \in MainStates /\ main'.at = "process"
      BY <1>0, <3>1, <3>2, GoesTo, MainFields, PlacesAre
    <3> QED
      BY <3>3, LeadsElsewhere, PlacesAre
  <2>3. CASE main' = At("idle")
    <3>1. main' \in MainStates /\ main'.at = "idle"
      BY <1>p, <2>3, PlacesAre
    <3> QED
      BY <3>1, LeadsElsewhere, PlacesAre
  <2> QED
    BY <2>1, <2>2, <2>3
<1>11. CASE Abort
  <2>1. main' = [At("purge") EXCEPT !.todo = Indices]
    BY <1>11 DEF Abort
  <2>2. main' = [at |-> "purge", todo |-> Indices, left |-> 0, poll |-> FALSE]
    BY <2>1 DEF At
  <2>3. /\ "purge" \in Places /\ 0 \in 0..DrainFrames
        /\ Indices \in (SUBSET Buffers) \cup (SUBSET Indices)
    <3>1. 0 \in 0..DrainFrames
      BY CanConstants
    <3>2. "purge" \in Places
      BY PlacesAre
    <3>3. Indices \in SUBSET Indices
      OBVIOUS
    <3>4. Indices \in (SUBSET Buffers) \cup (SUBSET Indices)
      BY <3>3
    <3> QED
      BY <3>1, <3>2, <3>4
  <2>4. main' \in MainStates /\ main'.at = "purge"
    BY <2>2, <2>3 DEF MainStates
  <2> QED
    BY <2>4, LeadsElsewhere, PlacesAre
<1>12. ASSUME NEW i \in Indices, Purge(i) PROVE Leads
  <2>1. /\ main.at = "purge"
        /\ main' = [main EXCEPT !.todo = main.todo \ {i}] \/ main' = At("reinit")
    BY <1>12 DEF Purge, MainAt
  <2>2. CASE main' = [main EXCEPT !.todo = main.todo \ {i}]
    <3>1. main' = [at |-> "purge", todo |-> main.todo \ {i}, left |-> main.left, poll |-> main.poll]
      BY <1>0, <2>1, <2>2 DEF MainStates
    <3>2. main.todo \ {i} \in (SUBSET Buffers) \cup (SUBSET Indices)
      BY <1>0, MainFields
    <3>3. main' \in MainStates /\ main'.at = "purge"
      BY <1>0, <3>1, <3>2, GoesTo, PlacesAre
    <3> QED
      BY <3>3, LeadsElsewhere, PlacesAre
  <2>3. CASE main' = At("reinit")
    <3>1. main' \in MainStates /\ main'.at = "reinit"
      BY <1>p, <2>3, PlacesAre
    <3> QED
      BY <3>1, LeadsElsewhere, PlacesAre
  <2> QED
    BY <2>1, <2>2, <2>3
<1>13. CASE Reinit \/ ResetDone \/ InitFails
  <2>1. main' \in {At("reset"), At("idle"), At("config")}
    BY <1>13 DEF Reinit, ResetDone, InitFails
  <2>2. main' \in MainStates /\ main'.at \in {"reset", "idle", "config"}
    BY <1>p, <2>1, PlacesAre
  <2> QED
    BY <2>2, LeadsElsewhere, PlacesAre
<1>14. CASE Configure
  <2>1. main.at = "config" /\ (main' = main \/ main' = At("idle"))
    BY <1>14 DEF Configure, MainAt
  <2>2. main' \in MainStates /\ main'.at \in {"config", "idle"}
    BY <1>0, <1>p, <2>1, PlacesAre
  <2> QED
    BY <2>2, LeadsElsewhere, PlacesAre
<1> QED
  BY <1>1, <1>2, <1>3, <1>4, <1>5, <1>6, <1>7, <1>8, <1>9, <1>10, <1>11, <1>12, <1>13, <1>14 DEF Main

-----------------------------------------------------------------------------
(* The control of the interrupt.                                           *)

LEMMA IrqFields ==
  ASSUME NEW q \in IrqStates
  PROVE  /\ q.at \in {"off", "status", "exit"} \cup Buffers /\ q.todo \in SUBSET Buffers
         /\ q.left \in 0..IrqFrames /\ q = [at |-> q.at, todo |-> q.todo, left |-> q.left]
BY DEF IrqStates

(* Where a step of the interrupt leads.                                    *)
IrqLeads ==
  /\ irq' \in IrqStates
  /\ irq'.at \in {"status"} \cup Buffers => irq'.left >= 1
  /\ irq'.at \in Buffers =>
       /\ irq'.at \in full'
       /\ irq'.at = "RXB0" /\ "RXB1" \in irq'.todo => "RXB1" \in full'

LEMMA IrqStands ==
  ASSUME irq' \in IrqStates, irq'.at \in {"off", "exit"}
  PROVE  IrqLeads
BY PlacesAre DEF IrqLeads

LEMMA IrqLeadsFrom ==
  ASSUME ReceiveInv, Irq
  PROVE  IrqLeads
<1>0. irq \in IrqStates /\ irq.left \in 0..IrqFrames /\ irq.todo \in SUBSET Buffers
      /\ full \subseteq Buffers
  BY IrqFields DEF ReceiveInv, Shapes, ControlShapes, DataShapes
<1>1. CASE IrqEnter
  <2>1. irq' = [at |-> "status", todo |-> {}, left |-> IrqFrames] \/ irq' = Off
    BY <1>1 DEF IrqEnter
  <2>2. CASE irq' = Off
    BY <2>2, OtherStates, IrqStands
  <2>3. CASE irq' = [at |-> "status", todo |-> {}, left |-> IrqFrames]
    <3>1. IrqFrames \in 0..IrqFrames /\ IrqFrames >= 1
      BY CanConstants
    <3>2. irq' \in IrqStates /\ irq'.at = "status" /\ irq'.left = IrqFrames
      BY <2>3, <3>1 DEF IrqStates
    <3> QED
      BY <3>1, <3>2, PlacesAre DEF IrqLeads
  <2> QED
    BY <2>1, <2>2, <2>3
<1>2. CASE IrqStatus
  <2>1. irq.at = "status" /\ full' = full
    BY <1>2 DEF IrqStatus, chipVars
  <2>2. CASE irq' = Leaving
    BY <2>2, OtherStates, IrqStands
  <2>3. CASE full # {} /\ irq' = [irq EXCEPT !.at = First(full), !.todo = full]
    <3> DEFINE b == First(full)
    <3>1. b \in full /\ b \in Buffers
      BY <1>0, <2>3, FirstIs
    <3>2. irq.left >= 1
      BY <2>1 DEF ReceiveInv, IrqReadsFull
    <3> HIDE DEF b
    <3>3. irq' = [at |-> b, todo |-> full, left |-> irq.left]
      BY <1>0, <2>3 DEF IrqStates, b
    <3>4. irq' \in IrqStates /\ irq'.at = b /\ irq'.todo = full /\ irq'.left = irq.left
      BY <1>0, <3>1, <3>3 DEF IrqStates
    <3> QED
      BY <2>1, <3>1, <3>2, <3>4 DEF IrqLeads
  <2> QED
    BY <1>2, <2>2, <2>3 DEF IrqStatus
<1>3. CASE IrqExit
  BY <1>3, OtherStates, IrqStands DEF IrqExit
<1>4. ASSUME NEW b \in Buffers, IrqRead(b) PROVE IrqLeads
  <2>1. irq.at = b /\ full' = full \ {b}
    BY <1>4 DEF IrqRead, ReadBuffer
  <2>2. irq.left >= 1 /\ (b = "RXB0" /\ "RXB1" \in irq.todo => "RXB1" \in full)
    BY <2>1 DEF ReceiveInv, IrqReadsFull
  <2>3. \/ irq' = Leaving
        \/ /\ irq.left # 1 /\ b = "RXB0" /\ "RXB1" \in irq.todo
           /\ irq' = [irq EXCEPT !.at = "RXB1", !.left = @ - 1]
        \/ irq.left # 1 /\ irq' = [irq EXCEPT !.at = "status", !.todo = {}, !.left = @ - 1]
    BY <1>4 DEF IrqRead
  <2>4. irq.left # 1 => irq.left - 1 \in 0..IrqFrames /\ irq.left - 1 >= 1
    BY <1>0, <2>2, CanConstants
  <2>5. CASE irq' = Leaving
    BY <2>5, OtherStates, IrqStands
  <2>6. CASE /\ irq.left # 1 /\ b = "RXB0" /\ "RXB1" \in irq.todo
             /\ irq' = [irq EXCEPT !.at = "RXB1", !.left = @ - 1]
    <3>1. irq' = [at |-> "RXB1", todo |-> irq.todo, left |-> irq.left - 1]
      BY <1>0, <2>6 DEF IrqStates
    <3>2. irq' \in IrqStates /\ irq'.at = "RXB1" /\ irq'.left = irq.left - 1
      BY <1>0, <2>4, <2>6, <3>1, PlacesAre DEF IrqStates
    <3>3. "RXB1" \in full'
      BY <2>1, <2>2, <2>6
    <3> QED
      BY <2>4, <2>6, <3>2, <3>3 DEF IrqLeads
  <2>7. CASE irq.left # 1 /\ irq' = [irq EXCEPT !.at = "status", !.todo = {}, !.left = @ - 1]
    <3>1. irq' = [at |-> "status", todo |-> {}, left |-> irq.left - 1]
      BY <1>0, <2>7 DEF IrqStates
    <3>2. irq' \in IrqStates /\ irq'.at = "status" /\ irq'.left = irq.left - 1
      BY <1>0, <2>4, <2>7, <3>1 DEF IrqStates
    <3> QED
      BY <2>4, <2>7, <3>2, PlacesAre DEF IrqLeads
  <2> QED
    BY <2>3, <2>5, <2>6, <2>7
<1>5. ASSUME NEW b \in Buffers, IrqReadTimesOut(b) PROVE IrqLeads
  BY <1>5, OtherStates, IrqStands DEF IrqReadTimesOut
<1> QED
  BY <1>1, <1>2, <1>3, <1>4, <1>5 DEF Irq

(* While an interrupt runs, or a frame arrives, the main loop stands still.*)
LEMMA IrqAlone ==
  ASSUME ReceiveInv, Irq \/ Arrive
  PROVE  main' = main /\ canOk' = canOk /\ recoveries' = recoveries
BY DEF Irq, Arrive, IrqEnter, IrqStatus, IrqExit, IrqRead, IrqReadTimesOut, flagVars, boundVars

-----------------------------------------------------------------------------
(* What a step does with the frames: one of seven things.                  *)

Untouched == UNCHANGED <<buf, full, received, queueVars, handled, lost, boundary>>
Reads ==
  /\ main.at \in Buffers \/ irq.at \in Buffers
  /\ \E b \in full : ReadBuffer(b)
  /\ UNCHANGED <<handled, boundary>>
Loses == (\E b \in Buffers : LoseBuffer(b)) /\ UNCHANGED <<handled, boundary>>
Purges == \E i \in Indices : Purge(i)
Resets == main.at = "reset" /\ ChipReset /\ UNCHANGED <<queueVars, handled>>
Kinds == Untouched \/ Arrive \/ Reads \/ Loses \/ Dequeue \/ Purges \/ Resets

LEMMA KindOf ==
  ASSUME ReceiveInv, [ReceiveNext]_receiveVars
  PROVE  Kinds
<1>1. CASE Arrive
  BY <1>1 DEF Kinds
<1>2. CASE Irq
  <2>1. CASE IrqEnter \/ IrqStatus \/ IrqExit
    BY <2>1 DEF IrqEnter, IrqStatus, IrqExit, Kinds, Untouched, chipVars
  <2>2. ASSUME NEW b \in Buffers, IrqRead(b) PROVE Reads
    BY <2>2 DEF IrqRead, Reads, ReceiveInv, IrqReadsFull
  <2>3. ASSUME NEW b \in Buffers, IrqReadTimesOut(b) PROVE Loses
    BY <2>3 DEF IrqReadTimesOut, Loses
  <2> QED
    BY <1>2, <2>1, <2>2, <2>3 DEF Irq, Kinds
<1>3. CASE Main
  <2>1. CASE PollHealth \/ HealthRead \/ LiveRecovery \/ Poll \/ PollRealtime \/ Claim
    BY <2>1 DEF PollHealth, HealthRead, LiveRecovery, Poll, PollRealtime, Claim, chipVars,
                Kinds, Untouched
  <2>2. CASE DrainStatus \/ DrainChecksInt \/ DrainErrif \/ DrainClears \/ ProcessDone
    BY <2>2 DEF DrainStatus, DrainChecksInt, DrainErrif, DrainClears, ProcessDone, chipVars,
                ClearErrif, Kinds, Untouched
  <2>3. ASSUME NEW b \in Buffers, DrainRead(b) PROVE Reads
    BY <2>3 DEF DrainRead, Reads, Done, MainAt, ReceiveInv, MainReadsFull
  <2>4. CASE DrainFails
    <3>1. handled' = handled /\ boundary' = boundary
      BY <2>4 DEF DrainFails, Failed
    <3>2. Loses \/ Untouched
      BY <2>4, <3>1 DEF DrainFails, Loses, Untouched, chipVars
    <3> QED
      BY <3>2 DEF Kinds
  <2>5. CASE Abort \/ Reinit \/ Configure
    BY <2>5 DEF Abort, Reinit, Configure, Failed, chipVars, Kinds, Untouched
  <2>6. CASE ResetDone
    BY <2>6 DEF ResetDone, Done, MainAt, Resets, Kinds
  <2>7. CASE InitFails
    <3>1. handled' = handled /\ UNCHANGED queueVars
      BY <2>7 DEF InitFails, Failed
    <3>2. Resets \/ Untouched
      BY <2>7, <3>1 DEF InitFails, Failed, Done, MainAt, Resets, Untouched, chipVars
    <3> QED
      BY <3>2 DEF Kinds
  <2> QED
    BY <1>3, <2>1, <2>2, <2>3, <2>4, <2>5, <2>6, <2>7 DEF Main, Kinds, Purges
<1>4. CASE UNCHANGED receiveVars
  BY <1>4 DEF receiveVars, chipVars, Kinds, Untouched
<1> QED
  BY <1>1, <1>2, <1>3, <1>4 DEF ReceiveNext

(* A purge ends by its last store only; live recoveries are only counted   *)
(* up.                                                                     *)
LEMMA PurgeEnds ==
  ASSUME ReceiveInv, [ReceiveNext]_receiveVars, main.at = "purge", main'.at # "purge"
  PROVE  \E i \in Indices : Purge(i) /\ main.todo = {i}
<1>1. CASE Arrive \/ Irq
  BY <1>1, IrqAlone
<1>2. CASE Main
  <2>1. \E i \in Indices : Purge(i)
    <3>1. ~(PollHealth \/ HealthRead \/ LiveRecovery \/ Poll \/ PollRealtime \/ Claim)
      BY DEF PollHealth, HealthRead, LiveRecovery, Poll, PollRealtime, Claim, MainAt, Done, Transfers
    <3>2. ~(DrainStatus \/ DrainErrif \/ DrainClears \/ ProcessDone \/ Dequeue)
      BY DEF DrainStatus, DrainErrif, DrainClears, ProcessDone, Dequeue, MainAt, Done
    <3>3. ~DrainChecksInt
      BY DEF DrainChecksInt, IntChecks
    <3>4. ~(DrainFails \/ \E b \in Buffers : DrainRead(b))
      BY DEF DrainFails, DrainRead, Failed, MainAt, Done, Buffers
    <3>5. ~(Abort \/ Reinit \/ ResetDone \/ Configure \/ InitFails)
      BY DEF Abort, Reinit, ResetDone, Configure, InitFails, Failed, MainAt, Done
    <3> QED
      BY <1>2, <3>1, <3>2, <3>3, <3>4, <3>5 DEF Main
  <2>2. PICK i \in Indices : Purge(i)
    BY <2>1
  <2>3. main \in MainStates
    BY DEF ReceiveInv, Shapes, ControlShapes
  <2>4. ~(main' = [main EXCEPT !.todo = @ \ {i}])
    BY <2>3 DEF MainStates
  <2> QED
    BY <2>2, <2>4 DEF Purge
<1>3. CASE UNCHANGED receiveVars
  BY <1>3 DEF receiveVars
<1> QED
  BY <1>1, <1>2, <1>3 DEF ReceiveNext

LEMMA RecoveriesGrow ==
  ASSUME ReceiveInv, [ReceiveNext]_receiveVars
  PROVE  recoveries' = recoveries \/ (LiveRecovery /\ recoveries' = recoveries + 1)
<1>1. CASE Arrive \/ Irq
  BY <1>1, IrqAlone
<1>2. CASE Main
  BY <1>2 DEF Main, PollHealth, HealthRead, LiveRecovery, Poll, PollRealtime, Claim, DrainStatus,
              DrainChecksInt, DrainErrif, DrainClears, ProcessDone, Dequeue, DrainRead, DrainFails,
              Failed, Abort, Purge, Reinit, ResetDone, Configure, InitFails, boundVars
<1>3. CASE UNCHANGED receiveVars
  BY <1>3 DEF receiveVars, boundVars
<1> QED
  BY <1>1, <1>2, <1>3 DEF ReceiveNext

-----------------------------------------------------------------------------
(* The types and the control are kept.                                     *)

LEMMA FlagsAreKept ==
  ASSUME ControlShapes, [ReceiveNext]_receiveVars
  PROVE  /\ err' \in BOOLEAN /\ normal' \in BOOLEAN /\ exti' \in BOOLEAN
         /\ intPending' \in BOOLEAN /\ canOk' \in BOOLEAN /\ recoveryPending' \in BOOLEAN
         /\ spiBusy' \in BOOLEAN
<1> USE DEF ControlShapes
<1>1. CASE Arrive
  BY <1>1 DEF Arrive, flagVars
<1>2. CASE Irq
  BY <1>2 DEF Irq, IrqEnter, IrqStatus, IrqExit, IrqRead, IrqReadTimesOut, ReadBuffer, LoseBuffer,
              chipVars, flagVars
<1>3. CASE PollHealth \/ HealthRead \/ LiveRecovery
  BY <1>3 DEF PollHealth, HealthRead, LiveRecovery, RecoverBegin, Done, chipVars, flagVars
<1>10. CASE Poll \/ PollRealtime \/ Claim
  BY <1>10 DEF Poll, PollRealtime, Claim, RecoverBegin, Done, chipVars, flagVars
<1>4. CASE DrainStatus \/ DrainChecksInt \/ DrainErrif \/ DrainClears
  BY <1>4 DEF DrainStatus, DrainChecksInt, DrainErrif, DrainClears, ClearErrif, Done, chipVars,
              flagVars
<1>5. CASE (\E b \in Buffers : DrainRead(b)) \/ DrainFails
  BY <1>5 DEF DrainRead, DrainFails, Failed, ReadBuffer, LoseBuffer, Done, chipVars
<1>6. CASE Dequeue \/ ProcessDone \/ (\E i \in Indices : Purge(i))
  BY <1>6 DEF Dequeue, ProcessDone, Purge, chipVars, flagVars
<1>7. CASE Abort \/ Reinit \/ ResetDone
  BY <1>7 DEF Abort, Reinit, ResetDone, Failed, Done, ChipReset, chipVars
<1>8. CASE Configure \/ InitFails
  BY <1>8 DEF Configure, InitFails, Failed, Done, ChipReset, chipVars
<1>9. CASE UNCHANGED receiveVars
  BY <1>9 DEF receiveVars, chipVars, flagVars
<1> QED
  BY <1>1, <1>2, <1>3, <1>4, <1>5, <1>6, <1>7, <1>8, <1>9, <1>10 DEF ReceiveNext, Main

LEMMA FaultsGrow ==
  ASSUME [ReceiveNext]_receiveVars
  PROVE  faults' = faults \/ (faults < MaxFaults /\ faults' = faults + 1)
<1>1. CASE Arrive \/ Irq
  BY <1>1 DEF Arrive, Irq, IrqEnter, IrqStatus, IrqExit, IrqRead, IrqReadTimesOut, boundVars
<1>2. CASE Main
  BY <1>2 DEF Main, PollHealth, HealthRead, LiveRecovery, Poll, PollRealtime, Claim, DrainStatus,
              DrainChecksInt, DrainErrif, DrainClears, ProcessDone, Dequeue, DrainRead, DrainFails,
              Failed, Abort, Purge, Reinit, ResetDone, Configure, InitFails, boundVars
<1>3. CASE UNCHANGED receiveVars
  BY <1>3 DEF receiveVars, boundVars
<1> QED
  BY <1>1, <1>2, <1>3 DEF ReceiveNext

LEMMA ControlShapesStep ==
  ASSUME ReceiveInv, [ReceiveNext]_receiveVars
  PROVE  ControlShapes'
<1>0. ControlShapes
  BY DEF ReceiveInv, Shapes
<1>1. main' \in MainStates /\ irq' \in IrqStates
  <2>1. CASE Arrive
    BY <1>0, <2>1 DEF Arrive, ControlShapes
  <2>2. CASE Irq
    BY <1>0, <2>2, IrqAlone, IrqLeadsFrom DEF IrqLeads, ControlShapes
  <2>3. CASE Main
    BY <1>0, <2>3, MainAlone, LeadsFrom DEF Leads, ControlShapes
  <2>4. CASE UNCHANGED receiveVars
    BY <1>0, <2>4 DEF receiveVars, ControlShapes
  <2> QED
    BY <2>1, <2>2, <2>3, <2>4 DEF ReceiveNext
<1>2. faults' \in 0..MaxFaults
  BY <1>0, FaultsGrow, CanConstants DEF ControlShapes
<1>3. recoveries' \in 0..MaxLiveRecoveries
  BY <1>0, RecoveriesGrow, CanConstants DEF ControlShapes, LiveRecovery
<1> QED
  BY <1>0, <1>1, <1>2, <1>3, FlagsAreKept DEF ControlShapes

LEMMA ReadsFullStep ==
  ASSUME ReceiveInv, [ReceiveNext]_receiveVars
  PROVE  MainReadsFull' /\ IrqReadsFull'
<1>0. MainReadsFull /\ IrqReadsFull
  BY DEF ReceiveInv
<1>1. CASE Arrive
  <2>1. main' = main /\ irq' = irq /\ full \subseteq full' /\ exti' = (exti \/ ~IntLow)
    BY <1>1 DEF Arrive
  <2>2. full # {} /\ ~exti => ~exti'
    BY <2>1 DEF IntLow
  <2> QED
    BY <1>0, <2>1, <2>2 DEF MainReadsFull, IrqReadsFull
<1>2. CASE Irq
  <2>1. exti \/ irq.at # "off"
    BY <1>2 DEF Irq, IrqEnter, IrqStatus, IrqExit, IrqRead, IrqReadTimesOut, Buffers
  <2>2. main.at \notin Buffers
    BY <1>0, <2>1 DEF MainReadsFull
  <2>3. main' = main
    BY <1>2, IrqAlone
  <2>4. MainReadsFull'
    BY <1>0, <2>2, <2>3 DEF MainReadsFull
  <2> QED
    BY <1>2, <2>4, IrqLeadsFrom DEF IrqLeads, IrqReadsFull
<1>3. CASE Main
  <2>1. irq.at = "off" /\ ~exti /\ irq' = irq /\ exti' = exti
    BY <1>3, MainAlone
  <2>2. IrqReadsFull'
    BY <2>1 DEF IrqReadsFull, Buffers
  <2>3. MainReadsFull'
    BY <1>3, <2>1, LeadsFrom DEF Leads, MainReadsFull
  <2> QED
    BY <2>2, <2>3
<1>4. CASE UNCHANGED receiveVars
  BY <1>0, <1>4 DEF receiveVars, chipVars, MainReadsFull, IrqReadsFull
<1> QED
  BY <1>1, <1>2, <1>3, <1>4 DEF ReceiveNext

-----------------------------------------------------------------------------
(* The data are kept, whatever recoveries do.                              *)

(* A frame is put in the queue, or lost where the queue is full.           *)
Refused(f) == count = QueueSlots /\ lost' = lost \cup {f} /\ UNCHANGED queueVars
Taken(f) ==
  /\ count < QueueSlots /\ count' = count + 1 /\ lost' = lost
  /\ slots' = [slots EXCEPT ![rawHead] = f] /\ rawTail' = rawTail
  /\ rawHead' = (rawHead + 1) % QueueSlots
  /\ fifo' = Append(fifo, f) /\ fifo' \in Seq(Frames) /\ Len(fifo') = Len(fifo) + 1
  /\ fifo'[Len(fifo) + 1] = f
  /\ \A i \in 1..Len(fifo) : fifo'[i] = fifo[i]

LEMMA QueueTypes ==
  ASSUME ReceiveInv
  PROVE  /\ fifo \in Seq(Frames) /\ Len(fifo) \in Nat /\ count \in Nat /\ count <= QueueSlots
         /\ \A i \in 1..Len(fifo) : fifo[i] \in Frames
         /\ received \in Nat /\ received <= MaxFrames /\ 1..received \subseteq Frames
BY CanConstants DEF ReceiveInv, Shapes, DataShapes, Frames

LEMMA EnqueueDoes ==
  ASSUME ReceiveInv, NEW f \in 1..received, Enqueue(f)
  PROVE  Refused(f) \/ Taken(f)
<1>0. f \in Frames
  BY QueueTypes
<1>1. CASE count >= QueueSlots /\ lost' = lost \cup {f} /\ UNCHANGED queueVars
  BY <1>1, QueueTypes, CanConstants DEF Refused
<1>2. CASE count < QueueSlots /\ ~(count >= QueueSlots)
  <2>1. /\ slots' = [slots EXCEPT ![rawHead] = f]
        /\ rawHead' = (rawHead + 1) % QueueSlots /\ count' = count + 1
        /\ fifo' = Append(fifo, f) /\ rawTail' = rawTail /\ lost' = lost
    BY <1>2 DEF Enqueue
  <2>2. /\ fifo' \in Seq(Frames) /\ Len(fifo') = Len(fifo) + 1 /\ fifo'[Len(fifo) + 1] = f
        /\ \A i \in 1..Len(fifo) : fifo'[i] = fifo[i]
    BY <1>0, <2>1, QueueTypes, AppendProperties
  <2> QED
    BY <1>2, <2>1, <2>2 DEF Taken
<1> QED
  BY <1>1, <1>2, QueueTypes, CanConstants DEF Enqueue

LEMMA ReadsDo ==
  ASSUME ReceiveInv, Reads
  PROVE  \E b \in full : /\ full' = full \ {b} /\ buf[b] \in 1..received
                         /\ Refused(buf[b]) \/ Taken(buf[b])
                         /\ UNCHANGED <<buf, received, handled, boundary>>
<1>1. PICK b \in full : ReadBuffer(b)
  BY DEF Reads
<1>2. buf[b] \in 1..received
  BY DEF ReceiveInv, Filled
<1>3. full' = full \ {b} /\ Enqueue(buf[b]) /\ UNCHANGED <<buf, received, handled, boundary>>
  BY <1>1 DEF ReadBuffer, Reads
<1> QED
  BY <1>2, <1>3, EnqueueDoes

LEMMA DequeueDoes ==
  ASSUME ReceiveInv, Dequeue
  PROVE  /\ main.at = "process" /\ fifo # <<>> /\ count > 0 /\ count' = count - 1
         /\ count <= Len(fifo) /\ rawTail' = (rawTail + 1) % QueueSlots
         /\ fifo' \in Seq(Frames) /\ Len(fifo') = Len(fifo) - 1
         /\ \A i \in 1..(Len(fifo) - 1) : fifo'[i] = fifo[i + 1]
         /\ slots[rawTail] \in 0..received
         /\ handled' = handled \cup ({slots[rawTail]} \ {0})
         /\ UNCHANGED <<buf, full, received, slots, rawHead, lost, boundary>>
<1>1. /\ main.at = "process" /\ count > 0 /\ count' = count - 1
      /\ rawTail' = (rawTail + 1) % QueueSlots
      /\ handled' = handled \cup ({slots[rawTail]} \ {0})
      /\ UNCHANGED <<buf, full, received, slots, rawHead, lost, boundary>>
      /\ fifo' = IF fifo = <<>> THEN fifo ELSE Tail(fifo)
  BY DEF Dequeue, MainAt, chipVars
<1>2. count <= Len(fifo)
  BY DEF ReceiveInv, QueueCounted
<1>3. fifo # <<>>
  BY <1>1, <1>2, QueueTypes, EmptySeq
<1>4. fifo' \in Seq(Frames) /\ Len(fifo') = Len(fifo) - 1
      /\ \A i \in 1..(Len(fifo) - 1) : fifo'[i] = fifo[i + 1]
  BY <1>1, <1>3, QueueTypes, HeadTailProperties
<1>5. slots[rawTail] \in 0..received
  BY DEF ReceiveInv, OnlyCame, Shapes, DataShapes
<1> QED
  BY <1>1, <1>2, <1>3, <1>4, <1>5

(* A store of the purge before the last, and the last.                     *)
Stored(i) ==
  /\ main.at = "purge" /\ i \in main.todo
  /\ rawHead' = (IF i = "head" THEN 0 ELSE rawHead)
  /\ rawTail' = (IF i = "tail" THEN 0 ELSE rawTail)
  /\ count' = (IF i = "count" THEN 0 ELSE count)
  /\ UNCHANGED <<buf, full, received, slots, handled, boundary>>
StoredFirst(i) ==
  /\ Stored(i) /\ main'.at = "purge" /\ main'.todo = main.todo \ {i}
  /\ UNCHANGED <<fifo, lost>>
StoredLast(i) ==
  /\ Stored(i) /\ main'.at = "reinit" /\ main.todo = {i}
  /\ fifo' \in Seq(Frames) /\ Len(fifo') = count'
  /\ \A j \in 1..count' : fifo'[j] = fifo[Len(fifo) - count' + j]
  /\ lost' = lost \cup {fifo[j] : j \in 1..(Len(fifo) - count')}

LEMMA PurgeDoes ==
  ASSUME ReceiveInv, NEW i \in Indices, Purge(i)
  PROVE  /\ count' \in 0..Len(fifo) /\ count' \in 0..QueueSlots
         /\ StoredFirst(i) \/ StoredLast(i)
<1>1. Stored(i)
  BY DEF Purge, MainAt, Stored, chipVars
<1>2. count <= Len(fifo)
  BY DEF ReceiveInv, QueueCounted
<1>3. count' \in 0..Len(fifo) /\ count' \in 0..QueueSlots
  <2>1. count' = 0 \/ count' = count
    BY <1>1 DEF Stored
  <2> QED
    BY <1>2, <2>1, QueueTypes, CanConstants
<1>4. CASE /\ main.todo # {i} /\ main' = [main EXCEPT !.todo = main.todo \ {i}]
           /\ UNCHANGED <<fifo, lost>>
  <2>1. main \in MainStates
    BY DEF ReceiveInv, Shapes, ControlShapes
  <2>2. main'.at = main.at /\ main'.todo = main.todo \ {i}
    BY <1>4, <2>1 DEF MainStates
  <2> QED
    BY <1>1, <1>3, <1>4, <2>2 DEF StoredFirst, Stored
<1>5. CASE /\ main.todo = {i} /\ main' = At("reinit")
           /\ fifo' = SubSeq(fifo, Len(fifo) + 1 - count', Len(fifo))
           /\ lost' = lost \cup {fifo[j] : j \in 1..(Len(fifo) - count')}
  <2> DEFINE m == Len(fifo) + 1 - count'
             n == Len(fifo)
  <2>1. m \in Int /\ n \in Int /\ m >= 1 /\ n - m + 1 = count' /\ (m <= n \/ count' = 0)
    BY <1>3, QueueTypes
  <2>2. \A j \in m..n : fifo[j] \in Frames
    BY <2>1, QueueTypes
  <2>3. fifo' = SubSeq(fifo, m, n)
    BY <1>5
  <2> HIDE DEF m, n
  <2>4. /\ SubSeq(fifo, m, n) \in Seq(Frames)
        /\ Len(SubSeq(fifo, m, n)) = IF m <= n THEN n - m + 1 ELSE 0
        /\ \A j \in 1..(n - m + 1) : SubSeq(fifo, m, n)[j] = fifo[m + j - 1]
    BY <2>1, <2>2, SubSeqProperties
  <2>5. fifo' \in Seq(Frames) /\ Len(fifo') = count'
    BY <2>1, <2>3, <2>4
  <2>6. \A j \in 1..count' : fifo'[j] = fifo[m + j - 1]
    BY <2>1, <2>3, <2>4
  <2>7. \A j \in 1..count' : m + j - 1 = Len(fifo) - count' + j
    BY <1>3, QueueTypes DEF m
  <2>8. main'.at = "reinit"
    BY <1>5, AtIs, PlacesAre
  <2> QED
    BY <1>1, <1>3, <1>5, <2>5, <2>6, <2>7, <2>8 DEF StoredLast
<1> QED
  BY <1>3, <1>4, <1>5 DEF Purge

LEMMA DataShapesStep ==
  ASSUME ReceiveInv, [ReceiveNext]_receiveVars
  PROVE  DataShapes'
<1>0. DataShapes /\ Filled /\ OnlyCame
  BY DEF ReceiveInv, Shapes
<1>1. CASE Untouched
  BY <1>0, <1>1 DEF Untouched, queueVars, DataShapes
<1>2. CASE Arrive
  <2>1. /\ received < MaxFrames /\ received' = received + 1 /\ boundary' = boundary
        /\ UNCHANGED <<queueVars, handled>>
    BY <1>2 DEF Arrive
  <2>2. received' \in 0..MaxFrames /\ boundary' \in 0..received' /\ received' \in Frames
    BY <1>0, <2>1, QueueTypes, CanConstants DEF DataShapes, Frames
  <2>3. buf' \in [Buffers -> 0..MaxFrames] /\ full' \subseteq Buffers /\ lost' \subseteq Frames
    BY <1>0, <1>2, <2>2 DEF Arrive, DataShapes
  <2> QED
    BY <1>0, <2>1, <2>2, <2>3 DEF DataShapes, queueVars
<1>3. CASE Reads
  <2>1. PICK b \in full : /\ full' = full \ {b} /\ buf[b] \in 1..received
                          /\ Refused(buf[b]) \/ Taken(buf[b])
                          /\ UNCHANGED <<buf, received, handled, boundary>>
    BY <1>3, ReadsDo
  <2>2. buf[b] \in Frames /\ buf[b] \in 0..MaxFrames
    <3>1. buf[b] \in Frames
      BY <2>1, QueueTypes
    <3> QED
      BY <3>1, CanConstants DEF Frames
  <2>3. CASE Refused(buf[b])
    BY <1>0, <2>1, <2>2, <2>3 DEF DataShapes, Refused, queueVars
  <2>4. CASE Taken(buf[b])
    <3>1. /\ count < QueueSlots /\ count' = count + 1 /\ lost' = lost
          /\ slots' = [slots EXCEPT ![rawHead] = buf[b]] /\ rawTail' = rawTail
          /\ rawHead' = (rawHead + 1) % QueueSlots /\ fifo' \in Seq(Frames)
      BY <2>4 DEF Taken
    <3>2. slots' \in [0..(QueueSlots - 1) -> 0..MaxFrames]
      BY <1>0, <2>2, <3>1 DEF DataShapes
    <3>3. rawHead' \in 0..(QueueSlots - 1) /\ count' \in 0..QueueSlots
      BY <1>0, <3>1, CanConstants DEF DataShapes
    <3> QED
      BY <1>0, <2>1, <3>1, <3>2, <3>3 DEF DataShapes
  <2> QED
    BY <2>1, <2>3, <2>4
<1>4. CASE Loses
  <2>1. PICK b \in Buffers : LoseBuffer(b)
    BY <1>4 DEF Loses
  <2>2. /\ full' \subseteq full /\ UNCHANGED <<buf, received, queueVars, handled, boundary>>
        /\ lost' = lost \/ (b \in full /\ lost' = lost \cup {buf[b]})
    BY <1>4, <2>1 DEF LoseBuffer, Loses
  <2>3. b \in full => buf[b] \in Frames
    BY <1>0, QueueTypes DEF Filled
  <2>4. lost' \subseteq Frames
    BY <1>0, <2>2, <2>3 DEF DataShapes
  <2> QED
    BY <1>0, <2>2, <2>4 DEF DataShapes, queueVars
<1>5. CASE Dequeue
  <2>1. rawTail' \in 0..(QueueSlots - 1) /\ count' \in 0..QueueSlots
    BY <1>0, <1>5, DequeueDoes, CanConstants DEF DataShapes
  <2>2. handled' \subseteq Frames
    <3>1. slots[rawTail] # 0 => slots[rawTail] \in Frames
      BY <1>5, DequeueDoes, QueueTypes
    <3> QED
      BY <1>0, <1>5, <3>1, DequeueDoes DEF DataShapes
  <2> QED
    BY <1>0, <1>5, <2>1, <2>2, DequeueDoes DEF DataShapes
<1>6. CASE Purges
  <2>1. PICK i \in Indices : Purge(i)
    BY <1>6 DEF Purges
  <2>2. count' \in 0..QueueSlots /\ Stored(i) /\ count' \in 0..Len(fifo)
        /\ (StoredFirst(i) \/ StoredLast(i))
    BY <2>1, PurgeDoes DEF StoredFirst, StoredLast
  <2>3. rawHead' \in 0..(QueueSlots - 1) /\ rawTail' \in 0..(QueueSlots - 1)
    BY <1>0, <2>2, CanConstants DEF Stored, DataShapes
  <2>4. fifo' \in Seq(Frames) /\ lost' \subseteq Frames
    <3>1. CASE StoredFirst(i)
      BY <1>0, <3>1 DEF StoredFirst, DataShapes
    <3>2. CASE StoredLast(i)
      <4>1. \A j \in 1..(Len(fifo) - count') : fifo[j] \in Frames
        BY <2>2, QueueTypes
      <4> QED
        BY <1>0, <3>2, <4>1 DEF StoredLast, DataShapes
    <3> QED
      BY <2>2, <3>1, <3>2
  <2> QED
    BY <1>0, <2>2, <2>3, <2>4 DEF DataShapes, Stored
<1>7. CASE Resets
  <2>1. /\ full' = {} /\ boundary' = received /\ lost' = lost \cup {buf[b] : b \in full}
        /\ UNCHANGED <<buf, received, queueVars, handled>>
    BY <1>7 DEF Resets, ChipReset
  <2>2. \A b \in full : buf[b] \in Frames
    BY <1>0, QueueTypes DEF Filled
  <2>3. received \in 0..received
    BY QueueTypes
  <2> QED
    BY <1>0, <2>1, <2>2, <2>3 DEF DataShapes, queueVars
<1> QED
  BY <1>1, <1>2, <1>3, <1>4, <1>5, <1>6, <1>7, KindOf DEF Kinds

LEMMA QueueCountedStep ==
  ASSUME ReceiveInv, [ReceiveNext]_receiveVars
  PROVE  QueueCounted'
<1>0. count <= Len(fifo) /\ (main.at # "purge" => count = Len(fifo))
  BY DEF ReceiveInv, QueueCounted
<1>1. CASE Purges
  <2>1. PICK i \in Indices : Purge(i)
    BY <1>1 DEF Purges
  <2>2. CASE StoredFirst(i)
    BY <2>1, <2>2, PurgeDoes DEF StoredFirst, QueueCounted
  <2>3. CASE StoredLast(i)
    BY <2>1, <2>3, PurgeDoes DEF StoredLast, QueueCounted
  <2> QED
    BY <2>1, <2>2, <2>3, PurgeDoes
<1>2. CASE ~Purges
  <2>1. main'.at # "purge" => main.at # "purge"
    BY <1>2, PurgeEnds DEF Purges
  <2>2. CASE UNCHANGED <<count, fifo>>
    BY <1>0, <2>1, <2>2 DEF QueueCounted
  <2>3. CASE Reads
    <3>1. UNCHANGED <<count, fifo>> \/ (count' = count + 1 /\ Len(fifo') = Len(fifo) + 1)
      BY <2>3, ReadsDo DEF Refused, Taken, queueVars
    <3>2. CASE count' = count + 1 /\ Len(fifo') = Len(fifo) + 1
      BY <1>0, <2>1, <3>2, QueueTypes DEF QueueCounted
    <3> QED
      BY <2>2, <3>1, <3>2
  <2>4. CASE Dequeue
    <3>1. /\ count' = count - 1 /\ Len(fifo') = Len(fifo) - 1 /\ main.at = "process"
      BY <2>4, DequeueDoes
    <3> QED
      BY <1>0, <3>1, QueueTypes DEF QueueCounted
  <2>5. Untouched \/ Arrive \/ Loses \/ Resets => UNCHANGED <<count, fifo>>
    BY DEF Untouched, Arrive, Loses, LoseBuffer, Resets, queueVars
  <2> QED
    BY <1>2, <2>2, <2>3, <2>4, <2>5, KindOf DEF Kinds
<1> QED
  BY <1>1, <1>2

LEMMA FilledStep ==
  ASSUME ReceiveInv, [ReceiveNext]_receiveVars
  PROVE  Filled'
<1>0. Filled /\ received \in Nat
  BY QueueTypes DEF ReceiveInv
<1>1. CASE Arrive
  <2>1. received' = received + 1
    BY <1>1 DEF Arrive
  <2>2. CASE UNCHANGED <<buf, full>>
    BY <1>0, <2>1, <2>2 DEF Filled
  <2>3. ASSUME NEW b \in Buffers, buf' = [buf EXCEPT ![b] = received'], full' = full \cup {b}
        PROVE  Filled'
    <3>1. buf'[b] = received' /\ \A c \in full : c # b => buf'[c] = buf[c]
      BY <2>3 DEF ReceiveInv, Shapes, DataShapes
    <3> QED
      BY <1>0, <2>1, <2>3, <3>1 DEF Filled
  <2> QED
    BY <1>1, <2>2, <2>3 DEF Arrive
<1>2. Untouched \/ Reads \/ Loses \/ Dequeue \/ Purges \/ Resets
        => buf' = buf /\ received' = received /\ full' \subseteq full
  <2>1. Untouched \/ Loses \/ Purges \/ Resets \/ Dequeue
          => buf' = buf /\ received' = received /\ full' \subseteq full
    BY DEF Untouched, Loses, LoseBuffer, Purges, Purge, Resets, ChipReset, Dequeue, chipVars
  <2>2. Reads => buf' = buf /\ received' = received /\ full' \subseteq full
    BY ReadsDo
  <2> QED
    BY <2>1, <2>2
<1> QED
  BY <1>0, <1>1, <1>2, KindOf DEF Kinds, Filled

LEMMA OnlyCameStep ==
  ASSUME ReceiveInv, [ReceiveNext]_receiveVars
  PROVE  OnlyCame'
<1>0. OnlyCame /\ received \in Nat
  BY QueueTypes DEF ReceiveInv
<1>1. CASE Untouched
  BY <1>0, <1>1 DEF Untouched, queueVars, OnlyCame
<1>2. CASE Arrive
  <2>1. /\ received' = received + 1 /\ UNCHANGED <<queueVars, handled>>
        /\ lost' = lost \/ lost' = lost \cup {received'}
    BY <1>2 DEF Arrive
  <2>2. 0..received \subseteq 0..received' /\ 1..received \subseteq 1..received'
        /\ received' \in 1..received'
    BY <1>0, <2>1
  <2> QED
    BY <1>0, <2>1, <2>2 DEF OnlyCame, queueVars
<1>3. CASE Reads
  <2>1. PICK b \in full : /\ full' = full \ {b} /\ buf[b] \in 1..received
                          /\ Refused(buf[b]) \/ Taken(buf[b])
                          /\ UNCHANGED <<buf, received, handled, boundary>>
    BY <1>3, ReadsDo
  <2>2. CASE Refused(buf[b])
    BY <1>0, <2>1, <2>2 DEF Refused, queueVars, OnlyCame
  <2>3. CASE Taken(buf[b])
    <3>1. /\ lost' = lost /\ slots' = [slots EXCEPT ![rawHead] = buf[b]]
          /\ Len(fifo') = Len(fifo) + 1 /\ fifo'[Len(fifo) + 1] = buf[b]
          /\ \A i \in 1..Len(fifo) : fifo'[i] = fifo[i]
      BY <2>3 DEF Taken
    <3>2. \A i \in 1..Len(fifo') : fifo'[i] \in 1..received
      <4>1. \A i \in 1..Len(fifo') : i \in 1..Len(fifo) \/ i = Len(fifo) + 1
        BY <3>1, QueueTypes
      <4> QED
        BY <1>0, <2>1, <3>1, <4>1 DEF OnlyCame
    <3>3. \A i \in 0..(QueueSlots - 1) : slots'[i] \in 0..received
      <4>1. buf[b] \in 0..received
        BY <1>0, <2>1
      <4>2. \A i \in 0..(QueueSlots - 1) : slots'[i] = buf[b] \/ slots'[i] = slots[i]
        BY <3>1 DEF ReceiveInv, Shapes, DataShapes
      <4> QED
        BY <1>0, <4>1, <4>2 DEF OnlyCame
    <3> QED
      BY <1>0, <2>1, <3>1, <3>2, <3>3 DEF OnlyCame
  <2> QED
    BY <2>1, <2>2, <2>3
<1>4. CASE Loses
  <2>1. /\ UNCHANGED <<received, queueVars, handled>>
        /\ lost' = lost \/ \E b \in full : lost' = lost \cup {buf[b]}
    BY <1>4 DEF LoseBuffer, Loses
  <2>2. \A b \in full : buf[b] \in 1..received
    BY DEF ReceiveInv, Filled
  <2>3. lost' \subseteq 1..received
    <3>1. CASE lost' = lost
      BY <1>0, <3>1 DEF OnlyCame
    <3>2. ASSUME NEW b \in full, lost' = lost \cup {buf[b]} PROVE lost' \subseteq 1..received
      BY <1>0, <2>2, <3>2 DEF OnlyCame
    <3> QED
      BY <2>1, <3>1, <3>2
  <2> QED
    BY <1>0, <2>1, <2>3 DEF OnlyCame, queueVars
<1>5. CASE Dequeue
  <2>1. \A i \in 1..Len(fifo') : i + 1 \in 1..Len(fifo) /\ fifo'[i] = fifo[i + 1]
    BY <1>5, DequeueDoes, QueueTypes
  <2>2. handled' \subseteq 1..received
    <3>1. slots[rawTail] # 0 => slots[rawTail] \in 1..received
      BY <1>0, <1>5, DequeueDoes
    <3> QED
      BY <1>0, <1>5, <3>1, DequeueDoes DEF OnlyCame
  <2> QED
    BY <1>0, <1>5, <2>1, <2>2, DequeueDoes DEF OnlyCame
<1>6. CASE Purges
  <2>1. PICK i \in Indices : Purge(i)
    BY <1>6 DEF Purges
  <2>2. count' \in 0..Len(fifo) /\ Stored(i) /\ (StoredFirst(i) \/ StoredLast(i))
    BY <2>1, PurgeDoes DEF StoredFirst, StoredLast
  <2>3. CASE StoredFirst(i)
    BY <1>0, <2>2, <2>3 DEF StoredFirst, Stored, OnlyCame
  <2>4. CASE StoredLast(i)
    <3>1. /\ \A j \in 1..count' : Len(fifo) - count' + j \in 1..Len(fifo)
          /\ 1..(Len(fifo) - count') \subseteq 1..Len(fifo)
      BY <2>2, QueueTypes
    <3>2. \A j \in 1..Len(fifo') : fifo'[j] \in 1..received
      BY <1>0, <2>4, <3>1 DEF StoredLast, OnlyCame
    <3>3. lost' \subseteq 1..received
      BY <1>0, <2>4, <3>1 DEF StoredLast, OnlyCame
    <3> QED
      BY <1>0, <2>2, <3>2, <3>3 DEF Stored, OnlyCame
  <2> QED
    BY <2>2, <2>3, <2>4
<1>7. CASE Resets
  <2>1. lost' = lost \cup {buf[b] : b \in full} /\ UNCHANGED <<received, queueVars, handled>>
    BY <1>7 DEF Resets, ChipReset
  <2>2. \A b \in full : buf[b] \in 1..received
    BY DEF ReceiveInv, Filled
  <2> QED
    BY <1>0, <2>1, <2>2 DEF OnlyCame, queueVars
<1> QED
  BY <1>1, <1>2, <1>3, <1>4, <1>5, <1>6, <1>7, KindOf DEF Kinds

-----------------------------------------------------------------------------
(* As long as every recovery has begun out of service, it goes on alone.   *)

LEMMA Before ==
  ASSUME ReceiveInv, [ReceiveNext]_receiveVars, recoveries' = 0
  PROVE  /\ recoveries = 0 /\ ~LiveRecovery /\ RecoveryAlone /\ RingIsQueue /\ Somewhere
         /\ NowhereElse /\ SinceReset
<1>1. recoveries \in Nat
  BY CanConstants DEF ReceiveInv, Shapes, ControlShapes
<1>2. recoveries = 0 /\ ~LiveRecovery
  BY <1>1, RecoveriesGrow DEF LiveRecovery
<1> QED
  BY <1>2 DEF ReceiveInv, Undisturbed

(* Only these steps of the main loop leave it in a recovery.               *)
LEMMA StaysInRecovery ==
  ASSUME ReceiveInv, Main, main'.at \in Recovering
  PROVE  PollHealth \/ LiveRecovery \/ Claim \/ Abort \/ Purges \/ Reinit \/ ResetDone \/ Configure
<1>0. main \in MainStates
  BY DEF ReceiveInv, Shapes, ControlShapes
<1>p. \A place \in Places : At(place).at = place
  BY AtIs
<1>a. ASSUME NEW left, main' \in Again(left)
      PROVE  main'.at \in {"end", "status"}
  <2>1. CASE main' = Over(left)
    BY <1>0, <2>1 DEF Over, MainStates
  <2>2. CASE main' = [main EXCEPT !.at = "status", !.todo = {}, !.left = left]
    BY <1>0, <2>2 DEF MainStates
  <2> QED
    BY <1>a, <2>1, <2>2 DEF Again
<1>f. main' = Finish => main'.at \in {"process", "idle"}
  BY FinishIs
<1>1. ~(HealthRead \/ ProcessDone \/ InitFails)
  <2>1. HealthRead \/ ProcessDone \/ InitFails => main' = At("polled") \/ main' = At("idle")
    BY DEF HealthRead, ProcessDone, InitFails
  <2>2. At("polled").at = "polled" /\ At("idle").at = "idle"
    BY <1>p, PlacesAre
  <2> QED
    BY <2>1, <2>2, PlacesAre
<1>2. ~(Poll \/ PollRealtime)
  <2>1. Poll \/ PollRealtime => main' \in {Drain(TRUE), Drain(FALSE), Process, At("idle")}
    BY DEF Poll, PollRealtime
  <2>2. main' \in {Drain(TRUE), Drain(FALSE), Process, At("idle")}
          => main'.at \in {"status", "process", "idle"}
    BY <1>p, OtherStates, PlacesAre
  <2> QED
    BY <2>1, <2>2, PlacesAre
<1>3. ~DrainStatus
  <2>1. DrainStatus => main'.at \in {"quiet", "RXB0", "RXB1"}
    BY <1>0 DEF DrainStatus, MainStates, First
  <2> QED
    BY <2>1, PlacesAre
<1>4. ~DrainChecksInt
  <2>1. DrainChecksInt => main'.at \in {"clear", "errif", "end", "status", "process", "idle"}
    <3>1. main' = [main EXCEPT !.at = "clear"] => main'.at = "clear"
      BY <1>0 DEF MainStates
    <3>2. main' = [main EXCEPT !.at = "errif"] => main'.at = "errif"
      BY <1>0 DEF MainStates
    <3> QED
      BY <1>a, <1>f, <3>1, <3>2 DEF DrainChecksInt
  <2> QED
    BY <2>1, PlacesAre
<1>5. ~(DrainErrif \/ DrainClears \/ DrainFails)
  <2>1. DrainErrif \/ DrainClears \/ DrainFails
          => \/ main' = [main EXCEPT !.at = "unconsumed"] \/ main' = Finish \/ main' = At("polled")
    BY DEF DrainErrif, DrainClears, DrainFails
  <2>2. main' = [main EXCEPT !.at = "unconsumed"] => main'.at = "unconsumed"
    BY <1>0 DEF MainStates
  <2>3. At("polled").at = "polled"
    BY <1>p, PlacesAre
  <2> QED
    BY <1>f, <2>1, <2>2, <2>3, PlacesAre
<1>6. ASSUME NEW b \in Buffers, DrainRead(b) PROVE FALSE
  <2>1. \/ main' = Finish \/ main' \in Again(main.left - 1)
        \/ main' = [main EXCEPT !.at = "RXB1", !.left = main.left - 1]
    BY <1>6 DEF DrainRead, Again
  <2>2. main' = [main EXCEPT !.at = "RXB1", !.left = main.left - 1] => main'.at = "RXB1"
    BY <1>0 DEF MainStates
  <2> QED
    BY <1>a, <1>f, <2>1, <2>2, PlacesAre
<1>7. ~Dequeue
  <2>1. Dequeue => main.at = "process"
                   /\ (main' = [main EXCEPT !.left = @ - 1] \/ main' = At("idle"))
    BY DEF Dequeue, MainAt
  <2>2. main' = [main EXCEPT !.left = @ - 1] => main'.at = main.at
    BY <1>0 DEF MainStates
  <2>3. At("idle").at = "idle"
    BY <1>p, PlacesAre
  <2> QED
    BY <2>1, <2>2, <2>3, PlacesAre
<1> QED
  BY <1>1, <1>2, <1>3, <1>4, <1>5, <1>6, <1>7 DEF Main, Purges

LEMMA RecoveryAloneStep ==
  ASSUME ReceiveInv, [ReceiveNext]_receiveVars, recoveries' = 0
  PROVE  RecoveryAlone'
<1>0. RecoveryAlone /\ ~LiveRecovery /\ main \in MainStates
  BY Before DEF ReceiveInv, Shapes, ControlShapes
<1>1. CASE Arrive \/ UNCHANGED receiveVars
  <2>1. UNCHANGED <<main, irq, canOk, queueVars>>
    BY <1>1 DEF Arrive, receiveVars, flagVars
  <2> QED
    BY <1>0, <2>1 DEF RecoveryAlone, queueVars
<1>2. CASE Irq
  <2>1. main' = main /\ canOk' = canOk
    BY <1>2, IrqAlone
  <2>2. CASE main.at \in Recovering
    <3>1. ~canOk /\ irq.at = "off"
      BY <1>0, <2>2 DEF RecoveryAlone
    <3>2. IrqEnter
      BY <1>2, <3>1 DEF Irq, IrqStatus, IrqExit, IrqRead, IrqReadTimesOut, Buffers
    <3>3. irq' = Off /\ UNCHANGED queueVars
      BY <3>1, <3>2 DEF IrqEnter
    <3> QED
      BY <1>0, <2>1, <3>1, <3>3, OtherStates DEF RecoveryAlone, queueVars
  <2>3. CASE main.at \notin Recovering
    BY <2>1, <2>3, PlacesAre DEF RecoveryAlone
  <2> QED
    BY <2>2, <2>3
<1>3. CASE Main
  <2>0. CASE main'.at \notin Recovering
    BY <2>0, PlacesAre DEF RecoveryAlone
  <2>1. irq'.at = "off"
    BY <1>3, MainAlone
  <2>2. CASE PollHealth /\ main'.at \in Recovering
    <3>1. canOk' = canOk /\ (main' = At("health") \/ (~canOk /\ main' = At("abort")))
      BY <2>2 DEF PollHealth, RecoverBegin
    <3>2. ~canOk /\ main'.at = "abort"
      BY <2>2, <3>1, AtIs, PlacesAre
    <3> QED
      BY <2>1, <3>1, <3>2, PlacesAre DEF RecoveryAlone
  <2>3. CASE Claim /\ main'.at \in Recovering
    <3>1. main.at # "purge" /\ UNCHANGED <<main, canOk, queueVars>>
      BY <2>3, PlacesAre DEF Claim, Transfers
    <3> QED
      BY <1>0, <2>1, <3>1 DEF RecoveryAlone, queueVars
  <2>4. CASE Abort
    <3>1. main.at = "abort" /\ (canOk' = canOk \/ canOk' = FALSE)
      BY <2>4 DEF Abort, Failed, Done, MainAt
    <3>2. ~canOk'
      BY <1>0, <3>1, PlacesAre DEF RecoveryAlone
    <3>3. main' = [at |-> "purge", todo |-> Indices, left |-> 0, poll |-> FALSE]
      BY <2>4 DEF Abort, At
    <3>4. main'.at = "purge" /\ main'.todo = {"head", "tail", "count"}
      BY <3>3 DEF Indices
    <3> QED
      BY <2>1, <3>2, <3>4, PlacesAre DEF RecoveryAlone
  <2>5. ASSUME NEW i \in Indices, Purge(i) PROVE RecoveryAlone'
    <3>1. canOk' = canOk /\ main.at = "purge"
      BY <2>5 DEF Purge, MainAt, flagVars
    <3>2. ~canOk'
      BY <1>0, <3>1, PlacesAre DEF RecoveryAlone
    <3>3. CASE StoredFirst(i)
      <4>1. /\ rawHead' = (IF i = "head" THEN 0 ELSE rawHead)
            /\ rawTail' = (IF i = "tail" THEN 0 ELSE rawTail)
            /\ count' = (IF i = "count" THEN 0 ELSE count)
            /\ main'.at = "purge" /\ main'.todo = main.todo \ {i}
        BY <3>3 DEF StoredFirst, Stored
      <4> QED
        BY <1>0, <2>1, <3>1, <3>2, <4>1, PlacesAre DEF RecoveryAlone
    <3>4. CASE StoredLast(i)
      <4>1. count' = 0
        BY <1>0, <3>1, <3>4 DEF StoredLast, Stored, RecoveryAlone
      <4>2. fifo' = <<>>
        BY <3>4, <4>1, EmptySeq DEF StoredLast
      <4>3. main'.at = "reinit"
        BY <3>4 DEF StoredLast
      <4> QED
        BY <2>1, <3>2, <4>2, <4>3, PlacesAre DEF RecoveryAlone
    <3> QED
      BY <2>5, <3>3, <3>4, PurgeDoes
  <2>6. CASE Reinit \/ ResetDone \/ Configure
    <3>1. main.at \in Emptied /\ fifo' = fifo
      BY <2>6, PlacesAre DEF Reinit, ResetDone, Configure, Done, MainAt, queueVars
    <3>2. main.at \in Recovering /\ fifo = <<>> /\ ~canOk
      BY <1>0, <3>1, PlacesAre DEF RecoveryAlone
    <3>3. main'.at \in {"reset", "config", "idle"} /\ (main'.at = "idle" \/ ~canOk')
      <4>1. At("reset").at = "reset" /\ At("config").at = "config" /\ At("idle").at = "idle"
        BY AtIs, PlacesAre
      <4> QED
        BY <2>6, <3>2, <4>1 DEF Reinit, ResetDone, Configure, MainAt
    <3> QED
      BY <2>1, <3>1, <3>2, <3>3, PlacesAre DEF RecoveryAlone
  <2> QED
    BY <1>0, <1>3, <2>0, <2>2, <2>3, <2>4, <2>5, <2>6, StaysInRecovery DEF Purges
<1> QED
  BY <1>1, <1>2, <1>3 DEF ReceiveNext

-----------------------------------------------------------------------------
(* The ring is the queue.                                                  *)

LEMMA RingPlace ==
  ASSUME NEW t \in 0..(QueueSlots - 1), NEW i \in 0..QueueSlots
  PROVE  /\ (t + i) % QueueSlots = IF t + i < QueueSlots THEN t + i ELSE t + i - QueueSlots
         /\ (t + i) % QueueSlots \in 0..(QueueSlots - 1)
BY CanConstants

LEMMA RingNext ==
  ASSUME NEW t \in 0..(QueueSlots - 1), NEW c \in 0..QueueSlots, c < QueueSlots
  PROVE  (((t + c) % QueueSlots) + 1) % QueueSlots = (t + (c + 1)) % QueueSlots
<1> DEFINE h == (t + c) % QueueSlots
           x == (h + 1) % QueueSlots
           y == (t + (c + 1)) % QueueSlots
<1>1. c + 1 \in 0..QueueSlots /\ 1 \in 0..QueueSlots
  BY CanConstants
<1>2. /\ h = IF t + c < QueueSlots THEN t + c ELSE t + c - QueueSlots
      /\ h \in 0..(QueueSlots - 1)
  BY RingPlace
<1>3. y = IF t + (c + 1) < QueueSlots THEN t + (c + 1) ELSE t + (c + 1) - QueueSlots
  BY <1>1, RingPlace
<1> HIDE DEF h
<1>4. x = IF h + 1 < QueueSlots THEN h + 1 ELSE h + 1 - QueueSlots
  BY <1>1, <1>2, RingPlace
<1> HIDE DEF x, y
<1>5. x = y
  BY <1>2, <1>3, <1>4, CanConstants
<1> QED
  BY <1>5 DEF x, y, h

LEMMA RingApart ==
  ASSUME NEW t \in 0..(QueueSlots - 1), NEW c \in 0..QueueSlots, c < QueueSlots, NEW i \in 1..c
  PROVE  /\ (t + i - 1) % QueueSlots # (t + c) % QueueSlots
         /\ (t + i - 1) % QueueSlots \in 0..(QueueSlots - 1)
<1> DEFINE h == (t + c) % QueueSlots
           x == (t + (i - 1)) % QueueSlots
<1>1. i - 1 \in 0..QueueSlots /\ t + i - 1 = t + (i - 1)
  BY CanConstants
<1>2. h = IF t + c < QueueSlots THEN t + c ELSE t + c - QueueSlots
  BY RingPlace
<1>3. /\ x = IF t + (i - 1) < QueueSlots THEN t + (i - 1) ELSE t + (i - 1) - QueueSlots
      /\ x \in 0..(QueueSlots - 1)
  BY <1>1, RingPlace
<1> HIDE DEF h, x
<1>4. x # h
  BY <1>2, <1>3, CanConstants
<1> QED
  BY <1>1, <1>3, <1>4 DEF h, x

(* One further on from one less is the same place.                         *)
LEMMA RingShift ==
  ASSUME NEW t \in 0..(QueueSlots - 1), NEW i \in 1..QueueSlots
  PROVE  (((t + 1) % QueueSlots) + (i - 1)) % QueueSlots = (t + i) % QueueSlots
<1> DEFINE h == (t + 1) % QueueSlots
           x == (h + (i - 1)) % QueueSlots
           y == (t + i) % QueueSlots
<1>1. i \in 0..QueueSlots /\ i - 1 \in 0..QueueSlots /\ 1 \in 0..QueueSlots
  BY CanConstants
<1>2. /\ h = IF t + 1 < QueueSlots THEN t + 1 ELSE t + 1 - QueueSlots
      /\ h \in 0..(QueueSlots - 1)
  BY <1>1, RingPlace
<1>3. y = IF t + i < QueueSlots THEN t + i ELSE t + i - QueueSlots
  BY <1>1, RingPlace
<1> HIDE DEF h
<1>4. x = IF h + (i - 1) < QueueSlots THEN h + (i - 1) ELSE h + (i - 1) - QueueSlots
  BY <1>1, <1>2, RingPlace
<1> HIDE DEF x, y
<1>5. x = y
  BY <1>2, <1>3, <1>4, CanConstants
<1> QED
  BY <1>5 DEF x, y, h

LEMMA RingIsQueueStep ==
  ASSUME ReceiveInv, [ReceiveNext]_receiveVars, recoveries' = 0
  PROVE  RingIsQueue'
<1>0. /\ rawTail \in 0..(QueueSlots - 1) /\ rawHead \in 0..(QueueSlots - 1)
      /\ slots \in [0..(QueueSlots - 1) -> 0..MaxFrames]
      /\ count \in 0..QueueSlots /\ QueueCounted
  BY DEF ReceiveInv, Shapes, DataShapes
<1>1. RingIsQueue /\ RecoveryAlone
  BY Before
<1> SUFFICES ASSUME main'.at # "purge"
             PROVE  /\ rawHead' = (rawTail' + count') % QueueSlots
                    /\ \A i \in 1..count' : slots'[(rawTail' + i - 1) % QueueSlots] = fifo'[i]
  BY DEF RingIsQueue
<1>2. CASE Purges
  <2>1. PICK i \in Indices : Purge(i) /\ main.todo = {i} /\ main.at = "purge"
    <3>1. PICK i \in Indices : Purge(i)
      BY <1>2 DEF Purges
    <3>2. main.at = "purge"
      BY <3>1 DEF Purge, MainAt
    <3> QED
      BY <3>2, PurgeEnds
  <2>2. rawHead' = 0 /\ rawTail' = 0 /\ count' = 0
    BY <1>1, <2>1 DEF Purge, RecoveryAlone, Indices
  <2>3. 0 % QueueSlots = 0
    BY CanConstants
  <2> QED
    BY <2>2, <2>3
<1>3. CASE ~Purges
  <2>0. main.at # "purge"
    BY <1>3, PurgeEnds DEF Purges
  <2>1. /\ rawHead = (rawTail + count) % QueueSlots /\ count = Len(fifo)
        /\ \A i \in 1..count : slots[(rawTail + i - 1) % QueueSlots] = fifo[i]
    BY <1>0, <1>1, <2>0 DEF RingIsQueue, QueueCounted
  <2>2. CASE UNCHANGED queueVars
    BY <2>1, <2>2 DEF queueVars
  <2>3. CASE Reads
    <3>1. PICK b \in full : Refused(buf[b]) \/ Taken(buf[b])
      BY <2>3, ReadsDo
    <3>2. CASE Refused(buf[b])
      BY <2>2, <3>2 DEF Refused
    <3>3. CASE Taken(buf[b])
      <4>1. /\ count < QueueSlots /\ count' = count + 1 /\ rawTail' = rawTail
            /\ slots' = [slots EXCEPT ![rawHead] = buf[b]]
            /\ rawHead' = (rawHead + 1) % QueueSlots
            /\ fifo'[count + 1] = buf[b] /\ \A i \in 1..count : fifo'[i] = fifo[i]
        BY <2>1, <3>3 DEF Taken
      <4>2. rawHead' = (rawTail' + count') % QueueSlots
        BY <1>0, <2>1, <4>1, RingNext
      <4>3. ASSUME NEW i \in 1..count
            PROVE  slots'[(rawTail + i - 1) % QueueSlots] = fifo'[i]
        <5>1. /\ (rawTail + i - 1) % QueueSlots # rawHead
              /\ (rawTail + i - 1) % QueueSlots \in 0..(QueueSlots - 1)
          BY <1>0, <2>1, <4>1, RingApart
        <5>2. slots'[(rawTail + i - 1) % QueueSlots] = slots[(rawTail + i - 1) % QueueSlots]
          BY <1>0, <4>1, <5>1
        <5> QED
          BY <2>1, <4>1, <5>2
      <4>4. slots'[(rawTail + (count + 1) - 1) % QueueSlots] = fifo'[count + 1]
        <5>1. rawTail + (count + 1) - 1 = rawTail + count
          BY <1>0
        <5>2. slots'[rawHead] = buf[b]
          BY <1>0, <4>1
        <5> QED
          BY <2>1, <4>1, <5>1, <5>2
      <4>5. \A i \in 1..count' : i \in 1..count \/ i = count + 1
        BY <1>0, <4>1
      <4> QED
        BY <4>1, <4>2, <4>3, <4>4, <4>5
    <3> QED
      BY <3>1, <3>2, <3>3
  <2>4. CASE Dequeue
    <3>1. /\ count > 0 /\ count' = count - 1 /\ rawTail' = (rawTail + 1) % QueueSlots
          /\ slots' = slots /\ rawHead' = rawHead
          /\ \A i \in 1..(count - 1) : fifo'[i] = fifo[i + 1]
      BY <2>1, <2>4, DequeueDoes
    <3>3. rawTail' \in 0..(QueueSlots - 1)
      BY <1>0, <3>1, CanConstants
    <3>4. ASSUME NEW i \in 1..count
          PROVE  (rawTail' + (i - 1)) % QueueSlots = (rawTail + i) % QueueSlots
      <4>1. i \in 1..QueueSlots
        BY <1>0, CanConstants
      <4> QED
        BY <1>0, <3>1, <4>1, RingShift
    <3>5. rawHead' = (rawTail' + count') % QueueSlots
      <4>1. count \in 1..count
        BY <1>0, <3>1
      <4> QED
        BY <2>1, <3>1, <3>4, <4>1
    <3>6. ASSUME NEW i \in 1..count'
          PROVE  slots'[(rawTail' + i - 1) % QueueSlots] = fifo'[i]
      <4>1. i \in 1..count /\ i + 1 \in 1..count /\ i \in 1..(count - 1)
        BY <1>0, <3>1
      <4>2. rawTail' + i - 1 = rawTail' + (i - 1) /\ rawTail + i = rawTail + (i + 1) - 1
        BY <1>0, <3>3
      <4>3. (rawTail' + i - 1) % QueueSlots = (rawTail + (i + 1) - 1) % QueueSlots
        BY <3>4, <4>1, <4>2
      <4>4. slots[(rawTail + (i + 1) - 1) % QueueSlots] = fifo[i + 1]
        BY <2>1, <4>1
      <4> QED
        BY <3>1, <4>1, <4>3, <4>4
    <3> QED
      BY <3>5, <3>6
  <2>5. Untouched \/ Arrive \/ Loses \/ Resets => UNCHANGED queueVars
    BY DEF Untouched, Arrive, Loses, LoseBuffer, Resets, queueVars
  <2> QED
    BY <1>3, <2>2, <2>3, <2>4, <2>5, KindOf DEF Kinds
<1> QED
  BY <1>2, <1>3

-----------------------------------------------------------------------------
(* Every frame is in one place.                                            *)

LEMMA WhereaboutsStep ==
  ASSUME ReceiveInv, [ReceiveNext]_receiveVars, recoveries' = 0
  PROVE  Somewhere' /\ NowhereElse'
<1>0. Somewhere /\ NowhereElse /\ OnlyCame /\ Filled /\ RingIsQueue /\ QueueCounted
  BY Before DEF ReceiveInv
<1>t. /\ buf \in [Buffers -> 0..MaxFrames] /\ full \subseteq Buffers
      /\ Len(fifo) \in Nat /\ received \in Nat /\ rawTail \in 0..(QueueSlots - 1)
  BY QueueTypes DEF ReceiveInv, Shapes, DataShapes
<1>q. \A f : Queued(f) => f \in 1..received
  BY <1>0 DEF Queued, OnlyCame
<1>b. \A f : Buffered(f) => f \in 1..received
  BY <1>0 DEF Buffered, Filled
<1>1. CASE Untouched
  <2>1. \A f : (Buffered(f)' <=> Buffered(f)) /\ (Queued(f)' <=> Queued(f))
    BY <1>1 DEF Untouched, queueVars, Buffered, Queued
  <2> QED
    BY <1>0, <1>1, <2>1 DEF Untouched, queueVars, Somewhere, NowhereElse
<1>2. CASE Arrive
  <2> DEFINE n == received + 1
  <2>1. received' = n /\ handled' = handled /\ fifo' = fifo
    BY <1>2 DEF Arrive, queueVars
  <2>2. /\ \A f \in 1..received' : f \in 1..received \/ f = n
        /\ n \notin 1..received
    BY <1>t, <2>1
  <2>3. \A f : Queued(f)' <=> Queued(f)
    BY <2>1 DEF Queued
  <2>4. ~Buffered(n) /\ ~Queued(n) /\ n \notin handled /\ n \notin lost
    BY <1>0, <1>q, <1>b, <2>2 DEF OnlyCame
  <2> HIDE DEF n
  <2>5. CASE lost' = lost \cup {n} /\ UNCHANGED <<buf, full>>
    <3>1. \A f : Buffered(f)' <=> Buffered(f)
      BY <2>5 DEF Buffered
    <3>2. Somewhere'
      BY <1>0, <2>1, <2>2, <2>3, <2>5, <3>1 DEF Somewhere
    <3>3. NowhereElse'
      BY <1>0, <2>1, <2>3, <2>4, <2>5, <3>1 DEF NowhereElse
    <3> QED
      BY <3>2, <3>3
  <2>6. ASSUME NEW b \in Buffers \ full, buf' = [buf EXCEPT ![b] = n], full' = full \cup {b},
               lost' = lost
        PROVE  Somewhere' /\ NowhereElse'
    <3>1. buf'[b] = n /\ \A c \in full : c # b /\ buf'[c] = buf[c]
      BY <1>t, <2>6
    <3>2. \A f : Buffered(f)' <=> Buffered(f) \/ f = n
      BY <2>6, <3>1 DEF Buffered
    <3>3. Somewhere'
      BY <1>0, <2>1, <2>2, <2>3, <2>6, <3>2 DEF Somewhere
    <3>4. \A c, d \in full' : buf'[c] = buf'[d] => c = d
      <4>1. \A c \in full : buf[c] # n
        BY <2>4 DEF Buffered
      <4> QED
        BY <1>0, <2>6, <3>1, <4>1 DEF NowhereElse
    <3>5. NowhereElse'
      BY <1>0, <2>1, <2>3, <2>4, <2>6, <3>2, <3>4 DEF NowhereElse
    <3> QED
      BY <3>3, <3>5
  <2>7. \/ lost' = lost \cup {n} /\ UNCHANGED <<buf, full>>
        \/ \E b \in Buffers \ full : /\ buf' = [buf EXCEPT ![b] = n] /\ full' = full \cup {b}
                                     /\ lost' = lost
    BY <1>2, <2>1 DEF Arrive
  <2> QED
    BY <2>5, <2>6, <2>7
<1>3. CASE Reads
  <2>1. PICK b \in full : /\ full' = full \ {b} /\ buf[b] \in 1..received
                          /\ Refused(buf[b]) \/ Taken(buf[b])
                          /\ UNCHANGED <<buf, received, handled, boundary>>
    BY <1>3, ReadsDo
  <2> DEFINE n == buf[b]
  <2>2. /\ Buffered(n) /\ ~Queued(n) /\ n \notin handled /\ n \notin lost
    <3>1. Buffered(n) /\ n \in Frames
      BY <2>1, QueueTypes DEF Buffered
    <3> QED
      BY <1>0, <3>1 DEF NowhereElse
  <2>3. \A f : Buffered(f)' <=> Buffered(f) /\ f # n
    BY <1>0, <2>1 DEF Buffered, NowhereElse
  <2>4. \A c, d \in full' : buf'[c] = buf'[d] => c = d
    BY <1>0, <2>1 DEF NowhereElse
  <2> HIDE DEF n
  <2>5. CASE Refused(n)
    <3>1. fifo' = fifo /\ lost' = lost \cup {n} /\ handled' = handled /\ received' = received
      BY <2>1, <2>5 DEF Refused, queueVars
    <3>2. \A f : Queued(f)' <=> Queued(f)
      BY <3>1 DEF Queued
    <3>3. Somewhere'
      BY <1>0, <2>3, <3>1, <3>2 DEF Somewhere
    <3>4. NowhereElse'
      BY <1>0, <2>2, <2>3, <2>4, <3>1, <3>2 DEF NowhereElse
    <3> QED
      BY <3>3, <3>4
  <2>6. CASE Taken(n)
    <3>1. /\ lost' = lost /\ handled' = handled /\ received' = received
          /\ Len(fifo') = Len(fifo) + 1 /\ fifo'[Len(fifo) + 1] = n
          /\ \A i \in 1..Len(fifo) : fifo'[i] = fifo[i]
      BY <2>1, <2>6 DEF Taken
    <3>2. /\ \A i \in 1..Len(fifo') : i \in 1..Len(fifo) \/ i = Len(fifo) + 1
          /\ \A i \in 1..Len(fifo) : i \in 1..Len(fifo')
          /\ Len(fifo) + 1 \in 1..Len(fifo')
      BY <1>t, <3>1
    <3>3. \A f : Queued(f)' <=> Queued(f) \/ f = n
      BY <3>1, <3>2 DEF Queued
    <3>4. \A i, j \in 1..Len(fifo') : fifo'[i] = fifo'[j] => i = j
      <4>1. \A i \in 1..Len(fifo) : fifo[i] # n
        BY <2>2 DEF Queued
      <4> QED
        BY <1>0, <3>1, <3>2, <4>1 DEF NowhereElse
    <3>5. Somewhere'
      BY <1>0, <2>3, <3>1, <3>3 DEF Somewhere
    <3>6. NowhereElse'
      BY <1>0, <2>2, <2>3, <2>4, <3>1, <3>3, <3>4 DEF NowhereElse
    <3> QED
      BY <3>5, <3>6
  <2> QED
    BY <2>1, <2>5, <2>6 DEF n
<1>4. CASE Loses
  <2>1. PICK b \in Buffers : LoseBuffer(b)
    BY <1>4 DEF Loses
  <2>2. /\ UNCHANGED <<buf, received, handled, fifo>>
        /\ \/ UNCHANGED <<full, lost>>
           \/ b \notin full /\ full' = full /\ lost' = lost
           \/ b \in full /\ full' = full \ {b} /\ lost' = lost \cup {buf[b]}
    BY <1>4, <2>1 DEF LoseBuffer, Loses, queueVars
  <2>3. \A f : Queued(f)' <=> Queued(f)
    BY <2>2 DEF Queued
  <2>4. CASE UNCHANGED <<full, lost>>
    <3>1. \A f : Buffered(f)' <=> Buffered(f)
      BY <2>2, <2>4 DEF Buffered
    <3> QED
      BY <1>0, <2>2, <2>3, <2>4, <3>1 DEF Somewhere, NowhereElse
  <2>5. CASE b \in full /\ full' = full \ {b} /\ lost' = lost \cup {buf[b]}
    <3>1. \A f : Buffered(f)' <=> Buffered(f) /\ f # buf[b]
      BY <1>0, <2>2, <2>5 DEF Buffered, NowhereElse
    <3>2. Buffered(buf[b]) /\ buf[b] \in Frames
      BY <1>0, <2>5, QueueTypes DEF Buffered, Filled
    <3>3. ~Queued(buf[b]) /\ buf[b] \notin handled
      BY <1>0, <3>2 DEF NowhereElse
    <3>4. Somewhere'
      BY <1>0, <2>2, <2>3, <2>5, <3>1 DEF Somewhere
    <3>5. NowhereElse'
      BY <1>0, <2>2, <2>3, <2>5, <3>1, <3>3 DEF NowhereElse
    <3> QED
      BY <3>4, <3>5
  <2> QED
    BY <2>2, <2>4, <2>5
<1>5. CASE Dequeue
  <2>1. /\ fifo # <<>> /\ count > 0 /\ Len(fifo') = Len(fifo) - 1
        /\ \A i \in 1..(Len(fifo) - 1) : fifo'[i] = fifo[i + 1]
        /\ handled' = handled \cup ({slots[rawTail]} \ {0})
        /\ UNCHANGED <<buf, full, received, lost>> /\ main.at = "process"
    BY <1>5, DequeueDoes
  <2>2. count = Len(fifo)
    BY <1>0, <2>1 DEF QueueCounted
  <2>3. slots[rawTail] = fifo[1]
    <3>1. 0 \in 0..QueueSlots /\ rawTail + 1 - 1 = rawTail + 0 /\ rawTail + 0 = rawTail
          /\ rawTail + 0 < QueueSlots /\ 1 \in 1..count
      BY <1>t, <2>1, <2>2, CanConstants
    <3>2. (rawTail + 0) % QueueSlots = rawTail
      BY <1>t, <3>1, RingPlace
    <3>3. slots[(rawTail + 1 - 1) % QueueSlots] = fifo[1]
      BY <1>0, <2>1, <3>1 DEF RingIsQueue
    <3> QED
      BY <3>1, <3>2, <3>3
  <2>4. 1 \in 1..Len(fifo) /\ fifo[1] \in Frames /\ fifo[1] # 0
    <3>1. 1 \in 1..Len(fifo)
      BY <1>t, <2>1, <2>2
    <3>2. fifo[1] \in 1..received
      BY <1>0, <3>1 DEF OnlyCame
    <3> QED
      BY <3>1, <3>2, QueueTypes
  <2>5. handled' = handled \cup {fifo[1]}
    BY <2>1, <2>3, <2>4
  <2>6. /\ \A i \in 1..Len(fifo') : i + 1 \in 1..Len(fifo) /\ i + 1 # 1 /\ fifo'[i] = fifo[i + 1]
        /\ \A i \in 1..Len(fifo) : i = 1 \/ (i - 1 \in 1..Len(fifo') /\ fifo'[i - 1] = fifo[i])
    BY <1>t, <2>1
  <2>7. \A f : Queued(f)' <=> Queued(f) /\ f # fifo[1]
    <3>1. ASSUME NEW i \in 1..Len(fifo), i # 1 PROVE fifo[i] # fifo[1]
      BY <1>0, <2>4, <3>1 DEF NowhereElse
    <3> QED
      BY <2>6, <3>1 DEF Queued
  <2>8. \A f : Buffered(f)' <=> Buffered(f)
    BY <2>1 DEF Buffered
  <2>9. \A i, j \in 1..Len(fifo') : fifo'[i] = fifo'[j] => i = j
    <3>1. ASSUME NEW i \in 1..Len(fifo'), NEW j \in 1..Len(fifo'), fifo'[i] = fifo'[j]
          PROVE  i = j
      <4>1. i + 1 = j + 1
        BY <1>0, <2>6, <3>1 DEF NowhereElse
      <4> QED
        BY <4>1
    <3> QED
      BY <3>1
  <2>10. Queued(fifo[1])
    BY <2>4 DEF Queued
  <2>11. Somewhere'
    BY <1>0, <2>1, <2>5, <2>7, <2>8 DEF Somewhere
  <2>12. NowhereElse'
    BY <1>0, <2>1, <2>4, <2>5, <2>7, <2>8, <2>9, <2>10 DEF NowhereElse
  <2> QED
    BY <2>11, <2>12
<1>6. CASE Purges
  <2>1. PICK i \in Indices : Purge(i)
    BY <1>6 DEF Purges
  <2>2. UNCHANGED <<buf, full, received, handled>> /\ (StoredFirst(i) \/ StoredLast(i))
    BY <2>1, PurgeDoes DEF StoredFirst, StoredLast, Stored
  <2>3. \A f : Buffered(f)' <=> Buffered(f)
    BY <2>2 DEF Buffered
  <2>4. CASE StoredFirst(i)
    <3>1. UNCHANGED <<fifo, lost>>
      BY <2>4 DEF StoredFirst
    <3>2. \A f : Queued(f)' <=> Queued(f)
      BY <3>1 DEF Queued
    <3> QED
      BY <1>0, <2>2, <2>3, <3>1, <3>2 DEF Somewhere, NowhereElse
  <2>5. CASE StoredLast(i)
    <3>1. count' = 0
      <4>1. main.at = "purge" /\ main.todo = {i} /\ count' = (IF i = "count" THEN 0 ELSE count)
        BY <2>5 DEF StoredLast, Stored
      <4> QED
        BY <4>1, Before DEF RecoveryAlone
    <3>2. Len(fifo') = 0 /\ lost' = lost \cup {fifo[j] : j \in 1..Len(fifo)}
      <4>1. Len(fifo) - count' = Len(fifo)
        BY <1>t, <3>1
      <4> QED
        BY <2>5, <3>1, <4>1 DEF StoredLast
    <3>3. \A f : (f \in lost' <=> f \in lost \/ Queued(f)) /\ ~Queued(f)'
      BY <3>2 DEF Queued
    <3>4. Somewhere'
      BY <1>0, <2>2, <2>3, <3>3 DEF Somewhere
    <3>5. NowhereElse'
      BY <1>0, <2>2, <2>3, <3>2, <3>3 DEF NowhereElse
    <3> QED
      BY <3>4, <3>5
  <2> QED
    BY <2>2, <2>4, <2>5
<1>7. CASE Resets
  <2>1. /\ full' = {} /\ lost' = lost \cup {buf[b] : b \in full}
        /\ UNCHANGED <<buf, received, fifo, handled>>
    BY <1>7 DEF Resets, ChipReset, queueVars
  <2>2. \A f : /\ f \in lost' <=> f \in lost \/ Buffered(f)
               /\ ~Buffered(f)' /\ (Queued(f)' <=> Queued(f))
    BY <2>1 DEF Buffered, Queued
  <2>3. Somewhere'
    BY <1>0, <2>1, <2>2 DEF Somewhere
  <2>4. NowhereElse'
    BY <1>0, <2>1, <2>2 DEF NowhereElse
  <2> QED
    BY <2>3, <2>4
<1> QED
  BY <1>1, <1>2, <1>3, <1>4, <1>5, <1>6, <1>7, KindOf DEF Kinds

LEMMA SinceResetStep ==
  ASSUME ReceiveInv, [ReceiveNext]_receiveVars, recoveries' = 0
  PROVE  SinceReset'
<1>0. SinceReset /\ RecoveryAlone
  BY Before
<1>t. /\ buf \in [Buffers -> 0..MaxFrames] /\ full \subseteq Buffers
      /\ Len(fifo) \in Nat /\ received \in Nat /\ boundary \in 0..received
  BY QueueTypes DEF ReceiveInv, Shapes, DataShapes
<1>1. CASE Untouched
  BY <1>0, <1>1 DEF Untouched, queueVars, SinceReset
<1>2. CASE Arrive
  <2>1. /\ received' = received + 1 /\ boundary' = boundary /\ fifo' = fifo
    BY <1>2 DEF Arrive, queueVars
  <2>2. received' > boundary
    BY <1>t, <2>1
  <2>3. CASE UNCHANGED <<buf, full>>
    BY <1>0, <2>1, <2>3 DEF SinceReset
  <2>4. ASSUME NEW b \in Buffers \ full, buf' = [buf EXCEPT ![b] = received'],
               full' = full \cup {b}
        PROVE  SinceReset'
    <3>1. buf'[b] = received' /\ \A c \in full : buf'[c] = buf[c]
      BY <1>t, <2>4
    <3> QED
      BY <1>0, <2>1, <2>2, <2>4, <3>1 DEF SinceReset
  <2> QED
    BY <1>2, <2>3, <2>4 DEF Arrive
<1>3. CASE Reads
  <2>1. PICK b \in full : /\ full' = full \ {b} /\ buf[b] \in 1..received
                          /\ Refused(buf[b]) \/ Taken(buf[b])
                          /\ UNCHANGED <<buf, received, handled, boundary>>
    BY <1>3, ReadsDo
  <2>2. buf[b] > boundary
    BY <1>0 DEF SinceReset
  <2>3. CASE Refused(buf[b])
    BY <1>0, <2>1, <2>3 DEF Refused, queueVars, SinceReset
  <2>4. CASE Taken(buf[b])
    <3>1. /\ Len(fifo') = Len(fifo) + 1 /\ fifo'[Len(fifo) + 1] = buf[b]
          /\ \A i \in 1..Len(fifo) : fifo'[i] = fifo[i]
      BY <2>4 DEF Taken
    <3>2. \A i \in 1..Len(fifo') : i \in 1..Len(fifo) \/ i = Len(fifo) + 1
      BY <1>t, <3>1
    <3> QED
      BY <1>0, <2>1, <2>2, <3>1, <3>2 DEF SinceReset
  <2> QED
    BY <2>1, <2>3, <2>4
<1>4. CASE Loses
  <2>1. UNCHANGED <<buf, fifo, boundary>> /\ full' \subseteq full
    BY <1>4 DEF LoseBuffer, Loses, queueVars
  <2> QED
    BY <1>0, <2>1 DEF SinceReset
<1>5. CASE Dequeue
  <2>1. /\ \A i \in 1..Len(fifo') : i + 1 \in 1..Len(fifo) /\ fifo'[i] = fifo[i + 1]
        /\ UNCHANGED <<buf, full, boundary>>
    BY <1>5, <1>t, DequeueDoes
  <2> QED
    BY <1>0, <2>1 DEF SinceReset
<1>6. CASE Purges
  <2>1. PICK i \in Indices : Purge(i)
    BY <1>6 DEF Purges
  <2>2. UNCHANGED <<buf, full, boundary>> /\ (StoredFirst(i) \/ StoredLast(i))
    BY <2>1, PurgeDoes DEF StoredFirst, StoredLast, Stored
  <2>3. CASE StoredFirst(i)
    BY <1>0, <2>2, <2>3 DEF StoredFirst, SinceReset
  <2>4. CASE StoredLast(i)
    <3>1. count' \in 0..Len(fifo) /\ Len(fifo') = count'
          /\ \A j \in 1..count' : fifo'[j] = fifo[Len(fifo) - count' + j]
      BY <2>1, <2>4, PurgeDoes DEF StoredLast
    <3>2. \A j \in 1..count' : Len(fifo) - count' + j \in 1..Len(fifo)
      BY <1>t, <3>1
    <3> QED
      BY <1>0, <2>2, <3>1, <3>2 DEF SinceReset
  <2> QED
    BY <2>2, <2>3, <2>4
<1>7. CASE Resets
  <2>1. full' = {} /\ fifo' = fifo /\ main.at = "reset"
    BY <1>7 DEF Resets, ChipReset, queueVars
  <2>2. fifo = <<>>
    BY <1>0, <2>1, PlacesAre DEF RecoveryAlone
  <2> QED
    BY <2>1, <2>2, EmptySeq DEF SinceReset
<1> QED
  BY <1>1, <1>2, <1>3, <1>4, <1>5, <1>6, <1>7, KindOf DEF Kinds

-----------------------------------------------------------------------------
(* The invariant, and what follows from it.                                *)

LEMMA ReceiveInvInit ==
  ASSUME ReceiveInit
  PROVE  ReceiveInv
<1> USE DEF ReceiveInit
<1>0. /\ 0 \in 0..MaxFrames /\ 0 \in 0..0 /\ 0 \in 0..QueueSlots /\ 0 \in 0..(QueueSlots - 1)
      /\ 0 \in 0..MaxFaults /\ 0 \in 0..MaxLiveRecoveries /\ 0 % QueueSlots = 0
  BY CanConstants
<1>1. main \in MainStates /\ main.at = "idle" /\ irq \in IrqStates /\ irq.at = "off"
  BY AtIs, OtherStates, PlacesAre
<1>2. fifo \in Seq(Frames) /\ Len(fifo) = 0
  BY EmptySeq
<1>3. ControlShapes
  BY <1>0, <1>1 DEF ControlShapes
<1>4. DataShapes
  BY <1>0, <1>2 DEF DataShapes
<1>5. MainReadsFull /\ IrqReadsFull /\ Filled
  BY <1>1, PlacesAre DEF MainReadsFull, IrqReadsFull, Filled
<1>6. QueueCounted
  BY <1>2 DEF QueueCounted
<1>7. OnlyCame
  BY <1>0, <1>2 DEF OnlyCame
<1>8. RecoveryAlone
  BY <1>1, PlacesAre DEF RecoveryAlone
<1>9. RingIsQueue
  <2>1. 0 + 0 = 0 /\ \A i \in 1..0 : FALSE
    OBVIOUS
  <2> QED
    BY <1>0, <2>1 DEF RingIsQueue
<1>10. Somewhere /\ NowhereElse /\ SinceReset
  <2>1. \A i \in 1..0 : FALSE
    OBVIOUS
  <2> QED
    BY <1>2, <2>1 DEF Somewhere, NowhereElse, SinceReset, Buffered, Queued
<1> QED
  BY <1>3, <1>4, <1>5, <1>6, <1>7, <1>8, <1>9, <1>10 DEF ReceiveInv, Undisturbed, Shapes

LEMMA ReceiveInvStep ==
  ASSUME ReceiveInv, [ReceiveNext]_receiveVars
  PROVE  ReceiveInv'
<1>1. Shapes' /\ MainReadsFull' /\ IrqReadsFull' /\ Filled' /\ QueueCounted' /\ OnlyCame'
  BY ControlShapesStep, DataShapesStep, ReadsFullStep, FilledStep, QueueCountedStep, OnlyCameStep
     DEF Shapes
<1>2. recoveries' = 0 => Undisturbed'
  BY RecoveryAloneStep, RingIsQueueStep, WhereaboutsStep, SinceResetStep DEF Undisturbed
<1> QED
  BY <1>1, <1>2 DEF ReceiveInv

LEMMA ReceiveInvKept == ReceiveSpec => []ReceiveInv
<1>1. ReceiveInit => ReceiveInv
  BY ReceiveInvInit
<1>2. ReceiveInv /\ [ReceiveNext]_receiveVars => ReceiveInv'
  BY ReceiveInvStep
<1> QED
  BY <1>1, <1>2, PTL DEF ReceiveSpec

(* A frame in one place has one holder.                                    *)
LEMMA OneHolder ==
  ASSUME ReceiveInv, Undisturbed, NEW f \in 1..received
  PROVE  \E x : Holders(f) = {x}
<1> DEFINE InBuffer == {<<b, 0>> : b \in {c \in full : buf[c] = f}}
           InQueue == {<<"queue", i>> : i \in {j \in 1..Len(fifo) : fifo[j] = f}}
           InHands == {<<"handled", 0>> : g \in handled \cap {f}}
           AmongLost == {<<"lost", 0>> : g \in lost \cap {f}}
<1>0. /\ Holders(f) = InBuffer \cup InQueue \cup InHands \cup AmongLost
      /\ Somewhere /\ NowhereElse /\ f \in Frames
  BY QueueTypes DEF Holders, Undisturbed
<1>1. /\ InBuffer = {} <=> ~Buffered(f)
      /\ InQueue = {} <=> ~Queued(f)
      /\ InHands = {} <=> f \notin handled
      /\ AmongLost = {} <=> f \notin lost
  BY DEF Buffered, Queued
<1>2. ASSUME Buffered(f) PROVE \E x : InBuffer = {x}
  <2>1. PICK b \in full : buf[b] = f
    BY <1>2 DEF Buffered
  <2>2. {c \in full : buf[c] = f} = {b}
    BY <1>0, <2>1 DEF NowhereElse
  <2>3. InBuffer = {<<b, 0>>}
    BY <2>2
  <2> QED
    BY <2>3
<1>3. ASSUME Queued(f) PROVE \E x : InQueue = {x}
  <2>1. PICK i \in 1..Len(fifo) : fifo[i] = f
    BY <1>3 DEF Queued
  <2>2. {j \in 1..Len(fifo) : fifo[j] = f} = {i}
    BY <1>0, <2>1 DEF NowhereElse
  <2>3. InQueue = {<<"queue", i>>}
    BY <2>2
  <2> QED
    BY <2>3
<1>4. f \in handled => InHands = {<<"handled", 0>>}
  OBVIOUS
<1>5. f \in lost => AmongLost = {<<"lost", 0>>}
  OBVIOUS
<1>6. /\ Buffered(f) \/ Queued(f) \/ f \in handled \/ f \in lost
      /\ Buffered(f) => ~Queued(f) /\ f \notin handled /\ f \notin lost
      /\ Queued(f) => f \notin handled /\ f \notin lost
      /\ f \in handled => f \notin lost
  BY <1>0 DEF Somewhere, NowhereElse
<1> HIDE DEF InBuffer, InQueue, InHands, AmongLost
<1>7. CASE Buffered(f)
  <2>1. Holders(f) = InBuffer
    BY <1>0, <1>1, <1>6, <1>7
  <2> QED
    BY <1>2, <1>7, <2>1
<1>8. CASE Queued(f)
  <2>1. Holders(f) = InQueue
    BY <1>0, <1>1, <1>6, <1>8
  <2> QED
    BY <1>3, <1>8, <2>1
<1>9. CASE f \in handled
  <2>1. Holders(f) = InHands
    BY <1>0, <1>1, <1>6, <1>9
  <2> QED
    BY <1>4, <1>9, <2>1
<1>10. CASE f \in lost
  <2>1. Holders(f) = AmongLost
    BY <1>0, <1>1, <1>6, <1>10
  <2> QED
    BY <1>5, <1>10, <2>1
<1> QED
  BY <1>6, <1>7, <1>8, <1>9, <1>10

LEMMA InvKeepsFrames ==
  ASSUME ReceiveInv
  PROVE  FramesKept
<1>1. ReceiveTypeOK
  <2>1. /\ main.at \in Places /\ main.todo \in (SUBSET Buffers) \cup (SUBSET Indices)
        /\ main.left \in 0..DrainFrames /\ main.poll \in BOOLEAN
    BY MainFields DEF ReceiveInv, Shapes, ControlShapes
  <2>2. /\ irq.at \in {"off", "status", "exit"} \cup Buffers /\ irq.todo \subseteq Buffers
        /\ irq.left \in 0..IrqFrames
    BY IrqFields DEF ReceiveInv, Shapes, ControlShapes
  <2>3. {err, normal, exti, intPending, canOk, recoveryPending, spiBusy} \subseteq BOOLEAN
    BY DEF ReceiveInv, Shapes, ControlShapes
  <2>4. DataShapes /\ faults \in 0..MaxFaults /\ recoveries \in 0..MaxLiveRecoveries
    BY DEF ReceiveInv, Shapes, ControlShapes
  <2> QED
    BY <2>1, <2>2, <2>3, <2>4 DEF ReceiveTypeOK, DataShapes, Places
<1>2. FifoKept
  BY DEF FifoKept, RamFifo, ReceiveInv, Undisturbed, RingIsQueue, QueueCounted
<1>3. OnceEach
  BY OneHolder, FS_Singleton DEF OnceEach, ReceiveInv
<1> QED
  BY <1>1, <1>2, <1>3 DEF FramesKept

(* Wherever the interrupt preempts the main loop, and whatever transfer    *)
(* fails: the ring in RAM holds the frames queued in their order, and      *)
(* every frame that came is in one place only, in a receive buffer, in the *)
(* queue, with libcanard, or known to be lost; short of a recovery that    *)
(* begins in service.                                                      *)
THEOREM FramesAreKept == ReceiveSpec => []FramesKept
<1>1. ReceiveInv => FramesKept
  BY InvKeepsFrames
<1> QED
  BY <1>1, ReceiveInvKept, PTL

(* A frame from before a reset of the controller is not given to libcanard *)
(* after it, short of a recovery that begins in service.                   *)
THEOREM BoundaryKept == ReceiveSpec => NoFrameCrossesReset
<1>1. ASSUME ReceiveInv, [ReceiveNext]_receiveVars
      PROVE  [recoveries = 0 => \A f \in handled' \ handled : f > boundary]_receiveVars
  <2> SUFFICES ASSUME recoveries = 0, NEW f \in handled' \ handled
               PROVE  f > boundary
    OBVIOUS
  <2>1. ~(Untouched \/ Arrive \/ Reads \/ Loses \/ Purges \/ Resets)
    BY DEF Untouched, Arrive, Reads, Loses, Purges, Purge, Resets
  <2>2. Dequeue
    BY <1>1, <2>1, KindOf DEF Kinds
  <2>3. /\ fifo # <<>> /\ count > 0 /\ count <= Len(fifo) /\ main.at = "process"
        /\ handled' = handled \cup ({slots[rawTail]} \ {0})
    BY <1>1, <2>2, DequeueDoes
  <2>4. f = slots[rawTail]
    BY <2>3
  <2>5. RingIsQueue /\ SinceReset /\ rawTail \in 0..(QueueSlots - 1)
    BY <1>1 DEF ReceiveInv, Undisturbed, Shapes, DataShapes
  <2>6. slots[rawTail] = fifo[1] /\ 1 \in 1..Len(fifo)
    <3>1. 0 \in 0..QueueSlots /\ rawTail + 1 - 1 = rawTail + 0 /\ rawTail + 0 = rawTail
          /\ rawTail + 0 < QueueSlots /\ 1 \in 1..count /\ 1 \in 1..Len(fifo)
      BY <1>1, <2>3, <2>5, QueueTypes, CanConstants
    <3>2. (rawTail + 0) % QueueSlots = rawTail
      BY <2>5, <3>1, RingPlace
    <3>3. slots[(rawTail + 1 - 1) % QueueSlots] = fifo[1]
      BY <2>3, <2>5, <3>1 DEF RingIsQueue
    <3> QED
      BY <3>1, <3>2, <3>3
  <2> QED
    BY <2>4, <2>5, <2>6 DEF SinceReset
<1> QED
  BY <1>1, ReceiveInvKept, PTL DEF ReceiveSpec, NoFrameCrossesReset

=============================================================================
