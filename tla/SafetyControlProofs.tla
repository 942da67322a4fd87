------------------------- MODULE SafetyControlProofs ------------------------
(* Proofs about SafetyControl: see the README for the argument.            *)
EXTENDS SafetyControl, TLAPS

(* Transmit states, and what the STOP duty means of one.                   *)
Rings == {q \in Seq(Lines) : Len(q) <= HighCap}
TxStates == [q : Rings, pending : SUBSET Stops]

Owed(h, st, go, stop) == stop \in st.pending \/ Halted(h, st.q, go, stop)

(* A ring that was only written to.                                        *)
Grew(q1, q2) == q2 = q1 \/ q2 # <<>>

LEMMA RingProperties ==
  ASSUME NEW q \in Rings
  PROVE  /\ q \in Seq(Lines) /\ Len(q) \in Nat /\ Len(q) <= HighCap
         /\ DOMAIN q = 1..Len(q)
         /\ \A i \in 1..Len(q) : q[i] \in Lines
BY DEF Rings

LEMMA AppendRing ==
  ASSUME NEW q \in Rings, HasRoom(q), NEW line \in Lines
  PROVE  /\ Append(q, line) \in Rings
         /\ Append(q, line) # <<>>
         /\ Len(Append(q, line)) = Len(q) + 1
         /\ \A i \in 1..Len(q) : Append(q, line)[i] = q[i]
         /\ Append(q, line)[Len(q) + 1] = line
BY HighCapAssumption DEF Rings, HasRoom

(* A stop at the end of the ring answers everything before it.             *)
LEMMA AppendStopHalts ==
  ASSUME NEW q \in Rings, HasRoom(q), NEW h, NEW stop \in Stops,
         NEW go, stop \notin go
  PROVE  Halted(h, Append(q, stop), go, stop)
<1>1. stop \in Lines
  BY DEF Lines
<1>2. /\ Len(Append(q, stop)) = Len(q) + 1 /\ Append(q, stop)[Len(q) + 1] = stop
      /\ Len(q) \in Nat
  BY <1>1, AppendRing, RingProperties
<1>3. ASSUME NEW i \in 0..Len(Append(q, stop)),
             (IF i = 0 THEN h ELSE Append(q, stop)[i]) \in go
      PROVE  \E j \in (i + 1)..Len(Append(q, stop)) : Append(q, stop)[j] = stop
  <2>1. i # Len(q) + 1
    BY <1>2, <1>3
  <2>2. Len(q) + 1 \in (i + 1)..Len(Append(q, stop))
    BY <1>2, <1>3, <2>1
  <2> QED
    BY <1>2, <2>2
<1> QED
  BY <1>3 DEF Halted

(* A line that is no motion command leaves a halted ring halted.           *)
LEMMA AppendOtherKeepsHalted ==
  ASSUME NEW q \in Rings, HasRoom(q), NEW h, NEW line \in Lines, NEW stop,
         NEW go, line \notin go, Halted(h, q, go, stop)
  PROVE  Halted(h, Append(q, line), go, stop)
<1> DEFINE r == Append(q, line)
<1>1. /\ Len(r) = Len(q) + 1 /\ r[Len(q) + 1] = line /\ Len(q) \in Nat
      /\ \A i \in 1..Len(q) : r[i] = q[i]
  BY AppendRing, RingProperties
<1> HIDE DEF r
<1>2. ASSUME NEW i \in 0..Len(r), (IF i = 0 THEN h ELSE r[i]) \in go
      PROVE  \E j \in (i + 1)..Len(r) : r[j] = stop
  <2>1. i \in 0..Len(q) /\ (IF i = 0 THEN h ELSE q[i]) \in go
    BY <1>1, <1>2
  <2>2. PICK j \in (i + 1)..Len(q) : q[j] = stop
    BY <2>1 DEF Halted
  <2>3. j \in (i + 1)..Len(r) /\ r[j] = stop
    BY <1>1, <2>1, <2>2
  <2> QED
    BY <2>3
<1>3. Halted(h, r, go, stop)
  BY <1>2 DEF Halted
<1> QED
  BY <1>3 DEF r

(* The host gets the line at the tail, which then leaves the ring or not.  *)
LEMMA DeliveryKeepsHalted ==
  ASSUME NEW q \in Rings, q # <<>>, NEW h, NEW stop, NEW go, stop \notin go,
         Halted(h, q, go, stop),
         NEW g, g = h \/ g = Head(q), Head(q) \in go \cup {stop} => g = Head(q)
  PROVE  Tail(q) \in Rings /\ Halted(g, Tail(q), go, stop)
<1>1. /\ Len(q) \in Nat \ {0} /\ Tail(q) \in Rings /\ Len(Tail(q)) = Len(q) - 1
      /\ \A i \in 1..Len(Tail(q)) : Tail(q)[i] = q[i + 1]
      /\ Head(q) = q[1]
  BY HighCapAssumption DEF Rings
<1>2. ASSUME NEW i \in 0..Len(Tail(q)), (IF i = 0 THEN g ELSE Tail(q)[i]) \in go
      PROVE  \E j \in (i + 1)..Len(Tail(q)) : Tail(q)[j] = stop
  <2>1. CASE i # 0 \/ q[1] \in go
    <3>1. i + 1 \in 0..Len(q) /\ q[i + 1] \in go
      BY <1>1, <1>2, <2>1
    <3>2. PICK j \in (i + 2)..Len(q) : q[j] = stop
      BY <3>1, <1>1 DEF Halted
    <3>3. j - 1 \in (i + 1)..Len(Tail(q)) /\ Tail(q)[j - 1] = stop
      BY <1>1, <3>1, <3>2
    <3> QED
      BY <3>3
  <2>2. CASE i = 0 /\ q[1] \notin go
    <3>1. g = h /\ h \in go /\ q[1] # stop
      BY <1>1, <1>2, <2>2
    <3>2. PICK j \in 1..Len(q) : q[j] = stop
      BY <3>1, <1>1 DEF Halted
    <3>3. j - 1 \in 1..Len(Tail(q)) /\ Tail(q)[j - 1] = stop
      BY <1>1, <3>1, <3>2
    <3> QED
      BY <2>2, <3>3
  <2> QED
    BY <2>1, <2>2
<1> QED
  BY <1>1, <1>2 DEF Halted

LEMMA EarlyDeliveryKeepsHalted ==
  ASSUME NEW q \in Rings, q # <<>>, NEW h, NEW stop, NEW go,
         Halted(h, q, go, stop), NEW g, g = h \/ g = Head(q)
  PROVE  Halted(g, q, go, stop)
<1>1. Len(q) \in Nat \ {0} /\ Head(q) = q[1]
  BY DEF Rings
<1>2. ASSUME NEW i \in 0..Len(q), (IF i = 0 THEN g ELSE q[i]) \in go
      PROVE  \E j \in (i + 1)..Len(q) : q[j] = stop
  <2>1. CASE i # 0 \/ g = h
    BY <1>2, <2>1 DEF Halted
  <2>2. CASE i = 0 /\ g = q[1]
    <3>1. PICK j \in 2..Len(q) : q[j] = stop
      BY <1>1, <1>2, <2>2 DEF Halted
    <3> QED
      BY <1>1, <2>2, <3>1
  <2> QED
    BY <1>1, <2>1, <2>2
<1> QED
  BY <1>2 DEF Halted

-----------------------------------------------------------------------------
(* The STOP latches.                                                       *)

(* What a latch operation may do to a transmit state: every duty to stop   *)
(* stays, whatever lines (go) call for the stop; the ring at most grows.   *)
NoStops(go) == go \cap Stops = {}

Keeps(st1, st2) ==
  /\ st2 \in TxStates
  /\ Grew(st1.q, st2.q)
  /\ \A h, go, stop :
       NoStops(go) /\ stop \in Stops /\ Owed(h, st1, go, stop) => Owed(h, st2, go, stop)

Latched(st, line) == \A h, go : NoStops(go) => Owed(h, st, go, line)

LEMMA KeepsTransitive ==
  ASSUME NEW st1, NEW st2, NEW st3, Keeps(st1, st2), Keeps(st2, st3)
  PROVE  /\ Keeps(st1, st3)
         /\ \A line \in Stops : Latched(st2, line) => Latched(st3, line)
BY DEF Keeps, Grew, Latched

LEMMA TxStateFields ==
  ASSUME NEW st \in TxStates
  PROVE  /\ st.q \in Rings /\ st.pending \in SUBSET Stops
         /\ \A q2 \in Rings, p2 \in SUBSET Stops :
              /\ [q |-> q2, pending |-> p2] \in TxStates
              /\ [q |-> q2, pending |-> p2].q = q2
              /\ [q |-> q2, pending |-> p2].pending = p2
BY DEF TxStates

LEMMA StopIsNoMotion ==
  /\ Stops \subseteq Lines /\ Stops \cap (DriveGo \cup SteerGo) = {}
  /\ "DSTOP" \in Stops /\ "SSTOP" \in Stops /\ "NSTOP" \in Stops
  /\ NoStops(DriveGo) /\ NoStops(SteerGo)
BY DEF Stops, Lines, DriveGo, SteerGo, NoStops

LEMMA AppendKeeps ==
  ASSUME NEW st \in TxStates, HasRoom(st.q), NEW line \in Lines
  PROVE  LET st2 == [q |-> Append(st.q, line), pending |-> st.pending]
         IN /\ st2 \in TxStates /\ Grew(st.q, st2.q)
            /\ \A go, stop, h : line \notin go /\ Owed(h, st, go, stop)
                                 => Owed(h, st2, go, stop)
<1> DEFINE st2 == [q |-> Append(st.q, line), pending |-> st.pending]
<1>1. st.q \in Rings /\ Append(st.q, line) \in Rings /\ Append(st.q, line) # <<>>
  BY TxStateFields, AppendRing
<1>2. st2 \in TxStates /\ st2.q = Append(st.q, line) /\ st2.pending = st.pending
  BY <1>1, TxStateFields
<1>3. ASSUME NEW go, NEW stop, NEW h, line \notin go, Owed(h, st, go, stop)
      PROVE  Owed(h, st2, go, stop)
  <2>1. CASE stop \in st.pending
    BY <1>2, <2>1 DEF Owed
  <2>2. CASE Halted(h, st.q, go, stop)
    BY <1>1, <1>2, <1>3, <2>2, AppendOtherKeepsHalted DEF Owed
  <2> QED
    BY <1>3, <2>1, <2>2 DEF Owed
<1> QED
  BY <1>1, <1>2, <1>3 DEF Grew

LEMMA TrySendKeeps ==
  ASSUME NEW st \in TxStates, NEW line \in Stops
  PROVE  Keeps(st, TrySend(st, line))
<1>1. CASE ~(line \in st.pending /\ HasRoom(st.q))
  BY <1>1 DEF TrySend, Keeps, Grew
<1>2. CASE line \in st.pending /\ HasRoom(st.q)
  <2> DEFINE p2 == st.pending \ {line}
             st2 == [q |-> Append(st.q, line), pending |-> p2]
  <2>1. st.q \in Rings /\ line \in Lines /\ p2 \in SUBSET Stops
    BY TxStateFields, StopIsNoMotion
  <2>2. Append(st.q, line) \in Rings /\ Append(st.q, line) # <<>>
    BY <1>2, <2>1, AppendRing
  <2>3. st2 \in TxStates /\ st2.q = Append(st.q, line) /\ st2.pending = p2
    BY <2>1, <2>2, TxStateFields
  <2>4. ASSUME NEW go, NEW stop \in Stops, NEW h, go \cap Stops = {},
               Owed(h, st, go, stop)
        PROVE  Owed(h, st2, go, stop)
    <3>1. CASE stop = line
      <4>1. Halted(h, Append(st.q, line), go, stop)
        BY <1>2, <2>1, <2>4, <3>1, AppendStopHalts
      <4> QED
        BY <4>1, <2>3 DEF Owed
    <3>2. CASE stop # line
      <4>1. CASE stop \in st.pending
        BY <4>1, <3>2, <2>3 DEF Owed
      <4>2. CASE Halted(h, st.q, go, stop)
        BY <4>2, <1>2, <2>1, <2>3, <2>4, AppendOtherKeepsHalted DEF Owed
      <4> QED
        BY <2>4, <4>1, <4>2 DEF Owed
    <3> QED
      BY <3>1, <3>2
  <2>5. Keeps(st, st2)
    <3> HIDE DEF st2
    <3> QED
      BY <2>2, <2>3, <2>4 DEF Keeps, Grew, NoStops
  <2> QED
    BY <1>2, <2>5 DEF TrySend
<1> QED
  BY <1>1, <1>2

LEMMA SafetyTxKeeps ==
  ASSUME NEW st \in TxStates
  PROVE  Keeps(st, SafetyTx(st))
<1> DEFINE a == TrySend(st, "DSTOP")
           b == TrySend(a, "SSTOP")
           c == TrySend(b, "NSTOP")
<1>1. Keeps(st, a)
  BY TrySendKeeps, StopIsNoMotion
<1>2. Keeps(a, b)
  BY <1>1, TrySendKeeps, StopIsNoMotion DEF Keeps
<1>3. Keeps(b, c)
  BY <1>2, TrySendKeeps, StopIsNoMotion DEF Keeps
<1> HIDE DEF a, b, c
<1>4. Keeps(st, c)
  BY <1>1, <1>2, <1>3, KeepsTransitive
<1> QED
  BY <1>4 DEF a, b, c, SafetyTx

LEMMA LatchAndSendKeeps ==
  ASSUME NEW st \in TxStates, NEW line \in Stops
  PROVE  Keeps(st, LatchAndSend(st, line)) /\ Latched(LatchAndSend(st, line), line)
<1> DEFINE st2 == [q |-> st.q, pending |-> st.pending \cup {line}]
<1>1. st2 \in TxStates /\ st2.q = st.q /\ st2.pending = st.pending \cup {line}
  BY TxStateFields
<1> HIDE DEF st2
<1>2. Keeps(st, st2)
  BY <1>1 DEF Keeps, Grew, Owed
<1>3. Latched(st2, line)
  BY <1>1 DEF Latched, Owed
<1>4. Keeps(st2, SafetyTx(st2))
  BY <1>1, SafetyTxKeeps
<1>5. Keeps(st, SafetyTx(st2)) /\ Latched(SafetyTx(st2), line)
  BY <1>2, <1>3, <1>4, KeepsTransitive
<1> QED
  BY <1>5 DEF LatchAndSend, st2

LEMMA StopAllManualKeeps ==
  ASSUME NEW st \in TxStates
  PROVE  /\ Keeps(st, StopAllManual(st))
         /\ Latched(StopAllManual(st), "DSTOP") /\ Latched(StopAllManual(st), "SSTOP")
<1> DEFINE a == LatchAndSend(st, "DSTOP")
           b == LatchAndSend(a, "SSTOP")
<1>1. Keeps(st, a) /\ Latched(a, "DSTOP")
  BY LatchAndSendKeeps, StopIsNoMotion
<1>2. Keeps(a, b) /\ Latched(b, "SSTOP")
  BY <1>1, LatchAndSendKeeps, StopIsNoMotion DEF Keeps
<1> HIDE DEF a, b
<1>3. Keeps(st, b) /\ Latched(b, "DSTOP")
  BY <1>1, <1>2, KeepsTransitive, StopIsNoMotion
<1> QED
  BY <1>2, <1>3 DEF StopAllManual, a, b

LEMMA ForceOfflineKeeps ==
  ASSUME NEW st \in TxStates
  PROVE  /\ Keeps(st, ForceOffline(st))
         /\ \A stop \in Stops : Latched(ForceOffline(st), stop)
<1> DEFINE a == StopAllManual(st)
           b == LatchAndSend(a, "NSTOP")
<1>1. Keeps(st, a) /\ Latched(a, "DSTOP") /\ Latched(a, "SSTOP")
  BY StopAllManualKeeps
<1>2. Keeps(a, b) /\ Latched(b, "NSTOP")
  BY <1>1, LatchAndSendKeeps, StopIsNoMotion DEF Keeps
<1> HIDE DEF a, b
<1>3. Keeps(st, b) /\ Latched(b, "DSTOP") /\ Latched(b, "SSTOP")
  BY <1>1, <1>2, KeepsTransitive, StopIsNoMotion
<1> QED
  BY <1>2, <1>3 DEF ForceOffline, a, b, Stops

-----------------------------------------------------------------------------
(* Type correctness.                                                       *)

ActiveRing == tx = "high" => hq # <<>>
TInv == TypeOK /\ ActiveRing /\ lastGen <= gen

LEMMA NowIsTxState ==
  ASSUME TypeOK
  PROVE  Now \in TxStates /\ Now.q = hq /\ Now.pending = pending /\ hq \in Rings
BY DEF TypeOK, UsbTypeOK, Now, TxStates, Rings

LEMMA TransmitType ==
  ASSUME TypeOK, ActiveRing, NEW st \in TxStates, Grew(hq, st.q), Transmit(st)
  PROVE  UsbTypeOK' /\ pending' \subseteq Stops /\ ActiveRing' /\ gen' = gen
<1>1. st.q \in Rings /\ st.pending \in SUBSET Stops
  BY TxStateFields
<1>2. UsbTypeOK'
  BY <1>1 DEF TypeOK, UsbTypeOK, Rings, Transmit
<1>3. ActiveRing'
  BY DEF ActiveRing, Grew, Transmit
<1> QED
  BY <1>1, <1>2, <1>3 DEF Transmit

LEMMA SendType ==
  ASSUME TypeOK, ActiveRing, NEW line \in Lines, HasRoom(hq),
         Transmit([Now EXCEPT !.q = Append(hq, line)])
  PROVE  UsbTypeOK' /\ pending' \subseteq Stops /\ ActiveRing' /\ gen' = gen
<1> DEFINE st == [q |-> Append(hq, line), pending |-> pending]
<1>1. [Now EXCEPT !.q = Append(hq, line)] = st
  BY DEF Now
<1>2. st \in TxStates /\ Grew(hq, st.q)
  BY NowIsTxState, TxStateFields, AppendRing DEF Grew
<1> HIDE DEF st
<1> QED
  BY <1>1, <1>2, TransmitType

LEMMA LatchType ==
  ASSUME TypeOK, ActiveRing,
         \/ \E line \in Stops : Transmit(LatchAndSend(Now, line))
         \/ Transmit(SafetyTx(Now))
         \/ Transmit(StopAllManual(Now))
         \/ Transmit(ForceOffline(Now))
  PROVE  UsbTypeOK' /\ pending' \subseteq Stops /\ ActiveRing' /\ gen' = gen
<1>1. ASSUME NEW st, Keeps(Now, st), Transmit(st)
      PROVE  UsbTypeOK' /\ pending' \subseteq Stops /\ ActiveRing' /\ gen' = gen
  BY <1>1, NowIsTxState, TransmitType DEF Keeps
<1> QED
  BY <1>1, NowIsTxState, LatchAndSendKeeps, SafetyTxKeeps, StopAllManualKeeps,
     ForceOfflineKeeps

LEMMA HostType ==
  ASSUME TypeOK, NEW line, HostGets(line)
  PROVE  /\ hostDrive' \in DriveGo \cup {"DSTOP"}
         /\ hostSteer' \in SteerGo \cup {"SSTOP"}
         /\ navOwed' \in BOOLEAN /\ acked' \in BOOLEAN
         /\ unstopped' \in BOOLEAN
BY DEF TypeOK, HostGets

LEMMA HostMayType ==
  ASSUME TypeOK, HostMayGet
  PROVE  /\ hostDrive' \in DriveGo \cup {"DSTOP"}
         /\ hostSteer' \in SteerGo \cup {"SSTOP"}
         /\ navOwed' \in BOOLEAN /\ acked' \in BOOLEAN
         /\ unstopped' \in BOOLEAN
BY HostType DEF TypeOK, HostMayGet, hostVars

LEMMA ShortRings == <<>> \in Rings /\ <<"REPLY">> \in Rings
<1>1. <<>> \in Rings
  BY HighCapAssumption DEF Rings
<1>2. <<"REPLY">> \in Seq(Lines) /\ Len(<<"REPLY">>) = 1
  BY DEF Lines
<1> QED
  BY <1>1, <1>2, HighCapAssumption DEF Rings

LEMMA RestartType ==
  ASSUME TypeOK, ActiveRing, NEW following \in Rings,
         SoftRestart(following) \/ RepairEndpoint(following)
  PROVE  UsbTypeOK' /\ ActiveRing' /\ gen' = gen + 1
<1>1. /\ UsbTypeOK /\ gen \in Nat
      /\ following \in Seq(Lines) /\ Len(following) <= HighCap
  BY DEF TypeOK, UsbTypeOK, Rings
<1>2. CASE SoftRestart(following)
  <2>1. /\ hq' = following /\ stuck' = FALSE /\ gen' = gen + 1 /\ tx' = "idle"
        /\ dev' = "default" /\ established' = FALSE /\ token' = 0
        /\ recovery' = FALSE
    BY <1>2 DEF SoftRestart, DropQueues
  <2>2. hq' \in Seq(Lines) /\ Len(hq') <= HighCap
    BY <1>1, <2>1
  <2>3. gen' \in Nat
    BY <1>1, <2>1
  <2>4. UsbTypeOK'
    BY <2>1, <2>2, <2>3 DEF UsbTypeOK
  <2>5. ActiveRing'
    BY <2>1 DEF ActiveRing
  <2> QED
    BY <2>1, <2>4, <2>5
<1>3. CASE RepairEndpoint(following)
  <2>1. /\ hq' = following /\ stuck' = FALSE /\ gen' = gen + 1
        /\ tx' = IF following = <<>> THEN "idle" ELSE "high"
        /\ UNCHANGED <<dev, established, token, recovery>>
    BY <1>3 DEF RepairEndpoint, DropQueues
  <2>2. hq' \in Seq(Lines) /\ Len(hq') <= HighCap
    BY <1>1, <2>1
  <2>3. gen' \in Nat
    BY <1>1, <2>1
  <2>4. UsbTypeOK'
    BY <1>1, <2>1, <2>2, <2>3 DEF UsbTypeOK
  <2>5. ActiveRing'
    BY <2>1 DEF ActiveRing
  <2> QED
    BY <2>1, <2>4, <2>5
<1> QED
  BY <1>2, <1>3

LEMMA ServicePollType ==
  ASSUME TypeOK, ActiveRing, tx' \in PollAfter(hq, tx), UNCHANGED hq
  PROVE  tx' \in {"idle", "high", "low"} /\ ActiveRing'
BY DEF TypeOK, UsbTypeOK, ActiveRing, PollAfter

LoopTypeOK ==
  /\ pc \in Pc /\ pending \subseteq Stops /\ lastGen \in Nat
  /\ driving \in DriveGo \cup {"none"}
  /\ leaseDue \in BOOLEAN /\ ticks \in 0..DriveTicks
  /\ steerRun \in BOOLEAN
  /\ ros \in BOOLEAN /\ vstate \in VehicleStates
  /\ gate \in Gates /\ nav \in BOOLEAN

HostTypeOK ==
  /\ hostDrive \in DriveGo \cup {"DSTOP"}
  /\ hostSteer \in SteerGo \cup {"SSTOP"}
  /\ navOwed \in BOOLEAN /\ acked \in BOOLEAN
  /\ unstopped \in BOOLEAN

BoundTypeOK ==
  /\ faults \in 0..MaxFaults /\ hellos \in 0..MaxHellos
  /\ presses \in 0..MaxPresses /\ replies \in 0..MaxReplies

LEMMA TypeParts ==
  TypeOK <=> UsbTypeOK /\ LoopTypeOK /\ HostTypeOK /\ BoundTypeOK
BY DEF TypeOK, LoopTypeOK, HostTypeOK, BoundTypeOK

LEMMA TypesNext ==
  ASSUME UsbTypeOK', LoopTypeOK', HostTypeOK', BoundTypeOK', ActiveRing',
         lastGen' <= gen'
  PROVE  TInv'
BY DEF TInv, TypeOK, LoopTypeOK, HostTypeOK, BoundTypeOK

LEMMA BoundsInNat ==
  /\ DriveTicks \in Nat /\ MaxFaults \in Nat /\ MaxHellos \in Nat
  /\ MaxPresses \in Nat /\ MaxReplies \in Nat
  /\ HostGates \subseteq Gates /\ HostStates \subseteq VehicleStates
  /\ HostNav \subseteq BOOLEAN
<1>1. /\ DriveTicks \in Nat /\ {MaxFaults, MaxHellos, MaxPresses, MaxReplies} \subseteq Nat
      /\ HostGates \subseteq Gates /\ HostStates \subseteq VehicleStates
      /\ HostNav \subseteq BOOLEAN
  BY BoundsAssumption
<1>2. /\ MaxFaults \in Nat /\ MaxHellos \in Nat /\ MaxPresses \in Nat /\ MaxReplies \in Nat
  BY <1>1
<1> QED
  BY <1>1, <1>2

(* The moves of the motion tests in a transmit step.                       *)
LEMMA DriveStoppedType ==
  ASSUME DriveStopped
  PROVE  /\ driving' \in DriveGo \cup {"none"} /\ leaseDue' \in BOOLEAN
         /\ ticks' \in 0..DriveTicks /\ vstate' \in VehicleStates
<1>1. driving' = "none" /\ leaseDue' = FALSE /\ ticks' = 0 /\ vstate' = "STOPPED"
  BY DEF DriveStopped
<1>2. 0 \in 0..DriveTicks
  BY BoundsInNat
<1> QED
  BY <1>1, <1>2 DEF VehicleStates

LEMMA RosOfflineType ==
  ASSUME TypeOK, ActiveRing, RosOffline
  PROVE  /\ UsbTypeOK' /\ pending' \subseteq Stops /\ ActiveRing' /\ gen' = gen
         /\ driving' \in DriveGo \cup {"none"} /\ leaseDue' \in BOOLEAN
         /\ ticks' \in 0..DriveTicks /\ vstate' \in VehicleStates
         /\ steerRun' \in BOOLEAN /\ ros' \in BOOLEAN /\ gate' \in Gates
         /\ nav' \in BOOLEAN /\ navOwed' \in BOOLEAN
<1>1. UsbTypeOK' /\ pending' \subseteq Stops /\ ActiveRing' /\ gen' = gen
  BY LatchType DEF RosOffline
<1> QED
  BY <1>1, DriveStoppedType DEF RosOffline, Gates

LEMMA AllManualStoppedType ==
  ASSUME TypeOK, ActiveRing, AllManualStopped
  PROVE  /\ UsbTypeOK' /\ pending' \subseteq Stops /\ ActiveRing' /\ gen' = gen
         /\ driving' \in DriveGo \cup {"none"} /\ leaseDue' \in BOOLEAN
         /\ ticks' \in 0..DriveTicks /\ vstate' \in VehicleStates
         /\ steerRun' \in BOOLEAN /\ UNCHANGED hostVars
<1>1. UsbTypeOK' /\ pending' \subseteq Stops /\ ActiveRing' /\ gen' = gen
  BY LatchType DEF AllManualStopped
<1> QED
  BY <1>1, DriveStoppedType DEF AllManualStopped

LEMMA RefreshType ==
  ASSUME TypeOK, ActiveRing, NEW r \in BOOLEAN, NEW g \in Gates,
         NEW v \in VehicleStates, NEW n \in BOOLEAN, Refresh(r, g, v, n)
  PROVE  /\ UsbTypeOK' /\ pending' \subseteq Stops /\ ActiveRing' /\ gen' = gen
         /\ driving' \in DriveGo \cup {"none"} /\ leaseDue' \in BOOLEAN
         /\ ticks' \in 0..DriveTicks /\ vstate' \in VehicleStates
         /\ steerRun' \in BOOLEAN /\ ros' \in BOOLEAN /\ gate' \in Gates
         /\ nav' \in BOOLEAN /\ UNCHANGED hostVars
<1> DEFINE stopDrive == driving # "none" /\ ~DriveGateOpen(r, g, v)
           v1 == IF stopDrive THEN "STOPPED" ELSE v
           stopSteer == steerRun /\ ~SteerGateOpen(r, g, v1)
           st1 == IF stopDrive THEN LatchAndSend(Now, "DSTOP") ELSE Now
           st2 == IF stopSteer THEN LatchAndSend(st1, "SSTOP") ELSE st1
<1>1. /\ Transmit(st2)
      /\ IF stopDrive THEN DriveStopped ELSE vstate' = v /\ UNCHANGED driveVars
      /\ steerRun' = (steerRun /\ ~stopSteer)
      /\ ros' = r /\ gate' = g /\ nav' = n
      /\ UNCHANGED hostVars
  BY DEF Refresh
<1>2. Keeps(Now, st1)
  BY NowIsTxState, LatchAndSendKeeps, StopIsNoMotion DEF Keeps, Grew
<1>3. Keeps(st1, st2)
  BY <1>2, LatchAndSendKeeps, StopIsNoMotion DEF Keeps, Grew
<1>4. Keeps(Now, st2)
  <2> HIDE DEF st1, st2
  <2> QED
    BY <1>2, <1>3, KeepsTransitive
<1>5. UsbTypeOK' /\ pending' \subseteq Stops /\ ActiveRing' /\ gen' = gen
  <2> HIDE DEF st2
  <2> QED
    BY <1>1, <1>4, NowIsTxState, TransmitType DEF Keeps
<1>6. /\ driving' \in DriveGo \cup {"none"} /\ leaseDue' \in BOOLEAN
      /\ ticks' \in 0..DriveTicks /\ vstate' \in VehicleStates
  <2> HIDE DEF stopDrive
  <2> QED
    BY <1>1, DriveStoppedType DEF TypeOK, driveVars
<1>7. steerRun' \in BOOLEAN
  BY <1>1
<1> QED
  BY <1>1, <1>5, <1>6, <1>7
(* Every action keeps the types. *)
LEMMA LoopTyped ==
  ASSUME TInv, Loop
  PROVE  TInv'
<1>1. /\ TypeOK /\ UsbTypeOK /\ LoopTypeOK /\ HostTypeOK /\ BoundTypeOK
      /\ ActiveRing /\ lastGen \in Nat /\ gen \in Nat /\ lastGen <= gen
  BY TypeParts DEF TInv, UsbTypeOK, LoopTypeOK
<1> USE <1>1
<1>2. CASE LoopService
  <2>1. UsbTypeOK' /\ pending' \subseteq Stops /\ ActiveRing' /\ gen' >= gen /\ HostTypeOK'
    <3>1. CASE SoftRestart(<<>>) /\ HostMayGet
      BY <1>2, <3>1, RestartType, ShortRings, HostMayType DEF LoopService, HostTypeOK, LoopTypeOK
    <3>2. CASE RepairEndpoint(<<>>) /\ UNCHANGED hostVars
      BY <1>2, <3>2, RestartType, ShortRings DEF LoopService, HostTypeOK, LoopTypeOK, hostVars
    <3>3. CASE ServicePoll /\ UNCHANGED hostVars
      BY <1>2, <3>3, ServicePollType DEF LoopService, ServicePoll, UsbTypeOK, HostTypeOK, LoopTypeOK, hostVars
    <3> QED
      BY <1>2, <3>1, <3>2, <3>3 DEF LoopService
  <2>2. gen' \in Nat /\ lastGen' = lastGen
    BY <1>2, <2>1 DEF LoopService, UsbTypeOK
  <2>3. LoopTypeOK' /\ BoundTypeOK' /\ lastGen' <= gen'
    BY <1>2, <2>1, <2>2 DEF LoopService, LoopTypeOK, BoundTypeOK, Goto, Pc, driveVars, teleVars, boundVars
  <2> QED
    BY <2>1, <2>3, TypesNext
<1>3. CASE CheckGeneration
  <2>1. UsbTypeOK' /\ pending' \subseteq Stops /\ ActiveRing' /\ gen' = gen
    <3>1. UNCHANGED usbVars /\ pending' \in {pending, Stops}
      BY <1>3 DEF CheckGeneration
    <3> QED
      BY <3>1 DEF UsbTypeOK, LoopTypeOK, ActiveRing, usbVars
  <2>2. LoopTypeOK'
    BY <1>3, <2>1 DEF CheckGeneration, LoopTypeOK, Goto, Pc, HelloPc,
       driveVars, teleVars, loopVars
  <2>3. HostTypeOK' /\ BoundTypeOK'
    BY <1>3 DEF CheckGeneration, HostTypeOK, BoundTypeOK, hostVars, boundVars
  <2>4. lastGen' <= gen'
    BY <1>3, <2>1 DEF CheckGeneration, loopVars
  <2> QED
    BY <2>1, <2>2, <2>3, <2>4, TypesNext
<1>4. CASE CheckAuthority
  <2>1. CASE RosOffline
    BY <1>4, <2>1, RosOfflineType, TypesNext DEF CheckAuthority, TInv, LoopTypeOK,
       HostTypeOK, BoundTypeOK, Goto, Pc, boundVars
  <2>2. CASE UNCHANGED <<usbVars, pending, driveVars, steerRun, teleVars, navOwed>>
    <3>1. UsbTypeOK' /\ ActiveRing' /\ gen' = gen
      BY <2>2 DEF UsbTypeOK, ActiveRing, usbVars
    <3> QED
      BY <1>4, <2>2, <3>1, TypesNext DEF CheckAuthority, TInv, LoopTypeOK,
         HostTypeOK, BoundTypeOK, Goto, Pc, driveVars, teleVars, boundVars
  <2>3. RosOffline \/ UNCHANGED <<usbVars, pending, driveVars, steerRun, teleVars, navOwed>>
    BY <1>4, Zenon DEF CheckAuthority
  <2> QED
    BY <2>1, <2>2, <2>3
<1>5. CASE ServiceSafetyControlTx
  <2>1. UsbTypeOK' /\ pending' \subseteq Stops /\ ActiveRing' /\ gen' = gen
    BY <1>5, LatchType DEF ServiceSafetyControlTx
  <2>2. LoopTypeOK'
    BY <1>5, <2>1 DEF ServiceSafetyControlTx, LoopTypeOK, Goto, Pc, HelloPc,
       driveVars, teleVars, loopVars
  <2>3. HostTypeOK' /\ BoundTypeOK'
    BY <1>5 DEF ServiceSafetyControlTx, HostTypeOK, BoundTypeOK, hostVars, boundVars
  <2>4. lastGen' <= gen'
    BY <1>5, <2>1 DEF ServiceSafetyControlTx, loopVars
  <2> QED
    BY <2>1, <2>2, <2>3, <2>4, TypesNext
<1>6. CASE ServiceManualDriveLease
  <2>1. /\ UsbTypeOK' /\ pending' \subseteq Stops /\ ActiveRing' /\ gen' = gen
        /\ driving' \in DriveGo \cup {"none"} /\ leaseDue' \in BOOLEAN
        /\ ticks' \in 0..DriveTicks /\ vstate' \in VehicleStates
    <3>1. CASE UNCHANGED <<usbVars, pending, driveVars, vstate>>
      BY <3>1 DEF UsbTypeOK, ActiveRing, LoopTypeOK, usbVars, driveVars
    <3>2. CASE Transmit(LatchAndSend(Now, "DSTOP")) /\ DriveStopped
      BY <3>2, LatchType, StopIsNoMotion, DriveStoppedType
    <3>3. CASE /\ driving # "none"
               /\ Transmit([Now EXCEPT !.q = Enqueue(hq, driving)])
               /\ leaseDue' = ~HasRoom(hq)
               /\ UNCHANGED <<driving, ticks, vstate>>
      <4>1. driving \in Lines /\ leaseDue' \in BOOLEAN
        BY <3>3 DEF LoopTypeOK, Lines
      <4>2. CASE HasRoom(hq)
        BY <3>3, <4>1, <4>2, SendType DEF Enqueue, LoopTypeOK
      <4>3. CASE ~HasRoom(hq)
        <5>1. Transmit(Now)
          BY <3>3, <4>3 DEF Enqueue, Now
        <5>2. UsbTypeOK' /\ pending' \subseteq Stops /\ ActiveRing' /\ gen' = gen
          BY <5>1, NowIsTxState, TransmitType DEF Grew
        <5> QED
          BY <3>3, <4>1, <5>2 DEF LoopTypeOK
      <4> QED
        BY <4>2, <4>3
    <3> QED
      BY <1>6, <3>1, <3>2, <3>3 DEF ServiceManualDriveLease
  <2>2. LoopTypeOK' /\ HostTypeOK' /\ BoundTypeOK' /\ lastGen' <= gen'
    BY <1>6, <2>1 DEF ServiceManualDriveLease, LoopTypeOK, HostTypeOK,
       BoundTypeOK, Goto, Pc, hostVars, boundVars
  <2> QED
    BY <2>1, <2>2, TypesNext
<1>7. CASE PollSerialGui
  <2>1. UsbTypeOK' /\ pending' \subseteq Stops /\ ActiveRing' /\ gen' = gen
    BY <1>7, ServicePollType DEF PollSerialGui, UsbTypeOK, LoopTypeOK
  <2>2. LoopTypeOK'
    BY <1>7, <2>1 DEF PollSerialGui, LoopTypeOK, Goto, Pc, HelloPc,
       driveVars, teleVars, loopVars
  <2>3. HostTypeOK' /\ BoundTypeOK'
    BY <1>7 DEF PollSerialGui, HostTypeOK, BoundTypeOK, hostVars, boundVars
  <2>4. lastGen' <= gen'
    BY <1>7, <2>1 DEF PollSerialGui, loopVars
  <2> QED
    BY <2>1, <2>2, <2>3, <2>4, TypesNext
<1>8. CASE HelloAck
  <2>1. UsbTypeOK' /\ pending' \subseteq Stops /\ ActiveRing' /\ gen' = gen /\ pc' \in Pc
    <3>1. CASE HasRoom(hq)
      <4>1. "ACK" \in Lines
        BY DEF Lines
      <4> QED
        BY <1>8, <3>1, <4>1, SendType DEF HelloAck, Goto, Pc, HelloPc
    <3>2. CASE ~HasRoom(hq)
      BY <1>8, <3>2 DEF HelloAck, UsbTypeOK, LoopTypeOK, ActiveRing, Goto, Pc, HelloPc
    <3> QED
      BY <3>1, <3>2
  <2>2. LoopTypeOK' /\ HostTypeOK' /\ BoundTypeOK' /\ lastGen' <= gen'
    BY <1>8, <2>1 DEF HelloAck, LoopTypeOK, HostTypeOK, BoundTypeOK, Goto,
       hostVars, driveVars, teleVars, boundVars
  <2> QED
    BY <2>1, <2>2, TypesNext
<1>9. CASE HelloConfirm
  <2>1. UsbTypeOK' /\ pending' \subseteq Stops /\ ActiveRing' /\ gen' = gen
    BY <1>9 DEF HelloConfirm, UsbTypeOK, LoopTypeOK, ActiveRing, usbVars, loopVars
  <2>2. LoopTypeOK'
    BY <1>9, <2>1 DEF HelloConfirm, LoopTypeOK, Goto, Pc, HelloPc,
       driveVars, teleVars, loopVars
  <2>3. HostTypeOK' /\ BoundTypeOK'
    BY <1>9 DEF HelloConfirm, HostTypeOK, BoundTypeOK, hostVars, boundVars
  <2>4. lastGen' <= gen'
    BY <1>9, <2>1 DEF HelloConfirm, loopVars
  <2> QED
    BY <2>1, <2>2, <2>3, <2>4, TypesNext
<1>10. CASE HelloOffline
  BY <1>10, RosOfflineType, TypesNext DEF HelloOffline, TInv, LoopTypeOK,
     HostTypeOK, BoundTypeOK, Goto, Pc, boundVars
<1>11. CASE ParseDone
  <2>1. UsbTypeOK' /\ pending' \subseteq Stops /\ ActiveRing' /\ gen' = gen
    BY <1>11 DEF ParseDone, UsbTypeOK, LoopTypeOK, ActiveRing, usbVars, loopVars
  <2>2. LoopTypeOK'
    BY <1>11, <2>1 DEF ParseDone, LoopTypeOK, Goto, Pc, HelloPc,
       driveVars, teleVars, loopVars
  <2>3. HostTypeOK' /\ BoundTypeOK'
    BY <1>11 DEF ParseDone, HostTypeOK, BoundTypeOK, hostVars, boundVars
  <2>4. lastGen' <= gen'
    BY <1>11, <2>1 DEF ParseDone, loopVars
  <2> QED
    BY <2>1, <2>2, <2>3, <2>4, TypesNext
<1>12. CASE DriveDeadline
  <2>1. /\ UsbTypeOK' /\ pending' \subseteq Stops /\ ActiveRing' /\ gen' = gen
        /\ driving' \in DriveGo \cup {"none"} /\ leaseDue' \in BOOLEAN
        /\ ticks' \in 0..DriveTicks /\ vstate' \in VehicleStates
    <3>1. CASE UNCHANGED <<usbVars, pending, driveVars, vstate>>
      BY <3>1 DEF UsbTypeOK, ActiveRing, LoopTypeOK, usbVars, driveVars
    <3>2. CASE Transmit(LatchAndSend(Now, "DSTOP")) /\ DriveStopped
      BY <3>2, LatchType, StopIsNoMotion, DriveStoppedType
    <3> QED
      BY <1>12, <3>1, <3>2 DEF DriveDeadline
  <2>2. LoopTypeOK' /\ HostTypeOK' /\ BoundTypeOK' /\ lastGen' <= gen'
    BY <1>12, <2>1 DEF DriveDeadline, LoopTypeOK, HostTypeOK, BoundTypeOK,
       Goto, Pc, hostVars, boundVars
  <2> QED
    BY <2>1, <2>2, TypesNext
<1>13. CASE TouchNothing
  <2>1. UsbTypeOK' /\ pending' \subseteq Stops /\ ActiveRing' /\ gen' = gen
    BY <1>13 DEF TouchNothing, UsbTypeOK, LoopTypeOK, ActiveRing, usbVars, loopVars
  <2>2. LoopTypeOK'
    BY <1>13, <2>1 DEF TouchNothing, LoopTypeOK, Goto, Pc, HelloPc,
       driveVars, teleVars, loopVars
  <2>3. HostTypeOK' /\ BoundTypeOK'
    BY <1>13 DEF TouchNothing, HostTypeOK, BoundTypeOK, hostVars, boundVars
  <2>4. lastGen' <= gen'
    BY <1>13, <2>1 DEF TouchNothing, loopVars
  <2> QED
    BY <2>1, <2>2, <2>3, <2>4, TypesNext
<1> QED
  BY <1>2, <1>3, <1>4, <1>5, <1>6, <1>7, <1>8, <1>9, <1>10, <1>11, <1>12, <1>13 DEF Loop

(* The commands keep the types. *)
LEMMA TrimmedRing ==
  ASSUME TypeOK, ActiveRing
  PROVE  Trimmed(hq) \in Rings /\ (tx = "high" => Trimmed(hq) # <<>>)
<1>1. CASE tx # "high"
  BY <1>1, ShortRings DEF Trimmed
<1>2. CASE tx = "high"
  <2> DEFINE l == IF Head(hq) = "ACK" THEN "REPLY" ELSE Head(hq)
  <2>1. hq \in Seq(Lines) /\ hq # <<>>
    BY <1>2 DEF TypeOK, UsbTypeOK, ActiveRing
  <2>2. l \in Lines
    BY <2>1 DEF Lines
  <2> HIDE DEF l
  <2>3. <<l>> \in Seq(Lines) /\ Len(<<l>>) = 1 /\ <<l>> # <<>>
    BY <2>2
  <2>4. Trimmed(hq) = <<l>>
    BY <1>2 DEF Trimmed, l
  <2> QED
    BY <2>3, <2>4, HighCapAssumption DEF Rings
<1> QED
  BY <1>1, <1>2

LEMMA CommandsTyped ==
  ASSUME TInv, Commands
  PROVE  TInv'
<1>1. /\ TypeOK /\ UsbTypeOK /\ LoopTypeOK /\ HostTypeOK /\ BoundTypeOK
      /\ ActiveRing /\ lastGen \in Nat /\ gen \in Nat /\ lastGen <= gen
  BY TypeParts DEF TInv, UsbTypeOK, LoopTypeOK
<1> USE <1>1
<1>2. ASSUME NEW t \in Tokens, HelloBegin(t)
      PROVE  TInv'
  <2>1. UsbTypeOK'
    BY <1>2, TrimmedRing DEF HelloBegin, UsbTypeOK, Rings
  <2>2. ActiveRing'
    BY <1>2, TrimmedRing DEF HelloBegin, ActiveRing
  <2>3. LoopTypeOK'
    BY <1>2 DEF HelloBegin, LoopTypeOK, Goto, Pc, HelloPc, driveVars, teleVars
  <2>4. HostTypeOK' /\ BoundTypeOK'
    <3>1. /\ hellos < MaxHellos /\ hellos' = hellos + 1 /\ acked' = FALSE
          /\ UNCHANGED <<hostDrive, hostSteer, navOwed, unstopped, faults, presses, replies>>
      BY <1>2 DEF HelloBegin
    <3>2. HostTypeOK'
      BY <3>1 DEF HostTypeOK
    <3> QED
      BY <3>1, <3>2, BoundsInNat DEF BoundTypeOK
  <2>5. lastGen' <= gen'
    BY <1>2 DEF HelloBegin
  <2> QED
    BY <2>1, <2>2, <2>3, <2>4, <2>5, TypesNext
<1>3. CASE HostTelemetry
  <2>1. \E r \in BOOLEAN, g \in Gates, v \in VehicleStates, m \in BOOLEAN : Refresh(r, g, v, m)
    <3>1. ros \in BOOLEAN /\ gate \in Gates /\ vstate \in VehicleStates /\ nav \in BOOLEAN
      BY DEF LoopTypeOK
    <3>2. CASE Refresh(TRUE, gate, vstate, nav)
      BY <3>1, <3>2
    <3>3. CASE \E g \in HostGates \ {gate} : Refresh(ros, g, vstate, nav)
      BY <3>1, <3>3, BoundsInNat
    <3>4. CASE \E v \in HostStates \ {vstate} : Refresh(ros, gate, v, nav)
      BY <3>1, <3>4, BoundsInNat
    <3>5. CASE \E m \in HostNav \ {nav} : Refresh(ros, gate, vstate, m)
      BY <3>1, <3>5, BoundsInNat
    <3> QED
      BY <1>3, <3>2, <3>3, <3>4, <3>5 DEF HostTelemetry
  <2>2. PICK r \in BOOLEAN, g \in Gates, v \in VehicleStates, m \in BOOLEAN : Refresh(r, g, v, m)
    BY <2>1
  <2>3. /\ UsbTypeOK' /\ pending' \subseteq Stops /\ ActiveRing' /\ gen' = gen
        /\ driving' \in DriveGo \cup {"none"} /\ leaseDue' \in BOOLEAN
        /\ ticks' \in 0..DriveTicks /\ vstate' \in VehicleStates
        /\ steerRun' \in BOOLEAN /\ ros' \in BOOLEAN /\ gate' \in Gates
        /\ nav' \in BOOLEAN /\ UNCHANGED hostVars
    BY <2>2, RefreshType
  <2>4. UNCHANGED <<pc, lastGen, boundVars>>
    BY <1>3 DEF HostTelemetry
  <2>5. LoopTypeOK'
    BY <2>3, <2>4 DEF LoopTypeOK
  <2>6. HostTypeOK' /\ BoundTypeOK' /\ lastGen' <= gen'
    BY <2>3, <2>4 DEF HostTypeOK, BoundTypeOK, hostVars, boundVars
  <2> QED
    BY <2>3, <2>5, <2>6, TypesNext
<1>4. CASE HostRosDown
  BY <1>4, RosOfflineType, TypesNext DEF HostRosDown, LoopTypeOK, HostTypeOK,
     BoundTypeOK, boundVars
<1>5. CASE HostEStop
  BY <1>5, AllManualStoppedType, TypesNext DEF HostEStop, LoopTypeOK, HostTypeOK,
     BoundTypeOK, boundVars, hostVars, Gates
<1>6. CASE HostQuery
  <2>1. UsbTypeOK' /\ pending' \subseteq Stops /\ ActiveRing' /\ gen' >= gen /\ HostTypeOK'
    <3>1. CASE HasRoom(hq) /\ Transmit([Now EXCEPT !.q = Append(hq, "REPLY")]) /\ UNCHANGED hostVars
      <4>1. "REPLY" \in Lines
        BY DEF Lines
      <4> QED
        BY <3>1, <4>1, SendType DEF HostTypeOK, hostVars
    <3>2. CASE SoftRestart(<<"REPLY">>) /\ HostMayGet /\ UNCHANGED pending
      BY <3>2, RestartType, ShortRings, HostMayType DEF HostTypeOK, LoopTypeOK
    <3>3. CASE RepairEndpoint(<<"REPLY">>) /\ UNCHANGED <<pending, hostVars>>
      BY <3>3, RestartType, ShortRings DEF HostTypeOK, LoopTypeOK, hostVars
    <3>4. CASE ServicePoll /\ UNCHANGED <<pending, hostVars>>
      BY <3>4, ServicePollType DEF ServicePoll, UsbTypeOK, HostTypeOK, LoopTypeOK, hostVars
    <3> QED
      BY <1>6, <3>1, <3>2, <3>3, <3>4 DEF HostQuery
  <2>2. gen' \in Nat /\ lastGen' = lastGen
    BY <1>6, <2>1 DEF HostQuery, UsbTypeOK
  <2>3. LoopTypeOK'
    BY <1>6, <2>1, <2>2 DEF HostQuery, LoopTypeOK, driveVars, teleVars
  <2>4. BoundTypeOK' /\ lastGen' <= gen'
    BY <1>6, <2>1, <2>2, BoundsInNat DEF HostQuery, BoundTypeOK
  <2> QED
    BY <2>1, <2>3, <2>4, TypesNext
<1>7. CASE HostUsbRecover
  <2>1. UsbTypeOK' /\ pending' \subseteq Stops /\ ActiveRing' /\ gen' = gen
    BY <1>7 DEF HostUsbRecover, UsbTypeOK, LoopTypeOK, ActiveRing, usbVars, loopVars
  <2>2. LoopTypeOK'
    BY <1>7, <2>1 DEF HostUsbRecover, LoopTypeOK, Goto, Pc, HelloPc,
       driveVars, teleVars, loopVars
  <2>3. HostTypeOK' /\ BoundTypeOK'
    BY <1>7, BoundsInNat DEF HostUsbRecover, HostTypeOK, BoundTypeOK, hostVars, boundVars
  <2>4. lastGen' <= gen'
    BY <1>7, <2>1 DEF HostUsbRecover, loopVars
  <2> QED
    BY <2>1, <2>2, <2>3, <2>4, TypesNext
<1>8. CASE RosLinkTimeout
  BY <1>8, RosOfflineType, TypesNext DEF RosLinkTimeout, LoopTypeOK, HostTypeOK,
     BoundTypeOK, boundVars
<1>9. CASE EscStale
  <2>1. CASE AllManualStopped
    BY <1>9, <2>1, AllManualStoppedType, TypesNext DEF EscStale, LoopTypeOK,
       HostTypeOK, BoundTypeOK, boundVars, hostVars, Gates
  <2>2. CASE UNCHANGED <<usbVars, pending, driveVars, steerRun, vstate, hostVars>>
    <3>1. UsbTypeOK' /\ ActiveRing' /\ gen' = gen
      BY <2>2 DEF UsbTypeOK, ActiveRing, usbVars
    <3> QED
      BY <1>9, <2>2, <3>1, TypesNext DEF EscStale, LoopTypeOK, HostTypeOK,
         BoundTypeOK, driveVars, boundVars, hostVars, Gates
  <2> QED
    BY <1>9, <2>1, <2>2 DEF EscStale
<1>10. CASE DisplayOrMenuStop
  BY <1>10, AllManualStoppedType, TypesNext DEF DisplayOrMenuStop, LoopTypeOK, HostTypeOK,
     BoundTypeOK, boundVars, hostVars
<1>11. ASSUME NEW d \in DriveGo, TouchDrive(d)
      PROVE  TInv'
  <2>1. /\ UsbTypeOK' /\ pending' \subseteq Stops /\ ActiveRing' /\ gen' = gen
        /\ driving' \in DriveGo \cup {"none"} /\ leaseDue' \in BOOLEAN
        /\ ticks' \in 0..DriveTicks /\ vstate' \in VehicleStates
    <3>1. CASE UNCHANGED <<usbVars, pending, driveVars, vstate>>
      BY <3>1 DEF UsbTypeOK, ActiveRing, LoopTypeOK, usbVars, driveVars
    <3>2. CASE Transmit(LatchAndSend(Now, "DSTOP")) /\ DriveStopped
      BY <3>2, LatchType, StopIsNoMotion, DriveStoppedType
    <3>3. CASE /\ HasRoom(hq) /\ Transmit([Now EXCEPT !.q = Append(hq, d)])
               /\ driving' = d /\ leaseDue' = FALSE /\ ticks' = 0
               /\ vstate' = "RUNNING"
      <4>1. d \in Lines /\ 0 \in 0..DriveTicks
        BY BoundsInNat DEF Lines
      <4> QED
        BY <3>3, <4>1, SendType DEF VehicleStates
    <3> QED
      BY <1>11, <3>1, <3>2, <3>3 DEF TouchDrive
  <2>2. LoopTypeOK'
    BY <1>11, <2>1 DEF TouchDrive, Press, LoopTypeOK, Goto, Pc
  <2>3. HostTypeOK' /\ BoundTypeOK' /\ lastGen' <= gen'
    BY <1>11, <2>1, BoundsInNat DEF TouchDrive, Press, HostTypeOK, BoundTypeOK, hostVars
  <2> QED
    BY <2>1, <2>2, <2>3, TypesNext
<1>12. CASE TouchSteer
  <2>1. UsbTypeOK' /\ pending' \subseteq Stops /\ ActiveRing' /\ gen' = gen
    <3>1. "STEER" \in Lines
      BY DEF Lines, SteerGo
    <3> QED
      BY <1>12, <3>1, SendType DEF TouchSteer
  <2>2. LoopTypeOK'
    BY <1>12, <2>1 DEF TouchSteer, Press, LoopTypeOK, Goto, Pc, HelloPc,
       driveVars, teleVars, loopVars
  <2>3. HostTypeOK' /\ BoundTypeOK'
    BY <1>12, BoundsInNat DEF TouchSteer, Press, HostTypeOK, BoundTypeOK, hostVars, boundVars
  <2>4. lastGen' <= gen'
    BY <1>12, <2>1 DEF TouchSteer, Press, loopVars
  <2> QED
    BY <2>1, <2>2, <2>3, <2>4, TypesNext
<1>13. CASE TouchStop
  <2>1. BoundTypeOK' /\ pc' \in Pc /\ lastGen' = lastGen
    BY <1>13, BoundsInNat DEF TouchStop, Press, BoundTypeOK, Goto, Pc
  <2> QED
    BY <1>13, <2>1, AllManualStoppedType, TypesNext DEF TouchStop, LoopTypeOK,
       HostTypeOK, hostVars
<1>14. CASE TouchNavStop
  <2>1. UsbTypeOK' /\ pending' \subseteq Stops /\ ActiveRing' /\ gen' = gen
    BY <1>14, LatchType, StopIsNoMotion DEF TouchNavStop
  <2>2. LoopTypeOK'
    BY <1>14, <2>1 DEF TouchNavStop, Press, LoopTypeOK, Goto, Pc, HelloPc,
       driveVars, teleVars, loopVars
  <2>3. HostTypeOK' /\ BoundTypeOK'
    BY <1>14, BoundsInNat DEF TouchNavStop, Press, HostTypeOK, BoundTypeOK, hostVars, boundVars
  <2>4. lastGen' <= gen'
    BY <1>14, <2>1 DEF TouchNavStop, Press, loopVars
  <2> QED
    BY <2>1, <2>2, <2>3, <2>4, TypesNext
<1> QED
  BY <1>2, <1>3, <1>4, <1>5, <1>6, <1>7, <1>8, <1>9, <1>10, <1>11, <1>12, <1>13, <1>14 DEF Commands

LEMMA UsbTyped ==
  ASSUME TInv, Usb \/ Tick
  PROVE  TInv'
<1>1. /\ TypeOK /\ UsbTypeOK /\ LoopTypeOK /\ HostTypeOK /\ BoundTypeOK
      /\ ActiveRing /\ lastGen \in Nat /\ gen \in Nat /\ lastGen <= gen
  BY TypeParts DEF TInv, UsbTypeOK, LoopTypeOK
<1> USE <1>1
<1>2. CASE UsbEnumerate
  <2>1. /\ dev' \in {"default", "configured"} /\ established' = FALSE /\ token' = 0
        /\ hq' = <<>> /\ stuck' = FALSE /\ gen' = gen + 1 /\ tx' = "idle"
        /\ recovery' = recovery
    BY <1>2 DEF UsbEnumerate, ClassInit, DropQueues
  <2>2. UsbTypeOK' /\ ActiveRing'
    <3>1. hq' \in Seq(Lines) /\ Len(hq') <= HighCap /\ gen' \in Nat
      BY <2>1, ShortRings DEF Rings
    <3> QED
      BY <2>1, <3>1 DEF UsbTypeOK, ActiveRing
  <2>3. LoopTypeOK'
    BY <1>2 DEF UsbEnumerate, LoopTypeOK, loopVars, driveVars, teleVars
  <2>4. HostTypeOK'
    BY <1>2 DEF UsbEnumerate, HostTypeOK, hostVars
  <2>5. BoundTypeOK' /\ lastGen' <= gen'
    BY <1>2, <2>1, BoundsInNat DEF UsbEnumerate, BoundTypeOK, boundVars, loopVars
  <2> QED
    BY <2>2, <2>3, <2>4, <2>5, TypesNext
<1>3. CASE UsbReset
  <2>1. /\ dev' \in {"default", "configured"} /\ established' = FALSE /\ token' = 0
        /\ hq' = <<>> /\ stuck' = FALSE /\ gen' = gen + 1 /\ tx' = "idle"
        /\ recovery' = recovery
    BY <1>3 DEF UsbReset, ClassDeInit, DropQueues
  <2>2. UsbTypeOK' /\ ActiveRing'
    <3>1. hq' \in Seq(Lines) /\ Len(hq') <= HighCap /\ gen' \in Nat
      BY <2>1, ShortRings DEF Rings
    <3> QED
      BY <2>1, <3>1 DEF UsbTypeOK, ActiveRing
  <2>3. LoopTypeOK'
    BY <1>3 DEF UsbReset, LoopTypeOK, loopVars, driveVars, teleVars
  <2>4. HostTypeOK'
    BY <1>3, HostMayType DEF UsbReset, HostTypeOK, hostVars
  <2>5. BoundTypeOK' /\ lastGen' <= gen'
    BY <1>3, <2>1, BoundsInNat DEF UsbReset, Fault, BoundTypeOK, boundVars, loopVars
  <2> QED
    BY <2>2, <2>3, <2>4, <2>5, TypesNext
<1>4. CASE UsbResume
  <2>1. UsbTypeOK' /\ pending' \subseteq Stops /\ ActiveRing' /\ gen' = gen
    BY <1>4 DEF UsbResume, Resume, UsbTypeOK, LoopTypeOK, ActiveRing, usbVars, loopVars
  <2>2. LoopTypeOK'
    BY <1>4, <2>1 DEF UsbResume, LoopTypeOK, Goto, Pc, HelloPc,
       driveVars, teleVars, loopVars
  <2>3. HostTypeOK' /\ BoundTypeOK'
    BY <1>4, BoundsInNat DEF UsbResume, HostTypeOK, BoundTypeOK, hostVars, boundVars
  <2>4. lastGen' <= gen'
    BY <1>4, <2>1 DEF UsbResume, loopVars
  <2> QED
    BY <2>1, <2>2, <2>3, <2>4, TypesNext
<1>5. CASE UsbSuspend
  <2>1. UsbTypeOK' /\ pending' \subseteq Stops /\ ActiveRing' /\ gen' = gen
    BY <1>5 DEF UsbSuspend, Suspend, UsbTypeOK, LoopTypeOK, ActiveRing, usbVars, loopVars
  <2>2. LoopTypeOK'
    BY <1>5, <2>1 DEF UsbSuspend, Fault, LoopTypeOK, Goto, Pc, HelloPc,
       driveVars, teleVars, loopVars
  <2>3. HostTypeOK' /\ BoundTypeOK'
    BY <1>5, BoundsInNat DEF UsbSuspend, Fault, HostTypeOK, BoundTypeOK, hostVars, boundVars
  <2>4. lastGen' <= gen'
    BY <1>5, <2>1 DEF UsbSuspend, Fault, loopVars
  <2> QED
    BY <2>1, <2>2, <2>3, <2>4, TypesNext
<1>6. CASE UsbTransmitComplete
  <2>1. UsbTypeOK' /\ ActiveRing' /\ gen' = gen
    <3>1. tx = "high" => Tail(hq) \in Seq(Lines) /\ Len(Tail(hq)) <= HighCap
      BY HighCapAssumption DEF UsbTypeOK, ActiveRing
    <3> QED
      BY <1>6, <3>1 DEF UsbTransmitComplete, TransmitComplete, UsbTypeOK, ActiveRing
  <2>2. HostTypeOK'
    <3>1. CASE tx = "high"
      BY <1>6, <3>1, HostType DEF UsbTransmitComplete, HostTypeOK
    <3>2. CASE tx # "high"
      BY <1>6, <3>2 DEF UsbTransmitComplete, HostTypeOK, hostVars
    <3> QED
      BY <3>1, <3>2
  <2>3. LoopTypeOK' /\ BoundTypeOK' /\ lastGen' <= gen'
    BY <1>6, <2>1 DEF UsbTransmitComplete, LoopTypeOK, BoundTypeOK, loopVars,
       driveVars, teleVars, boundVars
  <2> QED
    BY <2>1, <2>2, <2>3, TypesNext
<1>7. CASE UsbLoseCompletion
  <2>1. UsbTypeOK' /\ pending' \subseteq Stops /\ ActiveRing' /\ gen' = gen
    BY <1>7 DEF UsbLoseCompletion, LoseCompletion, UsbTypeOK, LoopTypeOK, ActiveRing, usbVars, loopVars
  <2>2. LoopTypeOK'
    BY <1>7, <2>1 DEF UsbLoseCompletion, Fault, LoopTypeOK, Goto, Pc, HelloPc,
       driveVars, teleVars, loopVars
  <2>3. HostTypeOK' /\ BoundTypeOK'
    BY <1>7, BoundsInNat, HostMayType DEF UsbLoseCompletion, Fault, HostTypeOK, BoundTypeOK, hostVars, boundVars
  <2>4. lastGen' <= gen'
    BY <1>7, <2>1 DEF UsbLoseCompletion, Fault, loopVars
  <2> QED
    BY <2>1, <2>2, <2>3, <2>4, TypesNext
<1>8. CASE Reboot
  <2>1. UsbTypeOK' /\ ActiveRing'
    BY <1>8, ShortRings DEF Reboot, UsbTypeOK, ActiveRing, Rings
  <2>2. LoopTypeOK'
    <3>1. ticks' = 0 /\ 0 \in 0..DriveTicks /\ lastGen' = 0
      BY <1>8, BoundsInNat DEF Reboot
    <3>2. pc' = "service" /\ pending' = {} /\ driving' = "none" /\ vstate' = "STOPPED" /\ gate' = "shut"
      BY <1>8 DEF Reboot
    <3>3. leaseDue' = FALSE /\ steerRun' = FALSE /\ ros' = FALSE /\ nav' = FALSE
      BY <1>8 DEF Reboot
    <3> QED
      BY <3>1, <3>2, <3>3 DEF LoopTypeOK, Pc, VehicleStates, Gates
  <2>3. HostTypeOK'
    BY <1>8, HostMayType DEF Reboot, HostTypeOK
  <2>4. BoundTypeOK' /\ lastGen' <= gen'
    BY <1>8, BoundsInNat DEF Reboot, Fault, BoundTypeOK
  <2> QED
    BY <2>1, <2>2, <2>3, <2>4, TypesNext
<1>9. CASE Tick
  <2>1. UsbTypeOK' /\ pending' \subseteq Stops /\ ActiveRing' /\ gen' = gen
    BY <1>9 DEF Tick, UsbTypeOK, LoopTypeOK, ActiveRing, usbVars, loopVars
  <2>2. LoopTypeOK'
    BY <1>9, <2>1, BoundsInNat DEF Tick, LoopTypeOK, Goto, Pc, HelloPc,
       driveVars, teleVars, loopVars
  <2>3. HostTypeOK' /\ BoundTypeOK'
    BY <1>9, BoundsInNat DEF Tick, HostTypeOK, BoundTypeOK, hostVars, boundVars
  <2>4. lastGen' <= gen'
    BY <1>9, <2>1 DEF Tick, loopVars
  <2> QED
    BY <2>1, <2>2, <2>3, <2>4, TypesNext
<1> QED
  BY <1>2, <1>3, <1>4, <1>5, <1>6, <1>7, <1>8, <1>9 DEF Usb

LEMMA InitTyped == Init => TInv
<1> SUFFICES ASSUME Init PROVE TInv
  OBVIOUS
<1>1. UsbTypeOK /\ ActiveRing
  <2>1. hq \in Seq(Lines) /\ Len(hq) <= HighCap
    BY ShortRings DEF Init, UsbInit, Rings
  <2> QED
    BY <2>1 DEF Init, UsbInit, UsbTypeOK, ActiveRing
<1>2. LoopTypeOK
  <2>1. ticks = 0 /\ 0 \in 0..DriveTicks /\ lastGen = 0
    BY BoundsInNat DEF Init
  <2>2. /\ pc = "service" /\ pending = {} /\ driving = "none" /\ leaseDue = FALSE
        /\ steerRun = FALSE /\ ros = FALSE /\ vstate = "STOPPED" /\ gate = "shut" /\ nav = FALSE
    BY DEF Init
  <2> QED
    BY <2>1, <2>2 DEF LoopTypeOK, Pc, VehicleStates, Gates
<1>3. HostTypeOK /\ BoundTypeOK /\ lastGen <= gen
  <2>1. /\ faults = 0 /\ hellos = 0 /\ presses = 0 /\ replies = 0 /\ gen = 0 /\ lastGen = 0
    BY DEF Init, UsbInit
  <2>2. HostTypeOK
    BY DEF Init, HostTypeOK
  <2> QED
    BY <2>1, <2>2, BoundsInNat DEF BoundTypeOK
<1> QED
  BY <1>1, <1>2, <1>3, TypeParts DEF TInv

LEMMA StepTyped == TInv /\ [Next]_vars => TInv'
<1> SUFFICES ASSUME TInv, [Next]_vars PROVE TInv'
  OBVIOUS
<1>1. CASE Next
  BY <1>1, LoopTyped, CommandsTyped, UsbTyped DEF Next
<1>2. CASE UNCHANGED vars
  <2>1. UNCHANGED <<usbVars, loopVars, hostVars, boundVars>>
    BY <1>2 DEF vars
  <2>2. UsbTypeOK' /\ ActiveRing' /\ gen' = gen
    BY <2>1, TypeParts DEF TInv, UsbTypeOK, ActiveRing, usbVars
  <2>3. LoopTypeOK' /\ HostTypeOK' /\ BoundTypeOK' /\ lastGen' <= gen'
    BY <2>1, <2>2, TypeParts DEF TInv, LoopTypeOK, HostTypeOK, BoundTypeOK,
       loopVars, driveVars, teleVars, hostVars, boundVars
  <2> QED
    BY <2>2, <2>3, TypesNext
<1> QED
  BY <1>1, <1>2

(* The state of the safety control stays well typed, and the high ring     *)
(* is never empty while a line of it is in flight.                         *)
THEOREM TypeCorrect == Spec => []TypeOK
<1>1. TInv => TypeOK
  BY DEF TInv
<1> QED
  BY <1>1, InitTyped, StepTyped, PTL DEF Spec

-----------------------------------------------------------------------------
(* The STOP duty. *)

StopInv == DriveStopNeverLost /\ SteerStopNeverLost

DriveKept(st) == Owed(hostDrive, Now, DriveGo, "DSTOP") => Owed(hostDrive, st, DriveGo, "DSTOP")
SteerKept(st) == Owed(hostSteer, Now, SteerGo, "SSTOP") => Owed(hostSteer, st, SteerGo, "SSTOP")

(* Nothing is claimed of an unsettled state. *)
LEMMA UnsettledStep ==
  ASSUME Unsettled'
  PROVE  StopInv'
BY DEF StopInv, DriveStopNeverLost, SteerStopNeverLost

(* A step that leaves the host and the generation alone and takes the ring *)
(* and the latches to st.                                                  *)
LEMMA DutyStep ==
  ASSUME StopInv, NEW st, hq' = st.q, pending' = st.pending,
         UNCHANGED <<gen, lastGen, hostDrive, hostSteer>>,
         driving' = "none" => \/ Latched(st, "DSTOP")
                              \/ driving = "none" /\ pc \notin HelloPc /\ DriveKept(st),
         ~steerRun' => \/ Latched(st, "SSTOP")
                       \/ ~steerRun /\ pc \notin HelloPc /\ SteerKept(st)
  PROVE  StopInv'
<1>1. Now.q = hq /\ Now.pending = pending
  BY DEF Now
<1>2. DriveStopNeverLost'
  <2>1. SUFFICES ASSUME driving' = "none", ~Unsettled'
                 PROVE  Owed(hostDrive, st, DriveGo, "DSTOP")
    BY DEF DriveStopNeverLost, Owed
  <2>2. CASE Latched(st, "DSTOP")
    BY <2>2, StopIsNoMotion DEF Latched
  <2>3. CASE driving = "none" /\ pc \notin HelloPc /\ DriveKept(st)
    <3>1. ~Unsettled
      BY <2>1, <2>3 DEF Unsettled
    <3>2. Owed(hostDrive, Now, DriveGo, "DSTOP")
      BY <1>1, <2>3, <3>1 DEF StopInv, DriveStopNeverLost, Owed
    <3> QED
      BY <2>3, <3>2 DEF DriveKept
  <2> QED
    BY <2>1, <2>2, <2>3
<1>3. SteerStopNeverLost'
  <2>1. SUFFICES ASSUME ~steerRun', ~Unsettled'
                 PROVE  Owed(hostSteer, st, SteerGo, "SSTOP")
    BY DEF SteerStopNeverLost, Owed
  <2>2. CASE Latched(st, "SSTOP")
    BY <2>2, StopIsNoMotion DEF Latched
  <2>3. CASE ~steerRun /\ pc \notin HelloPc /\ SteerKept(st)
    <3>1. ~Unsettled
      BY <2>1, <2>3 DEF Unsettled
    <3>2. Owed(hostSteer, Now, SteerGo, "SSTOP")
      BY <1>1, <2>3, <3>1 DEF StopInv, SteerStopNeverLost, Owed
    <3> QED
      BY <2>3, <3>2 DEF SteerKept
  <2> QED
    BY <2>1, <2>2, <2>3
<1> QED
  BY <1>2, <1>3 DEF StopInv

(* A step that leaves the ring, the latches and the host alone. *)
LEMMA QuietStep ==
  ASSUME StopInv, pc \notin HelloPc,
         UNCHANGED <<hq, pending, gen, lastGen, hostDrive, hostSteer>>,
         driving' = "none" => driving = "none", ~steerRun' => ~steerRun
  PROVE  StopInv'
<1>1. Now.q = hq /\ Now.pending = pending
  BY DEF Now
<1>2. DriveKept(Now) /\ SteerKept(Now)
  BY DEF DriveKept, SteerKept
<1> QED
  BY <1>1, <1>2, DutyStep

(* A latch operation that ends no test, or stops the tests it ends. *)
LEMMA LatchStep ==
  ASSUME TInv, StopInv, NEW st, Keeps(Now, st), Transmit(st),
         UNCHANGED <<lastGen, hostDrive, hostSteer>>,
         driving' = "none" => Latched(st, "DSTOP") \/ (driving = "none" /\ pc \notin HelloPc),
         ~steerRun' => Latched(st, "SSTOP") \/ (~steerRun /\ pc \notin HelloPc)
  PROVE  StopInv'
<1>1. hq' = st.q /\ pending' = st.pending /\ gen' = gen
  BY DEF Transmit
<1>2. DriveKept(st) /\ SteerKept(st)
  BY StopIsNoMotion DEF Keeps, DriveKept, SteerKept
<1> QED
  BY <1>1, <1>2, DutyStep

(* A line is put in the ring: a motion command by a test that runs. *)
LEMMA SendStep ==
  ASSUME TInv, StopInv, NEW line \in Lines, HasRoom(hq),
         Transmit([Now EXCEPT !.q = Append(hq, line)]),
         UNCHANGED <<lastGen, hostDrive, hostSteer>>, pc \notin HelloPc,
         driving' = "none" => driving = "none" /\ line \notin DriveGo,
         ~steerRun' => ~steerRun /\ line \notin SteerGo
  PROVE  StopInv'
<1> DEFINE st == [q |-> Append(hq, line), pending |-> pending]
<1>1. [Now EXCEPT !.q = Append(hq, line)] = st /\ st.q = Append(hq, line) /\ st.pending = pending
  BY DEF Now
<1>2. TypeOK /\ Now \in TxStates /\ Now.q = hq /\ Now.pending = pending
  BY NowIsTxState DEF TInv
<1>3. \A go, stop, h : line \notin go /\ Owed(h, Now, go, stop) => Owed(h, st, go, stop)
  BY <1>2, AppendKeeps
<1>4. line \notin DriveGo => DriveKept(st)
  BY <1>3 DEF DriveKept
<1>5. line \notin SteerGo => SteerKept(st)
  BY <1>3 DEF SteerKept
<1>6. hq' = st.q /\ pending' = st.pending /\ gen' = gen
  BY <1>1 DEF Transmit
<1> HIDE DEF st
<1> QED
  BY <1>4, <1>5, <1>6, DutyStep

(* The steps that stop everything. *)
LEMMA RosOfflineStep ==
  ASSUME TInv, StopInv, RosOffline, UNCHANGED <<lastGen, hostDrive, hostSteer>>
  PROVE  StopInv'
<1> DEFINE st == ForceOffline(Now)
<1>1. Now \in TxStates
  BY NowIsTxState DEF TInv
<1>2. Transmit(st)
  BY DEF RosOffline
<1>3. Keeps(Now, st) /\ Latched(st, "DSTOP") /\ Latched(st, "SSTOP")
  BY <1>1, ForceOfflineKeeps, StopIsNoMotion
<1>4. /\ driving' = "none" => Latched(st, "DSTOP") \/ (driving = "none" /\ pc \notin HelloPc)
      /\ ~steerRun' => Latched(st, "SSTOP") \/ (~steerRun /\ pc \notin HelloPc)
  BY <1>3
<1> HIDE DEF st
<1> QED
  BY <1>2, <1>3, <1>4, LatchStep

LEMMA AllManualStoppedStep ==
  ASSUME TInv, StopInv, AllManualStopped, UNCHANGED lastGen
  PROVE  StopInv'
<1> DEFINE st == StopAllManual(Now)
<1>1. Now \in TxStates
  BY NowIsTxState DEF TInv
<1>2. Transmit(st) /\ UNCHANGED <<hostDrive, hostSteer>>
  BY DEF AllManualStopped, hostVars
<1>3. Keeps(Now, st) /\ Latched(st, "DSTOP") /\ Latched(st, "SSTOP")
  BY <1>1, StopAllManualKeeps
<1>4. /\ driving' = "none" => Latched(st, "DSTOP") \/ (driving = "none" /\ pc \notin HelloPc)
      /\ ~steerRun' => Latched(st, "SSTOP") \/ (~steerRun /\ pc \notin HelloPc)
  BY <1>3
<1> HIDE DEF st
<1> QED
  BY <1>2, <1>3, <1>4, LatchStep

LEMMA DriveStopStep ==
  ASSUME TInv, StopInv, Transmit(LatchAndSend(Now, "DSTOP")), DriveStopped,
         pc \notin HelloPc, UNCHANGED <<lastGen, steerRun, hostVars>>
  PROVE  StopInv'
<1>1. Keeps(Now, LatchAndSend(Now, "DSTOP")) /\ Latched(LatchAndSend(Now, "DSTOP"), "DSTOP")
  BY NowIsTxState, LatchAndSendKeeps, StopIsNoMotion DEF TInv
<1>2. UNCHANGED <<hostDrive, hostSteer>>
  BY DEF hostVars
<1> QED
  BY <1>1, <1>2, LatchStep

LEMMA RefreshStep ==
  ASSUME TInv, StopInv, NEW r, NEW g, NEW v, NEW n, Refresh(r, g, v, n),
         pc \notin HelloPc, UNCHANGED lastGen
  PROVE  StopInv'
<1> DEFINE stopDrive == driving # "none" /\ ~DriveGateOpen(r, g, v)
           v1 == IF stopDrive THEN "STOPPED" ELSE v
           stopSteer == steerRun /\ ~SteerGateOpen(r, g, v1)
           st1 == IF stopDrive THEN LatchAndSend(Now, "DSTOP") ELSE Now
           st2 == IF stopSteer THEN LatchAndSend(st1, "SSTOP") ELSE st1
<1>1. /\ Transmit(st2)
      /\ IF stopDrive THEN DriveStopped ELSE vstate' = v /\ UNCHANGED driveVars
      /\ steerRun' = (steerRun /\ ~stopSteer)
      /\ UNCHANGED hostVars
  BY DEF Refresh
<1>2. TypeOK
  BY DEF TInv
<1>3. Keeps(Now, st1) /\ (stopDrive => Latched(st1, "DSTOP"))
  BY <1>2, NowIsTxState, LatchAndSendKeeps, StopIsNoMotion DEF Keeps, Grew
<1>4. Keeps(st1, st2) /\ (stopSteer => Latched(st2, "SSTOP"))
  BY <1>3, LatchAndSendKeeps, StopIsNoMotion DEF Keeps, Grew
<1>5. Keeps(Now, st2) /\ (stopDrive => Latched(st2, "DSTOP"))
  <2> HIDE DEF st1, st2, stopDrive
  <2> QED
    BY <1>3, <1>4, KeepsTransitive, StopIsNoMotion
<1>6. ~stopDrive => driving' = driving
  BY <1>1 DEF driveVars
<1>7. ~steerRun' => ~steerRun \/ Latched(st2, "SSTOP")
  BY <1>1, <1>4
<1>8. UNCHANGED <<hostDrive, hostSteer>>
  BY <1>1 DEF hostVars
<1> HIDE DEF st1, st2, stopDrive, stopSteer
<1> QED
  BY <1>1, <1>5, <1>6, <1>7, <1>8, LatchStep

(* A new generation, not noticed yet. *)
LEMMA NewGenerationStep ==
  ASSUME TInv, gen' = gen + 1, UNCHANGED lastGen
  PROVE  StopInv'
<1>1. gen \in Nat /\ lastGen \in Nat /\ lastGen <= gen
  BY DEF TInv, TypeOK, UsbTypeOK
<1> QED
  BY <1>1, UnsettledStep DEF Unsettled

LEMMA LoopDuty ==
  ASSUME TInv, StopInv, Loop
  PROVE  StopInv'
<1>1. StopInv /\ TypeOK /\ (tx = "high" => hq # <<>>)
  BY DEF TInv, ActiveRing
<1> USE <1>1
<1>2. CASE LoopService
  <2>1. pc = "service" /\ UNCHANGED <<pending, lastGen, driveVars, steerRun>>
    BY <1>2 DEF LoopService
  <2>2. CASE SoftRestart(<<>>) \/ RepairEndpoint(<<>>)
    BY <2>1, <2>2, NewGenerationStep DEF SoftRestart, RepairEndpoint, DropQueues
  <2>3. CASE ServicePoll /\ UNCHANGED hostVars
    BY <2>1, <2>3, QuietStep DEF ServicePoll, hostVars, driveVars, HelloPc
  <2> QED
    BY <1>2, <2>2, <2>3 DEF LoopService
<1>3. CASE CheckGeneration
  <2>1. /\ pc = "generation" /\ lastGen' = gen
        /\ UNCHANGED <<gen, hq, driving, steerRun, hostDrive, hostSteer>>
        /\ gen # lastGen => pending' = Stops
        /\ gen = lastGen => pending' = pending
    BY <1>3 DEF CheckGeneration, usbVars, driveVars
  <2>2. CASE gen = lastGen
    BY <2>1, <2>2, QuietStep DEF HelloPc
  <2>3. CASE gen # lastGen
    BY <2>1, <2>3, StopIsNoMotion DEF StopInv, DriveStopNeverLost, SteerStopNeverLost
  <2> QED
    BY <2>2, <2>3
<1>4. CASE CheckAuthority
  <2>1. pc = "authority" /\ UNCHANGED <<lastGen, hostDrive, hostSteer>>
    BY <1>4 DEF CheckAuthority
  <2>2. CASE RosOffline
    BY <2>1, <2>2, RosOfflineStep
  <2>3. CASE UNCHANGED <<usbVars, pending, driveVars, steerRun, teleVars, navOwed>>
    BY <2>1, <2>3, QuietStep DEF HelloPc, usbVars, driveVars
  <2>4. RosOffline \/ UNCHANGED <<usbVars, pending, driveVars, steerRun, teleVars, navOwed>>
    BY <1>4, Zenon DEF CheckAuthority
  <2> QED
    BY <2>2, <2>3, <2>4
<1>5. CASE ServiceSafetyControlTx
  <2>1. /\ pc = "safetyTx" /\ Transmit(SafetyTx(Now))
        /\ UNCHANGED <<lastGen, driving, steerRun, hostDrive, hostSteer>>
    BY <1>5 DEF ServiceSafetyControlTx, driveVars, hostVars
  <2>2. Keeps(Now, SafetyTx(Now))
    BY NowIsTxState, SafetyTxKeeps
  <2> QED
    BY <2>1, <2>2, LatchStep DEF HelloPc
<1>6. CASE ServiceManualDriveLease
  <2>1. /\ pc = "lease" /\ pc \notin HelloPc /\ UNCHANGED <<lastGen, steerRun, hostVars, hostDrive, hostSteer>>
    BY <1>6 DEF ServiceManualDriveLease, HelloPc, hostVars
  <2>2. CASE UNCHANGED <<usbVars, pending, driveVars, vstate>>
    BY <2>1, <2>2, QuietStep DEF usbVars, driveVars
  <2>3. CASE Transmit(LatchAndSend(Now, "DSTOP")) /\ DriveStopped
    BY <2>1, <2>3, DriveStopStep
  <2>4. CASE /\ driving # "none" /\ driving' = driving
             /\ Transmit([Now EXCEPT !.q = Enqueue(hq, driving)])
    <3>1. driving \in Lines /\ driving \notin SteerGo
      BY <2>4 DEF TypeOK, Lines, DriveGo, SteerGo
    <3>2. CASE HasRoom(hq)
      BY <2>1, <2>4, <3>1, <3>2, SendStep DEF Enqueue
    <3>3. CASE ~HasRoom(hq)
      <4>1. Transmit(Now)
        BY <2>4, <3>3 DEF Enqueue, Now
      <4>2. UNCHANGED <<hq, pending, gen>>
        BY <4>1 DEF Transmit, Now
      <4> QED
        BY <2>1, <2>4, <4>2, QuietStep
    <3> QED
      BY <3>2, <3>3
  <2> QED
    BY <1>6, <2>2, <2>3, <2>4 DEF ServiceManualDriveLease
<1>7. CASE PollSerialGui
  <2>1. /\ UNCHANGED <<hq, pending, gen, lastGen, hostDrive, hostSteer, driving, steerRun>>
        /\ pc \notin HelloPc
    BY <1>7 DEF PollSerialGui, HelloPc, usbVars, loopVars, driveVars, hostVars
  <2> QED
    BY <2>1, QuietStep
<1>8. CASE HelloAck
  <2>1. pc' \in HelloPc
    BY <1>8 DEF HelloAck, Goto, HelloPc
  <2> QED
    BY <2>1, UnsettledStep DEF Unsettled
<1>9. CASE HelloConfirm
  <2>1. pc' \in HelloPc
    BY <1>9 DEF HelloConfirm, Goto, HelloPc
  <2> QED
    BY <2>1, UnsettledStep DEF Unsettled
<1>10. CASE HelloOffline
  BY <1>10, RosOfflineStep DEF HelloOffline
<1>11. CASE ParseDone
  <2>1. /\ UNCHANGED <<hq, pending, gen, lastGen, hostDrive, hostSteer, driving, steerRun>>
        /\ pc \notin HelloPc
    BY <1>11 DEF ParseDone, HelloPc, usbVars, loopVars, driveVars, hostVars
  <2> QED
    BY <2>1, QuietStep
<1>12. CASE DriveDeadline
  <2>1. /\ pc = "timers" /\ pc \notin HelloPc /\ UNCHANGED <<lastGen, steerRun, hostVars, hostDrive, hostSteer>>
    BY <1>12 DEF DriveDeadline, HelloPc, hostVars
  <2>2. CASE UNCHANGED <<usbVars, pending, driveVars, vstate>>
    BY <2>1, <2>2, QuietStep DEF usbVars, driveVars
  <2>3. CASE Transmit(LatchAndSend(Now, "DSTOP")) /\ DriveStopped
    BY <2>1, <2>3, DriveStopStep
  <2> QED
    BY <1>12, <2>2, <2>3 DEF DriveDeadline
<1>13. CASE TouchNothing
  <2>1. /\ UNCHANGED <<hq, pending, gen, lastGen, hostDrive, hostSteer, driving, steerRun>>
        /\ pc \notin HelloPc
    BY <1>13 DEF TouchNothing, HelloPc, usbVars, loopVars, driveVars, hostVars
  <2> QED
    BY <2>1, QuietStep
<1> QED
  BY <1>2, <1>3, <1>4, <1>5, <1>6, <1>7, <1>8, <1>9, <1>10, <1>11, <1>12, <1>13 DEF Loop

LEMMA CommandsDuty ==
  ASSUME TInv, StopInv, Commands
  PROVE  StopInv'
<1>1. StopInv /\ TypeOK /\ (tx = "high" => hq # <<>>)
  BY DEF TInv, ActiveRing
<1> USE <1>1
<1>2. ASSUME NEW t \in Tokens, HelloBegin(t)
      PROVE  StopInv'
  <2>1. pc' \in HelloPc
    BY <1>2 DEF HelloBegin, Goto, HelloPc
  <2> QED
    BY <2>1, UnsettledStep DEF Unsettled
<1>3. CASE HostTelemetry
  <2>1. /\ pc \notin HelloPc /\ UNCHANGED lastGen
        /\ \E r, g, v, m : Refresh(r, g, v, m)
    BY <1>3 DEF HostTelemetry, HelloPc
  <2> QED
    BY <2>1, RefreshStep
<1>4. CASE HostRosDown
  BY <1>4, RosOfflineStep DEF HostRosDown
<1>5. CASE RosLinkTimeout
  BY <1>5, RosOfflineStep DEF RosLinkTimeout
<1>6. CASE HostEStop
  BY <1>6, AllManualStoppedStep DEF HostEStop
<1>7. CASE DisplayOrMenuStop
  BY <1>7, AllManualStoppedStep DEF DisplayOrMenuStop
<1>8. CASE TouchStop
  BY <1>8, AllManualStoppedStep DEF TouchStop, Press
<1>9. CASE EscStale
  <2>1. pc = "timers" /\ UNCHANGED lastGen
    BY <1>9 DEF EscStale
  <2>2. CASE AllManualStopped
    BY <2>1, <2>2, AllManualStoppedStep
  <2>3. CASE UNCHANGED <<usbVars, pending, driveVars, steerRun, vstate, hostVars>>
    BY <2>1, <2>3, QuietStep DEF HelloPc, usbVars, driveVars, hostVars
  <2> QED
    BY <1>9, <2>2, <2>3 DEF EscStale
<1>10. CASE HostQuery
  <2>1. pc \notin HelloPc /\ UNCHANGED <<lastGen, driving, steerRun>>
    BY <1>10 DEF HostQuery, HelloPc, driveVars
  <2>2. CASE HasRoom(hq) /\ Transmit([Now EXCEPT !.q = Append(hq, "REPLY")]) /\ UNCHANGED hostVars
    <3>1. "REPLY" \in Lines /\ "REPLY" \notin DriveGo /\ "REPLY" \notin SteerGo
      BY DEF Lines, DriveGo, SteerGo
    <3> QED
      BY <2>1, <2>2, <3>1, SendStep DEF hostVars
  <2>3. CASE SoftRestart(<<"REPLY">>) \/ RepairEndpoint(<<"REPLY">>)
    BY <2>1, <2>3, NewGenerationStep DEF SoftRestart, RepairEndpoint, DropQueues
  <2>4. CASE ServicePoll /\ UNCHANGED <<pending, hostVars>>
    BY <2>1, <2>4, QuietStep DEF ServicePoll, hostVars
  <2> QED
    BY <1>10, <2>2, <2>3, <2>4 DEF HostQuery
<1>11. CASE HostUsbRecover
  <2>1. /\ UNCHANGED <<hq, pending, gen, lastGen, hostDrive, hostSteer, driving, steerRun>>
        /\ pc \notin HelloPc
    BY <1>11 DEF HostUsbRecover, HelloPc, usbVars, loopVars, driveVars, hostVars
  <2> QED
    BY <2>1, QuietStep
<1>12. ASSUME NEW d \in DriveGo, TouchDrive(d)
      PROVE  StopInv'
  <2>1. /\ pc \notin HelloPc /\ UNCHANGED <<lastGen, steerRun, hostVars, hostDrive, hostSteer>>
    BY <1>12 DEF TouchDrive, Press, HelloPc, hostVars
  <2>2. CASE UNCHANGED <<usbVars, pending, driveVars, vstate>>
    BY <2>1, <2>2, QuietStep DEF usbVars, driveVars
  <2>3. CASE Transmit(LatchAndSend(Now, "DSTOP")) /\ DriveStopped
    BY <2>1, <2>3, DriveStopStep
  <2>4. CASE /\ HasRoom(hq) /\ driving' = d
             /\ Transmit([Now EXCEPT !.q = Append(hq, d)])
    <3>1. d \in Lines /\ d \notin SteerGo /\ d # "none"
      BY DEF Lines, DriveGo, SteerGo
    <3> QED
      BY <2>1, <2>4, <3>1, SendStep
  <2> QED
    BY <1>12, <2>2, <2>3, <2>4 DEF TouchDrive
<1>13. CASE TouchSteer
  <2>1. /\ pc \notin HelloPc /\ HasRoom(hq) /\ steerRun' = TRUE
        /\ Transmit([Now EXCEPT !.q = Append(hq, "STEER")])
        /\ UNCHANGED <<lastGen, driving, hostDrive, hostSteer>>
    BY <1>13 DEF TouchSteer, Press, HelloPc, driveVars, hostVars
  <2>2. "STEER" \in Lines /\ "STEER" \notin DriveGo
    BY DEF Lines, DriveGo, SteerGo
  <2> QED
    BY <2>1, <2>2, SendStep
<1>14. CASE TouchNavStop
  <2>1. /\ pc \notin HelloPc /\ Transmit(LatchAndSend(Now, "NSTOP"))
        /\ UNCHANGED <<lastGen, driving, steerRun, hostDrive, hostSteer>>
    BY <1>14 DEF TouchNavStop, Press, HelloPc, driveVars
  <2>2. Keeps(Now, LatchAndSend(Now, "NSTOP"))
    BY NowIsTxState, LatchAndSendKeeps, StopIsNoMotion
  <2> QED
    BY <2>1, <2>2, LatchStep
<1> QED
  BY <1>2, <1>3, <1>4, <1>5, <1>6, <1>7, <1>8, <1>9, <1>10, <1>11, <1>12, <1>13, <1>14 DEF Commands

LEMMA UsbDuty ==
  ASSUME TInv, StopInv, Usb \/ Tick
  PROVE  StopInv'
<1>1. StopInv /\ TypeOK /\ (tx = "high" => hq # <<>>)
  BY DEF TInv, ActiveRing
<1> USE <1>1
<1>2. CASE UsbEnumerate \/ UsbReset
  <2>1. gen' = gen + 1 /\ UNCHANGED lastGen
    BY <1>2 DEF UsbEnumerate, UsbReset, ClassInit, ClassDeInit, DropQueues, loopVars
  <2> QED
    BY <2>1, NewGenerationStep
<1>3. CASE Reboot
  <2>1. gen' = 0
    BY <1>3 DEF Reboot
  <2> QED
    BY <2>1, UnsettledStep DEF Unsettled
<1>4. CASE UsbResume
  <2>1. /\ UNCHANGED <<hq, pending, gen, lastGen, hostDrive, hostSteer>>
        /\ UNCHANGED <<driving, steerRun, pc>>
    BY <1>4 DEF UsbResume, usbVars, loopVars, driveVars, hostVars, Resume
  <2> QED
    BY <2>1 DEF StopInv, DriveStopNeverLost, SteerStopNeverLost, Unsettled
<1>5. CASE UsbSuspend
  <2>1. /\ UNCHANGED <<hq, pending, gen, lastGen, hostDrive, hostSteer>>
        /\ UNCHANGED <<driving, steerRun, pc>>
    BY <1>5 DEF UsbSuspend, usbVars, loopVars, driveVars, hostVars, Suspend
  <2> QED
    BY <2>1 DEF StopInv, DriveStopNeverLost, SteerStopNeverLost, Unsettled
<1>6. CASE Tick
  <2>1. /\ UNCHANGED <<hq, pending, gen, lastGen, hostDrive, hostSteer>>
        /\ UNCHANGED <<driving, steerRun, pc>>
    BY <1>6 DEF Tick, usbVars, loopVars, driveVars, hostVars
  <2> QED
    BY <2>1 DEF StopInv, DriveStopNeverLost, SteerStopNeverLost, Unsettled
<1>7. CASE UsbTransmitComplete
  <2>1. UNCHANGED <<pending, gen, lastGen, driving, steerRun, pc>>
    BY <1>7 DEF UsbTransmitComplete, TransmitComplete, loopVars, driveVars
  <2>2. hq \in Rings
    BY NowIsTxState
  <2>3. CASE HostGets(Head(hq)) /\ tx = "high"
    <3>1. hq # <<>> /\ hq' = Tail(hq)
      BY <1>7, <2>3 DEF UsbTransmitComplete, TransmitComplete
    <3>2. /\ hostDrive' = hostDrive \/ hostDrive' = Head(hq)
          /\ Head(hq) \in DriveGo \cup {"DSTOP"} => hostDrive' = Head(hq)
          /\ hostSteer' = hostSteer \/ hostSteer' = Head(hq)
          /\ Head(hq) \in SteerGo \cup {"SSTOP"} => hostSteer' = Head(hq)
      BY <2>3 DEF HostGets
    <3>3. Halted(hostDrive, hq, DriveGo, "DSTOP") => Halted(hostDrive', Tail(hq), DriveGo, "DSTOP")
      BY <2>2, <3>1, <3>2, DeliveryKeepsHalted DEF DriveGo
    <3>4. Halted(hostSteer, hq, SteerGo, "SSTOP") => Halted(hostSteer', Tail(hq), SteerGo, "SSTOP")
      BY <2>2, <3>1, <3>2, DeliveryKeepsHalted DEF SteerGo
    <3>5. DriveStopNeverLost'
      BY <2>1, <3>1, <3>3 DEF StopInv, DriveStopNeverLost, Unsettled
    <3>6. SteerStopNeverLost'
      BY <2>1, <3>1, <3>4 DEF StopInv, SteerStopNeverLost, Unsettled
    <3> QED
      BY <3>5, <3>6 DEF StopInv
  <2>4. CASE UNCHANGED <<hq, hostVars>>
    BY <2>1, <2>4 DEF StopInv, DriveStopNeverLost, SteerStopNeverLost, Unsettled, hostVars
  <2>5. (HostGets(Head(hq)) /\ tx = "high") \/ UNCHANGED <<hq, hostVars>>
    BY <1>7 DEF UsbTransmitComplete, TransmitComplete, HostMayGet
  <2> QED
    BY <2>3, <2>4, <2>5
<1>8. CASE UsbLoseCompletion
  <2>1. UNCHANGED <<pending, gen, lastGen, driving, steerRun, pc>>
    BY <1>8 DEF UsbLoseCompletion, LoseCompletion, loopVars, driveVars
  <2>2. hq \in Rings
    BY NowIsTxState
  <2>3. CASE HostGets(Head(hq)) /\ tx = "high"
    <3>1. hq # <<>> /\ hq' = hq
      BY <1>8, <2>3 DEF UsbLoseCompletion, LoseCompletion
    <3>2. /\ hostDrive' = hostDrive \/ hostDrive' = Head(hq)
          /\ Head(hq) \in DriveGo \cup {"DSTOP"} => hostDrive' = Head(hq)
          /\ hostSteer' = hostSteer \/ hostSteer' = Head(hq)
          /\ Head(hq) \in SteerGo \cup {"SSTOP"} => hostSteer' = Head(hq)
      BY <2>3 DEF HostGets
    <3>3. Halted(hostDrive, hq, DriveGo, "DSTOP") => Halted(hostDrive', hq, DriveGo, "DSTOP")
      BY <2>2, <3>1, <3>2, EarlyDeliveryKeepsHalted DEF DriveGo
    <3>4. Halted(hostSteer, hq, SteerGo, "SSTOP") => Halted(hostSteer', hq, SteerGo, "SSTOP")
      BY <2>2, <3>1, <3>2, EarlyDeliveryKeepsHalted DEF SteerGo
    <3>5. DriveStopNeverLost'
      BY <2>1, <3>1, <3>3 DEF StopInv, DriveStopNeverLost, Unsettled
    <3>6. SteerStopNeverLost'
      BY <2>1, <3>1, <3>4 DEF StopInv, SteerStopNeverLost, Unsettled
    <3> QED
      BY <3>5, <3>6 DEF StopInv
  <2>4. CASE UNCHANGED <<hq, hostVars>>
    BY <2>1, <2>4 DEF StopInv, DriveStopNeverLost, SteerStopNeverLost, Unsettled, hostVars
  <2>5. (HostGets(Head(hq)) /\ tx = "high") \/ UNCHANGED <<hq, hostVars>>
    BY <1>8 DEF UsbLoseCompletion, LoseCompletion, HostMayGet
  <2> QED
    BY <2>3, <2>4, <2>5
<1> QED
  BY <1>2, <1>3, <1>4, <1>5, <1>6, <1>7, <1>8 DEF Usb

LEMMA StepDuty == TInv /\ StopInv /\ [Next]_vars => StopInv'
<1> SUFFICES ASSUME TInv, StopInv, [Next]_vars PROVE StopInv'
  OBVIOUS
<1>1. CASE Next
  BY <1>1, LoopDuty, CommandsDuty, UsbDuty DEF Next
<1>2. CASE UNCHANGED vars
  <2>1. UNCHANGED <<hq, pending, gen, lastGen, hostDrive, hostSteer, driving, steerRun, pc>>
    BY <1>2 DEF vars, usbVars, loopVars, driveVars, hostVars
  <2> QED
    BY <2>1 DEF StopInv, DriveStopNeverLost, SteerStopNeverLost, Unsettled
<1> QED
  BY <1>1, <1>2

LEMMA InitDuty == Init => StopInv
BY DEF Init, UsbInit, StopInv, DriveStopNeverLost, SteerStopNeverLost, Unsettled

(* While no drive test runs, a drive command the host got or will get is   *)
(* answered by a STOP queued behind it or still latched, whatever resets,  *)
(* repairs, new sessions and full rings come between.                      *)
THEOREM DriveStopKept == Spec => []DriveStopNeverLost
<1>1. TInv /\ StopInv => DriveStopNeverLost
  BY DEF StopInv
<1> QED
  BY <1>1, InitTyped, StepTyped, InitDuty, StepDuty, PTL DEF Spec

(* The same of the steering test. *)
THEOREM SteerStopKept == Spec => []SteerStopNeverLost
<1>1. TInv /\ StopInv => SteerStopNeverLost
  BY DEF StopInv
<1> QED
  BY <1>1, InitTyped, StepTyped, InitDuty, StepDuty, PTL DEF Spec

-----------------------------------------------------------------------------
(* What a host is promised beyond the stop of a test it runs: a STOP after *)
(* each session's ACK, and the navigation STOPs that were decided.  Both   *)
(* are duties in the sense above: the first is called for by an ACK in the *)
(* ring, the second by no line of the ring at all.                         *)


SessionMark == IF unstopped THEN "ACK" ELSE "DSTOP"
NavMark == IF navOwed THEN "owed" ELSE "NSTOP"

AckOwed(st) == Owed(SessionMark, st, {"ACK"}, "DSTOP")
NavStopOwed(st) == Owed(NavMark, st, {"owed"}, "NSTOP")

PromiseInv ==
  ~Unsettled =>
    /\ "DSTOP" \in pending \/ Halted(SessionMark, hq, {"ACK"}, "DSTOP")
    /\ "NSTOP" \in pending \/ Halted(NavMark, hq, {"owed"}, "NSTOP")

LEMMA MarksAreNoStops ==
  /\ NoStops({"ACK"}) /\ NoStops({"owed"})
  /\ "ACK" \in Lines /\ "owed" \notin Lines
BY DEF NoStops, Stops, Lines, DriveGo, SteerGo

LEMMA PromiseOfUnsettled ==
  ASSUME Unsettled'
  PROVE  PromiseInv'
BY DEF PromiseInv

LEMMA PromiseOfNewGeneration ==
  ASSUME TInv, gen' = gen + 1, UNCHANGED lastGen
  PROVE  PromiseInv'
<1>1. gen \in Nat /\ lastGen \in Nat /\ lastGen <= gen
  BY DEF TInv, TypeOK, UsbTypeOK
<1> QED
  BY <1>1, PromiseOfUnsettled DEF Unsettled

(* A step that takes the ring and the latches to st, with either the STOP  *)
(* latched or the host and the duty as they were.                          *)
LEMMA PromiseStep ==
  ASSUME PromiseInv, NEW st, hq' = st.q, pending' = st.pending,
         UNCHANGED <<gen, lastGen>>,
         \/ Latched(st, "DSTOP")
         \/ pc \notin HelloPc /\ UNCHANGED unstopped /\ (AckOwed(Now) => AckOwed(st)),
         \/ Latched(st, "NSTOP")
         \/ pc \notin HelloPc /\ UNCHANGED navOwed /\ (NavStopOwed(Now) => NavStopOwed(st))
  PROVE  PromiseInv'
<1> SUFFICES ASSUME ~Unsettled'
             PROVE  /\ Owed(SessionMark', st, {"ACK"}, "DSTOP")
                    /\ Owed(NavMark', st, {"owed"}, "NSTOP")
  BY DEF PromiseInv, Owed
<1>1. Now.q = hq /\ Now.pending = pending
  BY DEF Now
<1>2. pc \notin HelloPc => ~Unsettled
  BY DEF Unsettled
<1>3. pc \notin HelloPc => AckOwed(Now) /\ NavStopOwed(Now)
  BY <1>1, <1>2 DEF PromiseInv, AckOwed, NavStopOwed, Owed
<1>4. Owed(SessionMark', st, {"ACK"}, "DSTOP")
  <2>1. CASE Latched(st, "DSTOP")
    BY <2>1, MarksAreNoStops DEF Latched
  <2>2. CASE pc \notin HelloPc /\ UNCHANGED unstopped /\ (AckOwed(Now) => AckOwed(st))
    <3>1. SessionMark' = SessionMark
      BY <2>2 DEF SessionMark
    <3> QED
      BY <1>3, <2>2, <3>1 DEF AckOwed
  <2> QED
    BY <2>1, <2>2
<1>5. Owed(NavMark', st, {"owed"}, "NSTOP")
  <2>1. CASE Latched(st, "NSTOP")
    BY <2>1, MarksAreNoStops DEF Latched
  <2>2. CASE pc \notin HelloPc /\ UNCHANGED navOwed /\ (NavStopOwed(Now) => NavStopOwed(st))
    <3>1. NavMark' = NavMark
      BY <2>2 DEF NavMark
    <3> QED
      BY <1>3, <2>2, <3>1 DEF NavStopOwed
  <2> QED
    BY <2>1, <2>2
<1> QED
  BY <1>4, <1>5

LEMMA PromiseQuietStep ==
  ASSUME PromiseInv, pc \notin HelloPc,
         UNCHANGED <<hq, pending, gen, lastGen, unstopped, navOwed>>
  PROVE  PromiseInv'
<1>1. Now.q = hq /\ Now.pending = pending
  BY DEF Now
<1> QED
  BY <1>1, PromiseStep

LEMMA PromiseLatchStep ==
  ASSUME PromiseInv, NEW st, Keeps(Now, st), Transmit(st), UNCHANGED lastGen,
         Latched(st, "DSTOP") \/ (pc \notin HelloPc /\ UNCHANGED unstopped),
         Latched(st, "NSTOP") \/ (pc \notin HelloPc /\ UNCHANGED navOwed)
  PROVE  PromiseInv'
<1>1. hq' = st.q /\ pending' = st.pending /\ gen' = gen
  BY DEF Transmit
<1>2. (AckOwed(Now) => AckOwed(st)) /\ (NavStopOwed(Now) => NavStopOwed(st))
  BY MarksAreNoStops, StopIsNoMotion DEF Keeps, AckOwed, NavStopOwed
<1> QED
  BY <1>1, <1>2, PromiseStep

LEMMA AppendToNow ==
  ASSUME NEW line
  PROVE  LET st == [q |-> Append(hq, line), pending |-> pending]
         IN /\ [Now EXCEPT !.q = Append(hq, line)] = st
            /\ st.q = Append(hq, line) /\ st.pending = pending
BY DEF Now

(* A line other than an ACK is put in the ring.                            *)
LEMMA PromiseSendStep ==
  ASSUME TInv, PromiseInv, NEW line \in Lines, line # "ACK", HasRoom(hq),
         Transmit([Now EXCEPT !.q = Append(hq, line)]),
         pc \notin HelloPc, UNCHANGED <<lastGen, unstopped, navOwed>>
  PROVE  PromiseInv'
<1> DEFINE st == [q |-> Append(hq, line), pending |-> pending]
<1>1. [Now EXCEPT !.q = Append(hq, line)] = st /\ st.q = Append(hq, line) /\ st.pending = pending
  BY AppendToNow
<1>2. TypeOK /\ Now \in TxStates /\ Now.q = hq /\ Now.pending = pending
  BY NowIsTxState DEF TInv
<1>3. \A go, stop, h : line \notin go /\ Owed(h, Now, go, stop) => Owed(h, st, go, stop)
  BY <1>2, AppendKeeps
<1>4. line \notin {"ACK"} /\ line \notin {"owed"}
  BY MarksAreNoStops
<1>5. (AckOwed(Now) => AckOwed(st)) /\ (NavStopOwed(Now) => NavStopOwed(st))
  BY <1>3, <1>4 DEF AckOwed, NavStopOwed
<1>6. hq' = st.q /\ pending' = st.pending /\ gen' = gen
  BY <1>1 DEF Transmit
<1> HIDE DEF st
<1> QED
  BY <1>5, <1>6, PromiseStep

(* The steps that stop everything latch all three STOPs.                   *)
LEMMA PromiseRosOfflineStep ==
  ASSUME TInv, PromiseInv, RosOffline, UNCHANGED lastGen
  PROVE  PromiseInv'
<1> DEFINE st == ForceOffline(Now)
<1>1. Now \in TxStates
  BY NowIsTxState DEF TInv
<1>2. Transmit(st)
  BY DEF RosOffline
<1>3. Keeps(Now, st) /\ Latched(st, "DSTOP") /\ Latched(st, "NSTOP")
  BY <1>1, ForceOfflineKeeps, StopIsNoMotion
<1> HIDE DEF st
<1> QED
  BY <1>2, <1>3, PromiseLatchStep

LEMMA PromiseAllManualStoppedStep ==
  ASSUME TInv, PromiseInv, AllManualStopped, pc \notin HelloPc, UNCHANGED lastGen
  PROVE  PromiseInv'
<1> DEFINE st == StopAllManual(Now)
<1>1. Now \in TxStates
  BY NowIsTxState DEF TInv
<1>2. Transmit(st) /\ UNCHANGED <<unstopped, navOwed>>
  BY DEF AllManualStopped, hostVars
<1>3. Keeps(Now, st)
  BY <1>1, StopAllManualKeeps
<1> HIDE DEF st
<1> QED
  BY <1>2, <1>3, PromiseLatchStep

LEMMA PromiseDriveStopStep ==
  ASSUME TInv, PromiseInv, Transmit(LatchAndSend(Now, "DSTOP")),
         pc \notin HelloPc, UNCHANGED <<lastGen, unstopped, navOwed>>
  PROVE  PromiseInv'
<1>1. Keeps(Now, LatchAndSend(Now, "DSTOP"))
  BY NowIsTxState, LatchAndSendKeeps, StopIsNoMotion DEF TInv
<1> QED
  BY <1>1, PromiseLatchStep

LEMMA PromiseRefreshStep ==
  ASSUME TInv, PromiseInv, NEW r, NEW g, NEW v, NEW n, Refresh(r, g, v, n),
         pc \notin HelloPc, UNCHANGED lastGen
  PROVE  PromiseInv'
<1> DEFINE stopDrive == driving # "none" /\ ~DriveGateOpen(r, g, v)
           v1 == IF stopDrive THEN "STOPPED" ELSE v
           stopSteer == steerRun /\ ~SteerGateOpen(r, g, v1)
           st1 == IF stopDrive THEN LatchAndSend(Now, "DSTOP") ELSE Now
           st2 == IF stopSteer THEN LatchAndSend(st1, "SSTOP") ELSE st1
<1>1. Transmit(st2) /\ UNCHANGED hostVars
  BY DEF Refresh
<1>2. TypeOK
  BY DEF TInv
<1>3. Keeps(Now, st1)
  BY <1>2, NowIsTxState, LatchAndSendKeeps, StopIsNoMotion DEF Keeps, Grew
<1>4. Keeps(st1, st2)
  BY <1>3, LatchAndSendKeeps, StopIsNoMotion DEF Keeps, Grew
<1>5. UNCHANGED <<unstopped, navOwed>>
  BY <1>1 DEF hostVars
<1> HIDE DEF st1, st2
<1>6. Keeps(Now, st2)
  BY <1>3, <1>4, KeepsTransitive
<1> QED
  BY <1>1, <1>5, <1>6, PromiseLatchStep

-----------------------------------------------------------------------------
(* One step per action. *)

LEMMA LoopPromise ==
  ASSUME TInv, PromiseInv, Loop
  PROVE  PromiseInv'
<1>1. TypeOK
  BY DEF TInv
<1> USE <1>1
<1>2. CASE LoopService
  <2>1. pc = "service" /\ UNCHANGED <<pending, lastGen>>
    BY <1>2 DEF LoopService
  <2>2. CASE SoftRestart(<<>>) \/ RepairEndpoint(<<>>)
    BY <2>1, <2>2, PromiseOfNewGeneration DEF SoftRestart, RepairEndpoint, DropQueues
  <2>3. CASE ServicePoll /\ UNCHANGED hostVars
    BY <2>1, <2>3, PromiseQuietStep DEF ServicePoll, hostVars, HelloPc
  <2> QED
    BY <1>2, <2>2, <2>3 DEF LoopService
<1>3. CASE CheckGeneration
  <2>1. /\ pc = "generation" /\ lastGen' = gen
        /\ UNCHANGED <<gen, hq, unstopped>>
        /\ gen # lastGen => pending' = Stops
        /\ gen = lastGen => UNCHANGED <<pending, navOwed>>
    BY <1>3 DEF CheckGeneration, usbVars
  <2>2. CASE gen = lastGen
    BY <2>1, <2>2, PromiseQuietStep DEF HelloPc
  <2>3. CASE gen # lastGen
    BY <2>1, <2>3, StopIsNoMotion DEF PromiseInv
  <2> QED
    BY <2>2, <2>3
<1>4. CASE CheckAuthority
  <2>1. pc = "authority" /\ UNCHANGED <<lastGen, unstopped>>
    BY <1>4 DEF CheckAuthority
  <2>2. CASE RosOffline
    BY <2>1, <2>2, PromiseRosOfflineStep
  <2>3. CASE UNCHANGED <<usbVars, pending, driveVars, steerRun, teleVars, navOwed>>
    BY <2>1, <2>3, PromiseQuietStep DEF HelloPc, usbVars
  <2>4. RosOffline \/ UNCHANGED <<usbVars, pending, driveVars, steerRun, teleVars, navOwed>>
    BY <1>4, Zenon DEF CheckAuthority
  <2> QED
    BY <2>2, <2>3, <2>4
<1>5. CASE ServiceSafetyControlTx
  <2>1. /\ pc = "safetyTx" /\ Transmit(SafetyTx(Now))
        /\ UNCHANGED <<lastGen, unstopped, navOwed>>
    BY <1>5 DEF ServiceSafetyControlTx, hostVars
  <2>2. Keeps(Now, SafetyTx(Now))
    BY NowIsTxState, SafetyTxKeeps
  <2> QED
    BY <2>1, <2>2, PromiseLatchStep DEF HelloPc
<1>6. CASE ServiceManualDriveLease
  <2>1. pc \notin HelloPc /\ UNCHANGED <<lastGen, unstopped, navOwed>>
    BY <1>6 DEF ServiceManualDriveLease, HelloPc, hostVars
  <2>2. CASE UNCHANGED <<usbVars, pending, driveVars, vstate>>
    BY <2>1, <2>2, PromiseQuietStep DEF usbVars
  <2>3. CASE Transmit(LatchAndSend(Now, "DSTOP"))
    BY <2>1, <2>3, PromiseDriveStopStep
  <2>4. CASE driving # "none" /\ Transmit([Now EXCEPT !.q = Enqueue(hq, driving)])
    <3>1. driving \in Lines /\ driving # "ACK"
      BY <2>4 DEF TypeOK, Lines, DriveGo
    <3>2. CASE HasRoom(hq)
      BY <2>1, <2>4, <3>1, <3>2, PromiseSendStep DEF Enqueue
    <3>3. CASE ~HasRoom(hq)
      <4>1. Transmit(Now)
        BY <2>4, <3>3 DEF Enqueue, Now
      <4>2. UNCHANGED <<hq, pending, gen>>
        BY <4>1 DEF Transmit, Now
      <4> QED
        BY <2>1, <4>2, PromiseQuietStep
    <3> QED
      BY <3>2, <3>3
  <2> QED
    BY <1>6, <2>2, <2>3, <2>4 DEF ServiceManualDriveLease
<1>7. CASE PollSerialGui \/ ParseDone \/ TouchNothing
  <2>1. UNCHANGED <<hq, pending, gen, lastGen, unstopped, navOwed>> /\ pc \notin HelloPc
    BY <1>7 DEF PollSerialGui, ParseDone, TouchNothing, HelloPc, usbVars, loopVars, hostVars
  <2> QED
    BY <2>1, PromiseQuietStep
<1>8. CASE HelloAck \/ HelloConfirm
  <2>1. pc' \in HelloPc
    BY <1>8 DEF HelloAck, HelloConfirm, Goto, HelloPc
  <2> QED
    BY <2>1, PromiseOfUnsettled DEF Unsettled
<1>9. CASE HelloOffline
  BY <1>9, PromiseRosOfflineStep DEF HelloOffline
<1>10. CASE DriveDeadline
  <2>1. pc \notin HelloPc /\ UNCHANGED <<lastGen, unstopped, navOwed>>
    BY <1>10 DEF DriveDeadline, HelloPc, hostVars
  <2>2. CASE UNCHANGED <<usbVars, pending, driveVars, vstate>>
    BY <2>1, <2>2, PromiseQuietStep DEF usbVars
  <2>3. CASE Transmit(LatchAndSend(Now, "DSTOP"))
    BY <2>1, <2>3, PromiseDriveStopStep
  <2> QED
    BY <1>10, <2>2, <2>3 DEF DriveDeadline
<1> QED
  BY <1>2, <1>3, <1>4, <1>5, <1>6, <1>7, <1>8, <1>9, <1>10 DEF Loop

LEMMA CommandsPromise ==
  ASSUME TInv, PromiseInv, Commands
  PROVE  PromiseInv'
<1>1. TypeOK
  BY DEF TInv
<1> USE <1>1
<1>2. ASSUME NEW t \in Tokens, HelloBegin(t)
      PROVE  PromiseInv'
  <2>1. pc' \in HelloPc
    BY <1>2 DEF HelloBegin, Goto, HelloPc
  <2> QED
    BY <2>1, PromiseOfUnsettled DEF Unsettled
<1>3. CASE HostTelemetry
  <2>1. /\ pc \notin HelloPc /\ UNCHANGED lastGen
        /\ \E r, g, v, m : Refresh(r, g, v, m)
    BY <1>3 DEF HostTelemetry, HelloPc
  <2> QED
    BY <2>1, PromiseRefreshStep
<1>4. CASE HostRosDown \/ RosLinkTimeout
  <2>1. RosOffline /\ UNCHANGED lastGen
    BY <1>4 DEF HostRosDown, RosLinkTimeout
  <2> QED
    BY <2>1, PromiseRosOfflineStep
<1>5. CASE HostEStop \/ DisplayOrMenuStop \/ TouchStop
  <2>1. AllManualStopped /\ pc \notin HelloPc /\ UNCHANGED lastGen
    BY <1>5 DEF HostEStop, DisplayOrMenuStop, TouchStop, Press, HelloPc
  <2> QED
    BY <2>1, PromiseAllManualStoppedStep
<1>6. CASE EscStale
  <2>1. pc \notin HelloPc /\ UNCHANGED lastGen
    BY <1>6 DEF EscStale, HelloPc
  <2>2. CASE AllManualStopped
    BY <2>1, <2>2, PromiseAllManualStoppedStep
  <2>3. CASE UNCHANGED <<usbVars, pending, driveVars, steerRun, vstate, hostVars>>
    BY <2>1, <2>3, PromiseQuietStep DEF usbVars, hostVars
  <2> QED
    BY <1>6, <2>2, <2>3 DEF EscStale
<1>7. CASE HostQuery
  <2>1. pc \notin HelloPc /\ UNCHANGED lastGen
    BY <1>7 DEF HostQuery, HelloPc
  <2>2. CASE HasRoom(hq) /\ Transmit([Now EXCEPT !.q = Append(hq, "REPLY")]) /\ UNCHANGED hostVars
    <3>1. "REPLY" \in Lines /\ "REPLY" # "ACK"
      BY DEF Lines
    <3> QED
      BY <2>1, <2>2, <3>1, PromiseSendStep DEF hostVars
  <2>3. CASE SoftRestart(<<"REPLY">>) \/ RepairEndpoint(<<"REPLY">>)
    BY <2>1, <2>3, PromiseOfNewGeneration DEF SoftRestart, RepairEndpoint, DropQueues
  <2>4. CASE ServicePoll /\ UNCHANGED <<pending, hostVars>>
    BY <2>1, <2>4, PromiseQuietStep DEF ServicePoll, hostVars
  <2> QED
    BY <1>7, <2>2, <2>3, <2>4 DEF HostQuery
<1>8. CASE HostUsbRecover
  <2>1. UNCHANGED <<hq, pending, gen, lastGen, unstopped, navOwed>> /\ pc \notin HelloPc
    BY <1>8 DEF HostUsbRecover, HelloPc, usbVars, loopVars, hostVars
  <2> QED
    BY <2>1, PromiseQuietStep
<1>9. ASSUME NEW d \in DriveGo, TouchDrive(d)
      PROVE  PromiseInv'
  <2>1. pc \notin HelloPc /\ UNCHANGED <<lastGen, unstopped, navOwed>>
    BY <1>9 DEF TouchDrive, Press, HelloPc, hostVars
  <2>2. CASE UNCHANGED <<usbVars, pending, driveVars, vstate>>
    BY <2>1, <2>2, PromiseQuietStep DEF usbVars
  <2>3. CASE Transmit(LatchAndSend(Now, "DSTOP"))
    BY <2>1, <2>3, PromiseDriveStopStep
  <2>4. CASE HasRoom(hq) /\ Transmit([Now EXCEPT !.q = Append(hq, d)])
    <3>1. d \in Lines /\ d # "ACK"
      BY DEF Lines, DriveGo
    <3> QED
      BY <2>1, <2>4, <3>1, PromiseSendStep
  <2> QED
    BY <1>9, <2>2, <2>3, <2>4 DEF TouchDrive
<1>10. CASE TouchSteer
  <2>1. /\ pc \notin HelloPc /\ HasRoom(hq)
        /\ Transmit([Now EXCEPT !.q = Append(hq, "STEER")])
        /\ UNCHANGED <<lastGen, unstopped, navOwed>>
    BY <1>10 DEF TouchSteer, Press, HelloPc, hostVars
  <2>2. "STEER" \in Lines /\ "STEER" # "ACK"
    BY DEF Lines, SteerGo
  <2> QED
    BY <2>1, <2>2, PromiseSendStep
<1>11. CASE TouchNavStop
  <2>1. /\ pc \notin HelloPc /\ Transmit(LatchAndSend(Now, "NSTOP"))
        /\ UNCHANGED <<lastGen, unstopped>>
    BY <1>11 DEF TouchNavStop, Press, HelloPc
  <2>2. Keeps(Now, LatchAndSend(Now, "NSTOP")) /\ Latched(LatchAndSend(Now, "NSTOP"), "NSTOP")
    BY NowIsTxState, LatchAndSendKeeps, StopIsNoMotion
  <2> QED
    BY <2>1, <2>2, PromiseLatchStep
<1> QED
  BY <1>2, <1>3, <1>4, <1>5, <1>6, <1>7, <1>8, <1>9, <1>10, <1>11 DEF Commands

(* What the host makes of the head of the ring, the ring being q2 after. *)
LEMMA PromiseOfDelivery ==
  ASSUME TInv, PromiseInv, hq # <<>>, HostGets(Head(hq)),
         hq' = Tail(hq) \/ hq' = hq,
         UNCHANGED <<pending, gen, lastGen, pc>>
  PROVE  PromiseInv'
<1>1. hq \in Rings
  BY NowIsTxState DEF TInv
<1>2. Head(hq) \in Lines /\ Head(hq) # "owed"
  BY <1>1, MarksAreNoStops DEF Rings
<1>3. /\ unstopped' = (Head(hq) = "ACK" \/ (unstopped /\ Head(hq) # "DSTOP"))
      /\ navOwed' = (navOwed /\ Head(hq) # "NSTOP")
  BY DEF HostGets
<1>4. /\ SessionMark' = SessionMark \/ SessionMark' = Head(hq)
      /\ Head(hq) \in {"ACK"} \cup {"DSTOP"} => SessionMark' = Head(hq)
  BY <1>3 DEF SessionMark
<1>5. /\ NavMark' = NavMark \/ NavMark' = Head(hq)
      /\ Head(hq) \in {"owed"} \cup {"NSTOP"} => NavMark' = Head(hq)
  BY <1>2, <1>3 DEF NavMark
<1>6. Halted(SessionMark, hq, {"ACK"}, "DSTOP") => Halted(SessionMark', hq', {"ACK"}, "DSTOP")
  BY <1>1, <1>4, DeliveryKeepsHalted, EarlyDeliveryKeepsHalted
<1>7. Halted(NavMark, hq, {"owed"}, "NSTOP") => Halted(NavMark', hq', {"owed"}, "NSTOP")
  BY <1>1, <1>5, DeliveryKeepsHalted, EarlyDeliveryKeepsHalted
<1> QED
  BY <1>6, <1>7 DEF PromiseInv, Unsettled

LEMMA UsbPromise ==
  ASSUME TInv, PromiseInv, Usb \/ Tick
  PROVE  PromiseInv'
<1>1. TypeOK /\ (tx = "high" => hq # <<>>)
  BY DEF TInv, ActiveRing
<1> USE <1>1
<1>2. CASE UsbEnumerate \/ UsbReset
  <2>1. gen' = gen + 1 /\ UNCHANGED lastGen
    BY <1>2 DEF UsbEnumerate, UsbReset, ClassInit, ClassDeInit, DropQueues, loopVars
  <2> QED
    BY <2>1, PromiseOfNewGeneration
<1>3. CASE Reboot
  <2>1. gen' = 0
    BY <1>3 DEF Reboot
  <2> QED
    BY <2>1, PromiseOfUnsettled DEF Unsettled
<1>4. ASSUME UNCHANGED <<hq, pending, gen, lastGen, unstopped, navOwed, pc>>
      PROVE  PromiseInv'
  BY <1>4 DEF PromiseInv, Unsettled, SessionMark, NavMark
<1>5. CASE UsbResume \/ UsbSuspend \/ Tick
  <2>1. UNCHANGED <<hq, pending, gen, lastGen, unstopped, navOwed, pc>>
    BY <1>5 DEF UsbResume, UsbSuspend, Tick, usbVars, loopVars, hostVars, Resume, Suspend
  <2> QED
    BY <1>4, <2>1
<1>6. CASE UsbTransmitComplete \/ UsbLoseCompletion
  <2>1. UNCHANGED <<pending, gen, lastGen, pc>>
    BY <1>6 DEF UsbTransmitComplete, TransmitComplete, UsbLoseCompletion, LoseCompletion, loopVars
  <2>2. CASE HostGets(Head(hq)) /\ tx = "high"
    <3>1. hq' = Tail(hq) \/ hq' = hq
      BY <1>6 DEF UsbTransmitComplete, TransmitComplete, UsbLoseCompletion, LoseCompletion
    <3> QED
      BY <2>1, <2>2, <3>1, PromiseOfDelivery
  <2>3. CASE UNCHANGED <<hq, hostVars>>
    BY <1>4, <2>1, <2>3 DEF hostVars
  <2>4. (HostGets(Head(hq)) /\ tx = "high") \/ UNCHANGED <<hq, hostVars>>
    BY <1>6 DEF UsbTransmitComplete, TransmitComplete, UsbLoseCompletion, LoseCompletion, HostMayGet
  <2> QED
    BY <2>2, <2>3, <2>4
<1> QED
  BY <1>2, <1>3, <1>5, <1>6 DEF Usb

LEMMA StepPromise == TInv /\ PromiseInv /\ [Next]_vars => PromiseInv'
<1> SUFFICES ASSUME TInv, PromiseInv, [Next]_vars PROVE PromiseInv'
  OBVIOUS
<1>1. CASE Next
  BY <1>1, LoopPromise, CommandsPromise, UsbPromise DEF Next
<1>2. CASE UNCHANGED vars
  <2>1. UNCHANGED <<hq, pending, gen, lastGen, unstopped, navOwed, pc>>
    BY <1>2 DEF vars, usbVars, loopVars, hostVars
  <2> QED
    BY <2>1 DEF PromiseInv, Unsettled, SessionMark, NavMark
<1> QED
  BY <1>1, <1>2

LEMMA InitPromise == Init => PromiseInv
BY DEF Init, UsbInit, PromiseInv, Unsettled

(* What PromiseInv says of the first place of the ring. *)
LEMMA PromiseMeans ==
  TInv /\ PromiseInv => NewSessionStopped /\ NavStopNeverLost
<1> SUFFICES ASSUME TInv, PromiseInv PROVE NewSessionStopped /\ NavStopNeverLost
  OBVIOUS
<1>1. 0 \in 0..Len(hq)
  BY NowIsTxState, RingProperties DEF TInv
<1>2. \A h, stop : Halted(h, hq, {h}, stop) => \E j \in 1..Len(hq) : hq[j] = stop
  BY <1>1 DEF Halted
<1>3. NewSessionStopped
  BY <1>2 DEF PromiseInv, NewSessionStopped, SessionMark
<1>4. NavStopNeverLost
  BY <1>2 DEF PromiseInv, NavStopNeverLost, NavMark
<1> QED
  BY <1>3, <1>4

(* Until a host that got its session's ACK has got a drive STOP, one is    *)
(* latched or queued: for every size of the ring, any number of sessions,  *)
(* repairs and resets, and wherever the interrupt strikes in the HELLO.    *)
THEOREM NewSessionStopKept == Spec => []NewSessionStopped
BY InitTyped, StepTyped, InitPromise, StepPromise, PromiseMeans, PTL DEF Spec

(* A navigation STOP that was decided is latched or queued until the host  *)
(* has got one.                                                            *)
THEOREM NavStopKept == Spec => []NavStopNeverLost
BY InitTyped, StepTyped, InitPromise, StepPromise, PromiseMeans, PTL DEF Spec

-----------------------------------------------------------------------------
(* The ACK of an established session.                                      *)

HasAck(q) == \E i \in 1..Len(q) : q[i] = "ACK"

(* Without a fault the endpoint is never repaired, and only HelloConfirm   *)
(* establishes a session, after HelloAck has put its ACK in the ring.      *)
AckInv ==
  faults = 0 =>
    /\ ~recovery /\ ~stuck
    /\ established \/ (pc = "helloConfirm" /\ token # 0) => acked \/ HasAck(hq)

LEMMA AppendKeepsAck ==
  ASSUME NEW q \in Rings, HasRoom(q), NEW line \in Lines
  PROVE  /\ HasAck(q) => HasAck(Append(q, line))
         /\ line = "ACK" => HasAck(Append(q, line))
<1> DEFINE r == Append(q, line)
<1>1. /\ Len(r) = Len(q) + 1 /\ r[Len(q) + 1] = line /\ Len(q) \in Nat
      /\ \A i \in 1..Len(q) : r[i] = q[i]
  BY AppendRing, RingProperties
<1> HIDE DEF r
<1>2. 1..Len(q) \subseteq 1..Len(r) /\ Len(q) + 1 \in 1..Len(r)
  BY <1>1
<1>3. (HasAck(q) => HasAck(r)) /\ (line = "ACK" => HasAck(r))
  BY <1>1, <1>2 DEF HasAck
<1> QED
  BY <1>3 DEF r

LEMMA DeliveryKeepsAck ==
  ASSUME NEW q \in Rings, q # <<>>, HasAck(q), Head(q) # "ACK"
  PROVE  HasAck(Tail(q))
<1>1. /\ Len(q) \in Nat \ {0} /\ Len(Tail(q)) = Len(q) - 1
      /\ \A i \in 1..Len(Tail(q)) : Tail(q)[i] = q[i + 1]
      /\ Head(q) = q[1]
  BY HighCapAssumption DEF Rings
<1>2. PICK i \in 1..Len(q) : q[i] = "ACK"
  BY DEF HasAck
<1>3. i - 1 \in 1..Len(Tail(q)) /\ Tail(q)[i - 1] = "ACK"
  BY <1>1, <1>2
<1> QED
  BY <1>3 DEF HasAck

(* No latch operation takes a line out of the ring.                        *)
KeepsAck(st1, st2) == st2 \in TxStates /\ (HasAck(st1.q) => HasAck(st2.q))

LEMMA TrySendKeepsAck ==
  ASSUME NEW st \in TxStates, NEW line \in Stops
  PROVE  KeepsAck(st, TrySend(st, line))
<1>1. TrySend(st, line) \in TxStates
  BY TrySendKeeps DEF Keeps
<1>2. CASE ~(line \in st.pending /\ HasRoom(st.q))
  BY <1>2 DEF TrySend, KeepsAck
<1>3. CASE line \in st.pending /\ HasRoom(st.q)
  <2>1. TrySend(st, line).q = Append(st.q, line)
    BY <1>3 DEF TrySend
  <2> QED
    BY <1>1, <1>3, <2>1, TxStateFields, StopIsNoMotion, AppendKeepsAck DEF KeepsAck
<1> QED
  BY <1>2, <1>3

LEMMA LatchAndSendKeepsAck ==
  ASSUME NEW st \in TxStates
  PROVE  /\ KeepsAck(st, SafetyTx(st))
         /\ \A line \in Stops : KeepsAck(st, LatchAndSend(st, line))
<1>1. ASSUME NEW s \in TxStates PROVE KeepsAck(s, SafetyTx(s))
  <2>1. KeepsAck(s, TrySend(s, "DSTOP"))
    BY TrySendKeepsAck, StopIsNoMotion
  <2>2. KeepsAck(TrySend(s, "DSTOP"), TrySend(TrySend(s, "DSTOP"), "SSTOP"))
    BY <2>1, TrySendKeepsAck, StopIsNoMotion DEF KeepsAck
  <2>3. KeepsAck(TrySend(TrySend(s, "DSTOP"), "SSTOP"), SafetyTx(s))
    BY <2>2, TrySendKeepsAck, StopIsNoMotion DEF KeepsAck, SafetyTx
  <2> QED
    BY <2>1, <2>2, <2>3 DEF KeepsAck
<1>2. ASSUME NEW line \in Stops PROVE KeepsAck(st, LatchAndSend(st, line))
  <2> DEFINE st2 == [q |-> st.q, pending |-> st.pending \cup {line}]
  <2>1. st2 \in TxStates /\ st2.q = st.q
    BY TxStateFields
  <2> HIDE DEF st2
  <2>2. KeepsAck(st2, SafetyTx(st2))
    BY <1>1, <2>1
  <2>3. LatchAndSend(st, line) = SafetyTx(st2)
    BY DEF LatchAndSend, st2
  <2> QED
    BY <2>1, <2>2, <2>3 DEF KeepsAck
<1> QED
  BY <1>1, <1>2

LEMMA StopsKeepAck ==
  ASSUME NEW st \in TxStates
  PROVE  KeepsAck(st, StopAllManual(st)) /\ KeepsAck(st, ForceOffline(st))
<1> DEFINE a == LatchAndSend(st, "DSTOP")
           b == LatchAndSend(a, "SSTOP")
           c == LatchAndSend(b, "NSTOP")
<1>1. KeepsAck(st, a)
  BY LatchAndSendKeepsAck, StopIsNoMotion
<1>2. KeepsAck(a, b)
  BY <1>1, LatchAndSendKeepsAck, StopIsNoMotion DEF KeepsAck
<1>3. KeepsAck(b, c)
  BY <1>2, LatchAndSendKeepsAck, StopIsNoMotion DEF KeepsAck
<1>4. StopAllManual(st) = b /\ ForceOffline(st) = c
  BY DEF StopAllManual, ForceOffline
<1> HIDE DEF a, b, c
<1> QED
  BY <1>1, <1>2, <1>3, <1>4 DEF KeepsAck

(* A step that neither establishes a session nor takes its ACK away.       *)
LEMMA AckStep ==
  ASSUME AckInv, faults' = 0 => faults = 0,
         faults = 0 => ~recovery' /\ ~stuck',
         established' => established,
         pc' = "helloConfirm" => pc = "helloConfirm" /\ token' = token,
         acked => acked', HasAck(hq) => acked' \/ HasAck(hq')
  PROVE  AckInv'
<1> SUFFICES ASSUME faults' = 0
             PROVE  /\ ~recovery' /\ ~stuck'
                    /\ established' \/ (pc' = "helloConfirm" /\ token' # 0)
                         => acked' \/ HasAck(hq')
  BY DEF AckInv, HasAck
<1>1. established \/ (pc = "helloConfirm" /\ token # 0) => acked \/ HasAck(hq)
  BY DEF AckInv
<1>2. ~recovery' /\ ~stuck'
  OBVIOUS
<1>3. ASSUME established' \/ (pc' = "helloConfirm" /\ token' # 0)
      PROVE  acked' \/ HasAck(hq')
  BY <1>1, <1>3
<1> QED
  BY <1>2, <1>3

(* The session and the endpoint's state are as they were.                  *)
SameSession == UNCHANGED <<established, token, recovery, stuck>>

LEMMA AckQuietStep ==
  ASSUME AckInv, SameSession, UNCHANGED <<hq, acked, faults>>, pc' # "helloConfirm"
  PROVE  AckInv'
<1>1. faults = 0 => ~recovery' /\ ~stuck'
  BY DEF AckInv, SameSession
<1> QED
  BY <1>1, AckStep DEF SameSession

LEMMA AckTransmitStep ==
  ASSUME AckInv, NEW st, HasAck(hq) => HasAck(st.q), Transmit(st), UNCHANGED <<acked, faults>>,
         pc' # "helloConfirm", ~recovery \/ recovery' = recovery
  PROVE  AckInv'
<1>1. SameSession /\ hq' = st.q
  BY DEF Transmit, SameSession
<1>2. faults = 0 => ~recovery' /\ ~stuck'
  BY <1>1 DEF AckInv, SameSession
<1>3. HasAck(hq) => acked' \/ HasAck(hq')
  BY <1>1
<1> QED
  BY <1>1, <1>2, <1>3, AckStep DEF SameSession

(* Latching and sending STOPs, or a line of another kind.                  *)
LEMMA AckSendStep ==
  ASSUME TypeOK, AckInv, UNCHANGED <<acked, faults>>, pc' # "helloConfirm",
         \/ Transmit(SafetyTx(Now)) \/ \E line \in Stops : Transmit(LatchAndSend(Now, line))
         \/ Transmit(StopAllManual(Now)) \/ Transmit(ForceOffline(Now))
         \/ \E line \in Lines : HasRoom(hq) /\ Transmit([Now EXCEPT !.q = Append(hq, line)])
  PROVE  AckInv'
<1>1. Now \in TxStates /\ Now.q = hq /\ hq \in Rings
  BY NowIsTxState
<1>2. ASSUME NEW st, KeepsAck(Now, st), Transmit(st) PROVE AckInv'
  BY <1>1, <1>2, AckTransmitStep DEF KeepsAck, Transmit
<1>3. ASSUME NEW line \in Lines, HasRoom(hq), Transmit([Now EXCEPT !.q = Append(hq, line)])
      PROVE  AckInv'
  <2>1. HasAck(hq) => HasAck([Now EXCEPT !.q = Append(hq, line)].q)
    BY <1>1, <1>3, AppendKeepsAck, AppendToNow
  <2> QED
    BY <1>3, <2>1, AckTransmitStep DEF Transmit
<1> QED
  BY <1>1, <1>2, <1>3, LatchAndSendKeepsAck, StopsKeepAck

LEMMA AckRefreshStep ==
  ASSUME TypeOK, AckInv, NEW r, NEW g, NEW v, NEW n, Refresh(r, g, v, n),
         UNCHANGED faults, pc' # "helloConfirm"
  PROVE  AckInv'
<1> DEFINE stopDrive == driving # "none" /\ ~DriveGateOpen(r, g, v)
           v1 == IF stopDrive THEN "STOPPED" ELSE v
           stopSteer == steerRun /\ ~SteerGateOpen(r, g, v1)
           st1 == IF stopDrive THEN LatchAndSend(Now, "DSTOP") ELSE Now
           st2 == IF stopSteer THEN LatchAndSend(st1, "SSTOP") ELSE st1
<1>1. Transmit(st2) /\ UNCHANGED acked
  BY DEF Refresh, hostVars
<1>2. Now \in TxStates /\ Now.q = hq
  BY NowIsTxState
<1>3. KeepsAck(Now, st1)
  BY <1>2, LatchAndSendKeepsAck, StopIsNoMotion DEF KeepsAck
<1>4. KeepsAck(st1, st2)
  BY <1>3, LatchAndSendKeepsAck, StopIsNoMotion DEF KeepsAck
<1> HIDE DEF st1, st2
<1>5. HasAck(hq) => HasAck(st2.q)
  BY <1>2, <1>3, <1>4 DEF KeepsAck
<1> QED
  BY <1>1, <1>5, AckTransmitStep DEF Transmit

(* A step that needs a repair or a recovery of the endpoint, or is a fault.*)
LEMMA AckFaultStep ==
  ASSUME AckInv, faults \in Nat, faults' = faults,
         recovery \/ stuck
  PROVE  AckInv'
BY DEF AckInv

LEMMA LoopAck ==
  ASSUME TInv, AckInv, Loop
  PROVE  AckInv'
<1>1. TypeOK /\ faults \in Nat
  BY DEF TInv, TypeOK
<1>2. CASE LoopService
  <2>1. UNCHANGED faults /\ pc' = "generation"
    BY <1>2 DEF LoopService, Goto, boundVars
  <2>2. CASE SoftRestart(<<>>) \/ RepairEndpoint(<<>>)
    <3>1. recovery \/ stuck
      BY <2>2 DEF SoftRestart, RepairEndpoint
    <3> QED
      BY <1>1, <2>1, <3>1, AckFaultStep
  <2>3. CASE ServicePoll /\ UNCHANGED hostVars
    BY <2>1, <2>3, AckQuietStep DEF ServicePoll, hostVars, SameSession
  <2> QED
    BY <1>2, <2>2, <2>3 DEF LoopService
<1>3. CASE CheckGeneration
  BY <1>3, AckQuietStep DEF CheckGeneration, Goto, usbVars, boundVars, SameSession
<1>4. CASE CheckAuthority
  <2>1. pc' # "helloConfirm" /\ UNCHANGED <<acked, faults>>
    BY <1>4 DEF CheckAuthority, Goto, boundVars
  <2>2. CASE RosOffline
    BY <1>1, <2>1, <2>2, AckSendStep DEF RosOffline
  <2>3. CASE UNCHANGED <<usbVars, pending, driveVars, steerRun, teleVars, navOwed>>
    BY <2>1, <2>3, AckQuietStep DEF usbVars, SameSession
  <2>4. RosOffline \/ UNCHANGED <<usbVars, pending, driveVars, steerRun, teleVars, navOwed>>
    BY <1>4, Zenon DEF CheckAuthority
  <2> QED
    BY <2>2, <2>3, <2>4
<1>5. CASE ServiceSafetyControlTx
  <2>1. /\ pc' # "helloConfirm" /\ Transmit(SafetyTx(Now)) /\ UNCHANGED <<acked, faults>>
    BY <1>5 DEF ServiceSafetyControlTx, Goto, hostVars, boundVars
  <2> QED
    BY <1>1, <2>1, AckSendStep
<1>6. CASE ServiceManualDriveLease
  <2>1. pc' # "helloConfirm" /\ UNCHANGED <<acked, faults>>
    BY <1>6 DEF ServiceManualDriveLease, Goto, hostVars, boundVars
  <2>2. CASE UNCHANGED <<usbVars, pending, driveVars, vstate>>
    BY <2>1, <2>2, AckQuietStep DEF usbVars, SameSession
  <2>3. CASE Transmit(LatchAndSend(Now, "DSTOP"))
    BY <1>1, <2>1, <2>3, AckSendStep, StopIsNoMotion
  <2>4. CASE driving # "none" /\ Transmit([Now EXCEPT !.q = Enqueue(hq, driving)])
    <3>1. driving \in Lines
      BY <1>1, <2>4 DEF TypeOK, Lines, DriveGo
    <3>2. CASE HasRoom(hq)
      BY <1>1, <2>1, <2>4, <3>1, <3>2, AckSendStep DEF Enqueue
    <3>3. CASE ~HasRoom(hq)
      <4>1. Transmit(Now)
        BY <2>4, <3>3 DEF Enqueue, Now
      <4>2. SameSession /\ UNCHANGED hq
        BY <4>1 DEF Transmit, Now, SameSession
      <4> QED
        BY <2>1, <4>2, AckQuietStep
    <3> QED
      BY <3>2, <3>3
  <2> QED
    BY <1>6, <2>2, <2>3, <2>4 DEF ServiceManualDriveLease
<1>7. CASE PollSerialGui \/ ParseDone \/ TouchNothing
  <2>1. SameSession /\ UNCHANGED <<hq, acked, faults>> /\ pc' # "helloConfirm"
    BY <1>7 DEF PollSerialGui, ParseDone, TouchNothing, Goto, usbVars, hostVars, boundVars, SameSession
  <2> QED
    BY <2>1, AckQuietStep
<1>8. CASE HelloAck
  <2>1. UNCHANGED <<acked, faults>>
    BY <1>8 DEF HelloAck, hostVars, boundVars
  <2>2. CASE HasRoom(hq)
    <3>1. Transmit([Now EXCEPT !.q = Append(hq, "ACK")])
      BY <1>8, <2>2 DEF HelloAck
    <3>2. SameSession /\ hq' = Append(hq, "ACK")
      BY <3>1, AppendToNow DEF Transmit, SameSession
    <3>3. HasAck(hq')
      BY <1>1, <2>2, <3>2, NowIsTxState, AppendKeepsAck DEF Lines
    <3>4. faults' = 0 => ~recovery' /\ ~stuck'
      BY <2>1, <3>2 DEF AckInv, SameSession
    <3> QED
      BY <3>3, <3>4 DEF AckInv, HasAck
  <2>3. CASE ~HasRoom(hq)
    <3>1. /\ pc' = "helloOffline" /\ established' = FALSE /\ UNCHANGED <<hq, stuck, recovery>>
      BY <1>8, <2>3 DEF HelloAck, Goto
    <3>2. faults = 0 => ~recovery' /\ ~stuck'
      BY <3>1 DEF AckInv
    <3> QED
      BY <2>1, <3>1, <3>2, AckStep
  <2> QED
    BY <2>2, <2>3
<1>9. CASE HelloConfirm
  <2>1. /\ pc = "helloConfirm" /\ pc' = "helloOffline"
        /\ established' = (established \/ (token # 0 /\ Connected))
        /\ UNCHANGED <<token, hq, stuck, recovery, acked, faults>>
    BY <1>9 DEF HelloConfirm, Goto, hostVars, boundVars
  <2>2. SUFFICES ASSUME faults = 0
                 PROVE  ~recovery /\ ~stuck /\ (established' => acked \/ HasAck(hq))
    BY <2>1 DEF AckInv, HasAck
  <2>3. /\ ~recovery /\ ~stuck
        /\ established \/ (pc = "helloConfirm" /\ token # 0) => acked \/ HasAck(hq)
    BY <2>2 DEF AckInv
  <2>4. established' => established \/ token # 0
    BY <2>1
  <2> QED
    BY <2>1, <2>3, <2>4
<1>10. CASE HelloOffline
  <2>1. pc' # "helloConfirm" /\ UNCHANGED <<acked, faults>> /\ Transmit(ForceOffline(Now))
    BY <1>10 DEF HelloOffline, Goto, boundVars, RosOffline
  <2> QED
    BY <1>1, <2>1, AckSendStep
<1>11. CASE DriveDeadline
  <2>1. pc' # "helloConfirm" /\ UNCHANGED <<acked, faults>>
    BY <1>11 DEF DriveDeadline, Goto, hostVars, boundVars
  <2>2. CASE UNCHANGED <<usbVars, pending, driveVars, vstate>>
    BY <2>1, <2>2, AckQuietStep DEF usbVars, SameSession
  <2>3. CASE Transmit(LatchAndSend(Now, "DSTOP"))
    BY <1>1, <2>1, <2>3, AckSendStep, StopIsNoMotion
  <2> QED
    BY <1>11, <2>2, <2>3 DEF DriveDeadline
<1> QED
  BY <1>2, <1>3, <1>4, <1>5, <1>6, <1>7, <1>8, <1>9, <1>10, <1>11 DEF Loop

LEMMA CommandsAck ==
  ASSUME TInv, AckInv, Commands
  PROVE  AckInv'
<1>1. TypeOK /\ faults \in Nat
  BY DEF TInv, TypeOK
<1>2. ASSUME NEW t \in Tokens, HelloBegin(t)
      PROVE  AckInv'
  <2>1. /\ pc' = "helloAck" /\ established' = FALSE /\ UNCHANGED <<stuck, recovery, faults>>
    BY <1>2 DEF HelloBegin, Goto
  <2> QED
    BY <2>1 DEF AckInv
<1>3. CASE HostTelemetry
  <2>1. /\ pc' # "helloConfirm" /\ UNCHANGED faults
        /\ \E r, g, v, m : Refresh(r, g, v, m)
    BY <1>3 DEF HostTelemetry, boundVars
  <2> QED
    BY <1>1, <2>1, AckRefreshStep
<1>4. CASE HostRosDown \/ RosLinkTimeout
  <2>1. Transmit(ForceOffline(Now)) /\ UNCHANGED <<acked, faults>> /\ pc' # "helloConfirm"
    BY <1>4 DEF HostRosDown, RosLinkTimeout, RosOffline, boundVars
  <2> QED
    BY <1>1, <2>1, AckSendStep
<1>5. CASE HostEStop \/ DisplayOrMenuStop \/ TouchStop
  <2>1. AllManualStopped /\ UNCHANGED faults /\ pc' # "helloConfirm"
    BY <1>5 DEF HostEStop, DisplayOrMenuStop, TouchStop, Press, Goto, boundVars
  <2> QED
    BY <1>1, <2>1, AckSendStep DEF AllManualStopped, hostVars
<1>6. CASE EscStale
  <2>1. UNCHANGED faults /\ pc' # "helloConfirm"
    BY <1>6 DEF EscStale, boundVars
  <2>2. CASE AllManualStopped
    BY <1>1, <2>1, <2>2, AckSendStep DEF AllManualStopped, hostVars
  <2>3. CASE UNCHANGED <<usbVars, pending, driveVars, steerRun, vstate, hostVars>>
    BY <2>1, <2>3, AckQuietStep DEF usbVars, hostVars, SameSession
  <2> QED
    BY <1>6, <2>2, <2>3 DEF EscStale
<1>7. CASE HostQuery
  <2>1. pc' # "helloConfirm" /\ UNCHANGED faults
    BY <1>7 DEF HostQuery
  <2>2. CASE HasRoom(hq) /\ Transmit([Now EXCEPT !.q = Append(hq, "REPLY")]) /\ UNCHANGED hostVars
    <3>1. "REPLY" \in Lines /\ UNCHANGED acked
      BY <2>2 DEF Lines, hostVars
    <3> QED
      BY <1>1, <2>1, <2>2, <3>1, AckSendStep
  <2>3. CASE SoftRestart(<<"REPLY">>) \/ RepairEndpoint(<<"REPLY">>)
    <3>1. recovery \/ stuck
      BY <2>3 DEF SoftRestart, RepairEndpoint
    <3> QED
      BY <1>1, <2>1, <3>1, AckFaultStep
  <2>4. CASE ServicePoll /\ UNCHANGED <<pending, hostVars>>
    BY <2>1, <2>4, AckQuietStep DEF ServicePoll, hostVars, SameSession
  <2> QED
    BY <1>7, <2>2, <2>3, <2>4 DEF HostQuery
<1>8. CASE HostUsbRecover
  <2>1. faults' = faults + 1
    BY <1>8 DEF HostUsbRecover
  <2>2. faults' # 0
    BY <1>1, <2>1
  <2> QED
    BY <2>2 DEF AckInv
<1>9. ASSUME NEW d \in DriveGo, TouchDrive(d)
      PROVE  AckInv'
  <2>1. pc' # "helloConfirm" /\ UNCHANGED <<acked, faults>>
    BY <1>9 DEF TouchDrive, Press, Goto, hostVars
  <2>2. CASE UNCHANGED <<usbVars, pending, driveVars, vstate>>
    BY <2>1, <2>2, AckQuietStep DEF usbVars, SameSession
  <2>3. CASE Transmit(LatchAndSend(Now, "DSTOP"))
    BY <1>1, <2>1, <2>3, AckSendStep, StopIsNoMotion
  <2>4. CASE HasRoom(hq) /\ Transmit([Now EXCEPT !.q = Append(hq, d)])
    <3>1. d \in Lines
      BY DEF Lines
    <3> QED
      BY <1>1, <2>1, <2>4, <3>1, AckSendStep
  <2> QED
    BY <1>9, <2>2, <2>3, <2>4 DEF TouchDrive
<1>10. CASE TouchSteer
  <2>1. /\ pc' # "helloConfirm" /\ HasRoom(hq)
        /\ Transmit([Now EXCEPT !.q = Append(hq, "STEER")])
        /\ UNCHANGED <<acked, faults>>
    BY <1>10 DEF TouchSteer, Press, Goto, hostVars
  <2>2. "STEER" \in Lines
    BY DEF Lines, SteerGo
  <2> QED
    BY <1>1, <2>1, <2>2, AckSendStep
<1>11. CASE TouchNavStop
  <2>1. /\ pc' # "helloConfirm" /\ Transmit(LatchAndSend(Now, "NSTOP"))
        /\ UNCHANGED <<acked, faults>>
    BY <1>11 DEF TouchNavStop, Press, Goto
  <2> QED
    BY <1>1, <2>1, AckSendStep, StopIsNoMotion
<1> QED
  BY <1>2, <1>3, <1>4, <1>5, <1>6, <1>7, <1>8, <1>9, <1>10, <1>11 DEF Commands

LEMMA UsbAck ==
  ASSUME TInv, AckInv, Usb \/ Tick
  PROVE  AckInv'
<1>1. TypeOK /\ faults \in Nat /\ (tx = "high" => hq # <<>>)
  BY DEF TInv, TypeOK, ActiveRing
<1>2. CASE UsbReset \/ UsbSuspend \/ UsbLoseCompletion \/ Reboot
  <2>1. faults' = faults + 1
    BY <1>2 DEF UsbReset, UsbSuspend, UsbLoseCompletion, Reboot, Fault
  <2>2. faults' # 0
    BY <1>1, <2>1
  <2> QED
    BY <2>2 DEF AckInv
<1>3. CASE UsbEnumerate
  <2>1. /\ established' = FALSE /\ token' = 0 /\ stuck' = FALSE /\ UNCHANGED <<recovery, faults>>
    BY <1>3 DEF UsbEnumerate, ClassInit, DropQueues, boundVars
  <2> QED
    BY <2>1 DEF AckInv
<1>4. CASE UsbResume \/ Tick
  <2>1. SameSession /\ UNCHANGED <<hq, acked, faults, pc>>
    BY <1>4 DEF UsbResume, Tick, usbVars, loopVars, hostVars, boundVars, Resume, SameSession
  <2> QED
    BY <2>1 DEF AckInv, HasAck, SameSession
<1>5. CASE UsbTransmitComplete
  <2>1. /\ UNCHANGED <<established, token, stuck, recovery, pc, faults>>
        /\ hq' = IF tx = "high" THEN Tail(hq) ELSE hq
        /\ IF tx = "high" THEN HostGets(Head(hq)) ELSE UNCHANGED hostVars
    BY <1>5 DEF UsbTransmitComplete, TransmitComplete, loopVars, boundVars
  <2>2. faults = 0 => ~recovery' /\ ~stuck'
    BY <2>1 DEF AckInv
  <2>3. CASE tx = "high"
    <3>1. acked' = (acked \/ Head(hq) = "ACK") /\ hq' = Tail(hq)
      BY <2>1, <2>3 DEF HostGets
    <3>2. HasAck(hq) => acked' \/ HasAck(hq')
      BY <1>1, <2>3, <3>1, NowIsTxState, DeliveryKeepsAck
    <3> QED
      BY <2>1, <2>2, <3>1, <3>2, AckStep
  <2>4. CASE tx # "high"
    <3>1. UNCHANGED <<hq, acked>>
      BY <2>1, <2>4 DEF hostVars
    <3> QED
      BY <2>1, <2>2, <3>1, AckStep
  <2> QED
    BY <2>3, <2>4
<1> QED
  BY <1>2, <1>3, <1>4, <1>5 DEF Usb

LEMMA StepAck == TInv /\ AckInv /\ [Next]_vars => AckInv'
<1> SUFFICES ASSUME TInv, AckInv, [Next]_vars PROVE AckInv'
  OBVIOUS
<1>1. CASE Next
  BY <1>1, LoopAck, CommandsAck, UsbAck DEF Next
<1>2. CASE UNCHANGED vars
  <2>1. SameSession /\ UNCHANGED <<hq, acked, faults, pc>>
    BY <1>2 DEF vars, usbVars, loopVars, hostVars, boundVars, SameSession
  <2> QED
    BY <2>1 DEF AckInv, HasAck, SameSession
<1> QED
  BY <1>1, <1>2

LEMMA InitAck == Init => AckInv
BY DEF Init, UsbInit, AckInv

(* For every size of the ring and any number of sessions, and wherever the *)
(* interrupt strikes inside the HELLO handler, an established session has  *)
(* its ACK in the ring or delivered, as long as the endpoint has not       *)
(* needed a repair (beginHostSession, confirmHostSession).                 *)
THEOREM AckKept == Spec => []EstablishedIsAcked
<1>1. AckInv => EstablishedIsAcked
  BY DEF AckInv, EstablishedIsAcked, HasAck
<1> QED
  BY <1>1, InitTyped, StepTyped, InitAck, StepAck, PTL DEF Spec
=============================================================================
