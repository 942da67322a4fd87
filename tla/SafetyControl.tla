---------------------------- MODULE SafetyControl ---------------------------
(***************************************************************************)
(* The motion authority of the gateway: main.cpp's safety STOP latches,    *)
(* host session, manual drive and steering tests and navigation STOP, over *)
(* the USB control path of UsbControl.                                     *)
(*                                                                         *)
(* The main loop is one thread; pc names the call it makes next, and the   *)
(* USB interrupt and the environment may step between any two calls.       *)
(* Board_RealtimeService runs the same calls, in the same order, from      *)
(* inside a display draw; such a nested pass is a pass of this loop in     *)
(* which the timers and the touch panel report nothing.                    *)
(*                                                                         *)
(* The host is outside the code: it records the control lines it gets.     *)
(***************************************************************************)
EXTENDS UsbControl

CONSTANTS
  DriveTicks,   \* DRIVE_TEST_MAX_MS in units of DRIVE_LEASE_REFRESH_MS
  MaxFaults,    \* bound: USB faults, recoveries and reboots
  MaxHellos,    \* bound: host sessions begun
  MaxPresses,   \* bound: operator actions on the manual test and mission pages
  MaxReplies,   \* bound: other high-priority lines
  HostGates, HostStates, HostNav,  \* bound: what telemetry may report
  Buttons       \* bound: what the operator may touch

Gates == {"shut", "drive", "full"}
VehicleStates == {"STOPPED", "RUNNING", "OTHER"}

ASSUME BoundsAssumption ==
  /\ DriveTicks \in Nat \ {0}
  /\ {MaxFaults, MaxHellos, MaxPresses, MaxReplies} \subseteq Nat
  /\ HostGates \subseteq Gates /\ HostStates \subseteq VehicleStates
  /\ HostNav \subseteq BOOLEAN
  /\ Buttons \subseteq {"FWD", "REV", "STEER", "STOP", "NAVSTOP"}

VARIABLES
  pc,         \* the main loop's next call
  pending,    \* the STOPs whose g*StopPending flag is set
  lastGen,    \* gLastUsbSafetyGeneration
  driving,    \* driveTestRunning and gDriveTestDirection ("none": not running)
  leaseDue,   \* DRIVE_LEASE_REFRESH_MS have passed since gDriveLeaseLastTxMs
  ticks,      \* time since the drive test started, up to DriveTicks
  steerRun,   \* steeringTestRunning
  ros,        \* gTelemetry.rosConnected
  vstate,     \* gTelemetry.state
  gate,       \* escFresh, MODE_MANUAL, escReady and no eStop; "full": encoderReady too
  nav,        \* navigationStatus is QUEUED or NAVIGATING
  hostDrive,  \* the last drive line the host got
  hostSteer,  \* the last steering line the host got
  navOwed,    \* a navigation STOP was decided and the host got none since
  unstopped,  \* the host got a session's ACK and no drive STOP since
  acked,      \* the host got the ACK of the last HELLO
  faults, hellos, presses, replies

hostVars == <<hostDrive, hostSteer, navOwed, unstopped, acked>>
driveVars == <<driving, leaseDue, ticks>>
teleVars == <<ros, vstate, gate, nav>>
boundVars == <<faults, hellos, presses, replies>>
loopVars == <<pc, pending, lastGen, driveVars, steerRun, teleVars>>
vars == <<usbVars, loopVars, hostVars, boundVars>>

HelloPc == {"helloAck", "helloConfirm", "helloOffline"}
Pc == {"service", "generation", "authority", "safetyTx", "lease", "poll",
       "parse", "timers", "touch"} \cup HelloPc

TypeOK ==
  /\ UsbTypeOK
  /\ pc \in Pc
  /\ pending \subseteq Stops
  /\ lastGen \in Nat
  /\ driving \in DriveGo \cup {"none"}
  /\ leaseDue \in BOOLEAN /\ ticks \in 0..DriveTicks
  /\ steerRun \in BOOLEAN
  /\ ros \in BOOLEAN /\ vstate \in VehicleStates
  /\ gate \in Gates /\ nav \in BOOLEAN
  /\ hostDrive \in DriveGo \cup {"DSTOP"}
  /\ hostSteer \in SteerGo \cup {"SSTOP"}
  /\ navOwed \in BOOLEAN /\ acked \in BOOLEAN
  /\ unstopped \in BOOLEAN
  /\ faults \in 0..MaxFaults /\ hellos \in 0..MaxHellos
  /\ presses \in 0..MaxPresses /\ replies \in 0..MaxReplies

Init ==
  /\ UsbInit
  /\ pc = "service" /\ pending = {} /\ lastGen = 0
  /\ driving = "none" /\ leaseDue = FALSE /\ ticks = 0 /\ steerRun = FALSE
  /\ ros = FALSE /\ vstate = "STOPPED" /\ gate = "shut" /\ nav = FALSE
  /\ hostDrive = "DSTOP" /\ hostSteer = "SSTOP" /\ navOwed = FALSE
  /\ unstopped = FALSE /\ acked = FALSE
  /\ faults = 0 /\ hellos = 0 /\ presses = 0 /\ replies = 0

-----------------------------------------------------------------------------
(* The host.                                                               *)

HostGets(line) ==
  /\ hostDrive' = IF line \in DriveGo \cup {"DSTOP"} THEN line ELSE hostDrive
  /\ hostSteer' = IF line \in SteerGo \cup {"SSTOP"} THEN line ELSE hostSteer
  /\ navOwed' = (navOwed /\ line # "NSTOP")
  /\ acked' = (acked \/ line = "ACK")
  /\ unstopped' = (line = "ACK" \/ (unstopped /\ line # "DSTOP"))

(* A transfer cut short may have reached the host all the same. *)
HostMayGet ==
  \/ UNCHANGED hostVars
  \/ tx = "high" /\ ~stuck /\ HostGets(Head(hq))

-----------------------------------------------------------------------------
(* The STOP latches.  A transmit state is the ring and the latches.        *)

Now == [q |-> hq, pending |-> pending]

(* sendSafetyControlLine, and the latch it clears. *)
TrySendOnce(st, line) ==                     \* mutant: no retry on a full ring
  [q |-> IF line \in st.pending THEN Enqueue(st.q, line) ELSE st.q,
   pending |-> st.pending \ {line}]

TrySend(st, line) ==
  IF line \in st.pending /\ HasRoom(st.q)
  THEN [q |-> Append(st.q, line), pending |-> st.pending \ {line}]
  ELSE st

SafetyTx(st) == TrySend(TrySend(TrySend(st, "DSTOP"), "SSTOP"), "NSTOP")
LatchAndSend(st, line) ==
  SafetyTx([q |-> st.q, pending |-> st.pending \cup {line}])

StopAllManual(st) == LatchAndSend(LatchAndSend(st, "DSTOP"), "SSTOP")
ForceOfflineManualOnly(st) == StopAllManual(st)   \* mutant: navigation goes on
ForceOffline(st) == LatchAndSend(StopAllManual(st), "NSTOP")

(* The ring after the writes, and the endpoint after their poll(). *)
Transmit(st) ==
  /\ hq' = st.q
  /\ pending' = st.pending
  /\ tx' = IF Connected /\ tx = "idle" /\ st.q # hq THEN "high" ELSE tx
  /\ UNCHANGED <<dev, established, token, gen, stuck, recovery>>

(* What stopDriveTest and stopSteeringTest do to the model. *)
DriveStopped ==
  driving' = "none" /\ leaseDue' = FALSE /\ ticks' = 0 /\ vstate' = "STOPPED"

(* forceRosOffline. *)
RosOffline ==
  /\ Transmit(ForceOffline(Now))
  /\ DriveStopped
  /\ steerRun' = FALSE
  /\ ros' = FALSE /\ gate' = "shut" /\ nav' = FALSE
  /\ navOwed' = TRUE

DriveGateOpen(r, g, v) ==
  Authoritative /\ r /\ g # "shut" /\ v \in {"STOPPED", "RUNNING"}
SteerGateOpen(r, g, v) == Authoritative /\ r /\ g = "full" /\ v = "STOPPED"

(* What every accepted telemetry line ends with: enforceManualMotionGate,  *)
(* with the model as the line left it.                                     *)
Refresh(r, g, v, n) ==
  LET stopDrive == driving # "none" /\ ~DriveGateOpen(r, g, v)
      v1 == IF stopDrive THEN "STOPPED" ELSE v
      stopSteer == steerRun /\ ~SteerGateOpen(r, g, v1)
      st1 == IF stopDrive THEN LatchAndSend(Now, "DSTOP") ELSE Now
      st2 == IF stopSteer THEN LatchAndSend(st1, "SSTOP") ELSE st1
  IN /\ Transmit(st2)
     /\ IF stopDrive THEN DriveStopped ELSE vstate' = v /\ UNCHANGED driveVars
     /\ steerRun' = (steerRun /\ ~stopSteer)
     /\ ros' = r /\ gate' = g /\ nav' = n
     /\ UNCHANGED hostVars

(* stopAllManualTest. *)
AllManualStopped ==
  /\ Transmit(StopAllManual(Now))
  /\ DriveStopped
  /\ steerRun' = FALSE
  /\ UNCHANGED hostVars

-----------------------------------------------------------------------------
(* The main loop, one call a step.                                         *)

Goto(label) == pc' = label

LoopService ==
  /\ pc = "service" /\ Goto("generation")
  /\ \/ SoftRestart(<<>>) /\ HostMayGet
     \/ RepairEndpoint(<<>>) /\ UNCHANGED hostVars
     \/ ServicePoll /\ UNCHANGED hostVars
  /\ UNCHANGED <<pending, lastGen, driveVars, steerRun, teleVars, boundVars>>

CheckGenerationOnly ==                       \* mutant: the STOPs are not re-latched
  /\ pc = "generation" /\ Goto("authority")
  /\ lastGen' = gen
  /\ navOwed' = (navOwed \/ gen # lastGen)
  /\ UNCHANGED <<usbVars, pending, driveVars, steerRun, teleVars, hostDrive,
                 hostSteer, unstopped, acked, boundVars>>

(* serviceUsbTransportState, up to latchAllSafetyStops. *)
CheckGeneration ==
  /\ pc = "generation" /\ Goto("authority")
  /\ lastGen' = gen
  /\ IF gen # lastGen
     THEN pending' = Stops /\ navOwed' = TRUE
     ELSE UNCHANGED <<pending, navOwed>>
  /\ UNCHANGED <<usbVars, driveVars, steerRun, teleVars, hostDrive, hostSteer,
                 unstopped, acked, boundVars>>

(* serviceUsbTransportState, the rest. *)
CheckAuthority ==
  /\ pc = "authority" /\ Goto("safetyTx")
  /\ IF ~Authoritative /\ (ros \/ driving # "none" \/ steerRun \/ nav)
     THEN RosOffline
     ELSE UNCHANGED <<usbVars, pending, driveVars, steerRun, teleVars, navOwed>>
  /\ UNCHANGED <<lastGen, hostDrive, hostSteer, unstopped, acked, boundVars>>

ServiceSafetyControlTx ==
  /\ pc = "safetyTx" /\ Goto("lease")
  /\ Transmit(SafetyTx(Now))
  /\ UNCHANGED <<lastGen, driveVars, steerRun, teleVars, hostVars, boundVars>>

LeaseRestartsDeadline ==                     \* mutant: a refresh restarts the test
  /\ pc = "lease" /\ Goto("poll")
  /\ IF driving = "none" \/ ~leaseDue
     THEN UNCHANGED <<usbVars, pending, driveVars, vstate>>
     ELSE IF ~DriveGateOpen(ros, gate, vstate)
     THEN Transmit(LatchAndSend(Now, "DSTOP")) /\ DriveStopped
     ELSE /\ Transmit([Now EXCEPT !.q = Enqueue(hq, driving)])
          /\ leaseDue' = ~HasRoom(hq)
          /\ ticks' = 0
          /\ UNCHANGED <<driving, vstate>>
  /\ UNCHANGED <<lastGen, steerRun, ros, gate, nav, hostVars, boundVars>>

ServiceManualDriveLease ==
  /\ pc = "lease" /\ Goto("poll")
  /\ IF driving = "none" \/ ~leaseDue
     THEN UNCHANGED <<usbVars, pending, driveVars, vstate>>
     ELSE IF ~DriveGateOpen(ros, gate, vstate)
     THEN Transmit(LatchAndSend(Now, "DSTOP")) /\ DriveStopped
     ELSE /\ Transmit([Now EXCEPT !.q = Enqueue(hq, driving)])
          /\ leaseDue' = ~HasRoom(hq)
          /\ UNCHANGED <<driving, ticks, vstate>>
  /\ UNCHANGED <<lastGen, steerRun, ros, gate, nav, hostVars, boundVars>>

(* pollSerialGui starts with poll(). *)
PollSerialGui ==
  /\ pc = "poll" /\ Goto("parse")
  /\ tx' \in PollAfter(hq, tx)
  /\ UNCHANGED <<dev, established, token, gen, hq, stuck, recovery, pending,
                 lastGen, driveVars, steerRun, teleVars, hostVars, boundVars>>

-----------------------------------------------------------------------------
(* HOST:HELLO:<t>.  The interrupt may strike between its calls.            *)

HelloBeginEstablished(t) ==                  \* mutant: established before the ACK
  /\ pc = "parse" /\ Goto("helloAck")
  /\ ~(established /\ token = t)
  /\ hellos < MaxHellos /\ hellos' = hellos + 1
  /\ established' = Connected
  /\ token' = t
  /\ hq' = Trimmed(hq)
  /\ acked' = FALSE
  /\ UNCHANGED <<dev, gen, tx, stuck, recovery, pending, lastGen, driveVars,
                 steerRun, teleVars, hostDrive, hostSteer, navOwed, unstopped,
                 faults, presses, replies>>

(* A new token: beginHostSession. *)
HelloBegin(t) ==
  /\ pc = "parse" /\ Goto("helloAck")
  /\ ~(established /\ token = t)
  /\ hellos < MaxHellos /\ hellos' = hellos + 1
  /\ established' = FALSE
  /\ token' = t
  /\ hq' = Trimmed(hq)
  /\ acked' = FALSE
  /\ UNCHANGED <<dev, gen, tx, stuck, recovery, pending, lastGen, driveVars,
                 steerRun, teleVars, hostDrive, hostSteer, navOwed, unstopped,
                 faults, presses, replies>>

(* The ACK must be in the ring, or the session is not established. *)
HelloAck ==
  /\ pc = "helloAck"
  /\ IF HasRoom(hq)
     THEN /\ Goto("helloConfirm")
          /\ Transmit([Now EXCEPT !.q = Append(hq, "ACK")])
     ELSE /\ Goto("helloOffline")
          /\ established' = FALSE /\ token' = 0
          /\ UNCHANGED <<dev, gen, hq, tx, stuck, recovery, pending>>
  /\ UNCHANGED <<lastGen, driveVars, steerRun, teleVars, hostVars, boundVars>>

(* confirmHostSession. *)
HelloConfirm ==
  /\ pc = "helloConfirm" /\ Goto("helloOffline")
  /\ established' = (established \/ (token # 0 /\ Connected))
  /\ UNCHANGED <<dev, token, gen, hq, tx, stuck, recovery, pending, lastGen,
                 driveVars, steerRun, teleVars, hostVars, boundVars>>

HelloKeepsAuthority ==                       \* mutant: no STOPs after the ACK
  /\ pc = "helloOffline" /\ Goto("parse")
  /\ UNCHANGED <<usbVars, pending, lastGen, driveVars, steerRun, teleVars,
                 hostVars, boundVars>>

HelloOffline ==
  /\ pc = "helloOffline" /\ Goto("parse")
  /\ RosOffline
  /\ UNCHANGED <<lastGen, hostDrive, hostSteer, unstopped, acked, boundVars>>

-----------------------------------------------------------------------------
(* The other host commands.                                                *)

(* A line of the established session that ends in Refresh: ROS:1, or one   *)
(* that changes what the motion gates or the mission state read.           *)
HostTelemetry ==
  /\ pc = "parse" /\ established
  /\ \/ ~ros /\ Refresh(TRUE, gate, vstate, nav)
     \/ \E g \in HostGates \ {gate} : Refresh(ros, g, vstate, nav)
     \/ \E v \in HostStates \ {vstate} : Refresh(ros, gate, v, nav)
     \/ \E n \in HostNav \ {nav} : Refresh(ros, gate, vstate, n)
  /\ UNCHANGED <<pc, lastGen, boundVars>>

(* ROS:0. *)
HostRosDown ==
  /\ pc = "parse" /\ established /\ ros
  /\ RosOffline
  /\ UNCHANGED <<pc, lastGen, hostDrive, hostSteer, unstopped, acked, boundVars>>

(* ESTOP:1 while a test runs. *)
HostEStop ==
  /\ pc = "parse" /\ established /\ (driving # "none" \/ steerRun)
  /\ AllManualStopped
  /\ gate' = "shut"
  /\ UNCHANGED <<pc, lastGen, ros, nav, boundVars>>

(* A command answered by a line and nothing else: a status, PING, an       *)
(* error.  writeLineCritical services the endpoint once when there is no   *)
(* room, then drops the answer.                                            *)
HostQuery ==
  /\ pc = "parse" /\ replies < MaxReplies /\ replies' = replies + 1
  /\ \/ /\ HasRoom(hq)
        /\ Transmit([Now EXCEPT !.q = Append(hq, "REPLY")])
        /\ UNCHANGED hostVars
     \/ ~HasRoom(hq) /\ SoftRestart(<<"REPLY">>) /\ HostMayGet /\ UNCHANGED pending
     \/ ~HasRoom(hq) /\ RepairEndpoint(<<"REPLY">>) /\ UNCHANGED <<pending, hostVars>>
     \/ ~HasRoom(hq) /\ ServicePoll /\ UNCHANGED <<pending, hostVars>>
  /\ UNCHANGED <<pc, lastGen, driveVars, steerRun, teleVars, faults, hellos,
                 presses>>

(* USB:RECOVER, accepted in or out of a session. *)
HostUsbRecover ==
  /\ pc = "parse" /\ faults < MaxFaults /\ faults' = faults + 1
  /\ recovery' = TRUE
  /\ UNCHANGED <<dev, established, token, gen, hq, tx, stuck, pc, pending,
                 lastGen, driveVars, steerRun, teleVars, hostVars, hellos,
                 presses, replies>>

ParseDone ==
  /\ pc = "parse" /\ Goto("timers")
  /\ UNCHANGED <<usbVars, pending, lastGen, driveVars, steerRun, teleVars,
                 hostVars, boundVars>>

-----------------------------------------------------------------------------
(* What the rest of the loop does to the motion authority.                 *)

(* checkRosLinkTimeout. *)
RosLinkTimeout ==
  /\ pc = "timers" /\ ros
  /\ RosOffline
  /\ UNCHANGED <<pc, lastGen, hostDrive, hostSteer, unstopped, acked, boundVars>>

(* updateDomainFreshness: the ESC domain goes stale. *)
EscStale ==
  /\ pc = "timers" /\ gate # "shut"
  /\ gate' = "shut"
  /\ IF driving # "none" \/ steerRun
     THEN AllManualStopped
     ELSE UNCHANGED <<usbVars, pending, driveVars, steerRun, vstate, hostVars>>
  /\ UNCHANGED <<pc, lastGen, ros, nav, boundVars>>

(* serviceDisplayRecovery, or setMenu leaving the manual test page. *)
DisplayOrMenuStop ==
  /\ pc \in {"parse", "timers"} /\ (driving # "none" \/ steerRun)
  /\ AllManualStopped
  /\ UNCHANGED <<pc, lastGen, ros, gate, nav, boundVars>>

(* The end of the timers: stopDriveTest at driveTestDeadlineMs. *)
DriveDeadline ==
  /\ pc = "timers" /\ Goto("touch")
  /\ IF driving # "none" /\ ticks = DriveTicks
     THEN Transmit(LatchAndSend(Now, "DSTOP")) /\ DriveStopped
     ELSE UNCHANGED <<usbVars, pending, driveVars, vstate>>
  /\ UNCHANGED <<lastGen, steerRun, ros, gate, nav, hostVars, boundVars>>

(* handleTouch: one event or none. *)
TouchNothing ==
  /\ pc = "touch" /\ Goto("service")
  /\ UNCHANGED <<usbVars, pending, lastGen, driveVars, steerRun, teleVars,
                 hostVars, boundVars>>

Press(button) ==
  /\ pc = "touch" /\ Goto("service")
  /\ button \in Buttons
  /\ presses < MaxPresses /\ presses' = presses + 1
  /\ UNCHANGED <<lastGen, faults, hellos, replies>>

(* runDriveTest. *)
TouchDrive(d) ==
  /\ Press(d)
  /\ IF driving # "none"
     THEN Transmit(LatchAndSend(Now, "DSTOP")) /\ DriveStopped
     ELSE IF ros /\ gate # "shut" /\ vstate = "STOPPED" /\ HasRoom(hq)
     THEN /\ Transmit([Now EXCEPT !.q = Append(hq, d)])
          /\ driving' = d /\ leaseDue' = FALSE /\ ticks' = 0
          /\ vstate' = "RUNNING"
     ELSE UNCHANGED <<usbVars, pending, driveVars, vstate>>
  /\ UNCHANGED <<steerRun, ros, gate, nav, hostVars>>

(* runSteeringTest. *)
TouchSteer ==
  /\ Press("STEER")
  /\ ros /\ gate = "full" /\ vstate = "STOPPED" /\ HasRoom(hq)
  /\ Transmit([Now EXCEPT !.q = Append(hq, "STEER")])
  /\ steerRun' = TRUE
  /\ UNCHANGED <<driveVars, teleVars, hostVars>>

(* The STOP button, and the release of a motion button. *)
TouchStop ==
  /\ Press("STOP")
  /\ AllManualStopped
  /\ UNCHANGED <<ros, gate, nav>>

(* stopNavigation. *)
TouchNavStop ==
  /\ Press("NAVSTOP")
  /\ Transmit(LatchAndSend(Now, "NSTOP"))
  /\ navOwed' = TRUE
  /\ UNCHANGED <<driveVars, steerRun, teleVars, hostDrive, hostSteer, unstopped, acked>>

(* HAL_GetTick: DRIVE_LEASE_REFRESH_MS go by while a drive test runs. *)
Tick ==
  /\ driving # "none" /\ ~(leaseDue /\ ticks = DriveTicks)
  /\ leaseDue' = TRUE
  /\ ticks' = IF ticks < DriveTicks THEN ticks + 1 ELSE ticks
  /\ UNCHANGED <<usbVars, pc, pending, lastGen, driving, steerRun, teleVars,
                 hostVars, boundVars>>

-----------------------------------------------------------------------------
(* The interrupt and the environment.                                      *)

UsbEnumerate ==
  /\ ClassInit
  /\ UNCHANGED <<loopVars, hostVars, boundVars>>

UsbResume ==
  /\ Resume
  /\ UNCHANGED <<loopVars, hostVars, boundVars>>

UsbTransmitComplete ==
  /\ TransmitComplete
  /\ IF tx = "high" THEN HostGets(Head(hq)) ELSE UNCHANGED hostVars
  /\ UNCHANGED <<loopVars, boundVars>>

Fault ==
  /\ faults < MaxFaults /\ faults' = faults + 1
  /\ UNCHANGED <<hellos, presses, replies>>

UsbReset ==
  /\ Fault
  /\ ClassDeInit /\ HostMayGet
  /\ UNCHANGED loopVars

UsbSuspend ==
  /\ Fault
  /\ Suspend
  /\ UNCHANGED <<loopVars, hostVars>>

UsbLoseCompletion ==
  /\ Fault
  /\ LoseCompletion /\ HostMayGet
  /\ UNCHANGED loopVars

(* Watchdog reset, HardFault or power loss: RAM starts over, the host does *)
(* not.                                                                    *)
Reboot ==
  /\ Fault
  /\ dev' = "default" /\ established' = FALSE /\ token' = 0 /\ gen' = 0
  /\ hq' = <<>> /\ tx' = "idle" /\ stuck' = FALSE /\ recovery' = FALSE
  /\ pc' = "service" /\ pending' = {} /\ lastGen' = 0
  /\ driving' = "none" /\ leaseDue' = FALSE /\ ticks' = 0 /\ steerRun' = FALSE
  /\ ros' = FALSE /\ vstate' = "STOPPED" /\ gate' = "shut" /\ nav' = FALSE
  /\ HostMayGet

Loop ==
  \/ LoopService \/ CheckGeneration \/ CheckAuthority
  \/ ServiceSafetyControlTx \/ ServiceManualDriveLease \/ PollSerialGui
  \/ HelloAck \/ HelloConfirm \/ HelloOffline
  \/ ParseDone \/ DriveDeadline \/ TouchNothing

Commands ==
  \/ \E t \in Tokens : HelloBegin(t)
  \/ HostTelemetry \/ HostRosDown \/ HostEStop \/ HostQuery \/ HostUsbRecover
  \/ RosLinkTimeout \/ EscStale \/ DisplayOrMenuStop
  \/ \E d \in DriveGo : TouchDrive(d)
  \/ TouchSteer \/ TouchStop \/ TouchNavStop

Usb ==
  \/ UsbEnumerate \/ UsbResume \/ UsbTransmitComplete
  \/ UsbReset \/ UsbSuspend \/ UsbLoseCompletion \/ Reboot

Next == Loop \/ Commands \/ Usb \/ Tick

(* The main loop never stops (some call of it is possible in every state,  *)
(* so its weak fairness is []<><<Loop>>_vars, which TLC evaluates faster), *)
(* time passes, the host keeps reading and enumerates a device that asks   *)
(* for it.                                                                 *)
Fairness ==
  /\ []<><<Loop>>_vars /\ WF_vars(Tick)
  /\ WF_vars(UsbTransmitComplete) /\ WF_vars(UsbEnumerate) /\ WF_vars(UsbResume)

Spec == Init /\ [][Next]_vars
FairSpec == Spec /\ Fairness

-----------------------------------------------------------------------------
(* Properties.                                                             *)

(* h is the last line of its kind the host got, q the ring: every motion   *)
(* command the host has or will get is followed by a stop in the ring.     *)
Halted(h, q, go, stop) ==
  \A i \in 0..Len(q) :
    (IF i = 0 THEN h ELSE q[i]) \in go => \E j \in (i + 1)..Len(q) : q[j] = stop

(* The latches may be out of date: a generation change not yet noticed     *)
(* (generation 0 is a device no host has enumerated since it booted), or a *)
(* HELLO that has purged the ring and has yet to revoke authority.         *)
Unsettled == gen # lastGen \/ gen = 0 \/ pc \in HelloPc

(* While no drive test runs, a drive command the host got or will get is   *)
(* always answered by a STOP: in the ring behind it, latched for the next  *)
(* serviceSafetyControlTx, or about to be latched.  Resets, repairs,       *)
(* session purges and full rings may drop a STOP but never the duty.       *)
DriveStopNeverLost ==
  driving = "none" /\ ~Unsettled =>
    "DSTOP" \in pending \/ Halted(hostDrive, hq, DriveGo, "DSTOP")

(* The same of the steering test. *)
SteerStopNeverLost ==
  ~steerRun /\ ~Unsettled =>
    "SSTOP" \in pending \/ Halted(hostSteer, hq, SteerGo, "SSTOP")

(* A navigation STOP that was decided (stopNavigation, forceRosOffline, a  *)
(* generation change) is latched or queued until the host has got one.     *)
NavStopNeverLost ==
  navOwed /\ ~Unsettled =>
    "NSTOP" \in pending \/ \E i \in 1..Len(hq) : hq[i] = "NSTOP"

(* "ACK precedes STOP lines, then every old ROS/domain authority is        *)
(* revoked" (main.cpp:1596): until a host that got its session's ACK has   *)
(* got a drive STOP, one is latched or queued, whatever empties the ring,  *)
(* fills it or starts another session meanwhile.                           *)
NewSessionStopped ==
  unstopped /\ ~Unsettled =>
    "DSTOP" \in pending \/ \E i \in 1..Len(hq) : hq[i] = "DSTOP"

(* "Do not silently establish an epoch the host cannot acknowledge"        *)
(* (main.cpp:1589): an established session has its ACK in the ring or      *)
(* delivered, as long as the endpoint never needed a repair, wherever the  *)
(* interrupt struck inside the HELLO handler.                              *)
EstablishedIsAcked ==
  established /\ faults = 0 => acked \/ \E i \in 1..Len(hq) : hq[i] = "ACK"

(* A host left with a drive command gets a STOP, or a new drive test       *)
(* starts: across a lost session, a full ring, a USB reset and a reboot.   *)
(* (A host once driven is never left with anything else than a drive       *)
(* command or a STOP, so this is a leads-to.)                              *)
DriveStopDelivered ==
  []<>(hostDrive \in DriveGo => driving # "none")

(* No drive test outlives its deadline. *)
DriveTestEnds == []<>(driving = "none")

(* main.cpp:653: "Direction reversal must pass through an explicit STOP."  *)
ReversalThroughStop ==
  [][\A d \in DriveGo : hostDrive = d => hostDrive' \in {d, "DSTOP"}]_vars
=============================================================================
