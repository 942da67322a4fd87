--------------------------- MODULE SensorPublish ----------------------------
(***************************************************************************)
(* From a decoded measurement to lines for the host (Neo3ProSensors.cpp):  *)
(* the decoders fill one record per topic and set its dirty flag, and      *)
(* serviceTelemetry turns what is dirty into lines.  A GNSS fix becomes    *)
(* three lines in the high-priority ring, which may refuse each of them;   *)
(* the safety button becomes a line in the low-priority ring, which may    *)
(* refuse it for good, and is told again by the hardware heartbeat.        *)
(*                                                                         *)
(* Measurements are numbers.  The rings are drained by the host in the     *)
(* interrupt, between any two lines.  An epoch is the millisecond of its   *)
(* reception: `current' says whether gnss_usb_epoch_ms_ is the one of the  *)
(* newest fix.                                                             *)
(***************************************************************************)
EXTENDS Naturals

CONSTANTS
  HighSlots, LowSlots,   \* lines the two rings hold
  EcefPeriod,            \* USB_ECEF_PERIOD_MS in ticks
  ButtonStale,           \* BUTTON_STALE_MS
  HwPeriod,              \* HW_PUBLISH_MS
  FasterThanMs,          \* whether two fixes may be decoded in one millisecond
                         \* with a publication in between
  MaxFixes,              \* bound: fixes
  MaxOthers,             \* bound: lines of others in the high ring
  MaxOutages             \* bound: failures of the controller, presses

ASSUME PublishAssumption ==
  /\ {HighSlots, LowSlots, EcefPeriod, ButtonStale, HwPeriod, MaxFixes} \subseteq Nat \ {0}
  /\ {MaxOthers, MaxOutages} \subseteq Nat /\ FasterThanMs \in BOOLEAN

VARIABLES
  at,            \* where poll() is
  fix,           \* gnss_: the newest fix, 0 before the first
  ecef,          \* ecef_: the fix it came with, 0 when not valid
  dirty,         \* the bits of telemetry_dirty_ that are set
  current,       \* gnss_usb_epoch_ms_ is the fix's
  usbPhase,      \* gnss_usb_phase_
  justNow,       \* the fix was received in this millisecond
  sinceEcef,     \* age of last_ecef_usb_ms_
  high, low,     \* the lines in the two rings
  last, inOrder, \* history: the last line of a fix, whether all were in order
  pressAge,      \* age of button_ while it reads pressed; past ButtonStale it is released
  published,     \* button_.published_pressed
  controllerOk,  \* can_ok_
  sinceHw,       \* age of last_hw_publish_ms_
  told,          \* history: what the host was last told of the button
  others, outages

fixVars == <<fix, ecef, current, usbPhase, justNow, sinceEcef>>
lineVars == <<last, inOrder>>
buttonVars == <<pressAge, published, told>>
publishVars == <<at, fixVars, lineVars, dirty, high, low, buttonVars, controllerOk, sinceHw,
                 others, outages>>

SmallerOf(a, b) == IF a < b THEN a ELSE b

PublishInit ==
  /\ at = "decode" /\ fix = 0 /\ ecef = 0 /\ dirty = {} /\ current = FALSE /\ usbPhase = 0
  /\ justNow = FALSE /\ sinceEcef = EcefPeriod /\ high = 0 /\ low = 0
  /\ last = <<0, 3>> /\ inOrder = TRUE
  /\ pressAge = ButtonStale + 1 /\ published = FALSE /\ controllerOk = TRUE /\ sinceHw = HwPeriod
  /\ told = FALSE /\ others = 0 /\ outages = 0

safetyPressed == pressAge <= ButtonStale

-----------------------------------------------------------------------------
(* The decoders, in processRawCanQueue.                                    *)

\* decodeFix2 takes the fix whole or not at all, and with it the ECEF part when
\* it came along and can be read (decodeEcef).
decodeFix2 ==
  /\ at = "decode" /\ controllerOk /\ fix < MaxFixes
  /\ justNow => FasterThanMs
  /\ fix' = fix + 1 /\ justNow' = TRUE /\ current' = (current /\ justNow)
  /\ ecef' \in {0, fix + 1}
  /\ dirty' = dirty \cup {"FIX", "META"} \cup (IF ecef' = 0 THEN {} ELSE {"ECEF"})
  /\ UNCHANGED <<at, lineVars, usbPhase, sinceEcef, high, low, buttonVars,
                 controllerOk, sinceHw, others, outages>>

\* Auxiliary changes the dilutions of the fix already there.
decodeAuxiliary ==
  /\ at = "decode" /\ controllerOk /\ fix > 0
  /\ dirty' = dirty \cup {"META"}
  /\ UNCHANGED <<at, fixVars, lineVars, high, low, buttonVars, controllerOk,
                 sinceHw, others, outages>>

decodeButton ==
  /\ at = "decode" /\ controllerOk /\ outages < MaxOutages /\ outages' = outages + 1
  /\ pressAge' = 0 /\ published' = TRUE /\ dirty' = dirty \cup {"BUTTON"}
  /\ UNCHANGED <<at, fixVars, lineVars, high, low, told, controllerOk, sinceHw, others>>

\* The release is an absence; with the controller out of order poll() returns
\* before it looks for one.
NoticeRelease ==
  /\ at = "decode" /\ at' = "button"
  /\ IF controllerOk /\ published /\ ~safetyPressed
     THEN published' = FALSE /\ dirty' = dirty \cup {"BUTTON"}
     ELSE UNCHANGED <<published, dirty>>
  /\ UNCHANGED <<fixVars, lineVars, high, low, pressAge, told, controllerOk,
                 sinceHw, others, outages>>

-----------------------------------------------------------------------------
(* serviceTelemetry.                                                       *)

\* A low-priority line and whether it found room: it is not tried again.
TellButton == IF low < LowSlots THEN low' = low + 1 /\ told' = safetyPressed
                                ELSE UNCHANGED <<low, told>>

publishButton ==
  /\ at = "button" /\ at' = "gnss"
  /\ IF "BUTTON" \in dirty THEN TellButton /\ dirty' = dirty \ {"BUTTON"}
                           ELSE UNCHANGED <<low, told, dirty>>
  /\ UNCHANGED <<fixVars, lineVars, high, pressAge, published, controllerOk,
                 sinceHw, others, outages>>

\* writeV2RecordHighPriority takes the line or reports the drop.
Taken == high < HighSlots /\ high' = high + 1
Refused == high = HighSlots /\ UNCHANGED high

\* Line k of fix n goes out: PRO is the first, COV the second, PVT the third.
Say(n, k) ==
  /\ last' = <<n, k>>
  /\ inOrder' = (inOrder /\ (\/ n = last[1] /\ k = last[2] + 1
                             \/ n > last[1] /\ k = 1))

\* mutant: a refusal makes the epoch start over
PhaseAfterRefusalReset == 0
PhaseAfterRefusal == IF current THEN usbPhase ELSE 0

PhaseOnEntry == IF current THEN usbPhase ELSE 0

\* The while loop over the phases, a turn at a time; a refused line leaves the
\* rest, and what follows in serviceTelemetry, to the next poll.
PublishFix ==
  /\ at = "gnss" /\ "FIX" \in dirty /\ PhaseOnEntry < 3
  /\ current' = TRUE
  /\ \/ /\ Taken /\ Say(fix, PhaseOnEntry + 1)
        /\ usbPhase' = PhaseOnEntry + 1 /\ at' = "gnss"
     \/ Refused /\ usbPhase' = PhaseAfterRefusal /\ at' = "hardware" /\ UNCHANGED lineVars
  /\ UNCHANGED <<fix, ecef, justNow, sinceEcef, dirty, low, buttonVars, controllerOk, sinceHw,
                 others, outages>>

FixPublished ==
  /\ at = "gnss" /\ "FIX" \in dirty /\ PhaseOnEntry = 3 /\ at' = "ecef"
  /\ dirty' = dirty \ {"FIX", "META"}
  /\ UNCHANGED <<fixVars, lineVars, high, low, buttonVars, controllerOk, sinceHw,
                 others, outages>>

\* News of a fix already published is dropped.  The other branch, a periodic
\* repetition of PRO and COV, asks for an epoch that was never begun though the
\* fix is not dirty: there is none.
MetaIsOld == current /\ usbPhase = 3
DropMeta ==
  /\ at = "gnss" /\ "FIX" \notin dirty /\ at' = "ecef"
  /\ dirty' = IF MetaIsOld THEN dirty \ {"META"} ELSE dirty
  /\ UNCHANGED <<fixVars, lineVars, high, low, buttonVars, controllerOk, sinceHw,
                 others, outages>>

\* publishEcef, into the low ring; only a line that was taken clears the flag.
PublishEcef ==
  /\ at = "ecef" /\ at' = "hardware"
  /\ IF "ECEF" \in dirty /\ ecef # 0 /\ sinceEcef = EcefPeriod /\ low < LowSlots
     THEN low' = low + 1 /\ dirty' = dirty \ {"ECEF"} /\ sinceEcef' = 0
     ELSE UNCHANGED <<low, dirty, sinceEcef>>
  /\ UNCHANGED <<lineVars, fix, ecef, current, usbPhase, justNow, high, buttonVars, controllerOk,
                 sinceHw, others, outages>>

\* mutant: the heartbeat tells of the button only when a line says so
HeartbeatOfLastLine == sinceHw' = 0 /\ UNCHANGED <<low, told>>
Heartbeat == TellButton /\ sinceHw' = 0

\* publishHardware(false), whose SENS:HW tells of the button, taken or not.
publishHardware ==
  /\ at = "hardware" /\ at' = "decode"
  /\ IF sinceHw = HwPeriod THEN Heartbeat ELSE UNCHANGED <<low, told, sinceHw>>
  /\ UNCHANGED <<fixVars, lineVars, dirty, high, pressAge, published, controllerOk,
                 others, outages>>

-----------------------------------------------------------------------------
(* Around it.                                                              *)

\* A line reaches the host, in the interrupt.
HostReads ==
  /\ \/ high > 0 /\ high' = high - 1 /\ UNCHANGED low
     \/ low > 0 /\ low' = low - 1 /\ UNCHANGED high
  /\ UNCHANGED <<at, fixVars, lineVars, dirty, buttonVars, controllerOk, sinceHw,
                 others, outages>>

\* Control lines and replies of the rest of the firmware.
OtherLines ==
  /\ at = "decode" /\ others < MaxOthers /\ others' = others + 1
  /\ \/ Taken /\ UNCHANGED low
     \/ low < LowSlots /\ low' = low + 1 /\ UNCHANGED high
  /\ UNCHANGED <<at, fixVars, lineVars, dirty, buttonVars, controllerOk, sinceHw,
                 outages>>

Outage ==
  /\ at = "decode"
  /\ \/ controllerOk /\ outages < MaxOutages /\ outages' = outages + 1 /\ controllerOk' = FALSE
     \/ ~controllerOk /\ controllerOk' = TRUE /\ UNCHANGED outages
  /\ UNCHANGED <<at, fixVars, lineVars, dirty, high, low, buttonVars, sinceHw, others>>

Millisecond ==
  /\ at = "decode"
  /\ justNow' = FALSE
  /\ sinceEcef' = SmallerOf(EcefPeriod, sinceEcef + 1)
  /\ sinceHw' = SmallerOf(HwPeriod, sinceHw + 1)
  /\ pressAge' = SmallerOf(ButtonStale + 1, pressAge + 1)
  /\ UNCHANGED <<at, lineVars, fix, ecef, current, usbPhase, dirty, high, low, published, told,
                 controllerOk, others, outages>>

ServiceTelemetry == NoticeRelease \/ publishButton \/ PublishFix \/ FixPublished \/ DropMeta
                      \/ PublishEcef \/ publishHardware

PublishNext == decodeFix2 \/ decodeAuxiliary \/ decodeButton \/ ServiceTelemetry
                 \/ HostReads \/ OtherLines \/ Outage \/ Millisecond

PublishSpec == PublishInit /\ [][PublishNext]_publishVars

\* The main loop goes on, and the host reads: a line of the low ring is sure to be
\* sent only when there is none in the high one (UsbCdcPort::poll).
HostReadsOn == HostReads /\ (high > 0 => high' < high)

FairPublishSpec ==
  /\ PublishSpec
  /\ WF_publishVars(ServiceTelemetry) /\ WF_publishVars(HostReadsOn)

-----------------------------------------------------------------------------
(* Properties.                                                             *)

\* "One measurement epoch is emitted exactly once as PRO -> COV -> PVT"
\* (serviceTelemetry): a refused line is gone on from, not around, a fix that
\* is overtaken is left where it is, and nothing is said of a fix again.
FixesInOrder == inOrder

\* What the host knows catches up with the receiver, as the clock goes on: the last
\* fix is told whole, however often a full ring refuses its lines, and a press or a
\* release whose line was dropped is told by the heartbeat (publishHardware).
ToldInTheEnd ==
  []<><<Millisecond>>_publishVars =>
    <>[](told = safetyPressed /\ (fix > 0 => last = <<fix, 3>>))
=============================================================================
