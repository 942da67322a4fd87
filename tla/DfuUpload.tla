------------------------------ MODULE DfuUpload ------------------------------
(***************************************************************************)
(* The emergency upload through the ROM's USB DFU: the host script         *)
(* usb_dfu_upload.py, which brings the gateway to the ROM by whatever way  *)
(* is left, and the gateway's side of it: the two-step request of main.cpp *)
(* and what the resident bootloader makes of a boot request.               *)
(*                                                                         *)
(* What the application answers is under way until the script reads it, so *)
(* an answer may come after the script has given up waiting for it.        *)
(***************************************************************************)
EXTENDS Integers, Sequences, SequencesExt

CONSTANTS
  ArmTicks,     \* the 5 s in which an ARM holds
  ArmTries, BlindTries, Rounds,   \* the 3, 4 and 2 attempts of the script
  Programmers,  \* what an ST-Link may be attached to: "none", "F411" or "F103"
  UsbOnly,      \* F411_USB_ONLY
  MayHang       \* whether the application may hang and be reset by its watchdog

VARIABLES
  device,      \* what runs: "app", "boot" (the resident bootloader), "rom" or "hung"
  safe,        \* motionSafeForHeavyMaintenance
  wedged,      \* the application's CDC does not send
  armed,       \* what is left of gDfuArmDeadlineMs, 0 when not armed
  requested,   \* a boot request (DFUB) waits in the backup register
  wire, inbox, \* answers under way, and those the script may read
  pc, tries, round, programmer,
  refused,     \* history: the script has read a refusal for safety
  acked        \* history: the gateway has acknowledged a request

deviceVars == <<device, safe, wedged, armed, requested, acked>>
scriptVars == <<pc, tries, round, refused>>
dfuVars == <<device, safe, wedged, armed, requested, wire, inbox, pc, tries, round,
             programmer, refused, acked>>

-----------------------------------------------------------------------------
(* The gateway.                                                            *)

\* An answer leaves only from a CDC that sends; inbox is what the script keeps of it.
Answers(lines) == wire' = IF wedged THEN wire ELSE wire \o lines

\* BOOT:DFU:ARM.
Arm == armed' = ArmTicks /\ UNCHANGED <<device, requested, acked>>

\* BOOT:DFU:CONFIRM, of which a gateway that draws says BUSY: the answer, or none.
Confirmed(left, drawing) ==
  CASE drawing -> "BUSY"
    [] ~drawing /\ left = 0 -> "NOT_ARMED"
    [] ~drawing /\ left > 0 /\ ~safe -> "WAIT_SAFE"
    [] ~drawing /\ left > 0 /\ safe /\ wedged -> "NONE"
    [] OTHER -> "DFU"

\* Whether it leaves, by enterSystemDfu, after its answer has gone out.
Confirm(left, answer) ==
  /\ armed' = IF answer \in {"NOT_ARMED", "DFU"} THEN 0 ELSE left
  /\ IF answer = "DFU" THEN device' = "reset" /\ requested' = TRUE /\ acked' = TRUE
     ELSE UNCHANGED <<device, requested, acked>>

\* The bootloader's main, after a reset: a request leads to its maintenance loop.
Boots ==
  /\ device = "reset"
  /\ device' = IF requested THEN "boot" ELSE "app"
  /\ requested' = FALSE /\ armed' = 0 /\ wedged' = FALSE
  /\ UNCHANGED <<safe, acked, wire, inbox, pc, tries, round, programmer, refused>>

\* maintenance_loop goes back to a valid application after BOOT_IDLE_TIMEOUT_MS.
BootIdles ==
  /\ device = "boot" /\ device' = "app"
  /\ UNCHANGED <<safe, wedged, armed, requested, acked, wire, inbox, scriptVars, programmer>>

\* What changes at the vehicle and the gateway while the script waits.
World ==
  \/ /\ safe' = ~safe /\ UNCHANGED <<device, wedged, armed, requested>>
  \/ /\ device = "app" /\ wedged' = ~wedged /\ UNCHANGED <<device, safe, armed, requested>>
  \/ /\ device = "app" /\ MayHang /\ device' = "hung" /\ UNCHANGED <<safe, wedged, armed, requested>>
  \/ /\ device = "hung" /\ device' = "reset" /\ UNCHANGED <<safe, wedged, armed, requested>>  \* watchdog
  \/ /\ pc = "manual" /\ device' = "rom" /\ UNCHANGED <<safe, wedged, armed, requested>>     \* BOOT0

WorldChanges ==
  /\ World /\ UNCHANGED <<acked, wire, inbox, scriptVars, programmer>>

AnswerArrives ==
  /\ wire # <<>> /\ wire' = Tail(wire) /\ inbox' = Append(inbox, Head(wire))
  /\ UNCHANGED <<deviceVars, scriptVars, programmer>>

-----------------------------------------------------------------------------
(* The script.                                                             *)

Goes(next) == pc' = next
Unmoved == UNCHANGED <<safe, wedged, programmer>>

\* _before_upload: the lock, the DFU utility and ROS; then what is there.
Prepare(fine) ==
  /\ pc = "start"
  /\ Goes(CASE ~fine -> "error" [] fine /\ device = "rom" -> "ready"
            [] fine /\ device = "app" -> "arm" [] OTHER -> "stlink")
  /\ UNCHANGED <<deviceVars, wire, inbox, tries, round, programmer, refused>>

\* After a handshake that failed: blind, then a reset of the bus, then the ST-Link.
NextWay(way) ==
  CASE way \in {"arm", "confirm", "wait_acked"} /\ device = "app" -> "blind"
    [] way = "wait_blind" /\ round < Rounds -> "bus_reset"
    [] way \in {"arm", "confirm", "wait_acked"} /\ device # "app" /\ round < Rounds -> "bus_reset"
    [] OTHER -> "stlink"

\* _request_software_dfu sends an ARM, at most three times.
SendArm ==
  /\ pc = "arm" /\ tries < ArmTries /\ "ARMED" \notin Range(inbox)
  /\ tries' = tries + 1 /\ inbox' = <<>>
  /\ IF device = "app" THEN Arm /\ Answers(<<"ARMED">>)
     ELSE UNCHANGED <<device, armed, requested, acked, wire>>
  /\ Unmoved /\ UNCHANGED <<pc, round, refused>>

\* All tries are spent, or the port cannot be opened.
ArmFails ==
  /\ pc = "arm" /\ "ARMED" \notin Range(inbox)
  /\ tries = ArmTries \/ device # "app"
  /\ Goes(NextWay("arm")) /\ tries' = 0 /\ inbox' = <<>>
  /\ UNCHANGED <<deviceVars, wire, round, programmer, refused>>

\* The ARM is answered, and CONFIRM sent.
SendConfirm(drawing) ==
  /\ pc = "arm" /\ "ARMED" \in Range(inbox)
  /\ Goes("confirm") /\ inbox' = <<>> /\ tries' = 0
  /\ IF device = "app"
     THEN LET answer == Confirmed(armed, drawing)
          IN Confirm(armed, answer) /\ Answers(IF answer = "NONE" THEN <<>> ELSE <<answer>>)
     ELSE UNCHANGED <<device, armed, requested, acked, wire>>
  /\ Unmoved /\ UNCHANGED <<round, refused>>

\* collect_until("ACK:DFU"), which the answer to an ARM begins with too.
ConfirmSeen ==
  /\ pc = "confirm" /\ Range(inbox) \cap {"DFU", "ARMED"} # {}
  /\ Goes("wait_acked") /\ inbox' = <<>>
  /\ UNCHANGED <<deviceVars, wire, tries, round, programmer, refused>>

\* Nothing, or a refusal: the RuntimeError it raises is caught by the function itself.
ConfirmFails ==
  /\ pc = "confirm" /\ Range(inbox) \cap {"DFU", "ARMED"} = {}
  /\ refused' = (refused \/ "WAIT_SAFE" \in Range(inbox))
  /\ Goes(NextWay("confirm")) /\ inbox' = <<>>
  /\ UNCHANGED <<deviceVars, wire, tries, round, programmer>>

\* _blind_software_dfu: an ARM and a CONFIRM, without reading.
Blind(drawing) ==
  /\ pc = "blind" /\ tries < BlindTries
  /\ tries' = tries + 1
  /\ IF device = "app"
     THEN LET answer == Confirmed(ArmTicks, drawing)
          IN /\ Confirm(ArmTicks, answer)
             /\ Answers(<<"ARMED">> \o (IF answer = "NONE" THEN <<>> ELSE <<answer>>))
     ELSE UNCHANGED <<device, armed, requested, acked, wire>>
  /\ Unmoved /\ UNCHANGED <<inbox, pc, round, refused>>

BlindSent ==
  /\ pc = "blind" /\ tries = BlindTries
  /\ Goes("wait_blind") /\ tries' = 0 /\ wire' = <<>> /\ inbox' = <<>>
  /\ UNCHANGED <<deviceVars, round, programmer, refused>>

\* _wait_for_dfu, longer than an ARM holds.
WaitForDfu ==
  /\ pc \in {"wait_acked", "wait_blind", "wait_stlink", "manual"} /\ device # "reset"
  /\ armed' = 0
  /\ Goes(CASE device = "rom" -> "ready"
            [] device # "rom" /\ pc = "manual" -> "error"
            [] device # "rom" /\ pc = "wait_stlink" -> "manual"
            [] OTHER -> NextWay(pc))
  /\ Unmoved /\ UNCHANGED <<device, requested, acked, wire, inbox, tries, round, refused>>

\* _reset_runtime_usb_device, which may not be permitted, and _wait_for_cdc.
BusReset(permitted) ==
  /\ pc = "bus_reset"
  /\ IF permitted /\ device \in {"app", "boot"}
     THEN /\ wedged' = FALSE /\ wire' = <<>> /\ inbox' = <<>> /\ round' = round + 1
          /\ Goes(IF device = "app" THEN "arm" ELSE "stlink")
     ELSE Goes("stlink") /\ UNCHANGED <<wedged, wire, inbox, round>>
  /\ tries' = 0
  /\ UNCHANGED <<device, safe, armed, requested, acked, programmer, refused>>

\* _try_stlink_force_dfu: only of an F411, whatever it is doing.
StLink ==
  /\ pc = "stlink"
  /\ IF programmer = "F411" /\ ~UsbOnly
     THEN device' = "reset" /\ requested' = TRUE /\ Goes("wait_stlink")
     ELSE Goes("manual") /\ UNCHANGED <<device, requested>>
  /\ UNCHANGED <<safe, wedged, armed, acked, wire, inbox, tries, round, programmer, refused>>

Script ==
  \/ \E b \in BOOLEAN : Prepare(b) \/ SendConfirm(b) \/ Blind(b) \/ BusReset(b)
  \/ SendArm \/ ArmFails \/ ConfirmSeen \/ ConfirmFails \/ BlindSent \/ WaitForDfu \/ StLink

Done == pc \in {"ready", "error"} /\ UNCHANGED dfuVars

DfuInit ==
  /\ device \in {"app", "rom"} \cup (IF MayHang THEN {"hung"} ELSE {}) /\ safe \in BOOLEAN /\ wedged = FALSE
  /\ armed = 0 /\ requested = FALSE /\ wire = <<>> /\ inbox = <<>>
  /\ pc = "start" /\ tries = 0 /\ round = 1 /\ programmer \in Programmers
  /\ refused = FALSE /\ acked = FALSE

DfuNext == Script \/ Boots \/ BootIdles \/ WorldChanges \/ AnswerArrives \/ Done

DfuSpec == DfuInit /\ [][DfuNext]_dfuVars

-----------------------------------------------------------------------------
(* Properties.                                                             *)

\* usb_dfu_upload.py:295 raises "F411 rejected DFU: vehicle/navigation state is not
\* confirmed safe".  A running gateway that has refused for that reason is not reset
\* by the same upload while the vehicle is still not safe.
RefusalHolds == [][StLink /\ refused /\ device = "app" /\ ~safe => device' = "app"]_dfuVars

\* usb_dfu_upload.py:414-415: "The resident bootloader consumes DFUB and jumps to
\* immutable system-memory USB DFU".  An acknowledged request leads to the ROM.
RequestReachesRom == acked => device # "boot"
=============================================================================
