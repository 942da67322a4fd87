----------------------------- MODULE UsbControl -----------------------------
(***************************************************************************)
(* UsbCdcPort (src/usb/UsbCdcPort.cpp) as the safety code in main.cpp sees *)
(* it: the device state, the host session, the transport generation and    *)
(* the high-priority transmit ring, at the grain of whole lines.           *)
(*                                                                         *)
(* A control line is one USB packet (the longest, the session ACK, is      *)
(* under 64 bytes), so "in flight" covers the whole line.  The low ring    *)
(* matters here only because a low line that has started keeps the         *)
(* endpoint until it ends: tx = "low".  Packets, wrap-around and the low   *)
(* ring's contents are not modelled here.                                  *)
(*                                                                         *)
(* The ISR actions are complete actions over usbVars; the operators the    *)
(* thread uses (Enqueue, PollAfter, Trimmed) are composed by the modules   *)
(* that extend this one.                                                   *)
(***************************************************************************)
EXTENDS Naturals, Sequences

CONSTANTS
  HighCap,   \* lines the high-priority ring holds, the one in flight included
  Tokens     \* tokens a host may put in HOST:HELLO

(* The line that survives a session change and the ACK fit in 4096 bytes.  *)
ASSUME HighCapAssumption == HighCap \in Nat /\ HighCap >= 2
ASSUME TokensAssumption == 0 \notin Tokens

VARIABLES
  dev,          \* hUsbDeviceFS.dev_state
  established,  \* host_session_established_
  token,        \* host_session_token_ (0: none)
  gen,          \* usb_session_generation_
  hq,           \* the lines of tx_high_ from tail to head
  tx,           \* who owns the endpoint: tx_busy_ with tx_active_high_
  stuck,        \* tx_busy_ for 250 ms while the ST class is idle
  recovery      \* recovery_pending_

usbVars == <<dev, established, token, gen, hq, tx, stuck, recovery>>

DriveGo   == {"FWD", "REV"}          \* CMD:DRIVE:FWD / CMD:DRIVE:REV
SteerGo   == {"STEER"}               \* CMD:STEER:<deg>
Stops     == {"DSTOP", "SSTOP", "NSTOP"}
Lines     == DriveGo \cup SteerGo \cup Stops \cup {"ACK", "REPLY"}

Connected == dev = "configured"
Authoritative == Connected /\ established

UsbTypeOK ==
  /\ dev \in {"default", "configured", "suspended"}
  /\ established \in BOOLEAN
  /\ token \in Tokens \cup {0}
  /\ gen \in Nat
  /\ hq \in Seq(Lines) /\ Len(hq) <= HighCap
  /\ tx \in {"idle", "high", "low"}
  /\ stuck \in BOOLEAN
  /\ recovery \in BOOLEAN

UsbInit ==
  /\ dev = "default" /\ established = FALSE /\ token = 0 /\ gen = 0
  /\ hq = <<>> /\ tx = "idle" /\ stuck = FALSE /\ recovery = FALSE

-----------------------------------------------------------------------------
(* Operators of the thread side.                                           *)

HasRoomOffByOne(q) == Len(q) <= HighCap     \* mutant: a full ring takes one more
HasRoom(q) == Len(q) < HighCap

(* writeLineHighPriority: all or nothing. *)
Enqueue(q, line) == IF HasRoom(q) THEN Append(q, line) ELSE q

(* The endpoint after poll(): a new line is chosen only when none is       *)
(* active, and the high ring wins.  The low ring may or may not hold a     *)
(* telemetry line.                                                         *)
PollAfter(q, t) ==
  IF ~Connected \/ t # "idle" THEN {t}
  ELSE IF q # <<>> THEN {"high"}
  ELSE {"idle", "low"}

(* beginHostSession's trim_after_active_message on the high ring: only a   *)
(* line in flight survives.  If that is the ACK of an earlier HELLO, its   *)
(* token means nothing to the new host: it counts as a reply.              *)
Trimmed(q) ==
  IF tx # "high" THEN <<>>
  ELSE << IF Head(q) = "ACK" THEN "REPLY" ELSE Head(q) >>

(* resetSessionState(drop_queues = true).  What follows says what the      *)
(* caller then puts in the empty ring before anything else can happen.     *)
DropQueuesSilently(following) ==             \* mutant: the generation stays
  /\ hq' = following
  /\ stuck' = FALSE
  /\ UNCHANGED gen

DropQueues(following) ==
  /\ hq' = following
  /\ stuck' = FALSE
  /\ gen' = gen + 1

-----------------------------------------------------------------------------
(* The USB interrupt.                                                      *)

(* SET_CONFIGURATION: CDC_Init_FS -> onUsbClassInit. *)
ClassInit ==
  /\ dev = "default"
  /\ dev' = "configured"
  /\ established' = FALSE
  /\ token' = 0
  /\ DropQueues(<<>>) /\ tx' = "idle"
  /\ UNCHANGED recovery

(* Bus reset or disconnection: CDC_DeInit_FS -> onUsbClassDeInit. *)
ClassDeInit ==
  /\ dev # "default"
  /\ dev' = "default"
  /\ established' = FALSE
  /\ token' = 0
  /\ DropQueues(<<>>) /\ tx' = "idle"
  /\ UNCHANGED recovery

(* USBD_LL_Suspend and USBD_LL_Resume move dev_state and nothing else. *)
Suspend ==
  /\ dev = "configured"
  /\ dev' = "suspended"
  /\ UNCHANGED <<established, token, gen, hq, tx, stuck, recovery>>

Resume ==
  /\ dev = "suspended"
  /\ dev' = "configured"
  /\ UNCHANGED <<established, token, gen, hq, tx, stuck, recovery>>

(* onTransmitComplete: the tail moves past the line, the endpoint is free. *)
TransmitComplete ==
  /\ Connected /\ tx # "idle" /\ ~stuck
  /\ hq' = IF tx = "high" THEN Tail(hq) ELSE hq
  /\ tx' = "idle"
  /\ UNCHANGED <<dev, established, token, gen, stuck, recovery>>

(* The fault service() repairs: the ST class lost the completion and has   *)
(* been idle for kTxStallRepairMs while the wrapper is still busy.         *)
LoseCompletion ==
  /\ Connected /\ tx # "idle" /\ ~stuck
  /\ stuck' = TRUE
  /\ UNCHANGED <<dev, established, token, gen, hq, tx, recovery>>

-----------------------------------------------------------------------------
(* service(), called by the main loop and by writeLineCritical on a full   *)
(* ring: explicit recovery, else the split-brain repair, else only poll.   *)

(* softRestartUsb: the stack is torn down; the host must enumerate again.  *)
SoftRestart(following) ==
  /\ recovery
  /\ recovery' = FALSE
  /\ dev' = "default"
  /\ established' = FALSE
  /\ token' = 0
  /\ DropQueues(following) /\ tx' = "idle"

(* The repair drops every queue and keeps the host session. *)
RepairEndpoint(following) ==
  /\ ~recovery /\ stuck /\ Connected
  /\ DropQueues(following)
  /\ tx' = IF following = <<>> THEN "idle" ELSE "high"
  /\ UNCHANGED <<dev, established, token, recovery>>

ServicePoll ==
  /\ ~recovery /\ ~(stuck /\ Connected)
  /\ tx' \in PollAfter(hq, tx)
  /\ UNCHANGED <<dev, established, token, gen, hq, stuck, recovery>>
=============================================================================
