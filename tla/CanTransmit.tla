---------------------------- MODULE CanTransmit -----------------------------
(***************************************************************************)
(* The transmit side of the CAN driver (Neo3ProSensors.cpp): libcanard's   *)
(* queue, the one mailbox of the MCP2515 used for it, the back-off after   *)
(* failures, the health check that starts the controller afresh after a    *)
(* bus-off, and the fail-quiet of a lost peer with its one silent          *)
(* recovery.  The peer is the verified primary of CanNode; here it is only *)
(* there or not.  poll() runs its handlers in a fixed order; time passes   *)
(* between polls.                                                          *)
(***************************************************************************)
EXTENDS Integers, Sequences

CONSTANTS
  BackoffBase, BackoffMax, \* CAN_TX_BACKOFF_*_MS, in ticks, as are the next four
  MaxStreak,               \* where the count of failures in a row stops (7)
  HealthCheck,             \* CAN_HEALTH_CHECK_MS
  Deadline,                \* CAN_TX_QUEUE_DEADLINE_US
  Cooldown,                \* CAN_RECOVERY_COOLDOWN_MS
  Stale,                   \* CAN_NODE_STALE_MS
  TxSlots,                 \* bound: frames waiting
  LongUptime,              \* whether the device runs on for HalfRange ticks
  HalfRange,               \* 2^31: half the range of the millisecond counter
  DeafAnyTime,             \* whether the receiver may get stuck after the silent
                           \* recovery of a loss, which has no second
  MaxChanges,              \* bound: the peer comes or goes
  MaxTxFaults              \* bound: failed SPI transfers, bus errors, deaf receivers

ASSUME TransmitAssumption ==
  /\ {BackoffBase, BackoffMax, MaxStreak, HealthCheck, Deadline, Cooldown, Stale, TxSlots,
      HalfRange} \subseteq Nat \ {0}
  /\ BackoffBase < HealthCheck /\ BackoffBase <= BackoffMax /\ BackoffMax <= Cooldown
  /\ Cooldown < HalfRange
  /\ {LongUptime, DeafAnyTime} \subseteq BOOLEAN /\ {MaxChanges, MaxTxFaults} \subseteq Nat

VARIABLES
  step,         \* the handler of poll() that runs next
  ok,           \* can_ok_
  wanted,       \* can_recovery_pending_
  busy,         \* mcp_tx_pending_
  overdue,      \* CAN_TX_HW_DEADLINE_US has gone by since the mailbox was filled
  streak,       \* can_tx_fail_streak_
  since,        \* now - can_tx_backoff_until_ms_, signed
  queue,        \* libcanard's queue: the time each frame has left
  sinceRecovery, sinceHealth, sincePeer, sinceRaw,  \* ages, capped
  peerState,    \* peer_state_
  tried,        \* peer_loss_recovery_attempted_
  box,          \* the mailbox: "empty", "sending" or "failed"
  errors,       \* the controller: "active", "passive" or "off"
  deaf,         \* its receiver is stuck
  plugged,      \* the peer is there
  changes, txFaults,
  silent        \* history: silent recoveries of this loss

driver == <<ok, wanted, tried, peerState, sinceRecovery, sinceHealth, silent>>
mailbox == <<busy, overdue, streak, since, queue, box>>
hearing == <<sincePeer, sinceRaw>>
world == <<errors, deaf, plugged, changes, txFaults>>
transmitVars == <<step, driver, mailbox, hearing, world>>

MinOf(a, b) == IF a < b THEN a ELSE b

TransmitTypeOK ==
  /\ step \in {"health", "failsafe", "no controller", "receive", "failsafe again", "flush",
              "discover", "requested", "done"}
  /\ {ok, wanted, busy, overdue, tried, deaf, plugged} \subseteq BOOLEAN
  /\ streak \in 0..MaxStreak /\ since \in (-HalfRange)..HalfRange
  /\ queue \in Seq(0..Deadline) /\ Len(queue) <= TxSlots
  /\ sinceRecovery \in 0..Cooldown /\ sinceHealth \in 0..HealthCheck
  /\ {sincePeer, sinceRaw} \subseteq 0..Stale + 1
  /\ peerState \in {"ACTIVE", "PEER_LOST", "BUS_FAULT"}
  /\ box \in {"empty", "sending", "failed"} /\ errors \in {"active", "passive", "off"}
  /\ changes \in 0..MaxChanges /\ txFaults \in 0..MaxTxFaults /\ silent \in 0..2

TransmitInit ==
  /\ step = "health" /\ ok = TRUE /\ wanted = FALSE
  /\ busy = FALSE /\ overdue = FALSE /\ streak = 0 /\ since = 0 /\ queue = <<>> /\ box = "empty"
  /\ sinceRecovery = Cooldown /\ sinceHealth = 0 /\ sincePeer = 0 /\ sinceRaw = 0
  /\ peerState = "ACTIVE" /\ tried = FALSE /\ silent = 0
  /\ errors = "active" /\ deaf = FALSE /\ plugged = TRUE /\ changes = 0 /\ txFaults = 0

TxFault == txFaults < MaxTxFaults /\ txFaults' = txFaults + 1
Works == txFaults' = txFaults

-----------------------------------------------------------------------------
(* The mailbox.                                                            *)

canTxPermitted == ok /\ since >= 0

\* noteCanTxFailure doubles the wait with every failure in a row.
Backoff(failures) == MinOf(BackoffMax, BackoffBase * 2 ^ MinOf(4, failures - 1))
NoteFailure(t) ==
  LET n == MinOf(MaxStreak, t.streak + 1) IN [t EXCEPT !.streak = n, !.since = -Backoff(n)]

\* abortMcpTxBounded: the frame in the mailbox is given up.
AbortTx(t) == [t EXCEPT !.busy = FALSE, !.overdue = FALSE, !.box = "empty"]

Tx == [busy |-> busy, overdue |-> overdue, streak |-> streak, since |-> since,
       queue |-> queue, box |-> box, wanted |-> wanted]

\* mutant: an acknowledged frame leaves the mailbox busy
ServiceMcpTxBusy(t) ==
  IF ~t.busy \/ t.box = "empty" THEN t
  ELSE IF t.box = "failed" \/ t.overdue THEN NoteFailure(AbortTx(t))
  ELSE t

\* serviceMcpTx, its status read in order.
ServiceMcpTx(t) ==
  IF ~t.busy THEN t
  ELSE IF t.box = "empty" THEN [t EXCEPT !.busy = FALSE, !.overdue = FALSE, !.streak = 0]
  ELSE IF t.box = "failed" THEN NoteFailure(AbortTx(t))
  ELSE IF t.overdue THEN NoteFailure(AbortTx(t))
  ELSE t

\* ... and failed: the mailbox is no longer watched.
ServiceBlind(t) ==
  IF t.busy THEN NoteFailure([t EXCEPT !.busy = FALSE, !.wanted = TRUE]) ELSE t

\* flushCanTx's loop drops what is past its deadline, one frame a turn.
Unexpired(q, budget) ==
  LET expired(n) == \A i \in 1..n : q[i] = 0
      n == CHOOSE m \in 0..MinOf(Len(q), budget) :
             /\ expired(m)
             /\ m < MinOf(Len(q), budget) => ~expired(m + 1)
  IN SubSeq(q, n + 1, Len(q))

\* writeOneCanFrame of the queue's head: an error-passive controller is probed
\* all the same.
WriteFrame(t) ==
  IF errors = "off" THEN NoteFailure([t EXCEPT !.wanted = TRUE])
  ELSE IF t.box = "sending" THEN NoteFailure(AbortTx(t))
  ELSE [t EXCEPT !.box = "sending", !.busy = TRUE, !.overdue = FALSE, !.queue = Tail(@)]

\* flushCanTx, when the mailbox is free and sending permitted.
FlushCanTx(t, budget) ==
  LET kept == [t EXCEPT !.queue = Unexpired(@, budget)]
      spent == Len(t.queue) - Len(kept.queue)
  IN IF t.busy \/ ~(ok /\ t.since >= 0) THEN t
     ELSE IF kept.queue = <<>> \/ spent = budget THEN kept
     ELSE WriteFrame(kept)

Becomes(t) ==
  /\ busy' = t.busy /\ overdue' = t.overdue /\ streak' = t.streak /\ since' = t.since
  /\ queue' = t.queue /\ box' = t.box /\ wanted' = t.wanted

-----------------------------------------------------------------------------
(* poll(), handler by handler.                                             *)

\* recoverCan, past its cool-down, to which the SPI answers or not: the queue
\* is emptied, libcanard and the controller are set up afresh.
Recover(works) ==
  /\ sinceRecovery' = 0
  /\ ok' = works /\ wanted' = ~works
  /\ queue' = <<>> /\ busy' = FALSE /\ overdue' = FALSE /\ since' = -BackoffBase
  /\ box' = "empty" /\ UNCHANGED streak
  /\ IF works THEN Works ELSE TxFault
  /\ IF works THEN errors' = "active" /\ deaf' = FALSE ELSE UNCHANGED <<errors, deaf>>

CooledDown == sinceRecovery = Cooldown

Health ==
  /\ step = "health" /\ step' = "failsafe"
  /\ \E t \in {ServiceMcpTx(Tx), ServiceBlind(Tx)} :
       IF sinceHealth < HealthCheck
       THEN Becomes(t) /\ UNCHANGED <<ok, sinceRecovery, sinceHealth, errors, deaf>>
            /\ IF t = ServiceMcpTx(Tx) THEN Works ELSE TxFault
       ELSE /\ sinceHealth' = 0
            /\ t = ServiceMcpTx(Tx)
            /\ \/ ~ok /\ t.wanted /\ CooledDown /\ \E works \in BOOLEAN : Recover(works)
               \/ /\ ~ok /\ ~(t.wanted /\ CooledDown)
                  /\ Becomes(t) /\ Works /\ UNCHANGED <<ok, sinceRecovery, errors, deaf>>
               \/ \* a register cannot be read
                  /\ ok /\ ok' = FALSE /\ Becomes([t EXCEPT !.wanted = TRUE]) /\ TxFault
                  /\ UNCHANGED <<sinceRecovery, errors, deaf>>
               \/ /\ ok /\ errors = "off" /\ CooledDown /\ \E works \in BOOLEAN : Recover(works)
               \/ /\ ok /\ errors = "off" /\ ~CooledDown
                  /\ Becomes([AbortTx(t) EXCEPT !.queue = <<>>, !.wanted = TRUE, !.since = -Cooldown])
                  /\ Works /\ UNCHANGED <<ok, sinceRecovery, errors, deaf>>
               \/ /\ ok /\ errors # "off"
                  /\ Becomes([t EXCEPT !.since = IF errors = "passive" THEN MinOf(@, -BackoffBase)
                                                 ELSE @])
                  /\ Works /\ UNCHANGED <<ok, sinceRecovery, errors, deaf>>
  /\ UNCHANGED <<peerState, tried, silent, hearing, plugged, changes>>

\* updatePeerFailsafe.
NextPeerState == IF ~ok THEN "BUS_FAULT" ELSE IF sincePeer > Stale THEN "PEER_LOST" ELSE "ACTIVE"

\* mutant: what was queued stays
QuietedMailbox ==
  IF NextPeerState = "PEER_LOST" /\ peerState # "PEER_LOST"
  THEN [(IF busy THEN AbortTx(Tx) ELSE Tx) EXCEPT !.since = MinOf(@, -Cooldown)]
  ELSE Tx

Quieted ==
  IF NextPeerState = "PEER_LOST" /\ peerState # "PEER_LOST"
  THEN [(IF busy THEN AbortTx(Tx) ELSE Tx) EXCEPT !.queue = <<>>, !.since = MinOf(@, -Cooldown)]
  ELSE Tx

SilentRecoveryDue ==
  /\ NextPeerState = "PEER_LOST"
  /\ peerState = "PEER_LOST" => ~tried
  /\ sinceRaw > Stale /\ CooledDown

UpdatePeerFailsafe ==
  LET next == NextPeerState
      recovers == SilentRecoveryDue
  IN /\ peerState' = next
     /\ tried' = (next = "PEER_LOST" /\ (recovers \/ (peerState = "PEER_LOST" /\ tried)))
     /\ silent' = IF next # "PEER_LOST" THEN 0 ELSE IF recovers THEN silent + 1 ELSE silent
     /\ IF recovers THEN \E works \in BOOLEAN : Recover(works)
        ELSE Becomes(Quieted) /\ Works /\ UNCHANGED <<ok, sinceRecovery, errors, deaf>>
     /\ UNCHANGED <<sinceHealth, hearing, plugged, changes>>

\* With the controller out of order, poll() only asks for its recovery again.
Failsafe ==
  /\ step = "failsafe" /\ UpdatePeerFailsafe
  /\ step' = IF ok' THEN "receive" ELSE "no controller"

NoController ==
  /\ step = "no controller" /\ step' = "done" /\ wanted' = TRUE
  /\ UNCHANGED <<ok, tried, peerState, sinceRecovery, sinceHealth, silent, mailbox, hearing, world>>

\* drainCan and processRawCanQueue: frames of the peer, its NodeStatus perhaps,
\* of which a peer that is heard never misses so many as to go stale.
ReceiveCan ==
  /\ step = "receive" /\ step' = "failsafe again"
  /\ \/ (plugged /\ ~deaf => sincePeer # Stale) /\ UNCHANGED hearing
     \/ plugged /\ ~deaf /\ sinceRaw' = 0 /\ sincePeer' \in {0, sincePeer} \ {Stale}
  /\ UNCHANGED <<driver, mailbox, world>>

FailsafeAgain ==
  /\ step = "failsafe again" /\ UpdatePeerFailsafe /\ step' = "flush"

FlushWith(budget) ==
  /\ \/ Becomes(FlushCanTx(ServiceMcpTx(Tx), budget)) /\ Works
     \/ \* a transfer on the SPI fails: the mailbox's status, or the write
        /\ \/ busy /\ Becomes(ServiceBlind(Tx))
           \/ ~busy /\ canTxPermitted /\ queue # <<>> /\ Becomes(NoteFailure(Tx))
        /\ TxFault
  /\ UNCHANGED <<ok, tried, peerState, sinceRecovery, sinceHealth, silent, hearing,
                 errors, deaf, plugged, changes>>

Flush == step = "flush" /\ step' = "discover" /\ FlushWith(4)

\* serviceDiscovery may have a request for the peer; requestService refuses one
\* to a node gone stale.
Discover ==
  /\ step = "discover" /\ step' = "done"
  /\ UNCHANGED <<driver, mailbox, hearing, world>>

Request ==
  /\ step = "discover" /\ step' = "requested"
  /\ sincePeer <= Stale /\ Len(queue) < TxSlots
  /\ queue' = Append(queue, Deadline)
  /\ UNCHANGED <<driver, busy, overdue, streak, since, box, hearing, world>>

FlushRequest == step = "requested" /\ step' = "done" /\ FlushWith(1)

\* Time passes between two polls, more of it than a frame takes that a peer
\* acknowledges.  Past HalfRange the difference of now and
\* can_tx_backoff_until_ms_ reads as negative.
Elapsed(t, cap) == MinOf(cap, t + 1)
TxTick ==
  /\ step = "done" /\ step' = "health"
  /\ ~(box = "sending" /\ plugged /\ errors # "off")
  /\ since' = IF since = 0 /\ ~LongUptime THEN 0
              ELSE IF since = HalfRange - 1 THEN -HalfRange ELSE since + 1
  /\ queue' = [i \in DOMAIN queue |-> IF queue[i] = 0 THEN 0 ELSE queue[i] - 1]
  /\ sinceRecovery' = Elapsed(sinceRecovery, Cooldown)
  /\ sinceHealth' = Elapsed(sinceHealth, HealthCheck)
  /\ sincePeer' = Elapsed(sincePeer, Stale + 1) /\ sinceRaw' = Elapsed(sinceRaw, Stale + 1)
  /\ overdue' = (overdue \/ box = "sending")
  /\ UNCHANGED <<ok, wanted, tried, peerState, silent, busy, streak, box, world>>

-----------------------------------------------------------------------------
(* The bus and the controller.                                             *)

\* A frame is acknowledged by the peer; with enough of them the controller
\* leaves its error-passive state.
Acknowledged ==
  /\ box = "sending" /\ plugged /\ errors # "off"
  /\ box' = "empty" /\ errors' \in {"active", errors}
  /\ UNCHANGED <<step, driver, busy, overdue, streak, since, queue, hearing,
                 deaf, plugged, changes, txFaults>>

\* Nobody acknowledges: the controller tries again and counts errors, but goes
\* no further than error-passive.
NotAcknowledged ==
  /\ box = "sending" /\ ~plugged /\ errors = "active"
  /\ errors' = "passive"
  /\ UNCHANGED <<step, driver, mailbox, hearing, deaf, plugged, changes, txFaults>>

BusError ==
  /\ TxFault
  /\ \/ errors' = "off" /\ box' = (IF box = "sending" THEN "failed" ELSE box) /\ UNCHANGED deaf
     \/ box = "sending" /\ box' = "failed" /\ UNCHANGED <<errors, deaf>>
     \/ (DeafAnyTime \/ ~tried) /\ ~deaf /\ deaf' = TRUE /\ UNCHANGED <<errors, box>>
  /\ UNCHANGED <<step, driver, busy, overdue, streak, since, queue, hearing, plugged, changes>>

PlugChanges ==
  /\ changes < MaxChanges /\ changes' = changes + 1 /\ plugged' = ~plugged
  /\ UNCHANGED <<step, driver, mailbox, hearing, errors, deaf, txFaults>>

PollTx == Health \/ Failsafe \/ NoController \/ ReceiveCan \/ FailsafeAgain \/ Flush
          \/ Discover \/ Request \/ FlushRequest \/ TxTick

TransmitNext == PollTx \/ Acknowledged \/ NotAcknowledged \/ BusError \/ PlugChanges

TransmitSpec == TransmitInit /\ [][TransmitNext]_transmitVars

\* The main loop goes on, and a peer that is there acknowledges what it is sent.
FairTransmitSpec == TransmitSpec /\ WF_transmitVars(PollTx) /\ WF_transmitVars(Acknowledged)

-----------------------------------------------------------------------------
(* Properties.                                                             *)

\* "Fail quiet when the verified peer disappears" (updatePeerFailsafe): from
\* its entry on, a loss leaves nothing queued or in the mailbox.
QuietWhenLost == peerState = "PEER_LOST" => queue = <<>> /\ ~busy

\* "reinitialize MCP/SPI exactly once for this loss episode": the silent
\* recovery is no reset loop.
OneSilentRecovery == silent <= 1

\* The peer stays, and its status is heard again and again unless the receiver is stuck.
Heard == step = "receive" /\ ~deaf /\ ReceiveCan /\ sincePeer' = 0
PeerStays == <>[]plugged /\ []<><<deaf \/ Heard>>_transmitVars

\* The loss of a peer that is back ends, though the receiver may have been stuck.
LossEnds == PeerStays => <>[](peerState = "ACTIVE")

\* ... and if serviceDiscovery asks again whenever nothing is queued, it is sent to
\* again, however the controller was left: error-passive, bus-off, waiting in its
\* back-off ("a permanent TXEP/TEC>=128 reject deadlocks recovery after a peer
\* returns", writeOneCanFrame).
SendsAgain ==
  PeerStays /\ []<><<queue # <<>> \/ Request>>_transmitVars => []<><<Acknowledged>>_transmitVars

\* The back-off ends (CAN_TX_BACKOFF_MAX_MS, or the cool-down).
BackoffEnds == since >= -Cooldown

\* Both: a bus without a peer is left alone, and the controller is reset for
\* its silence once per silence.
SilenceKept == TransmitTypeOK /\ QuietWhenLost /\ OneSilentRecovery

\* Both: when the peer stays, its loss is over in the end and it is served again.
PeerIsServed == LossEnds /\ SendsAgain
=============================================================================
