----------------------------- MODULE MCRecover ------------------------------
(***************************************************************************)
(* What must recover, side by side: the intake of command lines after an   *)
(* overflow, the reception of CAN frames, their transmission, and what the *)
(* host is told of the sensor.  They share nothing here, so a behaviour is *)
(* a behaviour of one of them, chosen at first; the others stay as they    *)
(* start.                                                                  *)
(***************************************************************************)
EXTENDS CommandIntake, CanReceive, CanTransmit, SensorPublish

VARIABLE which

RecoverInit ==
  /\ which \in {"lines", "frames", "transmit", "publish"}
  /\ Init /\ ReceiveInit /\ TransmitInit /\ PublishInit

(* A step of the one that runs: one of these, by which one it is. *)
Step(lines, frames, transmit, publish) ==
  \/ which = "lines" /\ lines /\ UNCHANGED <<which, receiveVars, transmitVars, publishVars>>
  \/ which = "frames" /\ frames /\ UNCHANGED <<which, vars, transmitVars, publishVars>>
  \/ which = "transmit" /\ transmit /\ UNCHANGED <<which, vars, receiveVars, publishVars>>
  \/ which = "publish" /\ publish /\ UNCHANGED <<which, vars, receiveVars, transmitVars>>

RecoverNext == Step(Next, ReceiveNext, TransmitNext, PublishNext)

(* The fairness of the four modules, of each the one that runs.  In each   *)
(* the main loop can always take a step, now or after one of the others    *)
(* that must come, so that its weak fairness is []<><<...>>.  It stands    *)
(* still while an interrupt of the CAN controller is due, so the interrupt *)
(* needs no fairness of its own.                                           *)
recoverVars == <<which, vars, receiveVars, transmitVars, publishVars>>
RecoverFairness ==
  /\ []<><<Step(Thread, Main, PollTx, ServiceTelemetry)>>_recoverVars
  /\ WF_recoverVars(Step(HostSends, FALSE, Acknowledged, HostReadsOn))

RecoverSpec == RecoverInit /\ [][RecoverNext]_recoverVars /\ RecoverFairness

(* CommandIntake's Recovers, and more: whatever an overflow, a torn        *)
(* read or a nested parser has done to the framing, whole lines run again  *)
(* in the end, and urgent commands keep running.                           *)
LinesRecover == Recovers /\ \A n \in 0..(Numbers - 1) : []<>(which = "lines" => ran.urgent = n)
=============================================================================
