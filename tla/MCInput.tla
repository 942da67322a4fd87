----------------------------- MODULE MCInput --------------------------------
(***************************************************************************)
(* What comes in, side by side: the host's command lines, the scalars in   *)
(* libcanard's payloads, and a finger on the touch panel.  They share      *)
(* nothing here, so a behaviour is a behaviour of one of them, chosen at   *)
(* first; the others stay as they start.                                   *)
(***************************************************************************)
EXTENDS CommandIntake, CanPayload, TouchHmi

VARIABLE which

InputInit ==
  /\ which \in {"lines", "payload", "touch"}
  /\ Init /\ TouchInit
  /\ PayloadInit /\ (which = "payload" \/ size = MaxBytes)

LineSteps ==
  which = "lines" /\ Next /\ UNCHANGED <<which, payloadVars, touchVars>>
PayloadSteps ==
  which = "payload" /\ PayloadNext /\ UNCHANGED <<which, vars, touchVars>>
TouchSteps ==
  which = "touch" /\ TouchNext /\ UNCHANGED <<which, vars, payloadVars>>

(* A scalar is read, or written, and that is all. *)
PayloadDone ==
  /\ which = "payload" /\ stage \in {"read", "written"}
  /\ UNCHANGED <<which, vars, payloadVars, touchVars>>

InputNext == LineSteps \/ PayloadSteps \/ TouchSteps \/ PayloadDone

InputSpec == InputInit /\ [][InputNext]_<<which, vars, payloadVars, touchVars>>
=============================================================================
