------------------------------ MODULE MCLinks -------------------------------
(***************************************************************************)
(* What the host and the board agree on over USB, side by side: a group of *)
(* telemetry, the ROS link with its configuration transactions, and the    *)
(* upload of an image to the bootloader.  They share nothing here, so a    *)
(* behaviour is a behaviour of one of them, chosen at first; the others    *)
(* stay as they start.                                                     *)
(***************************************************************************)
EXTENDS TelemetryGroup, RosLink, Bootloader

CONSTANTS a, b

VARIABLE which

LinkInit ==
  /\ which \in {"group", "ros", "boot"}
  /\ GroupInit /\ RosInit /\ BootInit

(* A step of the one that runs: one of these, by which one it is. *)
Link(grouping, ros, boot) ==
  \/ which = "group" /\ grouping /\ UNCHANGED <<which, rosVars, bootVars>>
  \/ which = "ros" /\ ros /\ UNCHANGED <<which, groupVars, bootVars>>
  \/ which = "boot" /\ boot /\ UNCHANGED <<which, groupVars, rosVars>>

(* A link on which nothing more happens. *)
linkVars == <<which, groupVars, rosVars, bootVars>>
Silence == which \in {"group", "ros"} /\ UNCHANGED linkVars

LinkNext == Link(GroupNext, RosNext, BootNext) \/ Silence

(* The fairness of the three modules, of each the one that runs. *)
LinkFairness ==
  WF_linkVars(Link(GroupPassEnds, PassEnds, BootGoesOn))

LinkSpec == LinkInit /\ [][LinkNext]_linkVars /\ LinkFairness

(* Bootloader's Serves, of behaviours that are its own: as long as the     *)
(* journal has a slot left, the board runs an application again and again. *)
BoardRunsAgain == []<>(which = "boot" => Serves)
=============================================================================
