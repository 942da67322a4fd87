------------------------------- MODULE MCNode -------------------------------
(***************************************************************************)
(* The CAN sensor as a node, side by side: who has authority, and the      *)
(* unit's parameters.  Each is modelled without the other, so a behaviour  *)
(* is a behaviour of one of them, chosen at first; the other stays as it   *)
(* starts.                                                                 *)
(***************************************************************************)
EXTENDS CanNode, CanParams

CONSTANTS a, b, c

VARIABLE which

UnitInit ==
  /\ which \in {"node", "params"}
  /\ NodeInit
  /\ ParamInit /\ (which = "params" \/ unitValue = CHOOSE u \in Units : TRUE)

(* A step of the one that runs: one of these, by which one it is. *)
Unit(node, params) ==
  \/ which = "node" /\ node /\ UNCHANGED <<which, paramVars>>
  \/ which = "params" /\ params /\ UNCHANGED <<which, vars>>

UnitNext == Unit(NodeNext, ParamNext)

(* The fairness of the two modules, of each the one that runs. *)
unitVars == <<which, vars, paramVars>>
UnitFairness ==
  /\ WF_unitVars(Unit(ServiceDiscovery, ServiceParams))
  /\ WF_unitVars(Unit(Verify, Impatient))
  /\ \A i \in Ids : WF_unitVars(Unit(unit[i] = {} /\ GoesStale(i), FALSE))
  /\ \A i \in Ids, d \in Devices :
       /\ WF_unitVars(Unit(ReceiveStatus(i, d, TRUE), FALSE))
       /\ WF_unitVars(Unit(\E x \in owed : x.id = i /\ x.dev = d /\ ReceiveAnswer(x), FALSE))
  /\ WF_unitVars(Unit(FALSE, UnitGoesOn))

UnitSpec == UnitInit /\ [][UnitNext]_unitVars /\ UnitFairness

(* CanParams' UnitKnown, of behaviours that are its own: whatever is       *)
(* lost, what the firmware holds of the unit's parameters is what they are *)
(* in the end.                                                             *)
UnitIsLearned == <>[](which = "params" => UnitKnown)
=============================================================================
