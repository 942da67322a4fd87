------------------------------ MODULE DnaTable ------------------------------
(***************************************************************************)
(* What the dynamic node-id allocator promises: a table from node ids to   *)
(* unique ids that outlives power loss, with at most one node id for a     *)
(* unique id.  A registration happens at one instant or not at all, takes  *)
(* the unique id away from the node id it had, and an id is granted only   *)
(* if the table says so.                                                   *)
(***************************************************************************)
CONSTANTS Ids, Uids

VARIABLES
  table,   \* for each node id the set of its unique id: {} if unregistered
  op,      \* the registration in progress: {} or {[id, uid]}
  grant    \* the id last granted: {} or {[id, uid]}

tableVars == <<table, op, grant>>

Registrations == [id : Ids, uid : Uids]

Registered(t, r) == [i \in Ids |-> IF i = r.id THEN {r.uid} ELSE t[i] \ {r.uid}]

TableInit == table = [i \in Ids |-> {}] /\ op = {} /\ grant = {}

Ask ==
  /\ op = {}
  /\ \E r \in Registrations : op' = {r}
  /\ grant' = {} /\ UNCHANGED table

TakeEffect ==
  /\ \E r \in op : table' = Registered(table, r)
  /\ UNCHANGED <<op, grant>>

(* The registration ends; its id is granted, or not. *)
Answer ==
  /\ op' = {}
  /\ \/ grant' = {}
     \/ \E r \in Registrations : table[r.id] = {r.uid} /\ grant' = {r}
  /\ UNCHANGED table

TableNext == Ask \/ TakeEffect \/ Answer

TableSpec == TableInit /\ [][TableNext]_tableVars
=============================================================================
