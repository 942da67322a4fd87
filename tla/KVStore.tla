------------------------------- MODULE KVStore ------------------------------
(***************************************************************************)
(* What PersistentConfigStore and the host's EEPROM:SET promise: a map     *)
(* from keys to values that outlives power loss.  One write is in          *)
(* progress at a time; it takes effect at one instant or not at all, and   *)
(* it returns true only if it has.  A write that returns false, or that a  *)
(* power loss interrupts, may have taken effect or not.                    *)
(***************************************************************************)
CONSTANTS Keys, Values

VARIABLES
  kv,      \* for each key the set of its value: {} when never written
  op,      \* the write in progress, as a set: {} or {[key, value]}
  result   \* what the last write returned

kvVars == <<kv, op, result>>

Writes == [key : Keys, value : Values]

KVInit ==
  /\ kv = [k \in Keys |-> {}] /\ op = {} /\ result = "none"

Call ==
  /\ op = {}
  /\ \E r \in Writes : op' = {r}
  /\ result' = "none"
  /\ UNCHANGED kv

TakeEffect ==
  /\ \E r \in op : kv' = [kv EXCEPT ![r.key] = {r.value}]
  /\ UNCHANGED <<op, result>>

ReturnTrue ==
  /\ \E r \in op : kv[r.key] = {r.value}
  /\ op' = {} /\ result' = "true"
  /\ UNCHANGED kv

ReturnFalse ==
  /\ op # {}
  /\ op' = {} /\ result' = "false"
  /\ UNCHANGED kv

PowerLoss ==
  /\ op' = {} /\ result' = "none"
  /\ UNCHANGED kv

KVNext == Call \/ TakeEffect \/ ReturnTrue \/ ReturnFalse \/ PowerLoss

KVSpec == KVInit /\ [][KVNext]_kvVars
=============================================================================
