------------------------------ MODULE MCStores ------------------------------
(***************************************************************************)
(* The stores, side by side: the two journals in flash, and the transfers  *)
(* in libcanard's pool of blocks.  They share nothing, so a behaviour is a *)
(* behaviour of one of them, chosen at first; the others stay as they      *)
(* start.                                                                  *)
(***************************************************************************)
EXTENDS PersistentConfigStore, DroneCanDnaDatabase, CanTransfer

CONSTANTS k1, k2, v1, v2, own, n1, n2, n3, gateway, unit

VARIABLE which

MCSessions == {<<unit, 1>>, <<gateway, 1>>}
MCLengths == (<<unit, 1>> :> {2, 7}) @@ (<<gateway, 1>> :> {2})

StoreInit ==
  /\ which \in {"config", "dna", "transfer"}
  /\ ConfigInit /\ DnaInit /\ TransferInit

ConfigSteps == which = "config" /\ ConfigNext /\ UNCHANGED <<which, dnaVars, transferVars>>
DnaSteps == which = "dna" /\ DnaNext /\ UNCHANGED <<which, configVars, transferVars>>
TransferSteps == which = "transfer" /\ TransferNext /\ UNCHANGED <<which, configVars, dnaVars>>

StoreNext == ConfigSteps \/ DnaSteps \/ TransferSteps

StoreSpec == StoreInit /\ [][StoreNext]_<<which, configVars, dnaVars, transferVars>>
=============================================================================
