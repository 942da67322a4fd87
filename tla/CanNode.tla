------------------------------ MODULE CanNode -------------------------------
(***************************************************************************)
(* Whose readings count: the firmware listens to every unit on the bus,    *)
(* asks the ones it hears who they are (GetNodeInfo), keeps a registry     *)
(* from node ids to unique ids, and gives one node id sensor authority.    *)
(*                                                                         *)
(* Units are plugged in and out, two may share a node id, and a unit may   *)
(* come back under another one.  An answer tells the unit's uptime when it *)
(* was asked.  The bus and the receive queue keep the order of what is     *)
(* sent, so nothing arrives from a unit that is gone.  Times are events:   *)
(* an id is fresh until CAN_NODE_STALE_MS pass in silence, and a request   *)
(* that depends on a period may come whenever its other guards hold.  The  *)
(* registry is the table the allocator promises (DnaTable).                *)
(***************************************************************************)
EXTENDS Naturals, FiniteSets

CONSTANTS
  MaxNodeId, HostId,     \* node ids are 1..MaxNodeId, one is the gateway's
  Devices, Cuav,         \* the units, and those whose NodeInfo says CUAV_GPS
  MaxPlugs, MaxUptime,   \* bounds: units plugged in, a unit's uptime
  MaxFaults              \* bound: silences, lost answers, ill health, flash

VARIABLES
  unit,        \* the units at each node id
  up,          \* their uptimes
  owed,        \* the answers to GetNodeInfo on their way
  fresh,       \* the ids heard of within CAN_NODE_STALE_MS
  verified, healthy,     \* dna_verified_, dna_healthy_: the ids for which they hold
  lastUp,      \* dna_last_uptime_
  reg,         \* the registry
  storageOk,   \* dna_db_.storageOk()
  duplicate,   \* dna_server_state_ is DUPLICATE_NODES
  primary, discovery, verifying,  \* primary_node_id_, discovery_node_id_, dna_curr_verifying_node_
  cuav,        \* identity_.verified_cuav_gps
  heard,       \* the unit last heard of under each id: {} or {d}
  top,         \* the uptime last heard of under each id
  overtook,    \* the ids whose unit took over with an uptime that was not below top
  plugs, faults

busVars == <<unit, up>>
nodeVars == <<fresh, verified, healthy, lastUp>>
roleVars == <<primary, discovery, verifying, cuav>>
registryVars == <<reg, storageOk, duplicate>>
ghosts == <<heard, top, overtook>>
vars == <<busVars, owed, nodeVars, roleVars, registryVars, ghosts, plugs, faults>>

Ids == 1..MaxNodeId \ {HostId}
NoId == 0
Answers == [id : Ids, dev : Devices, up : 0..MaxUptime]
Larger(a, b) == IF a < b THEN b ELSE a

Db == INSTANCE DnaTable WITH Uids <- Devices, table <- reg, op <- {}, grant <- {}

TypeOK ==
  /\ unit \in [Ids -> SUBSET Devices] /\ up \in [Devices -> 0..MaxUptime]
  /\ owed \subseteq Answers
  /\ fresh \subseteq Ids /\ verified \subseteq Ids /\ healthy \subseteq Ids
  /\ lastUp \in [Ids -> 0..MaxUptime]
  /\ reg \in [Ids -> SUBSET Devices] /\ {storageOk, duplicate, cuav} \subseteq BOOLEAN
  /\ primary \in Ids \cup {NoId} /\ discovery \in Ids \cup {NoId}
  /\ verifying \in Ids \cup {HostId}
  /\ heard \in [Ids -> SUBSET Devices] /\ top \in [Ids -> 0..MaxUptime]
  /\ overtook \subseteq Ids /\ plugs \in 0..MaxPlugs /\ faults \in 0..MaxFaults

NodeInit ==
  /\ unit = [i \in Ids |-> {}] /\ up = [d \in Devices |-> 0] /\ owed = {}
  /\ fresh = {} /\ verified = {} /\ healthy = {} /\ lastUp = [i \in Ids |-> 0]
  /\ reg = [i \in Ids |-> {}] /\ storageOk = TRUE /\ duplicate = FALSE
  /\ primary = NoId /\ discovery = NoId /\ verifying = HostId /\ cuav = FALSE
  /\ heard = [i \in Ids |-> {}] /\ top = [i \in Ids |-> 0] /\ overtook = {}
  /\ plugs = 0 /\ faults = 0

NodeFault == faults < MaxFaults /\ faults' = faults + 1

(* nodeOperationalFresh *)
Authority ==
  /\ cuav /\ storageOk /\ ~duplicate
  /\ primary \in fresh \cap verified \cap healthy

-----------------------------------------------------------------------------
(* The bus.                                                                *)

PlugIn(d, i) ==
  /\ plugs < MaxPlugs /\ plugs' = plugs + 1
  /\ \A j \in Ids : d \notin unit[j]
  /\ unit' = [unit EXCEPT ![i] = @ \cup {d}] /\ up' = [up EXCEPT ![d] = 0]
  /\ UNCHANGED <<owed, nodeVars, roleVars, registryVars, ghosts, faults>>

Unplug(d, i) ==
  /\ d \in unit[i]
  /\ unit' = [unit EXCEPT ![i] = @ \ {d}] /\ up' = [up EXCEPT ![d] = 0]
  /\ owed' = {a \in owed : a.dev # d}
  /\ UNCHANGED <<nodeVars, roleVars, registryVars, ghosts, plugs, faults>>

Ages(d, i) ==
  /\ d \in unit[i] /\ up[d] < MaxUptime
  /\ up' = [up EXCEPT ![d] = @ + 1]
  /\ UNCHANGED <<unit, owed, nodeVars, roleVars, registryVars, ghosts, plugs, faults>>

(* CAN_NODE_STALE_MS pass with nothing heard under an id. *)
GoesStale(i) ==
  /\ i \in fresh /\ fresh' = fresh \ {i}
  /\ IF unit[i] = {} THEN UNCHANGED faults ELSE NodeFault
  /\ UNCHANGED <<busVars, owed, verified, healthy, lastUp, roleVars, registryVars,
                 ghosts, plugs>>

LoseAnswer(a) ==
  /\ a \in owed /\ owed' = owed \ {a} /\ NodeFault
  /\ UNCHANGED <<busVars, nodeVars, roleVars, registryVars, ghosts, plugs>>

-----------------------------------------------------------------------------
(* What the firmware hears.                                                *)

(* markDnaNodeStatus; ver is dna_verified_ by then. *)
MarkStatus(i, ok) ==
  /\ fresh' = fresh \cup {i}
  /\ healthy' = IF ok THEN healthy \cup {i} ELSE healthy \ {i}
MarkedDiscovery(i, ver) ==
  IF i \notin ver /\ (discovery \in {NoId, i} \/ primary \notin fresh \cup {i})
  THEN i ELSE discovery

Hears(i, d, u) ==
  /\ heard' = [heard EXCEPT ![i] = {d}]
  /\ top' = [top EXCEPT ![i] = u]
  /\ overtook' = IF heard[i] \in {{}, {d}} THEN overtook
                 ELSE IF u >= top[i] THEN overtook \cup {i} ELSE overtook \ {i}

ReceiveStatusTrusting(i, d, ok) == \* mutant: an uptime that falls is not looked at
  /\ d \in unit[i] /\ (IF ok THEN UNCHANGED faults ELSE NodeFault)
  /\ lastUp' = [lastUp EXCEPT ![i] = up[d]] /\ UNCHANGED verified
  /\ MarkStatus(i, ok) /\ discovery' = MarkedDiscovery(i, verified)
  /\ Hears(i, d, up[d])
  /\ UNCHANGED <<busVars, owed, primary, verifying, cuav, registryVars, plugs>>

(* decodeNodeStatus: an uptime that falls means another life or another    *)
(* unit, so the id has to be verified again.                               *)
ReceiveStatus(i, d, ok) ==
  /\ d \in unit[i] /\ (IF ok THEN UNCHANGED faults ELSE NodeFault)
  /\ verified' = IF lastUp[i] > up[d] THEN verified \ {i} ELSE verified
  /\ lastUp' = [lastUp EXCEPT ![i] = up[d]]
  /\ MarkStatus(i, ok) /\ discovery' = MarkedDiscovery(i, verified')
  /\ Hears(i, d, up[d])
  /\ UNCHANGED <<busVars, owed, primary, verifying, cuav, registryVars, plugs>>

(* shouldAccept *)
Accepted(i) == i \in {primary, discovery, verifying}

(* The uptime in an answer may be older than a status heard since. *)
UptimeAfterAnswer(i, u) == Larger(lastUp[i], u)

(* What the registry says of the answer: the id is that unit's, becomes    *)
(* that unit's, cannot be stored, or is another's.                         *)
RegistryStep(a) ==
  \/ /\ reg[a.id] = {a.dev}
     /\ verified' = verified \cup {a.id} /\ UNCHANGED <<registryVars, faults>>
  \/ /\ reg[a.id] = {} /\ storageOk
     /\ reg' = Db!Registered(reg, [id |-> a.id, uid |-> a.dev])
     /\ verified' = {i \in verified : reg'[i] # {}} \cup {a.id}
     /\ UNCHANGED <<storageOk, duplicate, faults>>
  \/ /\ reg[a.id] = {} /\ (IF storageOk THEN NodeFault ELSE UNCHANGED faults)
     /\ storageOk' = FALSE /\ verified' = verified \ {a.id} /\ UNCHANGED <<reg, duplicate>>
  \/ /\ reg[a.id] \notin {{}, {a.dev}}
     /\ duplicate' = TRUE /\ verified' = verified \ {a.id}
     /\ UNCHANGED <<reg, storageOk, faults>>

RolesLatest(a) ==                    \* mutant: whoever answered last has the authority
  IF a.dev \in Cuav /\ a.id \in verified'
  THEN primary' = a.id /\ discovery' = a.id
  ELSE UNCHANGED primary /\ discovery' = MarkedDiscovery(a.id, verified')

(* A CUAV unit whose id is verified takes the place of a primary that is   *)
(* missing or stale; a candidate that is no CUAV unit is let go.           *)
Roles(a) ==
  LET marked == MarkedDiscovery(a.id, verified')
      good == a.dev \in Cuav /\ a.id \in verified'
  IN IF good /\ (primary = a.id \/ primary \notin fresh \cup {a.id})
     THEN primary' = a.id /\ discovery' = a.id
     ELSE /\ UNCHANGED primary
          /\ discovery' = IF ~good /\ marked = a.id /\ a.id # primary /\ a.dev \notin Cuav
                          THEN NoId ELSE marked

(* decodeGetNodeInfoResponse *)
ReceiveAnswer(a) ==
  /\ a \in owed /\ owed' = owed \ {a} /\ Accepted(a.id)
  /\ RegistryStep(a)
  /\ cuav' = (cuav \/ /\ a.dev \in Cuav /\ a.id \in verified'
                      /\ (primary = NoId \/ a.id \in {primary, discovery}))
  /\ MarkStatus(a.id, TRUE)
  /\ lastUp' = [lastUp EXCEPT ![a.id] = UptimeAfterAnswer(a.id, a.up)]
  /\ Roles(a)
  /\ Hears(a.id, a.dev, Larger(a.up, IF heard[a.id] = {a.dev} THEN top[a.id] ELSE 0))
  /\ UNCHANGED <<busVars, verifying, plugs>>

IgnoreAnswer(a) ==
  /\ a \in owed /\ ~Accepted(a.id) /\ owed' = owed \ {a}
  /\ UNCHANGED <<busVars, nodeVars, roleVars, registryVars, ghosts, plugs, faults>>

-----------------------------------------------------------------------------
(* What the firmware asks.                                                 *)

(* requestService, requestGetNodeInfo: only an id that is fresh is asked;  *)
(* every unit that has it answers.                                         *)
AskNodeInfo(i) ==
  owed' = IF i \in fresh
          THEN {a \in owed : a.id # i \/ a.dev \notin unit[i]}
                 \cup {[id |-> i, dev |-> d, up |-> up[d]] : d \in unit[i]}
          ELSE owed

Settled == cuav /\ primary \in verified /\ ~duplicate

(* serviceDiscovery: a stale candidate is dropped, a fresh one asked; so   *)
(* is the primary while it is not settled.                                 *)
DropCandidate ==
  /\ discovery \notin {NoId, primary} \cup fresh
  /\ discovery' = NoId
  /\ UNCHANGED <<busVars, owed, nodeVars, primary, verifying, cuav, registryVars,
                 ghosts, plugs, faults>>

ServiceDiscovery ==
  /\ discovery \in fresh /\ (discovery = primary => ~Settled)
  /\ AskNodeInfo(discovery)
  /\ UNCHANGED <<busVars, nodeVars, roleVars, registryVars, ghosts, plugs, faults>>

(* serviceDnaVerification: the next fresh id in cyclic order is asked. *)
VerifyNext ==
  LET ahead(i) == IF i > verifying THEN i - verifying ELSE i + MaxNodeId + 1 - verifying
      next == {i \in fresh : \A j \in fresh : ahead(i) <= ahead(j)}
  IN verifying' = IF fresh = {} THEN HostId ELSE CHOOSE i \in next : TRUE

Verify ==
  /\ VerifyNext
  /\ IF verifying' = HostId THEN UNCHANGED owed ELSE AskNodeInfo(verifying')
  /\ UNCHANGED <<busVars, nodeVars, primary, discovery, cuav, registryVars,
                 ghosts, plugs, faults>>

NodeNext ==
  \/ \E d \in Devices, i \in Ids : PlugIn(d, i) \/ Unplug(d, i) \/ Ages(d, i)
  \/ \E i \in Ids : GoesStale(i)
  \/ \E i \in Ids, d \in Devices, ok \in BOOLEAN : ReceiveStatus(i, d, ok)
  \/ \E a \in owed : LoseAnswer(a) \/ ReceiveAnswer(a) \/ IgnoreAnswer(a)
  \/ DropCandidate \/ ServiceDiscovery \/ Verify

NodeSpec == NodeInit /\ [][NodeNext]_vars

(* The units send their NodeStatus, answers arrive, the loop asks, and     *)
(* time passes where nobody is.                                            *)
NodeFairness ==
  /\ WF_vars(ServiceDiscovery) /\ WF_vars(Verify)
  /\ \A i \in Ids : WF_vars(unit[i] = {} /\ GoesStale(i))
  /\ \A i \in Ids, d \in Devices : WF_vars(ReceiveStatus(i, d, TRUE))
  /\ \A i \in Ids, d \in Devices :
       WF_vars(\E a \in owed : a.id = i /\ a.dev = d /\ ReceiveAnswer(a))

FairNodeSpec == NodeSpec /\ NodeFairness

-----------------------------------------------------------------------------
(* Properties.                                                             *)

(* Neo3ProSensors.cpp:2178: while an id has authority, the unit heard of   *)
(* under it is the one it is registered to, unless it took the place of    *)
(* that one in silence and with an uptime that had not fallen.             *)
AuthorityIsOwner ==
  Authority => heard[primary] = reg[primary] \/ primary \in overtook

(* Neo3ProSensors.cpp:1786: authority leaves a node id only for one that   *)
(* has a verified CUAV unit, and never while the old id has it.            *)
AuthorityIsNotTaken ==
  [][primary' # primary => ~Authority /\ reg'[primary'] \cap Cuav # {}]_vars

(* A unit that is not the one its id is registered to, where authority     *)
(* is, is found out, however it got there (Neo3ProSensors.cpp:303).        *)
Impostor ==
  \E i \in Ids : primary = i /\ \E d \in unit[i] : reg[i] \notin {{}, {d}}
ImpostorFound == []<>(Impostor => duplicate)

(* A CUAV unit left alone on the bus under an id that is its own or nobody's *)
(* gets authority, whatever went before, unless a duplicate was found or   *)
(* the registry cannot be written (Neo3ProSensors.cpp:2147).               *)
Alone ==
  /\ \E i \in Ids, d \in Cuav :
       /\ unit[i] = {d} /\ \A j \in Ids \ {i} : unit[j] = {}
       /\ reg[i] \in {{}, {d}}
  /\ storageOk /\ ~duplicate
AuthorityReturns == []<>(Alone => Authority /\ unit[primary] # {})

(* Both: who the authority belongs to settles. *)
AuthoritySettles == ImpostorFound /\ AuthorityReturns

(* All of it: authority goes to another id only when the old one has none any more and the new one is a *)
(* verified CUAV unit's; an impostor is found out; and a CUAV unit alone   *)
(* under an id it may have is in authority in the end.                     *)
AuthorityIsStable == AuthorityIsNotTaken /\ AuthoritySettles
=============================================================================
