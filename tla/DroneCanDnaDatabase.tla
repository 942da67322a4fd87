------------------------- MODULE DroneCanDnaDatabase ------------------------
(***************************************************************************)
(* src/DroneCanDnaDatabase.cpp, the database of the dynamic node-id        *)
(* allocator: a table in memory, rebuilt at boot by replaying a journal in *)
(* flash that is programmed word by word, the commit word last; and the    *)
(* two messages of src/Neo3ProSensors.cpp that use it.                     *)
(*                                                                         *)
(* A unique id stands for its 48-bit hash.  A slot is as in                *)
(* PersistentConfigStore.                                                  *)
(***************************************************************************)
EXTENDS Naturals, FiniteSets

CONSTANTS
  MaxNodeId,    \* kMaxNodeId: 125
  OwnId,        \* DRONECAN_HOST_NODE_ID
  OwnUid,       \* buildOwnDnaUid
  NodeUids,     \* the nodes on the bus
  DnaSlots,        \* totalJournalSlots()
  DnaBodyWords,    \* words before the commit word: 4
  FaultsLeaveHoles,   \* a first word that fails may leave its slot erased
  DnaMaxPowerLoss, DnaMaxFlashFaults   \* bounds

ASSUME DnaAssumption ==
  /\ MaxNodeId \in Nat /\ OwnId \in 1..MaxNodeId
  /\ OwnUid \notin NodeUids
  /\ DnaSlots \in Nat \ {0} /\ DnaBodyWords \in Nat \ {0}
  /\ FaultsLeaveHoles \in BOOLEAN
  /\ DnaMaxPowerLoss \in Nat /\ DnaMaxFlashFaults \in Nat

VARIABLES
  dnaFlash,       \* the slots
  table,       \* registered_ and records_
  dnaNextSlot,    \* next_slot_
  dnaStorageOk, dnaStorageFull,   \* storage_ok_, storage_full_
  dnaPc,          \* where the code is; "off" before begin
  dnaW, dnaOk,       \* locals of appendRegistration
  dnaOp,          \* the registration in progress: {} or {[id, uid]}
  caller,      \* who registers: begin, a NodeInfo response, an allocation
  grant,       \* what the last allocation answered: {} or {[id, uid]}
  verified,    \* dna_verified_: the unique id each verified node showed
  dnaPowerLoss, dnaFlashFaults

memory == <<table, dnaNextSlot, dnaStorageOk, dnaStorageFull>>
bounds == <<dnaPowerLoss, dnaFlashFaults>>
dnaVars == <<dnaFlash, memory, dnaPc, dnaW, dnaOk, dnaOp, caller, grant, verified, bounds>>

Ids == 1..MaxNodeId
Uids == NodeUids \cup {OwnUid}
DnaIndex == 0..(DnaSlots - 1)
Registrations == [id : Ids, uid : Uids]
DnaErasedSlot == [words |-> 0, clean |-> TRUE, commit |-> "erased", rec |-> {}]

DnaTypeOK ==
  /\ dnaFlash \in [DnaIndex -> [words : 0..DnaBodyWords, clean : BOOLEAN,
                          commit : {"erased", "ok", "garbage"},
                          rec : SUBSET Registrations]]
  /\ table \in [Ids -> SUBSET Uids]
  /\ dnaNextSlot \in 0..DnaSlots
  /\ dnaStorageOk \in BOOLEAN /\ dnaStorageFull \in BOOLEAN
  /\ dnaPc \in {"off", "idle", "register", "program", "commit", "finish"}
  /\ dnaW \in 0..DnaBodyWords /\ dnaOk \in BOOLEAN
  /\ dnaOp \in SUBSET Registrations
  /\ caller \in {"none", "begin", "info", "allocation"}
  /\ grant \in SUBSET Registrations
  /\ verified \in [Ids -> SUBSET NodeUids]
  /\ dnaPowerLoss \in 0..DnaMaxPowerLoss /\ dnaFlashFaults \in 0..DnaMaxFlashFaults

-----------------------------------------------------------------------------
(* isErased, and what scanJournal accepts. *)
DnaErased(slot) == slot.words = 0 /\ slot.commit = "erased"
DnaValid(slot) == slot.words = DnaBodyWords /\ slot.clean /\ slot.commit = "ok"

NoTable == [i \in Ids |-> {}]

(* applyRegistration *)
Applied(t, r) == [i \in Ids |-> IF i = r.id THEN {r.uid} ELSE t[i] \ {r.uid}]

(* scanJournal: the table after the first n slots. *)
Replay(fl) ==
  LET after[n \in 0..DnaSlots] ==
        IF n = 0 THEN NoTable
        ELSE IF DnaValid(fl[n - 1])
             THEN Applied(after[n - 1], CHOOSE r \in fl[n - 1].rec : TRUE)
             ELSE after[n - 1]
  IN after

(* ... and the slot it stops at. *)
ScanEnd ==
  {n \in 0..DnaSlots : /\ \A i \in DnaIndex : i < n => ~DnaErased(dnaFlash[i])
                       /\ n < DnaSlots => DnaErased(dnaFlash[n])}

(* findNodeId *)
Found(t, uid) == {i \in Ids : uid \in t[i]}
FreeIds == {i \in Ids : table[i] = {}}
Highest(ids) == {i \in ids : \A j \in ids : j <= i}

DnaInit ==
  /\ dnaFlash = [i \in DnaIndex |-> DnaErasedSlot]
  /\ table = NoTable /\ dnaNextSlot = 0 /\ dnaStorageOk = TRUE /\ dnaStorageFull = FALSE
  /\ dnaPc = "off" /\ dnaW = 0 /\ dnaOk = TRUE
  /\ dnaOp = {} /\ caller = "none" /\ grant = {}
  /\ verified = NoTable /\ dnaPowerLoss = 0 /\ dnaFlashFaults = 0

-----------------------------------------------------------------------------
(* begin: the journal is replayed and the own id registered if need be.    *)
DnaBegin ==
  /\ dnaPc = "off"
  /\ \E n \in ScanEnd :
       /\ dnaNextSlot' = n /\ table' = Replay(dnaFlash)[n] /\ dnaStorageFull' = (n = DnaSlots)
  /\ dnaStorageOk' = TRUE
  /\ IF Highest(Found(table', OwnUid)) = {OwnId}
     THEN dnaPc' = "idle" /\ UNCHANGED <<dnaOp, caller>>
     ELSE /\ dnaPc' = "register" /\ dnaOp' = {[id |-> OwnId, uid |-> OwnUid]}
          /\ caller' = "begin"
  /\ UNCHANGED <<dnaFlash, dnaW, dnaOk, grant, verified, bounds>>

(* decodeGetNodeInfoResponse: the id is registered to the unique id, to    *)
(* another one, or, through handleNodeInfo, not yet.                       *)
NodeInfoKnown(id, uid) ==
  /\ dnaPc = "idle" /\ table[id] # {}
  /\ verified' = IF Highest(Found(table, uid)) = {id}
                 THEN [i \in Ids |-> IF i = id THEN {uid}
                                     ELSE IF table[i] = {} THEN {} ELSE verified[i]]
                 ELSE [verified EXCEPT ![id] = {}]
  /\ grant' = {}
  /\ UNCHANGED <<dnaFlash, memory, dnaPc, dnaW, dnaOk, dnaOp, caller, bounds>>

NodeInfoNew(id, uid) ==
  /\ dnaPc = "idle" /\ table[id] = {}
  /\ dnaPc' = "register" /\ dnaOp' = {[id |-> id, uid |-> uid]} /\ caller' = "info"
  /\ grant' = {}
  /\ UNCHANGED <<dnaFlash, memory, dnaW, dnaOk, verified, bounds>>

(* decodeAllocation: handleAllocation answers from the table, registers    *)
(* the highest free id, or has none.                                       *)
AllocationRefused ==
  /\ dnaPc = "idle"
  /\ \/ ~dnaStorageOk /\ UNCHANGED dnaStorageFull
     \/ /\ dnaStorageOk /\ FreeIds = {} /\ dnaStorageFull' = TRUE
        /\ \E uid \in NodeUids : Found(table, uid) = {}
  /\ grant' = {}
  /\ UNCHANGED <<dnaFlash, table, dnaNextSlot, dnaStorageOk, dnaPc, dnaW, dnaOk, dnaOp, caller,
                 verified, bounds>>

AllocationKnown(uid) ==
  /\ dnaPc = "idle" /\ dnaStorageOk
  /\ \E i \in Highest(Found(table, uid)) : grant' = {[id |-> i, uid |-> uid]}
  /\ UNCHANGED <<dnaFlash, memory, dnaPc, dnaW, dnaOk, dnaOp, caller, verified, bounds>>

AllocationNew(uid) ==
  /\ dnaPc = "idle" /\ dnaStorageOk /\ Found(table, uid) = {}
  /\ \E i \in Highest(FreeIds) : dnaOp' = {[id |-> i, uid |-> uid]}
  /\ dnaPc' = "register" /\ caller' = "allocation" /\ grant' = {}
  /\ UNCHANGED <<dnaFlash, memory, dnaW, dnaOk, verified, bounds>>

-----------------------------------------------------------------------------
(* appendRegistration.                                                     *)

ReturnGrants(success) ==           \* mutant: registerUid's result is not looked at
  /\ dnaPc' = "idle" /\ dnaOp' = {} /\ caller' = "none"
  /\ grant' = IF caller = "allocation" THEN dnaOp ELSE {}
  /\ UNCHANGED verified

ReturnKeepsMoved(success) ==       \* mutant: a moved id's old node stays verified
  /\ dnaPc' = "idle" /\ dnaOp' = {} /\ caller' = "none"
  /\ grant' = IF success /\ caller = "allocation" THEN dnaOp ELSE {}
  /\ verified' =
       IF caller # "info" THEN verified
       ELSE [i \in Ids |->
         IF \E r \in dnaOp : r.id = i
         THEN IF success THEN {r.uid : r \in dnaOp} ELSE {}
         ELSE verified[i]]

(* The way back to the caller: an allocation is answered or not; the       *)
(* NodeInfo's node is verified, with every id that lost its registration   *)
(* no longer so, or not verified.                                          *)
DnaReturn(success) ==
  /\ dnaPc' = "idle" /\ dnaOp' = {} /\ caller' = "none"
  /\ grant' = IF success /\ caller = "allocation" THEN dnaOp ELSE {}
  /\ verified' =
       IF caller # "info" THEN verified
       ELSE [i \in Ids |->
         IF \E r \in dnaOp : r.id = i
         THEN IF success THEN {r.uid : r \in dnaOp} ELSE {}
         ELSE IF success /\ table'[i] = {} THEN {} ELSE verified[i]]

AppendRefused ==
  /\ dnaPc = "register" /\ dnaNextSlot = DnaSlots
  /\ dnaStorageFull' = TRUE
  /\ UNCHANGED table /\ DnaReturn(FALSE)
  /\ UNCHANGED <<dnaFlash, dnaNextSlot, dnaStorageOk, dnaW, dnaOk, bounds>>

AppendUnlockFails ==
  /\ dnaPc = "register" /\ dnaNextSlot < DnaSlots
  /\ dnaFlashFaults < DnaMaxFlashFaults /\ dnaFlashFaults' = dnaFlashFaults + 1
  /\ dnaStorageOk' = FALSE
  /\ UNCHANGED table /\ DnaReturn(FALSE)
  /\ UNCHANGED <<dnaFlash, dnaNextSlot, dnaStorageFull, dnaW, dnaOk, dnaPowerLoss>>

AppendStart ==
  /\ dnaPc = "register" /\ dnaNextSlot < DnaSlots
  /\ dnaPc' = "program" /\ dnaW' = 0 /\ dnaOk' = TRUE
  /\ UNCHANGED <<dnaFlash, memory, dnaOp, caller, grant, verified, bounds>>

(* One word of the body. *)
DnaBodyWord(good) ==
  dnaFlash' = [dnaFlash EXCEPT ![dnaNextSlot] =
    [words |-> IF @.words = dnaW THEN @.words + 1 ELSE @.words,
     clean |-> @.clean /\ good /\ @.words = dnaW /\ @.commit = "erased",
     commit |-> @.commit,
     rec |-> dnaOp]]

DnaProgramWord ==
  /\ dnaPc = "program" /\ dnaW < DnaBodyWords
  /\ DnaBodyWord(TRUE) /\ dnaW' = dnaW + 1
  /\ UNCHANGED <<memory, dnaPc, dnaOk, dnaOp, caller, grant, verified, bounds>>

(* An error is reported, or the word silently reads back wrong. *)
DnaProgramWordFails ==
  /\ dnaPc = "program" /\ dnaW < DnaBodyWords
  /\ dnaFlashFaults < DnaMaxFlashFaults /\ dnaFlashFaults' = dnaFlashFaults + 1
  /\ \/ /\ \/ DnaBodyWord(FALSE)
           \/ (dnaW > 0 \/ FaultsLeaveHoles) /\ UNCHANGED dnaFlash
        /\ dnaOk' = FALSE /\ dnaPc' = "finish" /\ UNCHANGED dnaW
     \/ DnaBodyWord(FALSE) /\ dnaW' = dnaW + 1 /\ UNCHANGED <<dnaOk, dnaPc>>
  /\ UNCHANGED <<memory, dnaOp, caller, grant, verified, dnaPowerLoss>>

DnaVerifyBody ==
  /\ dnaPc = "program" /\ dnaW = DnaBodyWords
  /\ dnaOk' = dnaFlash[dnaNextSlot].clean
  /\ dnaPc' = IF dnaOk' THEN "commit" ELSE "finish"
  /\ UNCHANGED <<dnaFlash, memory, dnaW, dnaOp, caller, grant, verified, bounds>>

DnaCommitWord(word) == dnaFlash' = [dnaFlash EXCEPT ![dnaNextSlot].commit = word]

DnaProgramCommit ==
  /\ dnaPc = "commit" /\ dnaPc' = "finish"
  /\ DnaCommitWord("ok")
  /\ UNCHANGED <<memory, dnaW, dnaOk, dnaOp, caller, grant, verified, bounds>>

(* The commit word fails, whatever is in the flash then. *)
DnaProgramCommitFails ==
  /\ dnaPc = "commit" /\ dnaPc' = "finish"
  /\ dnaFlashFaults < DnaMaxFlashFaults /\ dnaFlashFaults' = dnaFlashFaults + 1
  /\ \/ /\ dnaOk' = FALSE
        /\ UNCHANGED dnaFlash \/ DnaCommitWord("garbage") \/ DnaCommitWord("ok")
     \/ UNCHANGED dnaOk /\ DnaCommitWord("garbage")
  /\ UNCHANGED <<memory, dnaW, dnaOp, caller, grant, verified, dnaPowerLoss>>

(* The record reads back and is applied, or storage is given up. *)
DnaFinish ==
  /\ dnaPc = "finish"
  /\ dnaNextSlot' = dnaNextSlot + 1
  /\ IF dnaOk /\ DnaValid(dnaFlash[dnaNextSlot])
     THEN /\ \E r \in dnaOp : table' = Applied(table, r)
          /\ dnaStorageFull' = (dnaStorageFull \/ dnaNextSlot + 1 >= DnaSlots)
          /\ UNCHANGED dnaStorageOk /\ DnaReturn(TRUE)
     ELSE /\ dnaStorageOk' = FALSE
          /\ UNCHANGED <<table, dnaStorageFull>> /\ DnaReturn(FALSE)
  /\ dnaW' = 0 /\ dnaOk' = TRUE
  /\ UNCHANGED <<dnaFlash, bounds>>

(* Power is lost; a word being programmed is left as it was, torn or done. *)
DnaPowerLoss ==
  /\ dnaPowerLoss < DnaMaxPowerLoss /\ dnaPowerLoss' = dnaPowerLoss + 1
  /\ \/ UNCHANGED dnaFlash
     \/ dnaPc = "program" /\ dnaW < DnaBodyWords /\ DnaBodyWord(FALSE)
     \/ dnaPc = "commit" /\ DnaCommitWord("garbage")
  /\ dnaPc' = "off" /\ dnaOp' = {} /\ caller' = "none" /\ grant' = {}
  /\ table' = NoTable /\ dnaNextSlot' = 0
  /\ dnaStorageOk' = TRUE /\ dnaStorageFull' = FALSE
  /\ dnaW' = 0 /\ dnaOk' = TRUE /\ verified' = NoTable
  /\ UNCHANGED dnaFlashFaults

DnaNext ==
  \/ DnaBegin
  \/ \E id \in Ids, uid \in NodeUids : NodeInfoKnown(id, uid) \/ NodeInfoNew(id, uid)
  \/ AllocationRefused
  \/ \E uid \in NodeUids : AllocationKnown(uid) \/ AllocationNew(uid)
  \/ AppendRefused \/ AppendUnlockFails \/ AppendStart
  \/ DnaProgramWord \/ DnaProgramWordFails \/ DnaVerifyBody
  \/ DnaProgramCommit \/ DnaProgramCommitFails \/ DnaFinish
  \/ DnaPowerLoss

DnaSpec == DnaInit /\ [][DnaNext]_dnaVars

-----------------------------------------------------------------------------
(* Properties.                                                             *)

(* A unique id is registered at one node id at most, in memory and in      *)
(* whatever a replay of the journal would find.                            *)
OneIdPerUid ==
  \A uid \in Uids : /\ Cardinality(Found(table, uid)) <= 1
                    /\ Cardinality(Found(Replay(dnaFlash)[DnaSlots], uid)) <= 1

(* As long as no flash operation has failed, the table in memory is what a *)
(* replay of the journal would find.                                       *)
TableIsJournal ==
  dnaPc = "idle" /\ dnaStorageOk => table = Replay(dnaFlash)[DnaSlots]

(* A node is verified only as the unique id its node id is registered to.  *)
VerifiedIsRegistered ==
  \A i \in Ids : verified[i] # {} => table[i] = verified[i]

(* DroneCanDnaDatabase.cpp:74: "never reuse a partially programmed/torn     *)
(* slot".                                                                  *)
DnaWritesFreshSlot ==
  dnaPc = "program" /\ dnaW = 0 => DnaErased(dnaFlash[dnaNextSlot])

(* The database implements the allocator's table: a granted id stays its   *)
(* unique id's through faults and power loss, until that moves elsewhere.  *)
Table == INSTANCE DnaTable WITH op <- dnaOp, table <- Replay(dnaFlash)[DnaSlots]
ImplementsTable == Table!TableSpec

(* All of it: a unit has one node id, in memory as in a replay of the      *)
(* journal, a verified node is the one registered, and no torn slot is     *)
(* programmed again.                                                       *)
TableSound ==
  DnaTypeOK /\ OneIdPerUid /\ TableIsJournal /\ VerifiedIsRegistered /\ DnaWritesFreshSlot
=============================================================================
