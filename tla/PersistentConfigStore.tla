------------------------ MODULE PersistentConfigStore -----------------------
(***************************************************************************)
(* src/PersistentConfigStore.cpp: an append-only journal of records in     *)
(* flash, programmed word by word with the commit word last, with power    *)
(* loss between and inside the words and flash words that do not take.     *)
(*                                                                         *)
(* A slot keeps the record that was being written, how many of its body    *)
(* words are programmed, whether they all read back as written, and its    *)
(* commit word.  The CRC is taken to reject every body that is not whole.  *)
(***************************************************************************)
EXTENDS Naturals, FiniteSets

CONSTANTS
  Slots,        \* totalSlots()
  BodyWords,    \* words before the commit word: 11
  Keys, Values, \* Values: data and length of a record
  MaxPowerLoss, MaxFlashFaults   \* bounds

ASSUME JournalAssumption ==
  /\ Slots \in Nat \ {0} /\ BodyWords \in Nat \ {0}
  /\ MaxPowerLoss \in Nat /\ MaxFlashFaults \in Nat
ASSUME KeyAssumption == 0 \notin Keys   \* key 0 is refused everywhere

VARIABLES
  flash,       \* the slots
  nextSlot,    \* next_slot_
  nextSeq,     \* next_sequence_
  storageOk,   \* storage_ok_
  storageFull, \* storage_full_
  pc,          \* where write() is; "off" before begin()
  w,           \* the body word write() programs next
  ok,          \* the local of write()
  op,          \* the write in progress: {} or {[key, value]}
  result,      \* what the last write returned
  powerLoss, flashFaults

ramVars == <<nextSlot, nextSeq, storageOk, storageFull, pc, w, ok>>
configVars == <<flash, ramVars, op, result, powerLoss, flashFaults>>

Index == 0..(Slots - 1)
Writes == [key : Keys, value : Values]
Records == [key : Keys, value : Values, seq : Nat \ {0}]
NoRecord == [key |-> 0, value |-> 0, seq |-> 0]
SlotStates == [words : 0..BodyWords, clean : BOOLEAN,
               commit : {"erased", "ok", "garbage"},
               rec : Records \cup {NoRecord}]
ErasedSlot == [words |-> 0, clean |-> TRUE, commit |-> "erased", rec |-> NoRecord]

ConfigTypeOK ==
  /\ flash \in [Index -> SlotStates]
  /\ nextSlot \in 0..Slots
  /\ nextSeq \in Nat \ {0}
  /\ storageOk \in BOOLEAN /\ storageFull \in BOOLEAN
  /\ pc \in {"off", "idle", "check", "program", "verify", "commit", "finish"}
  /\ w \in 0..BodyWords
  /\ ok \in BOOLEAN
  /\ op \in SUBSET Writes
  /\ result \in {"none", "true", "false"}
  /\ powerLoss \in 0..MaxPowerLoss /\ flashFaults \in 0..MaxFlashFaults

(* erased. *)
Erased(slot) == slot.words = 0 /\ slot.commit = "erased"

(* valid: format, CRC and commit word. *)
Valid(slot) == slot.words = BodyWords /\ slot.clean /\ slot.commit = "ok"

(* latest, below slot n: the highest sequence, the later slot on a tie.    *)
Holding(fl, n, k) ==
  {i \in Index : i < n /\ Valid(fl[i]) /\ fl[i].rec.key = k}

Latest(fl, n, k) ==
  {i \in Holding(fl, n, k) : \A j \in Holding(fl, n, k) :
     \/ fl[j].rec.seq < fl[i].rec.seq
     \/ fl[j].rec.seq = fl[i].rec.seq /\ j <= i}

(* read: the value as a set, {} when there is none. *)
Read(fl, n, k) == {fl[i].rec.value : i \in Latest(fl, n, k)}

(* scan: where it stops, and the sequence it arrives at.                   *)
ScanStops(n) ==
  /\ \A i \in Index : i < n => ~Erased(flash[i])
  /\ n < Slots => Erased(flash[n])

ScannedSequences(n) ==
  LET found == {i \in Index : i < n /\ Valid(flash[i])}
  IN {q \in {1} \cup {flash[i].rec.seq + 1 : i \in found} :
        \A i \in found : flash[i].rec.seq < q}

ConfigInit ==
  /\ flash = [i \in Index |-> ErasedSlot]
  /\ nextSlot = 0 /\ nextSeq = 1 /\ storageOk = TRUE /\ storageFull = FALSE
  /\ pc = "off" /\ w = 0 /\ ok = TRUE
  /\ op = {} /\ result = "none" /\ powerLoss = 0 /\ flashFaults = 0

-----------------------------------------------------------------------------
(* begin, after a reset. *)
Begin ==
  /\ pc = "off" /\ pc' = "idle"
  /\ \E n \in 0..Slots :
       /\ ScanStops(n)
       /\ nextSlot' = n
       /\ nextSeq' \in ScannedSequences(n)
       /\ storageFull' = (n = Slots)
  /\ storageOk' = TRUE
  /\ UNCHANGED <<flash, w, ok, op, result, powerLoss, flashFaults>>

Return(value) ==
  /\ pc' = "idle" /\ op' = {} /\ result' = value

(* write: the call, and its checks. *)
WriteCall(r) ==
  /\ pc = "idle" /\ pc' = "check"
  /\ op' = {r} /\ result' = "none"
  /\ UNCHANGED <<flash, nextSlot, nextSeq, storageOk, storageFull, w, ok,
                 powerLoss, flashFaults>>

Stored == \E r \in op : Read(flash, nextSlot, r.key) = {r.value}

WriteRefused ==
  /\ pc = "check" /\ (~storageOk \/ storageFull)
  /\ Return("false")
  /\ UNCHANGED <<flash, nextSlot, nextSeq, storageOk, storageFull, w, ok,
                 powerLoss, flashFaults>>

WriteAlreadyStored ==
  /\ pc = "check" /\ storageOk /\ ~storageFull /\ Stored
  /\ Return("true")
  /\ UNCHANGED <<flash, nextSlot, nextSeq, storageOk, storageFull, w, ok,
                 powerLoss, flashFaults>>

(* A record is built and the flash unlocked, or HAL_FLASH_Unlock fails.    *)
(* (next_slot_ at the end has set storage_full_ already.)                  *)
WriteStart ==
  /\ pc = "check" /\ storageOk /\ ~storageFull /\ ~Stored
  /\ nextSlot < Slots
  /\ pc' = "program" /\ w' = 0 /\ ok' = TRUE
  /\ UNCHANGED <<flash, nextSlot, nextSeq, storageOk, storageFull, op, result,
                 powerLoss, flashFaults>>

WriteUnlockFails ==
  /\ pc = "check" /\ storageOk /\ ~storageFull /\ ~Stored
  /\ flashFaults < MaxFlashFaults /\ flashFaults' = flashFaults + 1
  /\ Return("false")
  /\ UNCHANGED <<flash, nextSlot, nextSeq, storageOk, storageFull, w, ok,
                 powerLoss>>

(* One body word.  A word programmed twice reads back as neither.          *)
BodyWord(good) ==
  \E r \in op :
    flash' = [flash EXCEPT ![nextSlot] =
      [words |-> IF @.words = w THEN @.words + 1 ELSE @.words,
       clean |-> @.clean /\ good /\ @.words = w /\ @.commit = "erased",
       commit |-> @.commit,
       rec |-> [key |-> r.key, value |-> r.value, seq |-> nextSeq]]]

ProgramWord ==
  /\ pc = "program" /\ w < BodyWords
  /\ BodyWord(TRUE)
  /\ w' = w + 1
  /\ UNCHANGED <<nextSlot, nextSeq, storageOk, storageFull, pc, ok, op, result,
                 powerLoss, flashFaults>>

(* HAL_FLASH_Program reports an error, or the word silently reads back     *)
(* wrong.                                                                  *)
ProgramWordFails ==
  /\ pc = "program" /\ w < BodyWords
  /\ flashFaults < MaxFlashFaults /\ flashFaults' = flashFaults + 1
  /\ \/ /\ UNCHANGED flash \/ BodyWord(FALSE)
        /\ ok' = FALSE /\ pc' = "finish" /\ UNCHANGED w
     \/ /\ BodyWord(FALSE)
        /\ w' = w + 1 /\ UNCHANGED <<ok, pc>>
  /\ UNCHANGED <<nextSlot, nextSeq, storageOk, storageFull, op, result, powerLoss>>

(* The body reads back as written, or not. *)
VerifyBody ==
  /\ pc = "program" /\ w = BodyWords
  /\ ok' = flash[nextSlot].clean
  /\ pc' = IF ok' THEN "commit" ELSE "finish"
  /\ UNCHANGED <<flash, nextSlot, nextSeq, storageOk, storageFull, w, op,
                 result, powerLoss, flashFaults>>

CommitWord(word) == flash' = [flash EXCEPT ![nextSlot].commit = word]

ProgramCommit ==
  /\ pc = "commit" /\ pc' = "finish"
  /\ CommitWord("ok")
  /\ UNCHANGED <<nextSlot, nextSeq, storageOk, storageFull, w, ok, op, result,
                 powerLoss, flashFaults>>

(* The commit word fails: reported or not, and whatever is in the flash.   *)
ProgramCommitFails ==
  /\ pc = "commit" /\ pc' = "finish"
  /\ flashFaults < MaxFlashFaults /\ flashFaults' = flashFaults + 1
  /\ \/ ok' = FALSE /\ (UNCHANGED flash \/ CommitWord("garbage") \/ CommitWord("ok"))
     \/ UNCHANGED ok /\ CommitWord("garbage")
  /\ UNCHANGED <<nextSlot, nextSeq, storageOk, storageFull, w, op, result, powerLoss>>

FinishCarriesOn ==                 \* mutant: storage_ok_ stays
  /\ pc = "finish"
  /\ nextSlot' = nextSlot + 1
  /\ storageFull' = (storageFull \/ nextSlot + 1 >= Slots)
  /\ IF ok /\ Valid(flash[nextSlot])
     THEN Return("true") /\ nextSeq' = nextSeq + 1
     ELSE Return("false") /\ UNCHANGED nextSeq
  /\ w' = 0 /\ ok' = TRUE
  /\ UNCHANGED <<flash, storageOk, powerLoss, flashFaults>>

FinishUnverified ==                \* mutant: what was programmed is not read back
  /\ pc = "finish"
  /\ nextSlot' = nextSlot + 1
  /\ storageFull' = (storageFull \/ nextSlot + 1 >= Slots)
  /\ IF ok
     THEN Return("true") /\ nextSeq' = nextSeq + 1 /\ UNCHANGED storageOk
     ELSE Return("false") /\ storageOk' = FALSE /\ UNCHANGED nextSeq
  /\ w' = 0 /\ ok' = TRUE
  /\ UNCHANGED <<flash, powerLoss, flashFaults>>

(* The slot is spent whatever happened; a failure ends all writing.        *)
Finish ==
  /\ pc = "finish"
  /\ nextSlot' = nextSlot + 1
  /\ storageFull' = (storageFull \/ nextSlot + 1 >= Slots)
  /\ IF ok /\ Valid(flash[nextSlot])
     THEN Return("true") /\ nextSeq' = nextSeq + 1 /\ UNCHANGED storageOk
     ELSE Return("false") /\ storageOk' = FALSE /\ UNCHANGED nextSeq
  /\ w' = 0 /\ ok' = TRUE
  /\ UNCHANGED <<flash, powerLoss, flashFaults>>

(* Power is lost; a word being programmed is left as it was, torn or done. *)
PowerLoss ==
  /\ powerLoss < MaxPowerLoss /\ powerLoss' = powerLoss + 1
  /\ \/ UNCHANGED flash
     \/ pc = "program" /\ w < BodyWords /\ BodyWord(FALSE)
     \/ pc = "commit" /\ CommitWord("garbage")
  /\ pc' = "off" /\ op' = {} /\ result' = "none"
  /\ nextSlot' = 0 /\ nextSeq' = 1 /\ storageOk' = TRUE /\ storageFull' = FALSE
  /\ w' = 0 /\ ok' = TRUE
  /\ UNCHANGED flashFaults

ConfigNext ==
  \/ Begin
  \/ \E r \in Writes : WriteCall(r)
  \/ WriteRefused \/ WriteAlreadyStored \/ WriteStart \/ WriteUnlockFails
  \/ ProgramWord \/ ProgramWordFails \/ VerifyBody
  \/ ProgramCommit \/ ProgramCommitFails \/ Finish
  \/ PowerLoss

ConfigSpec == ConfigInit /\ [][ConfigNext]_configVars

-----------------------------------------------------------------------------
(* Properties.                                                             *)

(* write never programs a word twice and never leaves a hole behind: the   *)
(* slot it programs holds exactly the words programmed so far, and every   *)
(* slot behind it is erased.                                               *)
WritesFreshSlot ==
  pc \in {"program", "commit"} =>
    /\ flash[nextSlot].words = w /\ flash[nextSlot].commit = "erased"
    /\ \A i \in Index : i > nextSlot => Erased(flash[i])

(* Between writes, read finds whatever the flash holds: no committed       *)
(* record lies behind the slot where scan stopped.                         *)
ReadsAll ==
  pc \in {"idle", "check"} =>
    \A k \in Keys : Read(flash, nextSlot, k) = Read(flash, Slots, k)

(* The journal implements the store: a value takes effect with its commit  *)
(* word, and no torn record, failed word, full journal or restart brings   *)
(* an older value back or loses one that write reported stored.            *)
Store == INSTANCE KVStore WITH kv <- [k \in Keys |-> Read(flash, Slots, k)]
ImplementsStore == Store!KVSpec

(* All of it: write spends only erased slots, and read misses no committed *)
(* record, whatever power loss and failing words have left in the flash.   *)
JournalSound == ConfigTypeOK /\ WritesFreshSlot /\ ReadsAll
=============================================================================
