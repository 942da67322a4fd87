---------------------------- MODULE JournalProofs ----------------------------
(***************************************************************************)
(* The two journals for any number of slots, words of a record, power      *)
(* losses and failing words.  The configuration's, for any keys and        *)
(* values: its safety, and that it implements KVStore.  The node ids', for *)
(* any ids and units: that it agrees with the table in memory, and that it *)
(* implements DnaTable.                                                    *)
(***************************************************************************)
EXTENDS PersistentConfigStore, DroneCanDnaDatabase, FiniteSetTheorems,
        WellFoundedInduction, TLAPS

(* The slots are used from the first on: none behind an erased one is used. *)
NoHoles == \A i, j \in Index : i < j /\ Erased(flash[i]) => Erased(flash[j])

(* What is known once begin has run: next_slot_ is the first free slot, or *)
(* the one being written; while the storage is good all before it are used *)
(* and hold sequences below the next.                                      *)
Placed ==
  pc # "off" =>
    /\ \A i \in Index : i > nextSlot => Erased(flash[i])
    /\ pc \in {"idle", "check"} => \A i \in Index : i = nextSlot => Erased(flash[i])
    /\ storageOk => \A i \in Index : i < nextSlot =>
         ~Erased(flash[i]) /\ (Valid(flash[i]) => flash[i].rec.seq < nextSeq)

(* A write in progress: one record, into a slot of its own.                *)
OneWrite ==
  /\ pc \in {"off", "idle"} => op = {}
  /\ pc \notin {"off", "idle"} => \E r \in Writes : op = {r}

Writing == pc \in {"program", "commit", "finish"}

InSlot ==
  Writing =>
    /\ storageOk /\ nextSlot < Slots
    /\ flash[nextSlot].words > 0 =>
         \E r \in op : flash[nextSlot].rec = [key |-> r.key, value |-> r.value, seq |-> nextSeq]
    /\ pc = "program" => flash[nextSlot].words = w /\ flash[nextSlot].commit = "erased"
    /\ pc = "commit" => /\ flash[nextSlot].words = BodyWords /\ w = BodyWords
                        /\ flash[nextSlot].clean /\ flash[nextSlot].commit = "erased"

JournalInv == ConfigTypeOK /\ NoHoles /\ Placed /\ OneWrite /\ InSlot

-----------------------------------------------------------------------------
(* What the provers need to know of slots and of the flash.                *)

LEMMA SlotFields ==
  ASSUME NEW s \in SlotStates
  PROVE  /\ s.words \in 0..BodyWords /\ s.clean \in BOOLEAN
         /\ s.commit \in {"erased", "ok", "garbage"} /\ s.rec \in Records \cup {NoRecord}
         /\ s.rec.seq \in Nat
         /\ Erased(s) => ~Valid(s)
<1>1. /\ s.words \in 0..BodyWords /\ s.clean \in BOOLEAN
      /\ s.commit \in {"erased", "ok", "garbage"} /\ s.rec \in Records \cup {NoRecord}
  BY DEF SlotStates
<1>2. s.rec.seq \in Nat
  BY <1>1 DEF Records, NoRecord
<1>3. Erased(s) => ~Valid(s)
  BY DEF Erased, Valid
<1> QED
  BY <1>1, <1>2, <1>3

(* One slot of the flash is changed. *)
LEMMA OneSlotChanged ==
  ASSUME ConfigTypeOK, NEW i \in Index, NEW s \in SlotStates,
         flash' = [flash EXCEPT ![i] = s]
  PROVE  /\ flash' \in [Index -> SlotStates]
         /\ flash'[i] = s
         /\ \A j \in Index : j # i => flash'[j] = flash[j]
BY DEF ConfigTypeOK

(* The slot a write is in lies in the flash, behind used slots and before  *)
(* erased ones.                                                            *)
LEMMA WritingSlot ==
  ASSUME JournalInv, Writing
  PROVE  /\ nextSlot \in Index /\ storageOk /\ pc # "off"
         /\ flash[nextSlot] \in SlotStates
         /\ \E r \in Writes : op = {r}
         /\ \A i \in Index : i > nextSlot => Erased(flash[i])
         /\ \A i \in Index : i < nextSlot =>
              ~Erased(flash[i]) /\ (Valid(flash[i]) => flash[i].rec.seq < nextSeq)
<1>1. nextSlot \in Nat /\ nextSlot < Slots /\ Slots \in Nat
  BY JournalAssumption DEF JournalInv, InSlot, ConfigTypeOK
<1>2. nextSlot \in Index
  BY <1>1 DEF Index
<1>3. pc \notin {"off", "idle"}
  BY DEF Writing
<1> QED
  BY <1>2, <1>3 DEF JournalInv, InSlot, OneWrite, Placed, ConfigTypeOK

(* The slot a body word leaves. *)
Body(r, n, clean) ==
  [words |-> n, clean |-> clean, commit |-> "erased",
   rec |-> [key |-> r.key, value |-> r.value, seq |-> nextSeq]]

LEMMA BodyWordLeaves ==
  ASSUME JournalInv, pc = "program", w < BodyWords,
         NEW good \in BOOLEAN, BodyWord(good)
  PROVE  \E r \in op : \E clean \in BOOLEAN :
           /\ Body(r, w + 1, clean) \in SlotStates
           /\ flash' = [flash EXCEPT ![nextSlot] = Body(r, w + 1, clean)]
           /\ clean <=> flash[nextSlot].clean /\ good
<1>1. PICK r \in op :
        flash' = [flash EXCEPT ![nextSlot] =
          [words |-> IF @.words = w THEN @.words + 1 ELSE @.words,
           clean |-> @.clean /\ good /\ @.words = w /\ @.commit = "erased",
           commit |-> @.commit,
           rec |-> [key |-> r.key, value |-> r.value, seq |-> nextSeq]]]
  BY DEF BodyWord
<1>2. /\ nextSlot \in Index /\ flash[nextSlot] \in SlotStates
      /\ flash[nextSlot].words = w /\ flash[nextSlot].commit = "erased"
      /\ r \in Writes
  BY WritingSlot DEF JournalInv, InSlot, Writing
<1> DEFINE clean == flash[nextSlot].clean /\ good
<1>3. clean \in BOOLEAN
  OBVIOUS
<1>4. flash' = [flash EXCEPT ![nextSlot] = Body(r, w + 1, clean)]
  BY <1>1, <1>2 DEF Body, ConfigTypeOK, JournalInv
<1>5. Body(r, w + 1, clean) \in SlotStates
  <2>1. w \in Nat /\ BodyWords \in Nat /\ w + 1 \in 0..BodyWords
    BY JournalAssumption DEF JournalInv, ConfigTypeOK
  <2>2. r.key \in Keys /\ r.value \in Values /\ nextSeq \in Nat \ {0}
    BY <1>2 DEF Writes, JournalInv, ConfigTypeOK
  <2> QED
    BY <1>3, <2>1, <2>2 DEF Body, SlotStates, Records
<1> QED
  BY <1>1, <1>3, <1>4, <1>5

LEMMA CommitWordLeaves ==
  ASSUME JournalInv, pc = "commit", NEW word \in {"ok", "garbage"}, CommitWord(word)
  PROVE  \E r \in op :
           LET s == [Body(r, BodyWords, TRUE) EXCEPT !.commit = word]
           IN /\ s \in SlotStates
              /\ flash' = [flash EXCEPT ![nextSlot] = s]
<1>1. /\ nextSlot \in Index /\ flash[nextSlot] \in SlotStates
      /\ \E r \in Writes : op = {r}
      /\ flash[nextSlot].words = BodyWords /\ flash[nextSlot].clean
      /\ flash[nextSlot].commit = "erased" /\ flash \in [Index -> SlotStates]
  BY WritingSlot DEF JournalInv, InSlot, Writing, ConfigTypeOK
<1>2. BodyWords > 0
  BY JournalAssumption
<1>3. PICK r \in op : flash[nextSlot].rec = [key |-> r.key, value |-> r.value, seq |-> nextSeq]
  BY <1>1, <1>2 DEF JournalInv, InSlot, Writing
<1> DEFINE s == [Body(r, BodyWords, TRUE) EXCEPT !.commit = word]
<1>4. flash' = [flash EXCEPT ![nextSlot].commit = word]
  BY DEF CommitWord
<1>5. flash[nextSlot] = Body(r, BodyWords, TRUE)
  BY <1>1, <1>3, SlotFields DEF SlotStates, Body
<1>6. flash' = [flash EXCEPT ![nextSlot] = s]
  BY <1>1, <1>4, <1>5
<1>7. s \in SlotStates
  BY <1>1, <1>5 DEF SlotStates
<1> QED
  BY <1>3, <1>6, <1>7

-----------------------------------------------------------------------------
(* JournalInv is inductive: one lemma per action.                          *)

LEMMA JournalAtReset == ConfigInit => JournalInv
<1> SUFFICES ASSUME ConfigInit PROVE JournalInv
  OBVIOUS
<1>1. Slots \in Nat /\ BodyWords \in Nat /\ 0 \in 0..Slots /\ 0 \in 0..BodyWords
      /\ 0 \in 0..MaxPowerLoss /\ 0 \in 0..MaxFlashFaults
  BY JournalAssumption
<1>2. ErasedSlot \in SlotStates
  BY <1>1 DEF ErasedSlot, SlotStates
<1>3. ConfigTypeOK
  <2>1. storageOk \in BOOLEAN /\ storageFull \in BOOLEAN /\ ok \in BOOLEAN
    BY Zenon DEF ConfigInit
  <2> QED
    BY <1>1, <1>2, <2>1 DEF ConfigInit, ConfigTypeOK
<1>4. \A i \in Index : Erased(flash[i])
  BY DEF ConfigInit, ErasedSlot, Erased
<1> QED
  BY <1>3, <1>4 DEF JournalInv, NoHoles, Placed, OneWrite, InSlot, Writing, ConfigInit

(* The scan of begin() stops behind the last used slot, above every        *)
(* sequence in the flash.                                                  *)
LEMMA BeginKeeps ==
  ASSUME JournalInv, Begin
  PROVE  JournalInv'
<1>1. PICK n \in 0..Slots :
        /\ ScanStops(n) /\ nextSlot' = n /\ nextSeq' \in ScannedSequences(n)
        /\ storageFull' = (n = Slots)
  BY DEF Begin
<1>2. /\ pc = "off" /\ pc' = "idle" /\ storageOk' = TRUE
      /\ UNCHANGED <<flash, w, ok, op, result, powerLoss, flashFaults>>
  BY DEF Begin
<1>3. \A i \in Index : flash[i].rec.seq \in Nat
  BY SlotFields DEF JournalInv, ConfigTypeOK
<1>4. nextSeq' \in Nat \ {0} /\ \A i \in Index : i < n /\ Valid(flash[i]) => flash[i].rec.seq < nextSeq'
  BY <1>1, <1>3 DEF ScannedSequences
<1>5. \A i \in Index : i < n => ~Erased(flash[i])
  BY <1>1 DEF ScanStops
<1>6. \A i \in Index : i >= n => Erased(flash[i])
  <2> SUFFICES ASSUME NEW i \in Index, i >= n PROVE Erased(flash[i])
    OBVIOUS
  <2>1. i \in Nat /\ i < Slots /\ n \in Nat /\ Slots \in Nat
    BY JournalAssumption DEF Index
  <2>2. n \in Index /\ n < Slots
    BY <2>1 DEF Index
  <2>3. Erased(flash[n])
    BY <1>1, <2>2 DEF ScanStops
  <2> QED
    BY <2>1, <2>2, <2>3 DEF JournalInv, NoHoles
<1>7. ConfigTypeOK'
  BY <1>1, <1>2, <1>4 DEF JournalInv, ConfigTypeOK
<1>8. NoHoles'
  BY <1>2 DEF JournalInv, NoHoles, Erased
<1>9. Placed'
  BY <1>1, <1>2, <1>4, <1>5, <1>6 DEF Placed, Erased, Valid, Index
<1> QED
  BY <1>2, <1>7, <1>8, <1>9 DEF JournalInv, OneWrite, InSlot, Writing

(* The steps before flash is touched, and the returns that do not touch it. *)
LEMMA CallsKeep ==
  ASSUME JournalInv,
         \/ \E r \in Writes : WriteCall(r)
         \/ WriteRefused \/ WriteAlreadyStored \/ WriteStart \/ WriteUnlockFails
  PROVE  JournalInv'
<1> USE DEF JournalInv
<1>1. /\ pc \in {"idle", "check"}
      /\ UNCHANGED <<flash, nextSlot, nextSeq, storageOk, storageFull, powerLoss>>
      /\ pc' \in {"idle", "check", "program"}
  BY DEF WriteCall, WriteRefused, WriteAlreadyStored, WriteStart, WriteUnlockFails, Return
<1>2. flashFaults' \in 0..MaxFlashFaults /\ result' \in {"none", "true", "false"}
  BY JournalAssumption DEF WriteCall, WriteRefused, WriteAlreadyStored, WriteStart,
     WriteUnlockFails, Return, ConfigTypeOK
<1>3. w' \in 0..BodyWords /\ ok' \in BOOLEAN
  <2>1. w' \in 0..BodyWords
    BY JournalAssumption DEF WriteCall, WriteRefused, WriteAlreadyStored, WriteStart,
       WriteUnlockFails, ConfigTypeOK
  <2>2. ok' \in BOOLEAN
    BY Zenon DEF WriteCall, WriteRefused, WriteAlreadyStored, WriteStart,
       WriteUnlockFails, ConfigTypeOK
  <2> QED
    BY <2>1, <2>2
<1>4. OneWrite' /\ op' \in SUBSET Writes
  BY DEF OneWrite, WriteCall, WriteRefused, WriteAlreadyStored, WriteStart,
     WriteUnlockFails, Return
<1>5. ConfigTypeOK'
  BY <1>1, <1>2, <1>3, <1>4 DEF ConfigTypeOK
<1>6. NoHoles'
  BY <1>1 DEF NoHoles, Erased
<1>7. Placed'
  BY <1>1 DEF Placed, Erased, Valid
<1>8. InSlot'
  <2> SUFFICES ASSUME WriteStart PROVE InSlot'
    BY <1>1 DEF InSlot, Writing, WriteCall, WriteRefused, WriteAlreadyStored, WriteStart,
       WriteUnlockFails, Return
  <2>1. /\ pc = "check" /\ storageOk /\ nextSlot < Slots /\ pc' = "program" /\ w' = 0
    BY DEF WriteStart
  <2>2. nextSlot \in Index
    BY <2>1, JournalAssumption DEF ConfigTypeOK, Index
  <2>3. Erased(flash[nextSlot])
    BY <2>1, <2>2 DEF Placed
  <2> QED
    BY <1>1, <2>1, <2>3 DEF InSlot, Writing, Erased
<1> QED
  BY <1>4, <1>5, <1>6, <1>7, <1>8

(* Once the slot of the write in progress is changed, whatever the slot    *)
(* becomes, no hole is left and all that was known of the others holds.    *)
LEMMA SlotChangeKeeps ==
  ASSUME JournalInv, Writing, NEW s \in SlotStates,
         flash' = [flash EXCEPT ![nextSlot] = s]
  PROVE  /\ NoHoles' /\ flash' \in [Index -> SlotStates] /\ flash'[nextSlot] = s
         /\ pc' \in {"program", "commit", "finish"} /\ UNCHANGED <<nextSlot, nextSeq, storageOk>>
              => Placed'
<1>1. /\ nextSlot \in Index /\ storageOk /\ pc # "off"
      /\ \A i \in Index : i > nextSlot => Erased(flash[i])
      /\ \A i \in Index : i < nextSlot =>
              ~Erased(flash[i]) /\ (Valid(flash[i]) => flash[i].rec.seq < nextSeq)
  BY WritingSlot
<1>2. /\ flash' \in [Index -> SlotStates] /\ flash'[nextSlot] = s
      /\ \A j \in Index : j # nextSlot => flash'[j] = flash[j]
  BY <1>1, OneSlotChanged DEF JournalInv
<1>3. nextSlot \in Nat /\ \A i \in Index : i \in Nat
  BY <1>1 DEF Index
<1>4. NoHoles'
  <2> SUFFICES ASSUME NEW i \in Index, NEW j \in Index, i < j, Erased(flash'[i])
               PROVE  Erased(flash'[j])
    BY DEF NoHoles, Erased
  <2>1. ~(i < nextSlot)
    BY <1>1, <1>2, <1>3
  <2>2. j > nextSlot /\ j # nextSlot
    BY <1>3, <2>1
  <2> QED
    BY <1>1, <1>2, <2>2
<1>5. pc' \in {"program", "commit", "finish"} /\ UNCHANGED <<nextSlot, nextSeq, storageOk>>
              => Placed'
  BY <1>1, <1>2, <1>3 DEF Placed, Erased, Valid
<1> QED
  BY <1>2, <1>4, <1>5

LEMMA ProgramWordKeeps ==
  ASSUME JournalInv, ProgramWord \/ ProgramWordFails
  PROVE  JournalInv'
<1>1. /\ pc = "program" /\ w < BodyWords /\ Writing
      /\ UNCHANGED <<nextSlot, nextSeq, storageOk, storageFull, op, result, powerLoss>>
      /\ pc' \in {"program", "finish"}
  BY DEF ProgramWord, ProgramWordFails, Writing
<1>2. flashFaults' \in 0..MaxFlashFaults /\ ok' \in BOOLEAN /\ w' \in 0..BodyWords
  <2>0. \/ flashFaults' = flashFaults
        \/ flashFaults < MaxFlashFaults /\ flashFaults' = flashFaults + 1
    BY Zenon DEF ProgramWord, ProgramWordFails
  <2>1. flashFaults' \in 0..MaxFlashFaults
    BY <2>0, JournalAssumption DEF JournalInv, ConfigTypeOK
  <2>3. w' = w \/ w' = w + 1
    BY Zenon DEF ProgramWord, ProgramWordFails
  <2>4. w \in Nat /\ BodyWords \in Nat
    BY JournalAssumption DEF JournalInv, ConfigTypeOK
  <2>5. w' \in 0..BodyWords
    BY <1>1, <2>3, <2>4
  <2>2. ok' \in BOOLEAN
    BY Zenon DEF ProgramWord, ProgramWordFails, JournalInv, ConfigTypeOK
  <2> QED
    BY <2>1, <2>2, <2>5
<1>3. /\ nextSlot \in Index /\ nextSlot < Slots
      /\ flash[nextSlot] \in SlotStates /\ flash[nextSlot].words = w
      /\ flash[nextSlot].commit = "erased" /\ storageOk
  BY <1>1, WritingSlot DEF JournalInv, InSlot
<1>4. CASE UNCHANGED flash
  <2>1. pc' = "finish" /\ UNCHANGED w
    <3>1. flash[nextSlot].words = flash'[nextSlot].words
      BY <1>4
    <3>2. \A good \in BOOLEAN : ~BodyWord(good)
      <4> SUFFICES ASSUME NEW good \in BOOLEAN, BodyWord(good) PROVE FALSE
        OBVIOUS
      <4>1. PICK r \in op : \E clean \in BOOLEAN :
              /\ Body(r, w + 1, clean) \in SlotStates
              /\ flash' = [flash EXCEPT ![nextSlot] = Body(r, w + 1, clean)]
        BY <1>1, BodyWordLeaves
      <4>2. flash'[nextSlot].words = w + 1
        <5>1. flash'[nextSlot] \in {Body(r, w + 1, clean) : clean \in BOOLEAN}
          BY <1>3, <4>1, OneSlotChanged DEF JournalInv
        <5> QED
          BY <5>1 DEF Body
      <4>3. w \in Nat
        BY JournalAssumption DEF JournalInv, ConfigTypeOK
      <4> QED
        BY <1>3, <3>1, <4>2, <4>3
    <3> QED
      BY <3>2 DEF ProgramWord, ProgramWordFails
  <2>2. ConfigTypeOK'
    BY <1>1, <1>2, <1>4 DEF JournalInv, ConfigTypeOK
  <2> QED
    BY <1>1, <1>4, <2>1, <2>2 DEF JournalInv, NoHoles, Placed, OneWrite, InSlot, Writing, Erased, Valid
<1>5. CASE \E good \in BOOLEAN : BodyWord(good)
  <2>1. PICK r \in op, clean \in BOOLEAN :
          /\ Body(r, w + 1, clean) \in SlotStates
          /\ flash' = [flash EXCEPT ![nextSlot] = Body(r, w + 1, clean)]
    BY <1>1, <1>5, BodyWordLeaves
  <2> DEFINE s == Body(r, w + 1, clean)
  <2>2. NoHoles' /\ flash' \in [Index -> SlotStates] /\ flash'[nextSlot] = s /\ Placed'
    BY <1>1, <2>1, SlotChangeKeeps
  <2>3. pc' = "program" => w' = w + 1
    BY <1>1 DEF ProgramWord, ProgramWordFails
  <2>4. ConfigTypeOK'
    BY <1>1, <1>2, <2>2 DEF JournalInv, ConfigTypeOK
  <2>5. /\ s.words = w + 1 /\ s.commit = "erased"
        /\ s.rec = [key |-> r.key, value |-> r.value, seq |-> nextSeq]
    BY DEF Body
  <2>6. InSlot'
    BY <1>1, <1>3, <2>1, <2>2, <2>3, <2>5 DEF InSlot, Writing
  <2> QED
    BY <1>1, <2>2, <2>4, <2>6 DEF JournalInv, OneWrite
<1> QED
  BY <1>4, <1>5 DEF ProgramWord, ProgramWordFails

LEMMA VerifyBodyKeeps ==
  ASSUME JournalInv, VerifyBody
  PROVE  JournalInv'
<1>1. /\ pc = "program" /\ w = BodyWords /\ Writing
      /\ ok' = flash[nextSlot].clean /\ pc' = IF ok' THEN "commit" ELSE "finish"
      /\ UNCHANGED <<flash, nextSlot, nextSeq, storageOk, storageFull, w, op,
                     result, powerLoss, flashFaults>>
  BY DEF VerifyBody, Writing
<1>2. flash[nextSlot] \in SlotStates
  BY <1>1, WritingSlot
<1>3. ok' \in BOOLEAN
  BY <1>1, <1>2, SlotFields
<1>4. ConfigTypeOK'
  BY <1>1, <1>3 DEF JournalInv, ConfigTypeOK
<1> QED
  BY <1>1, <1>4 DEF JournalInv, NoHoles, Placed, OneWrite, InSlot, Writing, Erased, Valid

LEMMA ProgramCommitKeeps ==
  ASSUME JournalInv, ProgramCommit \/ ProgramCommitFails
  PROVE  JournalInv'
<1>1. /\ pc = "commit" /\ pc' = "finish" /\ Writing
      /\ UNCHANGED <<nextSlot, nextSeq, storageOk, storageFull, w, op, result, powerLoss>>
  BY DEF ProgramCommit, ProgramCommitFails, Writing
<1>2. flashFaults' \in 0..MaxFlashFaults /\ ok' \in BOOLEAN
  <2>1. flashFaults' \in 0..MaxFlashFaults
    BY JournalAssumption DEF ProgramCommit, ProgramCommitFails, JournalInv, ConfigTypeOK
  <2>2. ok' \in BOOLEAN
    BY Zenon DEF ProgramCommit, ProgramCommitFails, JournalInv, ConfigTypeOK
  <2> QED
    BY <2>1, <2>2
<1>3. CASE UNCHANGED flash
  <2>1. ConfigTypeOK'
    BY <1>1, <1>2, <1>3 DEF JournalInv, ConfigTypeOK
  <2> QED
    BY <1>1, <1>3, <2>1 DEF JournalInv, NoHoles, Placed, OneWrite, InSlot, Writing, Erased, Valid
<1>4. CASE \E word \in {"ok", "garbage"} : CommitWord(word)
  <2>1. PICK r \in op, word \in {"ok", "garbage"} :
          LET s == [Body(r, BodyWords, TRUE) EXCEPT !.commit = word]
          IN s \in SlotStates /\ flash' = [flash EXCEPT ![nextSlot] = s]
    BY <1>1, <1>4, CommitWordLeaves
  <2> DEFINE s == [Body(r, BodyWords, TRUE) EXCEPT !.commit = word]
  <2>2. NoHoles' /\ flash' \in [Index -> SlotStates] /\ flash'[nextSlot] = s /\ Placed'
    BY <1>1, <2>1, SlotChangeKeeps
  <2>3. s.rec = [key |-> r.key, value |-> r.value, seq |-> nextSeq]
    BY DEF Body
  <2>4. ConfigTypeOK'
    BY <1>1, <1>2, <2>2 DEF JournalInv, ConfigTypeOK
  <2>5. InSlot'
    BY <1>1, <2>1, <2>2, <2>3 DEF JournalInv, InSlot, Writing
  <2> QED
    BY <1>1, <2>2, <2>4, <2>5 DEF JournalInv, OneWrite
<1> QED
  BY <1>3, <1>4 DEF ProgramCommit, ProgramCommitFails

(* The slot that was written is behind the new next slot: used, with the   *)
(* sequence that was spent on it, or the storage is given up.              *)
LEMMA FinishKeeps ==
  ASSUME JournalInv, Finish
  PROVE  JournalInv'
<1>1. /\ pc = "finish" /\ Writing /\ pc' = "idle" /\ op' = {}
      /\ nextSlot' = nextSlot + 1 /\ w' = 0 /\ ok' = TRUE
      /\ UNCHANGED <<flash, powerLoss, flashFaults>>
  BY DEF Finish, Return, Writing
<1>2. /\ nextSlot \in Index /\ flash[nextSlot] \in SlotStates
      /\ nextSeq \in Nat \ {0}
      /\ \A i \in Index : i > nextSlot => Erased(flash[i])
      /\ \A i \in Index : i < nextSlot =>
              ~Erased(flash[i]) /\ (Valid(flash[i]) => flash[i].rec.seq < nextSeq)
  BY <1>1, WritingSlot DEF JournalInv, ConfigTypeOK
<1>3. /\ nextSlot' \in 0..Slots /\ nextSlot \in Nat
      /\ \A i \in Index : i \in Nat /\ flash[i].rec.seq \in Nat
  BY <1>1, <1>2, JournalAssumption, SlotFields DEF Index, JournalInv, ConfigTypeOK
<1>4. /\ nextSeq' \in Nat \ {0} /\ storageOk' \in BOOLEAN /\ result' \in {"true", "false"}
      /\ storageFull' \in BOOLEAN
  <2>1. nextSeq' \in Nat \ {0}
    BY <1>2 DEF Finish
  <2>2. storageOk' \in BOOLEAN /\ result' \in {"true", "false"}
    BY Zenon DEF Finish, Return, JournalInv, ConfigTypeOK
  <2>3. storageFull' = (storageFull \/ nextSlot + 1 >= Slots)
    BY DEF Finish
  <2>4. storageFull' \in BOOLEAN
    BY <2>3, Zenon
  <2> QED
    BY <2>1, <2>2, <2>4
<1>5. ConfigTypeOK'
  BY <1>1, <1>3, <1>4, JournalAssumption DEF JournalInv, ConfigTypeOK
<1>6. storageOk' => Valid(flash[nextSlot]) /\ nextSeq' = nextSeq + 1
  BY DEF Finish
<1>7. Valid(flash[nextSlot]) =>
        ~Erased(flash[nextSlot]) /\ flash[nextSlot].rec.seq = nextSeq
  <2> SUFFICES ASSUME Valid(flash[nextSlot])
               PROVE  ~Erased(flash[nextSlot]) /\ flash[nextSlot].rec.seq = nextSeq
    OBVIOUS
  <2>1. flash[nextSlot].words > 0 /\ ~Erased(flash[nextSlot])
    BY JournalAssumption DEF Valid, Erased
  <2>2. PICK r \in op : flash[nextSlot].rec = [key |-> r.key, value |-> r.value, seq |-> nextSeq]
    BY <1>1, <2>1 DEF JournalInv, InSlot
  <2> QED
    BY <2>1, <2>2
<1>8. \A i \in Index : i >= nextSlot' => Erased(flash[i])
  BY <1>1, <1>2, <1>3
<1>9. storageOk' => \A i \in Index : i < nextSlot' =>
         ~Erased(flash[i]) /\ (Valid(flash[i]) => flash[i].rec.seq < nextSeq')
  <2> SUFFICES ASSUME storageOk', NEW i \in Index, i < nextSlot'
               PROVE  ~Erased(flash[i]) /\ (Valid(flash[i]) => flash[i].rec.seq < nextSeq')
    OBVIOUS
  <2>1. CASE i = nextSlot
    BY <1>2, <1>6, <1>7, <2>1
  <2>2. CASE i < nextSlot
    <3>1. flash[i].rec.seq \in Nat
      BY <1>3
    <3> QED
      BY <1>2, <1>6, <2>2, <3>1
  <2> QED
    BY <1>1, <1>3, <2>1, <2>2
<1>10. Placed'
  BY <1>1, <1>3, <1>8, <1>9 DEF Placed, Erased, Valid
<1> QED
  BY <1>1, <1>5, <1>10 DEF JournalInv, NoHoles, OneWrite, InSlot, Writing, Erased

LEMMA PowerLossKeeps ==
  ASSUME JournalInv, PowerLoss
  PROVE  JournalInv'
<1>1. /\ pc' = "off" /\ op' = {} /\ result' = "none"
      /\ nextSlot' = 0 /\ nextSeq' = 1 /\ storageOk' = TRUE /\ storageFull' = FALSE
      /\ w' = 0 /\ ok' = TRUE /\ UNCHANGED flashFaults
      /\ powerLoss' \in 0..MaxPowerLoss
  BY JournalAssumption DEF PowerLoss, JournalInv, ConfigTypeOK
<1>2. NoHoles' /\ flash' \in [Index -> SlotStates]
  <2>1. CASE UNCHANGED flash
    BY <2>1 DEF JournalInv, ConfigTypeOK, NoHoles, Erased
  <2>2. CASE pc = "program" /\ w < BodyWords /\ BodyWord(FALSE)
    <3>1. PICK r \in op : \E clean \in BOOLEAN :
            /\ Body(r, w + 1, clean) \in SlotStates
            /\ flash' = [flash EXCEPT ![nextSlot] = Body(r, w + 1, clean)]
      BY <2>2, BodyWordLeaves
    <3> QED
      BY <2>2, <3>1, SlotChangeKeeps DEF Writing
  <2>3. CASE pc = "commit" /\ CommitWord("garbage")
    <3>1. PICK r \in op :
            LET s == [Body(r, BodyWords, TRUE) EXCEPT !.commit = "garbage"]
            IN s \in SlotStates /\ flash' = [flash EXCEPT ![nextSlot] = s]
      BY <2>3, CommitWordLeaves
    <3> QED
      BY <2>3, <3>1, SlotChangeKeeps DEF Writing
  <2> QED
    BY <2>1, <2>2, <2>3 DEF PowerLoss
<1>3. ConfigTypeOK'
  <2>1. storageOk' \in BOOLEAN /\ storageFull' \in BOOLEAN /\ ok' \in BOOLEAN
    BY <1>1, Zenon
  <2> QED
    BY <1>1, <1>2, <2>1, JournalAssumption DEF JournalInv, ConfigTypeOK
<1> QED
  BY <1>1, <1>2, <1>3 DEF JournalInv, Placed, OneWrite, InSlot, Writing

(* JournalInv is inductive. *)
LEMMA JournalInductive == ConfigSpec => []JournalInv
<1>1. JournalInv /\ [ConfigNext]_configVars => JournalInv'
  <2> SUFFICES ASSUME JournalInv, [ConfigNext]_configVars PROVE JournalInv'
    OBVIOUS
  <2>1. CASE UNCHANGED configVars
    BY <2>1 DEF configVars, ramVars, JournalInv, ConfigTypeOK, NoHoles, Placed, OneWrite,
       InSlot, Writing, Erased, Valid
  <2>2. CASE ConfigNext
    BY <2>2, BeginKeeps, CallsKeep, ProgramWordKeeps, VerifyBodyKeeps, ProgramCommitKeeps,
       FinishKeeps, PowerLossKeeps DEF ConfigNext
  <2> QED
    BY <2>1, <2>2
<1> QED
  BY <1>1, JournalAtReset, PTL DEF ConfigSpec

-----------------------------------------------------------------------------
(* read finds what the flash holds.                                        *)

LEMMA JournalInvIsSound == JournalInv => JournalSound
<1> SUFFICES ASSUME JournalInv PROVE JournalSound
  OBVIOUS
<1>1. WritesFreshSlot
  BY WritingSlot DEF WritesFreshSlot, JournalInv, InSlot, Writing
<1>2. ReadsAll
  <2> SUFFICES ASSUME pc \in {"idle", "check"}, NEW k \in Keys
               PROVE  Read(flash, nextSlot, k) = Read(flash, Slots, k)
    BY DEF ReadsAll
  <2>1. \A i \in Index : i >= nextSlot => ~Valid(flash[i])
    <3>1. \A i \in Index : i >= nextSlot => Erased(flash[i])
      BY DEF JournalInv, Placed, ConfigTypeOK, Index
    <3> QED
      BY <3>1, SlotFields DEF JournalInv, ConfigTypeOK
  <2>2. nextSlot \in Nat /\ Slots \in Nat /\ \A i \in Index : i \in Nat /\ i < Slots
    BY JournalAssumption DEF JournalInv, ConfigTypeOK, Index
  <2>3. Holding(flash, nextSlot, k) = Holding(flash, Slots, k)
    BY <2>1, <2>2 DEF Holding
  <2> QED
    BY <2>3 DEF Read, Latest
<1> QED
  BY <1>1, <1>2 DEF JournalSound, JournalInv

(* Whatever power loss and failing words leave in the flash, write spends  *)
(* only erased slots and read misses no committed record.                  *)
THEOREM JournalKept == ConfigSpec => []JournalSound
BY JournalInductive, JournalInvIsSound, PTL

-----------------------------------------------------------------------------
(* The journal implements the store.                                       *)

(* A flash with the same valid slots and records reads the same.           *)
LEMMA ReadSame ==
  ASSUME NEW fl, NEW gl,
         \A i \in Index : /\ Valid(fl[i]) <=> Valid(gl[i])
                          /\ Valid(fl[i]) => fl[i].rec = gl[i].rec
  PROVE  \A n, k : Read(fl, n, k) = Read(gl, n, k)
<1> SUFFICES ASSUME NEW n, NEW k PROVE Read(fl, n, k) = Read(gl, n, k)
  OBVIOUS
<1>1. Holding(fl, n, k) = Holding(gl, n, k)
  BY DEF Holding
<1>2. \A i \in Holding(fl, n, k) : fl[i].rec = gl[i].rec
  BY DEF Holding
<1>3. Latest(fl, n, k) = Latest(gl, n, k)
  BY <1>1, <1>2 DEF Latest
<1>4. \A i \in Latest(fl, n, k) : fl[i].rec = gl[i].rec
  BY <1>2 DEF Latest
<1> QED
  BY <1>3, <1>4 DEF Read

(* The slot with the highest sequence of all is what its key reads.        *)
LEMMA ReadNewest ==
  ASSUME NEW fl \in [Index -> SlotStates], NEW i \in Index, NEW k,
         Valid(fl[i]), fl[i].rec.key = k,
         \A j \in Index : j # i /\ Valid(fl[j]) => fl[j].rec.seq < fl[i].rec.seq
  PROVE  Read(fl, Slots, k) = {fl[i].rec.value}
<1>1. \A j \in Index : j < Slots /\ j \in Nat /\ fl[j].rec.seq \in Nat
  BY SlotFields, JournalAssumption DEF Index
<1>2. i \in Holding(fl, Slots, k)
  BY <1>1 DEF Holding
<1>3. \A j \in Holding(fl, Slots, k) : j = i \/ fl[j].rec.seq < fl[i].rec.seq
  BY DEF Holding
<1>4. i \in Latest(fl, Slots, k)
  BY <1>1, <1>2, <1>3 DEF Latest
<1>5. \A j \in Latest(fl, Slots, k) : j = i
  <2> SUFFICES ASSUME NEW j \in Latest(fl, Slots, k), j # i PROVE FALSE
    OBVIOUS
  <2>1. /\ j \in Index /\ fl[j].rec.seq < fl[i].rec.seq
        /\ fl[i].rec.seq < fl[j].rec.seq \/ fl[i].rec.seq = fl[j].rec.seq
    BY <1>2, <1>3 DEF Latest, Holding
  <2> QED
    BY <1>1, <2>1
<1>6. Latest(fl, Slots, k) = {i}
  BY <1>4, <1>5
<1> QED
  BY <1>6 DEF Read

(* A slot that becomes valid with a sequence above all others changes what *)
(* its key reads, and no other key.                                        *)
LEMMA ReadAfterCommit ==
  ASSUME NEW fl \in [Index -> SlotStates], NEW gl \in [Index -> SlotStates],
         NEW i \in Index, \A j \in Index : j # i => gl[j] = fl[j],
         ~Valid(fl[i]), Valid(gl[i]), NEW key \in Keys, gl[i].rec.key = key,
         \A j \in Index : j # i /\ Valid(fl[j]) => fl[j].rec.seq < gl[i].rec.seq
  PROVE  [k \in Keys |-> Read(gl, Slots, k)] =
           [[k \in Keys |-> Read(fl, Slots, k)] EXCEPT ![key] = {gl[i].rec.value}]
<1>1. \A j \in Index : j # i => gl[j] = fl[j]
  OBVIOUS
<1>2. Read(gl, Slots, key) = {gl[i].rec.value}
  <2>1. \A j \in Index : j # i /\ Valid(gl[j]) => gl[j].rec.seq < gl[i].rec.seq
    BY <1>1
  <2> QED
    BY <2>1, ReadNewest
<1>3. \A k \in Keys : k # key => Read(gl, Slots, k) = Read(fl, Slots, k)
  <2> SUFFICES ASSUME NEW k \in Keys, k # key
               PROVE  Read(gl, Slots, k) = Read(fl, Slots, k)
    OBVIOUS
  <2>1. Holding(gl, Slots, k) = Holding(fl, Slots, k)
    BY <1>1 DEF Holding
  <2>2. \A j \in Holding(fl, Slots, k) : gl[j] = fl[j]
    BY <1>1 DEF Holding
  <2>3. Latest(gl, Slots, k) = Latest(fl, Slots, k)
    BY <2>1, <2>2 DEF Latest
  <2>4. \A j \in Latest(fl, Slots, k) : gl[j] = fl[j]
    BY <2>2 DEF Latest
  <2> QED
    BY <2>3, <2>4 DEF Read
<1> QED
  BY <1>2, <1>3

(* The store that the flash stands for. *)
Mapped == [k \in Keys |-> Read(flash, Slots, k)]

LEMMA MappedSame ==
  ASSUME \A i \in Index : /\ Valid(flash[i]) <=> Valid(flash'[i])
                          /\ Valid(flash[i]) => flash[i].rec = flash'[i].rec
  PROVE  Mapped' = Mapped
BY ReadSame DEF Mapped

(* Body words, and a commit word that did not take, change no value.       *)
LEMMA UncommittedStep ==
  ASSUME JournalInv,
         \/ UNCHANGED flash
         \/ pc = "program" /\ w < BodyWords /\ \E good \in BOOLEAN : BodyWord(good)
         \/ pc = "commit" /\ CommitWord("garbage")
  PROVE  Mapped' = Mapped
<1>1. CASE UNCHANGED flash
  BY <1>1 DEF Mapped
<1>2. CASE pc = "program" /\ w < BodyWords /\ \E good \in BOOLEAN : BodyWord(good)
  <2>1. PICK r \in op, clean \in BOOLEAN :
          /\ Body(r, w + 1, clean) \in SlotStates
          /\ flash' = [flash EXCEPT ![nextSlot] = Body(r, w + 1, clean)]
    BY <1>2, BodyWordLeaves
  <2>2. nextSlot \in Index /\ flash[nextSlot].commit = "erased"
    BY <1>2, WritingSlot DEF Writing, JournalInv, InSlot
  <2>3. flash'[nextSlot] = Body(r, w + 1, clean) /\ \A j \in Index : j # nextSlot => flash'[j] = flash[j]
    BY <2>1, <2>2, OneSlotChanged DEF JournalInv
  <2>4. ~Valid(flash'[nextSlot]) /\ ~Valid(flash[nextSlot])
    BY <2>2, <2>3 DEF Body, Valid
  <2> QED
    BY <2>3, <2>4, MappedSame
<1>3. CASE pc = "commit" /\ CommitWord("garbage")
  <2>1. PICK r \in op :
          LET s == [Body(r, BodyWords, TRUE) EXCEPT !.commit = "garbage"]
          IN s \in SlotStates /\ flash' = [flash EXCEPT ![nextSlot] = s]
    BY <1>3, CommitWordLeaves
  <2> DEFINE s == [Body(r, BodyWords, TRUE) EXCEPT !.commit = "garbage"]
  <2>2. nextSlot \in Index /\ flash[nextSlot].commit = "erased"
    BY <1>3, WritingSlot DEF Writing, JournalInv, InSlot
  <2>3. flash'[nextSlot] = s /\ \A j \in Index : j # nextSlot => flash'[j] = flash[j]
    BY <2>1, <2>2, OneSlotChanged DEF JournalInv
  <2>4. s.commit = "garbage"
    BY DEF Body
  <2>5. ~Valid(flash'[nextSlot]) /\ ~Valid(flash[nextSlot])
    BY <2>2, <2>3, <2>4 DEF Valid
  <2> QED
    BY <2>3, <2>5, MappedSame
<1> QED
  BY <1>1, <1>2, <1>3

(* The commit word that takes is the instant at which the write takes      *)
(* effect.                                                                 *)
LEMMA CommitTakesEffect ==
  ASSUME JournalInv, pc = "commit", CommitWord("ok")
  PROVE  \E r \in op : Mapped' = [Mapped EXCEPT ![r.key] = {r.value}]
<1>1. PICK r \in op :
        LET s == [Body(r, BodyWords, TRUE) EXCEPT !.commit = "ok"]
        IN s \in SlotStates /\ flash' = [flash EXCEPT ![nextSlot] = s]
  BY CommitWordLeaves
<1> DEFINE s == [Body(r, BodyWords, TRUE) EXCEPT !.commit = "ok"]
<1>2. /\ nextSlot \in Index /\ flash[nextSlot].commit = "erased" /\ r \in Writes
      /\ \A i \in Index : i > nextSlot => Erased(flash[i])
      /\ \A i \in Index : i < nextSlot => (Valid(flash[i]) => flash[i].rec.seq < nextSeq)
  BY WritingSlot DEF Writing, JournalInv, InSlot
<1>3. Valid(s) /\ s.rec.key = r.key /\ s.rec.value = r.value /\ s.rec.seq = nextSeq
  BY DEF Body, Valid
<1>4. \A j \in Index : j # nextSlot /\ Valid(flash[j]) => flash[j].rec.seq < s.rec.seq
  <2> SUFFICES ASSUME NEW j \in Index, j # nextSlot, Valid(flash[j])
               PROVE  flash[j].rec.seq < nextSeq
    BY <1>3
  <2>1. ~Erased(flash[j])
    BY SlotFields DEF JournalInv, ConfigTypeOK
  <2>2. j \in Nat /\ nextSlot \in Nat
    BY <1>2 DEF Index
  <2> QED
    BY <1>2, <2>1, <2>2
<1>5. ~Valid(flash[nextSlot]) /\ r.key \in Keys
  BY <1>2 DEF Valid, Writes
<1> HIDE DEF s
<1>6. flash' = [flash EXCEPT ![nextSlot] = s] /\ s \in SlotStates
  BY <1>1 DEF s
<1>7. [k \in Keys |-> Read(flash', Slots, k)] =
        [[k \in Keys |-> Read(flash, Slots, k)] EXCEPT ![r.key] = {r.value}]
  <2>1. flash \in [Index -> SlotStates]
    BY DEF JournalInv, ConfigTypeOK
  <2>2. /\ flash' \in [Index -> SlotStates] /\ flash'[nextSlot] = s
        /\ \A j \in Index : j # nextSlot => flash'[j] = flash[j]
    BY <1>2, <1>6, <2>1
  <2>3. Valid(flash'[nextSlot]) /\ flash'[nextSlot].rec.key = r.key
    BY <1>3, <2>2
  <2>4. \A j \in Index : j # nextSlot /\ Valid(flash[j])
                          => flash[j].rec.seq < flash'[nextSlot].rec.seq
    BY <1>4, <2>2
  <2> QED
    BY <1>2, <1>3, <1>5, <2>1, <2>2, <2>3, <2>4, ReadAfterCommit
<1>8. Mapped' = [Mapped EXCEPT ![r.key] = {r.value}]
  BY <1>7 DEF Mapped
<1> QED
  BY <1>8

(* A write that returns true finds its value in the store: the record it   *)
(* wrote, or the one that was there.                                       *)
LEMMA TrueIsStored ==
  ASSUME JournalInv, \/ WriteAlreadyStored
                     \/ Finish /\ ok /\ Valid(flash[nextSlot])
  PROVE  \E r \in op : Mapped[r.key] = {r.value}
<1>1. CASE WriteAlreadyStored
  <2>1. pc = "check" /\ \E r \in op : Read(flash, nextSlot, r.key) = {r.value}
    BY <1>1 DEF WriteAlreadyStored, Stored
  <2>2. ReadsAll
    BY JournalInvIsSound DEF JournalSound
  <2>3. op \in SUBSET Writes
    BY DEF JournalInv, ConfigTypeOK
  <2> QED
    BY <2>1, <2>2, <2>3 DEF ReadsAll, Mapped, Writes
<1>2. CASE Finish /\ ok /\ Valid(flash[nextSlot])
  <2>1. pc = "finish" /\ Writing
    BY <1>2 DEF Finish, Writing
  <2>2. /\ nextSlot \in Index /\ flash \in [Index -> SlotStates]
        /\ \A i \in Index : i > nextSlot => Erased(flash[i])
        /\ \A i \in Index : i < nextSlot => (Valid(flash[i]) => flash[i].rec.seq < nextSeq)
    BY <2>1, WritingSlot DEF JournalInv, ConfigTypeOK
  <2>3. flash[nextSlot].words > 0
    BY <1>2, JournalAssumption DEF Valid
  <2>4. PICK r \in op : flash[nextSlot].rec = [key |-> r.key, value |-> r.value, seq |-> nextSeq]
    BY <2>1, <2>3 DEF JournalInv, InSlot
  <2>5. \A j \in Index : j # nextSlot /\ Valid(flash[j]) => flash[j].rec.seq < nextSeq
    <3> SUFFICES ASSUME NEW j \in Index, j # nextSlot, Valid(flash[j])
                 PROVE  flash[j].rec.seq < nextSeq
      OBVIOUS
    <3>1. ~Erased(flash[j])
      BY <2>2, SlotFields
    <3>2. j \in Nat /\ nextSlot \in Nat
      BY <2>2 DEF Index
    <3> QED
      BY <2>2, <3>1, <3>2
  <2>6. Read(flash, Slots, r.key) = {r.value}
    BY <1>2, <2>2, <2>4, <2>5, ReadNewest
  <2>7. r.key \in Keys
    BY <2>4 DEF JournalInv, ConfigTypeOK, Writes
  <2> QED
    BY <2>6, <2>7 DEF Mapped
<1> QED
  BY <1>1, <1>2

(* Every step of the journal is a step of the store, or none of it.        *)
LEMMA StoreStep ==
  ASSUME JournalInv, [ConfigNext]_configVars
  PROVE  [Store!KVNext]_(Store!kvVars)
<1>1. Store!kvVars = <<Mapped, op, result>>
  BY DEF Store!kvVars, Mapped
<1>2. CASE UNCHANGED configVars
  BY <1>1, <1>2 DEF configVars, ramVars, Mapped, Store!kvVars
<1>3. CASE Begin \/ WriteStart \/ VerifyBody \/ ProgramWord \/ ProgramWordFails
  <2>1. UNCHANGED <<op, result>>
    BY <1>3 DEF Begin, WriteStart, VerifyBody, ProgramWord, ProgramWordFails
  <2>2. \/ UNCHANGED flash
        \/ pc = "program" /\ w < BodyWords /\ \E good \in BOOLEAN : BodyWord(good)
    BY <1>3 DEF Begin, WriteStart, VerifyBody, ProgramWord, ProgramWordFails
  <2>3. Mapped' = Mapped
    BY <2>2, UncommittedStep
  <2> QED
    BY <2>1, <2>3 DEF Mapped, Store!kvVars
<1>4. CASE \E r \in Writes : WriteCall(r)
  <2>1. op = {} /\ result' = "none" /\ UNCHANGED flash /\ \E r \in Writes : op' = {r}
    BY <1>4 DEF WriteCall, JournalInv, OneWrite
  <2> QED
    BY <2>1 DEF Store!KVNext, Store!Call, Store!Writes, Writes, Mapped
<1>5. CASE WriteRefused \/ WriteUnlockFails \/ (Finish /\ ~(ok /\ Valid(flash[nextSlot])))
  <2>1. op' = {} /\ result' = "false" /\ UNCHANGED flash /\ pc \in {"check", "finish"}
    BY <1>5 DEF WriteRefused, WriteUnlockFails, Finish, Return
  <2>2. op # {}
    BY <2>1 DEF JournalInv, OneWrite
  <2> QED
    BY <2>1, <2>2 DEF Store!KVNext, Store!ReturnFalse
<1>6. CASE WriteAlreadyStored \/ (Finish /\ ok /\ Valid(flash[nextSlot]))
  <2>1. op' = {} /\ result' = "true" /\ UNCHANGED flash
    BY <1>6 DEF WriteAlreadyStored, Finish, Return
  <2>2. \E r \in op : Mapped[r.key] = {r.value}
    BY <1>6, TrueIsStored
  <2> QED
    BY <2>1, <2>2 DEF Store!KVNext, Store!ReturnTrue, Mapped
<1>7. CASE ProgramCommit \/ ProgramCommitFails
  <2>1. pc = "commit" /\ UNCHANGED <<op, result>>
    BY <1>7 DEF ProgramCommit, ProgramCommitFails
  <2>2. CASE CommitWord("ok")
    <3>1. \E r \in op : Mapped' = [Mapped EXCEPT ![r.key] = {r.value}]
      BY <2>1, <2>2, CommitTakesEffect
    <3> QED
      BY <2>1, <3>1 DEF Store!KVNext, Store!TakeEffect, Mapped
  <2>3. CASE UNCHANGED flash \/ CommitWord("garbage")
    <3>1. Mapped' = Mapped
      BY <2>1, <2>3, UncommittedStep
    <3> QED
      BY <2>1, <3>1 DEF Mapped, Store!kvVars
  <2> QED
    BY <1>7, <2>2, <2>3 DEF ProgramCommit, ProgramCommitFails
<1>8. CASE PowerLoss
  <2>1. op' = {} /\ result' = "none"
    BY <1>8 DEF PowerLoss
  <2>2. \/ UNCHANGED flash
        \/ pc = "program" /\ w < BodyWords /\ BodyWord(FALSE)
        \/ pc = "commit" /\ CommitWord("garbage")
    BY <1>8 DEF PowerLoss
  <2>3. Mapped' = Mapped
    BY <2>2, UncommittedStep
  <2> QED
    BY <2>1, <2>3 DEF Store!KVNext, Store!PowerLoss, Mapped
<1> QED
  BY <1>2, <1>3, <1>4, <1>5, <1>6, <1>7, <1>8 DEF ConfigNext

LEMMA StoreAtReset == ConfigInit => Store!KVInit
<1> SUFFICES ASSUME ConfigInit PROVE Store!KVInit
  OBVIOUS
<1>1. \A i \in Index : ~Valid(flash[i])
  BY JournalAssumption DEF ConfigInit, ErasedSlot, Valid
<1>2. \A k \in Keys : Read(flash, Slots, k) = {}
  BY <1>1 DEF Read, Latest, Holding
<1> QED
  BY <1>2 DEF Store!KVInit, ConfigInit

(* The journal implements the store: a value takes effect with its commit  *)
(* word, and no torn record, failed word, full journal or restart brings   *)
(* an older value back or loses one that write reported stored.            *)
THEOREM StoreImplemented == ConfigSpec => ImplementsStore
<1>1. ConfigInit => Store!KVInit
  BY StoreAtReset
<1>2. JournalInv /\ [ConfigNext]_configVars => [Store!KVNext]_(Store!kvVars)
  BY StoreStep
<1> QED
  BY <1>1, <1>2, JournalInductive, PTL DEF ConfigSpec, ImplementsStore, Store!KVSpec

-----------------------------------------------------------------------------
(* Induction over the slots, by the least counterexample. *)

LEMMA LeastOf ==
  ASSUME NEW T, T \subseteq Nat, T # {}
  PROVE  \E x \in T : \A y \in T : ~(y < x)
<1> DEFINE R == OpToRel(<, Nat)
<1>1. IsWellFoundedOn(R, Nat)
  BY NatLessThanWellFounded
<1>2. \A x, y \in Nat : y < x => <<y, x>> \in R
  BY DEF OpToRel
<1> HIDE DEF R
<1>3. PICK x \in T : \A y \in T : ~ (<<y, x>> \in R)
  BY <1>1, WFMin
<1> QED
  BY <1>2, <1>3

(* What holds of 0 and of each number's successor up to k holds up to k.   *)
LEMMA Climb ==
  ASSUME NEW k \in Nat, NEW S, 0 \in S, \A n \in 0..(k - 1) : n \in S => n + 1 \in S
  PROVE  0..k \subseteq S
<1> DEFINE T == {n \in 0..k : n \notin S}
<1> SUFFICES ASSUME T # {} PROVE FALSE
  OBVIOUS
<1>0. T \subseteq Nat
  OBVIOUS
<1>1. PICK x \in T : \A y \in T : ~(y < x)
  <2> HIDE DEF T
  <2> QED
    BY <1>0, LeastOf
<1>2. x \in 0..k /\ x # 0 /\ x - 1 \in 0..(k - 1) /\ (x - 1) + 1 = x /\ x - 1 < x /\ x - 1 \in 0..k
  BY <1>1
<1>3. x - 1 \in S
  BY <1>1, <1>2
<1> QED
  BY <1>1, <1>2, <1>3

-----------------------------------------------------------------------------
(* The replay of the journal.                                              *)

(* What the slot makes of a table. *)
RecordOf(s) == CHOOSE r \in s.rec : TRUE
Scanned(t, s) == IF DnaValid(s) THEN Applied(t, RecordOf(s)) ELSE t

(* g is the replay of the first n slots. *)
Replays(g, fl, n) ==
  g = [k \in 0..n |-> IF k = 0 THEN NoTable ELSE Scanned(g[k - 1], fl[k - 1])]

LEMMA ReplayExists ==
  ASSUME NEW fl, NEW n \in Nat
  PROVE  \E g : Replays(g, fl, n)
<1> DEFINE S == {m \in Nat : \E g : Replays(g, fl, m)}
<1>1. 0 \in S
  <2> DEFINE g == [k \in 0..0 |-> NoTable]
  <2>1. g = [k \in 0..0 |-> IF k = 0 THEN NoTable ELSE Scanned(g[k - 1], fl[k - 1])]
    OBVIOUS
  <2> QED
    BY <2>1 DEF Replays
<1>2. ASSUME NEW m \in 0..(n - 1), m \in S PROVE m + 1 \in S
  <2>1. PICK g : Replays(g, fl, m)
    BY <1>2
  <2> DEFINE h == [k \in 0..(m + 1) |-> IF k = m + 1 THEN Scanned(g[m], fl[m]) ELSE g[k]]
  <2>2. \A k \in 0..m : g[k] = IF k = 0 THEN NoTable ELSE Scanned(g[k - 1], fl[k - 1])
    BY <2>1 DEF Replays
  <2>3. \A k \in 0..(m + 1) : h[k] = IF k = 0 THEN NoTable ELSE Scanned(h[k - 1], fl[k - 1])
    <3> TAKE k \in 0..(m + 1)
    <3>1. CASE k = m + 1
      <4>1. m \in 0..(m + 1) /\ m # m + 1 /\ k - 1 = m /\ k # 0 /\ h[m] = g[m]
        BY <3>1
      <4> QED
        BY <3>1, <4>1
    <3>2. CASE k # m + 1
      <4>1. k \in 0..m /\ h[k] = g[k] /\ (k # 0 => k - 1 \in 0..m /\ k - 1 # m + 1 /\ h[k - 1] = g[k - 1])
        BY <3>2
      <4> HIDE DEF h
      <4> QED
        BY <2>2, <4>1
    <3> QED
      BY <3>1, <3>2
  <2>4. h = [k \in 0..(m + 1) |-> h[k]]
    OBVIOUS
  <2> HIDE DEF h
  <2>5. Replays(h, fl, m + 1)
    BY <2>3, <2>4 DEF Replays
  <2> QED
    BY <2>5
<1>3. 0..n \subseteq S
  <2> HIDE DEF S
  <2> QED
    BY <1>1, <1>2, Climb
<1>4. n \in S
  BY <1>3
<1> QED
  BY <1>4

LEMMA ReplayIs ==
  ASSUME NEW fl
  PROVE  /\ Replay(fl)[0] = NoTable
         /\ \A n \in 1..DnaSlots : Replay(fl)[n] = Scanned(Replay(fl)[n - 1], fl[n - 1])
<1>0. DnaSlots \in Nat
  BY DnaAssumption
<1>1. PICK g : Replays(g, fl, DnaSlots)
  BY <1>0, ReplayExists
<1> DEFINE f == Replay(fl)
<1>2. Replays(f, fl, DnaSlots)
  <2>1. f = CHOOSE h : h = [n \in 0..DnaSlots |->
              IF n = 0 THEN NoTable
              ELSE IF DnaValid(fl[n - 1])
                   THEN Applied(h[n - 1], CHOOSE r \in fl[n - 1].rec : TRUE)
                   ELSE h[n - 1]]
    BY DEF Replay
  <2> HIDE DEF f
  <2>2. g = [n \in 0..DnaSlots |->
              IF n = 0 THEN NoTable
              ELSE IF DnaValid(fl[n - 1])
                   THEN Applied(g[n - 1], CHOOSE r \in fl[n - 1].rec : TRUE)
                   ELSE g[n - 1]]
    BY <1>1 DEF Replays, Scanned, RecordOf
  <2>3. f = [n \in 0..DnaSlots |->
              IF n = 0 THEN NoTable
              ELSE IF DnaValid(fl[n - 1])
                   THEN Applied(f[n - 1], CHOOSE r \in fl[n - 1].rec : TRUE)
                   ELSE f[n - 1]]
    BY <2>1, <2>2, Zenon
  <2> QED
    BY <2>3 DEF Replays, Scanned, RecordOf
<1> HIDE DEF f
<1>3. /\ f[0] = NoTable
      /\ \A n \in 1..DnaSlots : f[n] = Scanned(f[n - 1], fl[n - 1])
  BY <1>0, <1>2 DEF Replays
<1> QED
  BY <1>3 DEF f

LEMMA DnaConstants ==
  /\ MaxNodeId \in Nat /\ OwnId \in Ids /\ OwnUid \in Uids /\ OwnUid \notin NodeUids
  /\ NodeUids \subseteq Uids
  /\ DnaSlots \in Nat /\ DnaSlots >= 1 /\ DnaBodyWords \in Nat /\ DnaBodyWords >= 1
  /\ DnaMaxPowerLoss \in Nat /\ DnaMaxFlashFaults \in Nat
BY DnaAssumption DEF Ids, Uids

SlotShapes == [words : 0..DnaBodyWords, clean : BOOLEAN, commit : {"erased", "ok", "garbage"},
               rec : SUBSET Registrations]
Flashes == [DnaIndex -> SlotShapes]

(* A valid slot holds one registration. *)
Recorded(fl) == \A i \in DnaIndex : DnaValid(fl[i]) => \E r \in Registrations : fl[i].rec = {r}

(* A table in which each id has at most one unique id and each unique id   *)
(* at most one id.                                                         *)
Tables ==
  {t \in [Ids -> SUBSET Uids] :
     /\ \A i \in Ids : \A u, v \in t[i] : u = v
     /\ \A i, j \in Ids : t[i] \cap t[j] # {} => i = j}

LEMMA TableFields ==
  ASSUME NEW t \in Tables
  PROVE  /\ t \in [Ids -> SUBSET Uids]
         /\ \A i \in Ids : \A u, v \in t[i] : u = v
         /\ \A i, j \in Ids : t[i] \cap t[j] # {} => i = j
BY DEF Tables

LEMMA EmptyTable == NoTable \in Tables
BY DEF Tables, NoTable

LEMMA AppliedIs ==
  ASSUME NEW t \in Tables, NEW r \in Registrations
  PROVE  /\ Applied(t, r) \in Tables
         /\ Applied(t, r)[r.id] = {r.uid} /\ r.id \in Ids /\ r.uid \in Uids
         /\ \A i \in Ids : i # r.id => Applied(t, r)[i] = t[i] \ {r.uid}
<1> DEFINE a == Applied(t, r)
<1>1. r.id \in Ids /\ r.uid \in Uids
  BY DEF Registrations
<1>2. /\ a \in [Ids -> SUBSET Uids]
      /\ \A i \in Ids : a[i] = IF i = r.id THEN {r.uid} ELSE t[i] \ {r.uid}
  BY <1>1, TableFields DEF Applied
<1> HIDE DEF a
<1>3. \A i \in Ids : \A u, v \in a[i] : u = v
  BY <1>1, <1>2, TableFields
<1>4. ASSUME NEW i \in Ids, NEW j \in Ids, a[i] \cap a[j] # {} PROVE i = j
  <2>1. PICK u : u \in a[i] /\ u \in a[j]
    BY <1>4
  <2>2. CASE i # r.id /\ j # r.id
    <3>1. u \in t[i] /\ u \in t[j]
      BY <1>2, <2>1, <2>2
    <3>2. t[i] \cap t[j] # {}
      BY <3>1
    <3> QED
      BY <3>2, TableFields
  <2>3. CASE i = r.id \/ j = r.id
    BY <1>2, <2>1, <2>3
  <2> QED
    BY <2>2, <2>3
<1>5. a \in Tables
  BY <1>2, <1>3, <1>4 DEF Tables
<1> QED
  BY <1>1, <1>2, <1>5 DEF a

LEMMA ScannedIs ==
  ASSUME NEW fl, Recorded(fl), NEW t \in Tables, NEW i \in DnaIndex
  PROVE  Scanned(t, fl[i]) \in Tables
<1>1. CASE DnaValid(fl[i])
  <2>1. PICK r \in Registrations : fl[i].rec = {r}
    BY <1>1 DEF Recorded
  <2>2. RecordOf(fl[i]) = r
    BY <2>1 DEF RecordOf
  <2> QED
    BY <1>1, <2>2, AppliedIs DEF Scanned
<1>2. CASE ~DnaValid(fl[i])
  BY <1>2 DEF Scanned
<1> QED
  BY <1>1, <1>2

LEMMA ReplayTables ==
  ASSUME NEW fl, Recorded(fl)
  PROVE  \A n \in 0..DnaSlots : Replay(fl)[n] \in Tables
<1> DEFINE f == Replay(fl)
           S == {n \in 0..DnaSlots : f[n] \in Tables}
<1>0. DnaSlots \in Nat
  BY DnaConstants
<1>1. /\ f[0] = NoTable
      /\ \A n \in 1..DnaSlots : f[n] = Scanned(f[n - 1], fl[n - 1])
  BY ReplayIs
<1> HIDE DEF f
<1>2. 0 \in S
  BY <1>0, <1>1, EmptyTable
<1>3. ASSUME NEW n \in 0..(DnaSlots - 1), n \in S PROVE n + 1 \in S
  <2>1. n + 1 \in 1..DnaSlots /\ (n + 1) - 1 = n /\ n \in DnaIndex /\ n + 1 \in 0..DnaSlots
    BY <1>0 DEF DnaIndex
  <2>2. f[n + 1] = Scanned(f[n], fl[n])
    BY <1>1, <2>1
  <2>3. f[n] \in Tables
    BY <1>3
  <2>4. f[n + 1] \in Tables
    BY <2>1, <2>2, <2>3, ScannedIs
  <2> QED
    BY <2>1, <2>4
<1>4. 0..DnaSlots \subseteq S
  <2> HIDE DEF S
  <2> QED
    BY <1>0, <1>2, <1>3, Climb
<1> QED
  BY <1>4 DEF f

(* As far as two flashes agree on what a scan makes of their slots, so do  *)
(* their replays.                                                          *)
LEMMA ReplayAgrees ==
  ASSUME NEW fl, NEW gl, NEW k \in 0..DnaSlots,
         \A i \in 0..(k - 1) : /\ DnaValid(gl[i]) <=> DnaValid(fl[i])
                               /\ DnaValid(fl[i]) => gl[i].rec = fl[i].rec
  PROVE  \A n \in 0..k : Replay(gl)[n] = Replay(fl)[n]
<1> DEFINE f == Replay(fl)
           g == Replay(gl)
           S == {n \in 0..k : g[n] = f[n]}
<1>0. DnaSlots \in Nat /\ k \in Nat
  BY DnaConstants
<1>1. /\ f[0] = NoTable /\ g[0] = NoTable
      /\ \A n \in 1..DnaSlots : f[n] = Scanned(f[n - 1], fl[n - 1])
      /\ \A n \in 1..DnaSlots : g[n] = Scanned(g[n - 1], gl[n - 1])
  BY ReplayIs
<1> HIDE DEF f, g
<1>2. 0 \in S
  BY <1>0, <1>1
<1>3. ASSUME NEW n \in 0..(k - 1), n \in S PROVE n + 1 \in S
  <2>1. n + 1 \in 1..DnaSlots /\ (n + 1) - 1 = n /\ n + 1 \in 0..k
    BY <1>0
  <2>2. f[n + 1] = Scanned(f[n], fl[n]) /\ g[n + 1] = Scanned(g[n], gl[n])
    BY <1>1, <2>1
  <2>3. g[n] = f[n]
    BY <1>3
  <2>4. Scanned(f[n], fl[n]) = Scanned(f[n], gl[n])
    <3>1. CASE DnaValid(fl[n])
      <4>1. DnaValid(gl[n]) /\ gl[n].rec = fl[n].rec
        BY <3>1
      <4>2. RecordOf(gl[n]) = RecordOf(fl[n])
        BY <4>1 DEF RecordOf
      <4> QED
        BY <3>1, <4>1, <4>2 DEF Scanned
    <3>2. CASE ~DnaValid(fl[n])
      BY <3>2 DEF Scanned
    <3> QED
      BY <3>1, <3>2
  <2> QED
    BY <2>1, <2>2, <2>3, <2>4
<1>4. 0..k \subseteq S
  <2> HIDE DEF S
  <2> QED
    BY <1>0, <1>2, <1>3, Climb
<1> QED
  BY <1>4 DEF f, g

(* Behind the last valid slot the replay stays as it is. *)
LEMMA ReplayEnds ==
  ASSUME NEW fl, NEW k \in 0..DnaSlots, \A i \in DnaIndex : i >= k => ~DnaValid(fl[i])
  PROVE  Replay(fl)[DnaSlots] = Replay(fl)[k]
<1> DEFINE f == Replay(fl)
           S == {n \in 0..(DnaSlots - k) : f[k + n] = f[k]}
<1>0. DnaSlots \in Nat /\ k \in Nat /\ DnaSlots - k \in Nat
  BY DnaConstants
<1>1. \A n \in 1..DnaSlots : f[n] = Scanned(f[n - 1], fl[n - 1])
  BY ReplayIs
<1> HIDE DEF f
<1>2. 0 \in S
  BY <1>0
<1>3. ASSUME NEW n \in 0..((DnaSlots - k) - 1), n \in S PROVE n + 1 \in S
  <2>1. /\ k + (n + 1) \in 1..DnaSlots /\ (k + (n + 1)) - 1 = k + n /\ k + n \in DnaIndex
        /\ k + n >= k /\ n + 1 \in 0..(DnaSlots - k)
    BY <1>0 DEF DnaIndex
  <2>2. f[k + (n + 1)] = Scanned(f[k + n], fl[k + n])
    BY <1>1, <2>1
  <2>3. Scanned(f[k + n], fl[k + n]) = f[k + n]
    BY <2>1 DEF Scanned
  <2>4. f[k + n] = f[k]
    BY <1>3
  <2> QED
    BY <2>1, <2>2, <2>3, <2>4
<1>4. 0..(DnaSlots - k) \subseteq S
  <2> HIDE DEF S
  <2> QED
    BY <1>0, <1>2, <1>3, Climb
<1>5. DnaSlots - k \in S /\ k + (DnaSlots - k) = DnaSlots
  BY <1>0, <1>4
<1> QED
  BY <1>5 DEF f

-----------------------------------------------------------------------------
(* The invariant.                                                          *)

(* The slots are used from the first on, each for one registration. *)
DnaNoHoles == \A i, j \in DnaIndex : i < j /\ DnaErased(dnaFlash[i]) => DnaErased(dnaFlash[j])
OneRecord ==
  \A i \in DnaIndex : dnaFlash[i].words > 0 => \E r \in Registrations : dnaFlash[i].rec = {r}

(* Once begin has run, next_slot_ is the first free slot, or the one being *)
(* written, and while the storage is good the table is what the slots      *)
(* before it say.                                                          *)
DnaPlaced ==
  dnaPc # "off" =>
    /\ \A i \in DnaIndex : /\ i > dnaNextSlot => DnaErased(dnaFlash[i])
                           /\ i < dnaNextSlot => ~DnaErased(dnaFlash[i])
    /\ dnaPc \in {"idle", "register"} => \A i \in DnaIndex : i = dnaNextSlot => DnaErased(dnaFlash[i])
    /\ dnaStorageOk => table = Replay(dnaFlash)[dnaNextSlot]

(* A registration is written to a slot of its own. *)
DnaInSlot ==
  dnaPc \in {"program", "commit", "finish"} =>
    /\ dnaNextSlot < DnaSlots
    /\ dnaFlash[dnaNextSlot].words > 0 => dnaFlash[dnaNextSlot].rec = dnaOp
    /\ dnaPc = "program" => /\ dnaFlash[dnaNextSlot].words = dnaW
                            /\ dnaFlash[dnaNextSlot].commit = "erased"
    /\ dnaPc = "commit" => /\ dnaFlash[dnaNextSlot].words = DnaBodyWords
                           /\ dnaFlash[dnaNextSlot].clean
                           /\ dnaFlash[dnaNextSlot].commit = "erased"
    /\ dnaPc = "finish" => dnaFlash[dnaNextSlot].words > 0

(* Who registers what: an id that is free, but for the gateway's own, and  *)
(* to a unit that has none, if it is given one.                            *)
Asked ==
  /\ dnaPc \in {"off", "idle"} => dnaOp = {} /\ caller = "none"
  /\ dnaPc = "off" => grant = {} /\ verified = NoTable
  /\ dnaPc \notin {"off", "idle"} =>
       /\ grant = {} /\ caller # "none"
       /\ \E r \in Registrations :
            /\ dnaOp = {r}
            /\ caller = "begin" => verified = NoTable
            /\ caller # "begin" => r.uid \in NodeUids /\ table[r.id] = {}
            /\ caller = "allocation" => dnaStorageOk /\ \A i \in Ids : r.uid \notin table[i]

DnaInv ==
  /\ DnaTypeOK /\ DnaNoHoles /\ OneRecord /\ DnaPlaced /\ DnaInSlot /\ Asked
  /\ table \in Tables /\ VerifiedIsRegistered

LEMMA DnaFlashType ==
  ASSUME DnaTypeOK
  PROVE  /\ dnaFlash \in Flashes
         /\ \A i \in DnaIndex : /\ dnaFlash[i].words \in 0..DnaBodyWords
                                /\ dnaFlash[i].clean \in BOOLEAN
                                /\ dnaFlash[i].commit \in {"erased", "ok", "garbage"}
                                /\ dnaFlash[i].rec \in SUBSET Registrations
<1>1. dnaFlash \in Flashes
  BY DEF DnaTypeOK, Flashes, SlotShapes
<1>2. \A i \in DnaIndex : dnaFlash[i] \in SlotShapes
  BY <1>1 DEF Flashes
<1> QED
  BY <1>1, <1>2 DEF SlotShapes

LEMMA DnaInitInv == DnaInit => DnaInv
<1> SUFFICES ASSUME DnaInit PROVE DnaInv
  OBVIOUS
<1>1. \A i \in DnaIndex : dnaFlash[i] = DnaErasedSlot
  BY DEF DnaInit
<1>2. DnaErased(DnaErasedSlot) /\ DnaErasedSlot.words = 0
  BY DEF DnaErasedSlot, DnaErased
<1>3. DnaTypeOK
  <2>1. DnaErasedSlot \in SlotShapes
    BY DnaConstants DEF DnaErasedSlot, SlotShapes
  <2>2. NoTable \in [Ids -> SUBSET Uids] /\ NoTable \in [Ids -> SUBSET NodeUids]
    BY DEF NoTable
  <2>3. dnaFlash \in [DnaIndex -> SlotShapes]
    BY <2>1 DEF DnaInit
  <2>4. /\ table \in [Ids -> SUBSET Uids] /\ verified \in [Ids -> SUBSET NodeUids]
        /\ dnaOp = {} /\ grant = {} /\ dnaNextSlot \in 0..DnaSlots
        /\ dnaW \in 0..DnaBodyWords /\ dnaOk \in BOOLEAN
        /\ dnaPowerLoss \in 0..DnaMaxPowerLoss /\ dnaFlashFaults \in 0..DnaMaxFlashFaults
    BY <2>2, DnaConstants DEF DnaInit
  <2> QED
    BY <2>3, <2>4 DEF DnaInit, DnaTypeOK, SlotShapes
<1>4. VerifiedIsRegistered
  BY DEF DnaInit, VerifiedIsRegistered, NoTable
<1> QED
  BY <1>1, <1>2, <1>3, <1>4, EmptyTable
  DEF DnaInv, DnaInit, DnaNoHoles, OneRecord, DnaPlaced, DnaInSlot, Asked

-----------------------------------------------------------------------------
(* What the steps do to the flash.                                         *)

(* The slot being written is changed; it was not valid. *)
Touched(s) ==
  /\ dnaFlash' = [dnaFlash EXCEPT ![dnaNextSlot] = s]
  /\ s \in SlotShapes /\ s.words > 0 /\ s.rec = dnaOp

LEMMA TouchedIs ==
  ASSUME DnaInv, dnaPc \in {"program", "commit"}, NEW s, Touched(s)
  PROVE  /\ dnaNextSlot \in DnaIndex /\ dnaNextSlot \in Nat
         /\ dnaFlash' \in Flashes /\ dnaFlash'[dnaNextSlot] = s
         /\ \A i \in DnaIndex : i # dnaNextSlot => dnaFlash'[i] = dnaFlash[i]
         /\ ~DnaValid(dnaFlash[dnaNextSlot])
         /\ DnaNoHoles' /\ OneRecord'
         /\ Replay(dnaFlash')[dnaNextSlot] = Replay(dnaFlash)[dnaNextSlot]
<1>1. dnaNextSlot \in DnaIndex /\ dnaNextSlot \in Nat /\ dnaNextSlot \in 0..DnaSlots
  BY DnaConstants DEF DnaInv, DnaTypeOK, DnaInSlot, DnaIndex
<1>2. /\ dnaFlash' \in Flashes /\ dnaFlash'[dnaNextSlot] = s
      /\ \A i \in DnaIndex : i # dnaNextSlot => dnaFlash'[i] = dnaFlash[i]
  BY <1>1, DnaFlashType DEF Touched, Flashes, DnaInv
<1>3. ~DnaValid(dnaFlash[dnaNextSlot])
  BY DEF DnaInv, DnaInSlot, DnaValid
<1>4. ~DnaErased(s)
  BY DnaConstants DEF Touched, DnaErased, SlotShapes
<1>5. DnaNoHoles'
  <2> SUFFICES ASSUME NEW i \in DnaIndex, NEW j \in DnaIndex, i < j, DnaErased(dnaFlash'[i])
               PROVE  DnaErased(dnaFlash'[j])
    BY DEF DnaNoHoles
  <2>1. i # dnaNextSlot /\ DnaErased(dnaFlash[i])
    BY <1>2, <1>4
  <2>2. i > dnaNextSlot
    BY <1>1, <2>1 DEF DnaInv, DnaPlaced, DnaIndex
  <2>3. j # dnaNextSlot /\ DnaErased(dnaFlash[j])
    BY <1>1, <2>1, <2>2 DEF DnaInv, DnaNoHoles, DnaIndex
  <2> QED
    BY <1>2, <2>3
<1>6. OneRecord'
  <2>1. \E r \in Registrations : s.rec = {r}
    BY DEF Touched, DnaInv, Asked
  <2> QED
    BY <1>2, <2>1 DEF OneRecord, DnaInv
<1>7. Replay(dnaFlash')[dnaNextSlot] = Replay(dnaFlash)[dnaNextSlot]
  <2>1. \A i \in 0..(dnaNextSlot - 1) : i \in DnaIndex /\ i # dnaNextSlot
    BY <1>1, DnaConstants DEF DnaIndex
  <2>2. \A i \in 0..(dnaNextSlot - 1) : dnaFlash'[i] = dnaFlash[i]
    BY <1>2, <2>1
  <2>3. \A n \in 0..dnaNextSlot : Replay(dnaFlash')[n] = Replay(dnaFlash)[n]
    BY <1>1, <2>2, ReplayAgrees
  <2> QED
    BY <1>1, <2>3
<1> QED
  BY <1>1, <1>2, <1>3, <1>5, <1>6, <1>7

LEMMA SlotWritten ==
  ASSUME DnaInv, dnaPc \in {"program", "commit"}
  PROVE  /\ dnaNextSlot \in DnaIndex
         /\ dnaFlash[dnaNextSlot].words \in 0..DnaBodyWords
         /\ dnaFlash[dnaNextSlot].clean \in BOOLEAN
         /\ dnaFlash[dnaNextSlot].commit \in {"erased", "ok", "garbage"}
         /\ dnaFlash[dnaNextSlot] \in SlotShapes
         /\ dnaOp \in SUBSET Registrations
<1>1. dnaNextSlot \in DnaIndex
  BY DnaConstants DEF DnaInv, DnaTypeOK, DnaInSlot, DnaIndex
<1> QED
  BY <1>1, DnaFlashType DEF DnaInv, DnaTypeOK, Flashes

LEMMA BodyWordIs ==
  ASSUME DnaInv, dnaPc = "program", dnaW < DnaBodyWords, NEW good \in BOOLEAN, DnaBodyWord(good)
  PROVE  \E s : Touched(s) /\ s.words = dnaW + 1 /\ s.commit = "erased"
<1> DEFINE z == dnaFlash[dnaNextSlot]
           s == [words |-> IF z.words = dnaW THEN z.words + 1 ELSE z.words,
                 clean |-> z.clean /\ good /\ z.words = dnaW /\ z.commit = "erased",
                 commit |-> z.commit, rec |-> dnaOp]
<1>1. dnaFlash' = [dnaFlash EXCEPT ![dnaNextSlot] = s]
  BY DEF DnaBodyWord
<1>2. z.words = dnaW /\ z.commit = "erased" /\ z.clean \in BOOLEAN /\ dnaW \in 0..DnaBodyWords
  BY SlotWritten DEF DnaInv, DnaInSlot, DnaTypeOK
<1> HIDE DEF z
<1>3. /\ s.words = dnaW + 1 /\ s.commit = "erased" /\ s.rec = dnaOp /\ s.clean \in BOOLEAN
      /\ dnaW + 1 \in 0..DnaBodyWords /\ dnaW + 1 > 0
  BY <1>2, DnaConstants
<1>4. s \in SlotShapes
  BY <1>3, SlotWritten DEF SlotShapes
<1> HIDE DEF s
<1> QED
  BY <1>1, <1>3, <1>4 DEF Touched

LEMMA CommitWordIs ==
  ASSUME DnaInv, dnaPc = "commit", NEW word \in {"ok", "garbage"}, DnaCommitWord(word)
  PROVE  \E s : Touched(s) /\ (DnaValid(s) <=> word = "ok")
<1> DEFINE z == dnaFlash[dnaNextSlot]
           s == [z EXCEPT !.commit = word]
<1>1. dnaFlash' = [dnaFlash EXCEPT ![dnaNextSlot] = s]
  BY DEF DnaCommitWord
<1>2. z.words = DnaBodyWords /\ z.clean /\ z \in SlotShapes /\ z.rec = dnaOp /\ DnaBodyWords > 0
  BY SlotWritten, DnaConstants DEF DnaInv, DnaInSlot
<1> HIDE DEF z
<1>3. s \in SlotShapes /\ s.words = DnaBodyWords /\ s.clean /\ s.rec = dnaOp /\ s.commit = word
  BY <1>2 DEF SlotShapes
<1> HIDE DEF s
<1> QED
  BY <1>1, <1>2, <1>3 DEF Touched, DnaValid

(* Nothing is registered yet: the way back of a failed registration. *)
LEMMA ReturnFails ==
  ASSUME DnaInv, dnaPc \notin {"off", "idle"}, DnaReturn(FALSE), UNCHANGED table,
         dnaStorageOk' \in BOOLEAN, dnaStorageOk' => dnaStorageOk
  PROVE  /\ dnaPc' = "idle" /\ dnaOp' = {} /\ caller' = "none" /\ grant' = {}
         /\ verified' \in [Ids -> SUBSET NodeUids]
         /\ Asked' /\ VerifiedIsRegistered' /\ (table \in Tables)'
<1>1. dnaPc' = "idle" /\ dnaOp' = {} /\ caller' = "none" /\ grant' = {}
  BY DEF DnaReturn
<1>2. /\ verified \in [Ids -> SUBSET NodeUids]
      /\ verified' = IF caller # "info" THEN verified
                     ELSE [i \in Ids |-> IF \E r \in dnaOp : r.id = i THEN {} ELSE verified[i]]
  BY DEF DnaReturn, DnaInv, DnaTypeOK
<1>3. verified' \in [Ids -> SUBSET NodeUids] /\ \A i \in Ids : verified'[i] \in {{}, verified[i]}
  BY <1>2
<1>4. VerifiedIsRegistered'
  BY <1>3 DEF DnaInv, VerifiedIsRegistered
<1> QED
  BY <1>1, <1>3, <1>4 DEF Asked, DnaInv

(* A registration takes effect in the table. *)
LEMMA ReturnSucceeds ==
  ASSUME DnaInv, dnaPc = "finish", NEW r \in dnaOp, table' = Applied(table, r), DnaReturn(TRUE)
  PROVE  /\ dnaPc' = "idle" /\ dnaOp' = {} /\ caller' = "none"
         /\ grant' \in {{}, {r}}
         /\ grant' # {} => caller = "allocation"
         /\ r \in Registrations /\ dnaOp = {r}
         /\ verified' \in [Ids -> SUBSET NodeUids]
         /\ Asked' /\ VerifiedIsRegistered' /\ (table \in Tables)'
<1>1. PICK q \in Registrations :
        /\ dnaOp = {q}
        /\ caller = "begin" => verified = NoTable
        /\ caller # "begin" => q.uid \in NodeUids /\ table[q.id] = {}
        /\ caller = "allocation" => dnaStorageOk /\ \A i \in Ids : q.uid \notin table[i]
  BY DEF DnaInv, Asked
<1>2. q = r
  BY <1>1
<1>3. /\ table \in Tables /\ table' \in Tables /\ table'[r.id] = {r.uid} /\ r.id \in Ids
      /\ \A i \in Ids : i # r.id => table'[i] = table[i] \ {r.uid}
  BY <1>1, <1>2, AppliedIs DEF DnaInv
<1>4. /\ verified \in [Ids -> SUBSET NodeUids]
      /\ \A i \in Ids : verified[i] # {} => table[i] = verified[i]
  BY DEF DnaInv, DnaTypeOK, VerifiedIsRegistered
<1>5. /\ dnaPc' = "idle" /\ dnaOp' = {} /\ caller' = "none"
      /\ grant' = IF caller = "allocation" THEN {r} ELSE {}
      /\ verified' = IF caller # "info" THEN verified
           ELSE [i \in Ids |-> IF i = r.id THEN {r.uid}
                               ELSE IF table'[i] = {} THEN {} ELSE verified[i]]
  <2>1. \A i \in Ids : (\E p \in dnaOp : p.id = i) <=> i = r.id
    BY <1>1, <1>2
  <2>2. {p.uid : p \in dnaOp} = {r.uid}
    BY <1>1, <1>2
  <2> QED
    BY <1>1, <1>2, <2>1, <2>2 DEF DnaReturn
<1>6. verified' \in [Ids -> SUBSET NodeUids] /\ VerifiedIsRegistered'
  <2>1. CASE caller = "info"
    <3>1. verified' = [i \in Ids |-> IF i = r.id THEN {r.uid}
                                     ELSE IF table'[i] = {} THEN {} ELSE verified[i]]
      BY <1>5, <2>1
    <3>2. r.uid \in NodeUids
      BY <1>1, <1>2, <2>1
    <3>3. verified' \in [Ids -> SUBSET NodeUids]
      BY <1>4, <3>1, <3>2
    <3>4. ASSUME NEW i \in Ids, verified'[i] # {} PROVE table'[i] = verified'[i]
      <4>1. CASE i = r.id
        BY <1>3, <3>1, <4>1
      <4>2. CASE i # r.id
        <5>1. verified'[i] = verified[i] /\ table'[i] # {} /\ table'[i] = table[i] \ {r.uid}
          BY <1>3, <3>1, <3>4, <4>2
        <5>2. table[i] = verified[i] /\ \A u, v \in table[i] : u = v
          BY <1>3, <1>4, <3>4, <5>1, TableFields
        <5> QED
          BY <5>1, <5>2
      <4> QED
        BY <4>1, <4>2
    <3> QED
      BY <3>3, <3>4 DEF VerifiedIsRegistered
  <2>2. CASE caller = "begin"
    <3>1. verified' = NoTable
      BY <1>1, <1>5, <2>2
    <3> QED
      BY <3>1 DEF NoTable, VerifiedIsRegistered
  <2>3. CASE caller = "allocation"
    <3>1. verified' = verified /\ table[r.id] = {} /\ \A i \in Ids : r.uid \notin table[i]
      BY <1>1, <1>2, <1>5, <2>3
    <3>2. ASSUME NEW i \in Ids, verified'[i] # {} PROVE table'[i] = verified'[i]
      <4>1. table[i] = verified[i] /\ verified'[i] = verified[i] /\ i # r.id
        BY <1>4, <3>1, <3>2
      <4>2. table'[i] = table[i] \ {r.uid} /\ r.uid \notin table[i]
        BY <1>3, <3>1, <4>1
      <4> QED
        BY <4>1, <4>2
    <3> QED
      BY <1>4, <3>1, <3>2 DEF VerifiedIsRegistered
  <2> QED
    BY <2>1, <2>2, <2>3 DEF DnaInv, DnaTypeOK, Asked
<1> QED
  BY <1>1, <1>2, <1>3, <1>5, <1>6 DEF Asked

-----------------------------------------------------------------------------
(* The steps keep the invariant.                                           *)

(* Nothing of the journal is written and the scan's place stays.           *)
LEMMA JournalStays ==
  ASSUME DnaInv, dnaPc \in {"idle", "register"}, dnaPc' \in {"idle", "register"},
         UNCHANGED <<dnaFlash, table, dnaNextSlot>>, dnaStorageOk' => dnaStorageOk
  PROVE  DnaNoHoles' /\ OneRecord' /\ DnaPlaced' /\ DnaInSlot'
<1>1. DnaNoHoles' /\ OneRecord'
  BY DEF DnaInv, DnaNoHoles, OneRecord
<1>2. DnaPlaced'
  BY DEF DnaInv, DnaPlaced
<1>3. DnaInSlot'
  BY DEF DnaInSlot
<1> QED
  BY <1>1, <1>2, <1>3

LEMMA DnaBeginKeeps ==
  ASSUME DnaInv, DnaBegin
  PROVE  DnaInv'
<1>1. PICK n \in ScanEnd :
        dnaNextSlot' = n /\ table' = Replay(dnaFlash)[n] /\ dnaStorageFull' = (n = DnaSlots)
  BY DEF DnaBegin
<1>2. /\ n \in 0..DnaSlots /\ \A i \in DnaIndex : i < n => ~DnaErased(dnaFlash[i])
      /\ n < DnaSlots => DnaErased(dnaFlash[n])
  BY DEF ScanEnd
<1>3. Recorded(dnaFlash)
  BY DnaConstants DEF Recorded, DnaInv, OneRecord, DnaValid
<1>4. table' \in Tables
  BY <1>1, <1>2, <1>3, ReplayTables
<1>5. /\ dnaPc = "off" /\ dnaOp = {} /\ caller = "none" /\ grant = {} /\ verified = NoTable
      /\ dnaPc' \in {"idle", "register"} /\ dnaStorageOk' = TRUE
      /\ UNCHANGED <<dnaFlash, dnaW, dnaOk, grant, verified, bounds>>
      /\ \/ dnaPc' = "idle" /\ UNCHANGED <<dnaOp, caller>>
         \/ /\ dnaPc' = "register" /\ dnaOp' = {[id |-> OwnId, uid |-> OwnUid]}
            /\ caller' = "begin"
  BY DEF DnaBegin, DnaInv, Asked
<1>6. [id |-> OwnId, uid |-> OwnUid] \in Registrations
  BY DnaConstants DEF Registrations
<1>7. DnaTypeOK'
  <2>1. table' \in [Ids -> SUBSET Uids]
    BY <1>4, TableFields
  <2> QED
    BY <1>1, <1>2, <1>5, <1>6, <2>1 DEF DnaInv, DnaTypeOK, bounds
<1>8. DnaNoHoles' /\ OneRecord' /\ DnaInSlot'
  BY <1>5 DEF DnaInv, DnaNoHoles, OneRecord, DnaInSlot
<1>9. DnaPlaced'
  <2>1. \A i \in DnaIndex : i >= n => DnaErased(dnaFlash[i])
    <3> SUFFICES ASSUME NEW i \in DnaIndex, i >= n PROVE DnaErased(dnaFlash[i])
      OBVIOUS
    <3>1. n \in DnaIndex /\ n < DnaSlots /\ (i = n \/ n < i)
      BY <1>2, DnaConstants DEF DnaIndex
    <3> QED
      BY <1>2, <3>1 DEF DnaInv, DnaNoHoles
  <2>2. \A i \in DnaIndex : (i > n \/ i = n) => i >= n
    BY <1>2, DnaConstants DEF DnaIndex
  <2> QED
    BY <1>1, <1>2, <1>5, <2>1, <2>2 DEF DnaPlaced
<1>10. Asked'
  BY <1>5, <1>6 DEF Asked
<1>11. VerifiedIsRegistered'
  BY <1>5 DEF VerifiedIsRegistered, NoTable
<1> QED
  BY <1>4, <1>7, <1>8, <1>9, <1>10, <1>11 DEF DnaInv

LEMMA InfoKnownKeeps ==
  ASSUME DnaInv, NEW id \in Ids, NEW uid \in NodeUids, NodeInfoKnown(id, uid)
  PROVE  DnaInv'
<1>1. /\ dnaPc = "idle" /\ grant' = {}
      /\ UNCHANGED <<dnaFlash, memory, dnaPc, dnaW, dnaOk, dnaOp, caller, bounds>>
  BY DEF NodeInfoKnown
<1>2. verified' = IF Highest(Found(table, uid)) = {id}
                  THEN [i \in Ids |-> IF i = id THEN {uid}
                                      ELSE IF table[i] = {} THEN {} ELSE verified[i]]
                  ELSE [verified EXCEPT ![id] = {}]
  BY DEF NodeInfoKnown
<1>3. verified \in [Ids -> SUBSET NodeUids] /\ table \in Tables
  BY DEF DnaInv, DnaTypeOK
<1>4. verified' \in [Ids -> SUBSET NodeUids]
  BY <1>2, <1>3
<1>5. Highest(Found(table, uid)) = {id} => table[id] = {uid}
  <2>1. Highest(Found(table, uid)) = {id} => uid \in table[id]
    BY DEF Highest, Found
  <2> QED
    BY <1>3, <2>1, TableFields
<1>6. VerifiedIsRegistered'
  BY <1>1, <1>2, <1>3, <1>5 DEF DnaInv, VerifiedIsRegistered, memory
<1>7. DnaTypeOK'
  BY <1>1, <1>4 DEF DnaInv, DnaTypeOK, memory, bounds
<1>8. DnaNoHoles' /\ OneRecord' /\ DnaPlaced' /\ DnaInSlot'
  BY <1>1, JournalStays DEF memory
<1>9. Asked'
  BY <1>1 DEF DnaInv, Asked
<1> QED
  BY <1>1, <1>6, <1>7, <1>8, <1>9 DEF DnaInv, memory

(* A registration is asked for. *)
LEMMA AskKeeps ==
  ASSUME DnaInv, dnaPc = "idle", dnaPc' = "register", grant' = {},
         NEW r \in Registrations, dnaOp' = {r}, r.uid \in NodeUids, table[r.id] = {},
         \/ caller' = "info"
         \/ caller' = "allocation" /\ dnaStorageOk /\ \A i \in Ids : r.uid \notin table[i],
         UNCHANGED <<dnaFlash, memory, dnaW, dnaOk, verified, bounds>>
  PROVE  DnaInv'
<1>1. DnaTypeOK'
  BY DEF DnaInv, DnaTypeOK, memory, bounds
<1>2. DnaNoHoles' /\ OneRecord' /\ DnaPlaced' /\ DnaInSlot'
  BY JournalStays DEF memory
<1>3. Asked'
  BY DEF Asked, memory
<1>4. VerifiedIsRegistered' /\ (table \in Tables)'
  BY DEF DnaInv, VerifiedIsRegistered, memory
<1> QED
  BY <1>1, <1>2, <1>3, <1>4 DEF DnaInv

LEMMA AllocationIs ==
  ASSUME DnaInv, NEW uid \in NodeUids, AllocationNew(uid)
  PROVE  \E r \in Registrations :
           /\ dnaOp' = {r} /\ r.uid = uid /\ table[r.id] = {}
           /\ \A i \in Ids : r.uid \notin table[i]
<1>1. PICK i \in Highest(FreeIds) : dnaOp' = {[id |-> i, uid |-> uid]}
  BY DEF AllocationNew
<1>2. i \in Ids /\ table[i] = {}
  BY DEF Highest, FreeIds
<1>3. \A j \in Ids : uid \notin table[j]
  BY DEF AllocationNew, Found
<1>4. [id |-> i, uid |-> uid] \in Registrations
  BY <1>2, DnaConstants DEF Registrations
<1> QED
  BY <1>1, <1>2, <1>3, <1>4

LEMMA KnownIs ==
  ASSUME DnaInv, NEW uid \in NodeUids, AllocationKnown(uid)
  PROVE  \E r \in Registrations : grant' = {r} /\ table[r.id] = {r.uid}
<1>1. PICK i \in Highest(Found(table, uid)) : grant' = {[id |-> i, uid |-> uid]}
  BY DEF AllocationKnown
<1>2. i \in Ids /\ uid \in table[i]
  BY DEF Highest, Found
<1>3. [id |-> i, uid |-> uid] \in Registrations
  BY <1>2, DnaConstants DEF Registrations
<1>4. table[i] = {uid}
  BY <1>2, TableFields DEF DnaInv
<1> QED
  BY <1>1, <1>3, <1>4

(* The answers that register nothing. *)
LEMMA AnswerKeeps ==
  ASSUME DnaInv, AllocationRefused \/ \E uid \in NodeUids : AllocationKnown(uid)
  PROVE  DnaInv'
<1>1. /\ dnaPc = "idle" /\ dnaStorageFull' \in BOOLEAN /\ grant' \in SUBSET Registrations
      /\ UNCHANGED <<dnaFlash, table, dnaNextSlot, dnaStorageOk, dnaPc, dnaW, dnaOk, dnaOp, caller,
                     verified, bounds>>
  <2>1. CASE AllocationRefused
    BY <2>1 DEF AllocationRefused, DnaInv, DnaTypeOK
  <2>2. CASE \E uid \in NodeUids : AllocationKnown(uid)
    <3>1. PICK uid \in NodeUids : AllocationKnown(uid)
      BY <2>2
    <3>2. grant' \in SUBSET Registrations
      BY <3>1, KnownIs
    <3> QED
      BY <3>1, <3>2 DEF AllocationKnown, memory, DnaInv, DnaTypeOK
  <2> QED
    BY <2>1, <2>2
<1>2. DnaTypeOK'
  BY <1>1 DEF DnaInv, DnaTypeOK, bounds
<1>3. DnaNoHoles' /\ OneRecord' /\ DnaPlaced' /\ DnaInSlot'
  BY <1>1, JournalStays
<1>4. Asked' /\ VerifiedIsRegistered' /\ (table \in Tables)'
  BY <1>1 DEF DnaInv, Asked, VerifiedIsRegistered
<1> QED
  BY <1>2, <1>3, <1>4 DEF DnaInv

LEMMA AppendFailsKeeps ==
  ASSUME DnaInv, AppendRefused \/ AppendUnlockFails
  PROVE  DnaInv'
<1>1. /\ dnaPc = "register" /\ DnaReturn(FALSE)
      /\ UNCHANGED <<dnaFlash, table, dnaNextSlot, dnaW, dnaOk, dnaPowerLoss>>
      /\ dnaStorageOk' \in BOOLEAN /\ dnaStorageFull' \in BOOLEAN
      /\ dnaStorageOk' => dnaStorageOk
      /\ dnaFlashFaults' \in 0..DnaMaxFlashFaults
  <2>1. CASE AppendRefused
    BY <2>1 DEF AppendRefused, DnaInv, DnaTypeOK, bounds
  <2>2. CASE AppendUnlockFails
    <3>1. dnaFlashFaults' \in 0..DnaMaxFlashFaults
      BY <2>2, DnaConstants DEF AppendUnlockFails, DnaInv, DnaTypeOK
    <3>2. dnaStorageFull \in BOOLEAN
      BY DEF DnaInv, DnaTypeOK
    <3> QED
      BY <2>2, <3>1, <3>2 DEF AppendUnlockFails
  <2> QED
    BY <2>1, <2>2
<1>2. /\ dnaPc' = "idle" /\ dnaOp' = {} /\ caller' = "none" /\ grant' = {}
      /\ verified' \in [Ids -> SUBSET NodeUids]
      /\ Asked' /\ VerifiedIsRegistered' /\ (table \in Tables)'
  BY <1>1, ReturnFails
<1>3. DnaTypeOK'
  BY <1>1, <1>2 DEF DnaInv, DnaTypeOK
<1>4. DnaNoHoles' /\ OneRecord' /\ DnaPlaced' /\ DnaInSlot'
  BY <1>1, <1>2, JournalStays
<1> QED
  BY <1>2, <1>3, <1>4 DEF DnaInv

LEMMA StartKeeps ==
  ASSUME DnaInv, AppendStart
  PROVE  DnaInv'
<1>1. /\ dnaPc = "register" /\ dnaNextSlot < DnaSlots /\ dnaPc' = "program"
      /\ dnaW' = 0 /\ dnaOk' = TRUE
      /\ UNCHANGED <<dnaFlash, memory, dnaOp, caller, grant, verified, bounds>>
  BY DEF AppendStart
<1>2. dnaNextSlot \in DnaIndex /\ DnaErased(dnaFlash[dnaNextSlot])
  BY <1>1, DnaConstants DEF DnaInv, DnaTypeOK, DnaPlaced, DnaIndex
<1>3. DnaTypeOK'
  BY <1>1, DnaConstants DEF DnaInv, DnaTypeOK, memory, bounds
<1>4. DnaNoHoles' /\ OneRecord' /\ DnaPlaced'
  BY <1>1 DEF DnaInv, DnaNoHoles, OneRecord, DnaPlaced, memory
<1>5. DnaInSlot'
  BY <1>1, <1>2 DEF DnaInSlot, DnaErased, memory
<1>6. Asked' /\ VerifiedIsRegistered' /\ (table \in Tables)'
  BY <1>1 DEF DnaInv, Asked, VerifiedIsRegistered, memory
<1> QED
  BY <1>3, <1>4, <1>5, <1>6 DEF DnaInv

(* A step within the write: the slot is changed, or left as it is. *)
Goes(s) ==
  /\ UNCHANGED <<memory, dnaOp, caller, grant, verified>>
  /\ dnaW' \in 0..DnaBodyWords /\ dnaOk' \in BOOLEAN
  /\ dnaPowerLoss' \in 0..DnaMaxPowerLoss /\ dnaFlashFaults' \in 0..DnaMaxFlashFaults
  /\ dnaPc' \in {"program", "commit", "finish"}
  /\ dnaPc' = "program" => s.words = dnaW' /\ s.commit = "erased"
  /\ dnaPc' = "commit" => s.words = DnaBodyWords /\ s.clean /\ s.commit = "erased"

Wrote(s) ==
  \/ Touched(s)
  \/ UNCHANGED dnaFlash /\ s = dnaFlash[dnaNextSlot] /\ s.words > 0

LEMMA WriteKeeps ==
  ASSUME DnaInv, dnaPc \in {"program", "commit"}, NEW s, Goes(s), Wrote(s)
  PROVE  DnaInv'
<1>1. /\ dnaNextSlot \in DnaIndex /\ dnaFlash' \in Flashes /\ dnaFlash'[dnaNextSlot] = s
      /\ \A i \in DnaIndex : i # dnaNextSlot => dnaFlash'[i] = dnaFlash[i]
      /\ DnaNoHoles' /\ OneRecord'
      /\ Replay(dnaFlash')[dnaNextSlot] = Replay(dnaFlash)[dnaNextSlot]
      /\ s.words > 0 /\ s.rec = dnaOp
  <2>1. CASE Touched(s)
    BY <2>1, TouchedIs DEF Touched
  <2>2. CASE UNCHANGED dnaFlash /\ s = dnaFlash[dnaNextSlot] /\ s.words > 0
    BY <2>2, SlotWritten, DnaFlashType DEF DnaInv, DnaNoHoles, OneRecord, DnaInSlot
  <2> QED
    BY <2>1, <2>2 DEF Wrote
<1>2. /\ UNCHANGED <<memory, dnaOp, caller, grant, verified>>
      /\ dnaPc' \in {"program", "commit", "finish"}
  BY DEF Goes
<1>3. DnaTypeOK'
  BY <1>1 DEF Goes, DnaInv, DnaTypeOK, memory, Flashes, SlotShapes
<1>4. DnaPlaced'
  <2>1. \A i \in DnaIndex : (i > dnaNextSlot \/ i < dnaNextSlot) => i # dnaNextSlot
    BY <1>1, DnaConstants DEF DnaIndex
  <2>2. /\ \A i \in DnaIndex : i > dnaNextSlot => DnaErased(dnaFlash[i])
        /\ \A i \in DnaIndex : i < dnaNextSlot => ~DnaErased(dnaFlash[i])
        /\ dnaStorageOk => table = Replay(dnaFlash)[dnaNextSlot]
    BY DEF DnaInv, DnaPlaced
  <2> QED
    BY <1>1, <1>2, <2>1, <2>2 DEF DnaPlaced, memory
<1>5. DnaInSlot'
  BY <1>1, <1>2 DEF Goes, DnaInv, DnaInSlot, memory
<1>6. Asked' /\ VerifiedIsRegistered' /\ (table \in Tables)'
  BY <1>2 DEF DnaInv, Asked, VerifiedIsRegistered, memory
<1> QED
  BY <1>1, <1>3, <1>4, <1>5, <1>6 DEF DnaInv

LEMMA WordKeeps ==
  ASSUME DnaInv, ~FaultsLeaveHoles,
         DnaProgramWord \/ DnaProgramWordFails \/ DnaVerifyBody
  PROVE  /\ dnaPc = "program"
         /\ \E s : Goes(s) /\ Wrote(s) /\ s.commit = "erased"
<1>0. /\ dnaW \in 0..DnaBodyWords /\ dnaFlashFaults \in 0..DnaMaxFlashFaults /\ dnaOk \in BOOLEAN
      /\ dnaPowerLoss \in 0..DnaMaxPowerLoss
  BY DEF DnaInv, DnaTypeOK
<1>1. CASE DnaProgramWord
  <2>1. PICK s : Touched(s) /\ s.words = dnaW + 1 /\ s.commit = "erased"
    BY <1>1, BodyWordIs DEF DnaProgramWord
  <2>2. Goes(s)
    BY <1>0, <1>1, <2>1, DnaConstants DEF DnaProgramWord, Goes, bounds
  <2>3. dnaPc = "program" /\ Wrote(s)
    BY <1>1, <2>1 DEF DnaProgramWord, Wrote
  <2> QED
    BY <2>1, <2>2, <2>3
<1>2. CASE DnaProgramWordFails
  <2>0. /\ dnaPc = "program" /\ dnaW < DnaBodyWords
        /\ dnaFlashFaults' \in 0..DnaMaxFlashFaults
        /\ UNCHANGED <<memory, dnaOp, caller, grant, verified, dnaPowerLoss>>
    BY <1>0, <1>2, DnaConstants DEF DnaProgramWordFails
  <2>1. \/ DnaBodyWord(FALSE) /\ dnaOk' = FALSE /\ dnaPc' = "finish" /\ UNCHANGED dnaW
        \/ dnaW > 0 /\ UNCHANGED dnaFlash /\ dnaOk' = FALSE /\ dnaPc' = "finish" /\ UNCHANGED dnaW
        \/ DnaBodyWord(FALSE) /\ dnaW' = dnaW + 1 /\ UNCHANGED <<dnaOk, dnaPc>>
    BY <1>2 DEF DnaProgramWordFails
  <2>2. CASE DnaBodyWord(FALSE)
    <3>1. PICK s : Touched(s) /\ s.words = dnaW + 1 /\ s.commit = "erased"
      BY <2>0, <2>2, BodyWordIs
    <3>2. /\ dnaW' \in 0..DnaBodyWords /\ dnaOk' \in BOOLEAN /\ dnaPc' \in {"program", "finish"}
          /\ dnaPc' = "program" => dnaW' = dnaW + 1
      <4>1. dnaW + 1 \in 0..DnaBodyWords
        BY <1>0, <2>0, DnaConstants
      <4> QED
        BY <1>0, <2>0, <2>1, <4>1
    <3>3. Goes(s)
      BY <1>0, <2>0, <3>1, <3>2 DEF Goes
    <3> QED
      BY <2>0, <3>1, <3>3 DEF Wrote
  <2>3. CASE dnaW > 0 /\ UNCHANGED dnaFlash /\ dnaOk' = FALSE /\ dnaPc' = "finish" /\ UNCHANGED dnaW
    <3>1. dnaFlash[dnaNextSlot].words = dnaW /\ dnaFlash[dnaNextSlot].commit = "erased"
      BY <2>0 DEF DnaInv, DnaInSlot
    <3>2. Goes(dnaFlash[dnaNextSlot])
      BY <1>0, <2>0, <2>3 DEF Goes
    <3> QED
      BY <2>0, <2>3, <3>1, <3>2 DEF Wrote
  <2> QED
    BY <2>1, <2>2, <2>3
<1>3. CASE DnaVerifyBody
  <2>1. /\ dnaPc = "program" /\ dnaW = DnaBodyWords
        /\ dnaOk' = dnaFlash[dnaNextSlot].clean
        /\ dnaPc' = IF dnaOk' THEN "commit" ELSE "finish"
        /\ UNCHANGED <<dnaFlash, memory, dnaW, dnaOp, caller, grant, verified, bounds>>
    BY <1>3 DEF DnaVerifyBody
  <2>2. /\ dnaFlash[dnaNextSlot].words = DnaBodyWords /\ dnaFlash[dnaNextSlot].commit = "erased"
        /\ dnaFlash[dnaNextSlot].clean \in BOOLEAN /\ DnaBodyWords > 0
    BY <2>1, SlotWritten, DnaConstants DEF DnaInv, DnaInSlot
  <2>3. Goes(dnaFlash[dnaNextSlot])
    BY <1>0, <2>1, <2>2 DEF Goes, bounds
  <2> QED
    BY <2>1, <2>2, <2>3 DEF Wrote
<1> QED
  BY <1>1, <1>2, <1>3

LEMMA CommitKeeps ==
  ASSUME DnaInv, DnaProgramCommit \/ DnaProgramCommitFails
  PROVE  /\ dnaPc = "commit"
         /\ \E s : Goes(s) /\ Wrote(s)
<1>0. /\ dnaW \in 0..DnaBodyWords /\ dnaFlashFaults \in 0..DnaMaxFlashFaults /\ dnaOk \in BOOLEAN
      /\ dnaPowerLoss \in 0..DnaMaxPowerLoss
  BY DEF DnaInv, DnaTypeOK
<1>1. /\ dnaPc = "commit" /\ dnaPc' = "finish" /\ dnaFlashFaults' \in 0..DnaMaxFlashFaults
      /\ dnaOk' \in BOOLEAN
      /\ UNCHANGED <<memory, dnaW, dnaOp, caller, grant, verified, dnaPowerLoss>>
      /\ UNCHANGED dnaFlash \/ \E word \in {"ok", "garbage"} : DnaCommitWord(word)
  <2>1. CASE DnaProgramCommit
    BY <1>0, <2>1 DEF DnaProgramCommit, bounds
  <2>2. CASE DnaProgramCommitFails
    <3>1. dnaFlashFaults' \in 0..DnaMaxFlashFaults
      BY <1>0, <2>2, DnaConstants DEF DnaProgramCommitFails
    <3> QED
      BY <1>0, <2>2, <3>1 DEF DnaProgramCommitFails
  <2> QED
    BY <2>1, <2>2
<1>2. \A s : Goes(s)
  BY <1>0, <1>1 DEF Goes
<1>3. CASE UNCHANGED dnaFlash
  <2>1. dnaFlash[dnaNextSlot].words > 0
    BY <1>1, DnaConstants DEF DnaInv, DnaInSlot
  <2> QED
    BY <1>1, <1>2, <1>3, <2>1 DEF Wrote
<1>4. CASE \E word \in {"ok", "garbage"} : DnaCommitWord(word)
  <2>1. PICK word \in {"ok", "garbage"} : DnaCommitWord(word)
    BY <1>4
  <2>2. PICK s : Touched(s)
    BY <1>1, <2>1, CommitWordIs
  <2> QED
    BY <1>1, <1>2, <2>2 DEF Wrote
<1> QED
  BY <1>1, <1>3, <1>4

LEMMA FinishIs ==
  ASSUME DnaInv, DnaFinish
  PROVE  /\ dnaPc = "finish" /\ dnaPc' = "idle" /\ dnaOp' = {} /\ caller' = "none"
         /\ UNCHANGED dnaFlash /\ dnaNextSlot' = dnaNextSlot + 1 /\ dnaNextSlot \in DnaIndex
         /\ dnaStorageOk' => dnaStorageOk
         /\ verified' \in [Ids -> SUBSET NodeUids]
         /\ Asked' /\ VerifiedIsRegistered' /\ (table \in Tables)'
         /\ dnaStorageOk' \in BOOLEAN /\ dnaStorageFull' \in BOOLEAN
         /\ dnaW' = 0 /\ dnaOk' = TRUE /\ UNCHANGED bounds
         /\ \/ grant' = {} /\ ~dnaStorageOk'
            \/ \E r \in Registrations :
                 /\ dnaOp = {r} /\ table' = Applied(table, r) /\ dnaFlash[dnaNextSlot].rec = {r}
                 /\ DnaValid(dnaFlash[dnaNextSlot]) /\ grant' \in {{}, {r}}
                 /\ grant' # {} => dnaStorageOk
<1>0. /\ dnaPc = "finish" /\ UNCHANGED dnaFlash /\ dnaNextSlot' = dnaNextSlot + 1
      /\ dnaW' = 0 /\ dnaOk' = TRUE /\ UNCHANGED bounds
  BY DEF DnaFinish
<1>1. dnaNextSlot \in DnaIndex /\ dnaStorageOk \in BOOLEAN /\ dnaStorageFull \in BOOLEAN
  BY <1>0, DnaConstants DEF DnaInv, DnaTypeOK, DnaInSlot, DnaIndex
<1>2. CASE dnaOk /\ DnaValid(dnaFlash[dnaNextSlot])
  <2>1. PICK r \in dnaOp : table' = Applied(table, r)
    BY <1>2 DEF DnaFinish
  <2>2. /\ DnaReturn(TRUE) /\ UNCHANGED dnaStorageOk
        /\ dnaStorageFull' = (dnaStorageFull \/ dnaNextSlot + 1 >= DnaSlots)
    BY <1>2 DEF DnaFinish
  <2>3. /\ dnaPc' = "idle" /\ dnaOp' = {} /\ caller' = "none"
        /\ grant' \in {{}, {r}} /\ (grant' # {} => caller = "allocation")
        /\ r \in Registrations /\ dnaOp = {r}
        /\ verified' \in [Ids -> SUBSET NodeUids]
        /\ Asked' /\ VerifiedIsRegistered' /\ (table \in Tables)'
    BY <1>0, <2>1, <2>2, ReturnSucceeds
  <2>4. dnaFlash[dnaNextSlot].rec = {r}
    BY <1>0, <1>2, <2>3, DnaConstants DEF DnaInv, DnaInSlot, DnaValid
  <2>5. caller = "allocation" => dnaStorageOk
    BY <1>0 DEF DnaInv, Asked
  <2>6. dnaStorageFull' \in BOOLEAN
    BY <1>1, <2>2
  <2> QED
    BY <1>0, <1>1, <1>2, <2>1, <2>2, <2>3, <2>4, <2>5, <2>6
<1>3. CASE ~(dnaOk /\ DnaValid(dnaFlash[dnaNextSlot]))
  <2>1. dnaStorageOk' = FALSE /\ UNCHANGED <<table, dnaStorageFull>> /\ DnaReturn(FALSE)
    BY <1>3 DEF DnaFinish
  <2>2. /\ dnaPc' = "idle" /\ dnaOp' = {} /\ caller' = "none" /\ grant' = {}
        /\ verified' \in [Ids -> SUBSET NodeUids]
        /\ Asked' /\ VerifiedIsRegistered' /\ (table \in Tables)'
    BY <1>0, <2>1, ReturnFails
  <2> QED
    BY <1>0, <1>1, <2>1, <2>2
<1> QED
  BY <1>2, <1>3

LEMMA DnaFinishKeeps ==
  ASSUME DnaInv, DnaFinish
  PROVE  DnaInv'
<1>1. /\ dnaPc = "finish" /\ dnaPc' = "idle" /\ dnaOp' = {} /\ caller' = "none"
      /\ UNCHANGED dnaFlash /\ dnaNextSlot' = dnaNextSlot + 1 /\ dnaNextSlot \in DnaIndex
      /\ dnaStorageOk' => dnaStorageOk
      /\ verified' \in [Ids -> SUBSET NodeUids]
      /\ Asked' /\ VerifiedIsRegistered' /\ (table \in Tables)'
      /\ dnaStorageOk' \in BOOLEAN /\ dnaStorageFull' \in BOOLEAN
      /\ dnaW' = 0 /\ dnaOk' = TRUE /\ UNCHANGED bounds
  BY FinishIs
<1>2. grant' \in SUBSET Registrations
  BY FinishIs
<1>3. dnaNextSlot' \in 0..DnaSlots
  BY <1>1, DnaConstants DEF DnaIndex
<1>4. DnaTypeOK'
  <2>1. table' \in [Ids -> SUBSET Uids]
    BY <1>1, TableFields
  <2> QED
    BY <1>1, <1>2, <1>3, <2>1, DnaConstants DEF DnaInv, DnaTypeOK, bounds
<1>5. DnaNoHoles' /\ OneRecord' /\ DnaInSlot'
  BY <1>1 DEF DnaInv, DnaNoHoles, OneRecord, DnaInSlot
<1>6. dnaStorageOk' => table' = Replay(dnaFlash)[dnaNextSlot + 1]
  <2> SUFFICES ASSUME dnaStorageOk' PROVE table' = Replay(dnaFlash)[dnaNextSlot + 1]
    OBVIOUS
  <2>1. PICK r \in Registrations :
          /\ table' = Applied(table, r) /\ dnaFlash[dnaNextSlot].rec = {r}
          /\ DnaValid(dnaFlash[dnaNextSlot])
    BY FinishIs
  <2>2. table = Replay(dnaFlash)[dnaNextSlot]
    BY <1>1 DEF DnaInv, DnaPlaced
  <2>3. dnaNextSlot + 1 \in 1..DnaSlots /\ (dnaNextSlot + 1) - 1 = dnaNextSlot
    BY <1>1, DnaConstants DEF DnaIndex
  <2>4. Replay(dnaFlash)[dnaNextSlot + 1] = Scanned(table, dnaFlash[dnaNextSlot])
    BY <2>2, <2>3, ReplayIs
  <2>5. RecordOf(dnaFlash[dnaNextSlot]) = r
    BY <2>1 DEF RecordOf
  <2> QED
    BY <2>1, <2>4, <2>5 DEF Scanned
<1>7. DnaPlaced'
  <2>1. \A i \in DnaIndex : /\ i >= dnaNextSlot + 1 => i > dnaNextSlot
                            /\ i < dnaNextSlot + 1 => i < dnaNextSlot \/ i = dnaNextSlot
    BY <1>1 DEF DnaIndex
  <2>2. ~DnaErased(dnaFlash[dnaNextSlot])
    BY <1>1, DnaFlashType DEF DnaInv, DnaInSlot, DnaErased
  <2>3. \A i \in DnaIndex : /\ i > dnaNextSlot => DnaErased(dnaFlash[i])
                            /\ i < dnaNextSlot => ~DnaErased(dnaFlash[i])
    BY <1>1 DEF DnaInv, DnaPlaced
  <2>4. \A i \in DnaIndex : i > dnaNextSlot + 1 \/ i = dnaNextSlot + 1 => i >= dnaNextSlot + 1
    BY <1>1 DEF DnaIndex
  <2> QED
    BY <1>1, <1>6, <2>1, <2>2, <2>3, <2>4 DEF DnaPlaced
<1> QED
  BY <1>1, <1>4, <1>5, <1>7 DEF DnaInv

LEMMA PowerLossIs ==
  ASSUME DnaInv, DnaPowerLoss
  PROVE  \/ UNCHANGED dnaFlash
         \/ dnaPc \in {"program", "commit"} /\ \E s : Touched(s) /\ ~DnaValid(s)
<1>1. CASE dnaPc = "program" /\ dnaW < DnaBodyWords /\ DnaBodyWord(FALSE)
  <2>1. PICK s : Touched(s) /\ s.words = dnaW + 1 /\ s.commit = "erased"
    BY <1>1, BodyWordIs
  <2>2. ~DnaValid(s)
    BY <2>1 DEF DnaValid
  <2> QED
    BY <1>1, <2>1, <2>2
<1>2. CASE dnaPc = "commit" /\ DnaCommitWord("garbage")
  <2>1. PICK s : Touched(s) /\ (DnaValid(s) <=> "garbage" = "ok")
    BY <1>2, CommitWordIs
  <2> QED
    BY <1>2, <2>1
<1> QED
  BY <1>1, <1>2 DEF DnaPowerLoss

LEMMA DnaPowerLossKeeps ==
  ASSUME DnaInv, DnaPowerLoss
  PROVE  DnaInv'
<1>1. dnaFlash' \in Flashes /\ DnaNoHoles' /\ OneRecord'
  <2>1. CASE UNCHANGED dnaFlash
    BY <2>1, DnaFlashType DEF DnaInv, DnaNoHoles, OneRecord
  <2>2. CASE dnaPc \in {"program", "commit"} /\ \E s : Touched(s) /\ ~DnaValid(s)
    BY <2>2, TouchedIs
  <2> QED
    BY <2>1, <2>2, PowerLossIs
<1>2. /\ dnaPc' = "off" /\ dnaOp' = {} /\ caller' = "none" /\ grant' = {}
      /\ table' = NoTable /\ dnaNextSlot' = 0 /\ dnaStorageOk' = TRUE /\ dnaStorageFull' = FALSE
      /\ dnaW' = 0 /\ dnaOk' = TRUE /\ verified' = NoTable /\ UNCHANGED dnaFlashFaults
  BY DEF DnaPowerLoss
<1>3. dnaPowerLoss' \in 0..DnaMaxPowerLoss
  BY DnaConstants DEF DnaPowerLoss, DnaInv, DnaTypeOK
<1>4. NoTable \in [Ids -> SUBSET Uids] /\ NoTable \in [Ids -> SUBSET NodeUids]
  BY DEF NoTable
<1>5. DnaTypeOK'
  <2>1. 0 \in 0..DnaSlots /\ 0 \in 0..DnaBodyWords
    BY DnaConstants
  <2>2. dnaFlashFaults \in 0..DnaMaxFlashFaults
    BY DEF DnaInv, DnaTypeOK
  <2> QED
    BY <1>1, <1>2, <1>3, <1>4, <2>1, <2>2 DEF DnaTypeOK, Flashes, SlotShapes
<1>6. DnaPlaced' /\ DnaInSlot' /\ Asked' /\ (table \in Tables)'
  BY <1>2, EmptyTable DEF DnaPlaced, DnaInSlot, Asked
<1>7. VerifiedIsRegistered'
  BY <1>2 DEF VerifiedIsRegistered, NoTable
<1> QED
  BY <1>1, <1>5, <1>6, <1>7 DEF DnaInv

LEMMA DnaStep ==
  ASSUME DnaInv, ~FaultsLeaveHoles, [DnaNext]_dnaVars
  PROVE  DnaInv'
<1>1. CASE DnaBegin
  BY <1>1, DnaBeginKeeps
<1>2. CASE \E id \in Ids, uid \in NodeUids : NodeInfoKnown(id, uid)
  BY <1>2, InfoKnownKeeps
<1>3. ASSUME NEW id \in Ids, NEW uid \in NodeUids, NodeInfoNew(id, uid) PROVE DnaInv'
  <2>1. [id |-> id, uid |-> uid] \in Registrations
    BY DnaConstants DEF Registrations
  <2> QED
    BY <1>3, <2>1, AskKeeps DEF NodeInfoNew
<1>4. CASE AllocationRefused \/ \E uid \in NodeUids : AllocationKnown(uid)
  BY <1>4, AnswerKeeps
<1>5. ASSUME NEW uid \in NodeUids, AllocationNew(uid) PROVE DnaInv'
  BY <1>5, AllocationIs, AskKeeps DEF AllocationNew
<1>6. CASE AppendRefused \/ AppendUnlockFails
  BY <1>6, AppendFailsKeeps
<1>7. CASE AppendStart
  BY <1>7, StartKeeps
<1>8. CASE DnaProgramWord \/ DnaProgramWordFails \/ DnaVerifyBody
  BY <1>8, WordKeeps, WriteKeeps
<1>9. CASE DnaProgramCommit \/ DnaProgramCommitFails
  BY <1>9, CommitKeeps, WriteKeeps
<1>10. CASE DnaFinish
  BY <1>10, DnaFinishKeeps
<1>11. CASE DnaPowerLoss
  BY <1>11, DnaPowerLossKeeps
<1>12. CASE UNCHANGED dnaVars
  BY <1>12 DEF dnaVars, memory, bounds, DnaInv, DnaTypeOK, DnaNoHoles, OneRecord, DnaPlaced,
               DnaInSlot, Asked, VerifiedIsRegistered
<1> QED
  BY <1>1, <1>2, <1>3, <1>4, <1>5, <1>6, <1>7, <1>8, <1>9, <1>10, <1>11, <1>12 DEF DnaNext

LEMMA AtMostOne ==
  ASSUME NEW t \in Tables, NEW uid
  PROVE  Cardinality(Found(t, uid)) <= 1
<1>1. CASE Found(t, uid) = {}
  <2>1. Cardinality(Found(t, uid)) = 0
    BY <1>1, FS_EmptySet
  <2> QED
    BY <2>1
<1>2. CASE Found(t, uid) # {}
  <2>1. PICK i \in Ids : i \in Found(t, uid)
    BY <1>2 DEF Found
  <2>2. \A j \in Found(t, uid) : j = i
    <3> SUFFICES ASSUME NEW j \in Found(t, uid) PROVE j = i
      OBVIOUS
    <3>1. j \in Ids /\ uid \in t[i] \cap t[j]
      BY <2>1 DEF Found
    <3> QED
      BY <3>1, TableFields
  <2>3. Found(t, uid) = {i}
    BY <2>1, <2>2
  <2>4. Cardinality({i}) = 1
    BY FS_Singleton
  <2> QED
    BY <2>3, <2>4
<1> QED
  BY <1>1, <1>2

LEMMA DnaInvSound ==
  ASSUME DnaInv
  PROVE  TableSound
<1>1. DnaSlots \in 0..DnaSlots
  BY DnaConstants
<1>2. Recorded(dnaFlash)
  BY DnaConstants DEF Recorded, DnaInv, OneRecord, DnaValid
<1>3. Replay(dnaFlash)[DnaSlots] \in Tables
  BY <1>1, <1>2, ReplayTables
<1>4. OneIdPerUid
  BY <1>3, AtMostOne DEF OneIdPerUid, DnaInv
<1>5. TableIsJournal
  <2> SUFFICES ASSUME dnaPc = "idle", dnaStorageOk
               PROVE  table = Replay(dnaFlash)[DnaSlots]
    BY DEF TableIsJournal
  <2>1. dnaNextSlot \in 0..DnaSlots /\ table = Replay(dnaFlash)[dnaNextSlot]
    BY DEF DnaInv, DnaTypeOK, DnaPlaced
  <2>2. \A i \in DnaIndex : i >= dnaNextSlot => ~DnaValid(dnaFlash[i])
    <3> SUFFICES ASSUME NEW i \in DnaIndex, i >= dnaNextSlot PROVE ~DnaValid(dnaFlash[i])
      OBVIOUS
    <3>1. i > dnaNextSlot \/ i = dnaNextSlot
      BY <2>1, DnaConstants DEF DnaIndex
    <3>2. DnaErased(dnaFlash[i])
      BY <3>1 DEF DnaInv, DnaPlaced
    <3> QED
      BY <3>2 DEF DnaErased, DnaValid
  <2> QED
    BY <2>1, <2>2, ReplayEnds
<1>6. DnaWritesFreshSlot
  BY DEF DnaWritesFreshSlot, DnaInv, DnaInSlot, DnaErased
<1> QED
  BY <1>4, <1>5, <1>6 DEF TableSound, DnaInv

LEMMA DnaInvSoundNext == DnaInv' => TableSound'
<1>1. DnaInv => TableSound
  BY DnaInvSound
<1> QED
  BY <1>1, PTL

(* Whatever asks, fails and restarts: a unit has one node id, in memory as *)
(* in what a boot would find (applyRegistration, scanJournal), the two     *)
(* agree as long as no operation failed, and a node is verified only as    *)
(* the unit its id is registered to; if a word that fails leaves its mark. *)
THEOREM TableKept == ~FaultsLeaveHoles => (DnaSpec => []TableSound)
<1> SUFFICES ASSUME ~FaultsLeaveHoles PROVE DnaSpec => []TableSound
  OBVIOUS
<1>1. DnaInv /\ [DnaNext]_dnaVars => DnaInv'
  BY DnaStep
<1>2. DnaInv => TableSound
  BY DnaInvSound
<1> QED
  BY <1>1, <1>2, DnaInitInv, PTL DEF DnaSpec

-----------------------------------------------------------------------------
(* The journal implements the allocator's table.                           *)

Listed == Replay(dnaFlash)[DnaSlots]

LEMMA WrittenReplays ==
  ASSUME DnaInv, dnaPc \in {"program", "commit"}, NEW s, Touched(s)
  PROVE  /\ ~DnaValid(s) => Listed' = Listed
         /\ DnaValid(s) => \A r : dnaOp = {r} => Listed' = Applied(Listed, r)
<1>1. /\ dnaNextSlot \in DnaIndex /\ dnaFlash'[dnaNextSlot] = s
      /\ \A i \in DnaIndex : i # dnaNextSlot => dnaFlash'[i] = dnaFlash[i]
      /\ ~DnaValid(dnaFlash[dnaNextSlot])
      /\ Replay(dnaFlash')[dnaNextSlot] = Replay(dnaFlash)[dnaNextSlot]
      /\ s.rec = dnaOp
  BY TouchedIs DEF Touched
<1>2. /\ dnaNextSlot \in 0..DnaSlots /\ dnaNextSlot + 1 \in 0..DnaSlots
      /\ dnaNextSlot + 1 \in 1..DnaSlots /\ (dnaNextSlot + 1) - 1 = dnaNextSlot
      /\ \A i \in DnaIndex : i >= dnaNextSlot + 1 => i > dnaNextSlot /\ i # dnaNextSlot
      /\ \A i \in DnaIndex : i >= dnaNextSlot => i > dnaNextSlot \/ i = dnaNextSlot
  BY <1>1, DnaConstants DEF DnaIndex
<1>3. \A i \in DnaIndex : i > dnaNextSlot => ~DnaValid(dnaFlash[i])
  <2>1. \A i \in DnaIndex : i > dnaNextSlot => DnaErased(dnaFlash[i])
    BY DEF DnaInv, DnaPlaced
  <2> QED
    BY <2>1 DEF DnaErased, DnaValid
<1>4. Listed = Replay(dnaFlash)[dnaNextSlot]
  <2>1. \A i \in DnaIndex : i >= dnaNextSlot => ~DnaValid(dnaFlash[i])
    BY <1>1, <1>2, <1>3
  <2> QED
    BY <1>2, <2>1, ReplayEnds DEF Listed
<1>5. Replay(dnaFlash')[DnaSlots] = Replay(dnaFlash')[dnaNextSlot + 1]
  <2>1. \A i \in DnaIndex : i >= dnaNextSlot + 1 => ~DnaValid(dnaFlash'[i])
    BY <1>1, <1>2, <1>3
  <2> QED
    BY <1>2, <2>1, ReplayEnds
<1>6. Replay(dnaFlash')[dnaNextSlot + 1] = Scanned(Replay(dnaFlash')[dnaNextSlot], s)
  BY <1>1, <1>2, ReplayIs
<1>7. Listed' = Scanned(Listed, s)
  BY <1>1, <1>4, <1>5, <1>6 DEF Listed
<1>8. ASSUME NEW r, dnaOp = {r} PROVE RecordOf(s) = r
  BY <1>1, <1>8 DEF RecordOf
<1> QED
  BY <1>7, <1>8 DEF Scanned

LEMMA TableStep ==
  ASSUME DnaInv, ~FaultsLeaveHoles, [DnaNext]_dnaVars
  PROVE  [Table!TableNext]_(Table!tableVars)
<1>0. Table!tableVars = <<Listed, dnaOp, grant>>
  BY DEF Table!tableVars, Listed
<1>1. ASSUME UNCHANGED <<dnaFlash, dnaOp, grant>> PROVE UNCHANGED (Table!tableVars)
  BY <1>1 DEF Table!tableVars
<1>2. ASSUME UNCHANGED dnaFlash, dnaOp = {}, grant' = {},
             NEW r \in Registrations, dnaOp' = {r}
      PROVE  Table!TableNext
  <2>1. r \in Table!Registrations
    BY DEF Registrations, Table!Registrations
  <2> QED
    BY <1>2, <2>1 DEF Table!TableNext, Table!Ask
<1>3. ASSUME Listed' = Listed, dnaOp' = {}, grant' = {} PROVE Table!TableNext
  BY <1>3 DEF Table!TableNext, Table!Answer, Listed
<1>4. ASSUME UNCHANGED dnaFlash, dnaOp' = {}, NEW r \in Registrations, grant' = {r},
             Listed[r.id] = {r.uid}
      PROVE  Table!TableNext
  <2>1. r \in Table!Registrations
    BY DEF Registrations, Table!Registrations
  <2> QED
    BY <1>4, <2>1 DEF Table!TableNext, Table!Answer, Listed
<1>5. CASE DnaBegin
  <2>1. dnaOp = {} /\ grant = {} /\ [id |-> OwnId, uid |-> OwnUid] \in Registrations
    BY <1>5, DnaConstants DEF DnaBegin, DnaInv, Asked, Registrations
  <2>2. \/ UNCHANGED <<dnaFlash, dnaOp, grant>>
        \/ /\ UNCHANGED dnaFlash /\ grant' = {}
           /\ dnaOp' = {[id |-> OwnId, uid |-> OwnUid]}
    BY <1>5, <2>1 DEF DnaBegin
  <2> QED
    BY <1>1, <1>2, <2>1, <2>2
<1>6. CASE \E id \in Ids, uid \in NodeUids : NodeInfoKnown(id, uid)
  <2>1. UNCHANGED <<dnaFlash, dnaOp>> /\ grant' = {} /\ dnaOp = {}
    BY <1>6 DEF NodeInfoKnown, DnaInv, Asked
  <2> QED
    BY <1>3, <2>1 DEF Listed
<1>7. ASSUME NEW id \in Ids, NEW uid \in NodeUids, NodeInfoNew(id, uid) PROVE Table!TableNext
  <2>1. [id |-> id, uid |-> uid] \in Registrations
    BY DnaConstants DEF Registrations
  <2>2. UNCHANGED dnaFlash /\ dnaOp = {} /\ grant' = {} /\ dnaOp' = {[id |-> id, uid |-> uid]}
    BY <1>7 DEF NodeInfoNew, DnaInv, Asked
  <2> QED
    BY <1>2, <2>1, <2>2
<1>8. CASE AllocationRefused
  <2>1. UNCHANGED <<dnaFlash, dnaOp>> /\ grant' = {} /\ dnaOp = {}
    BY <1>8 DEF AllocationRefused, DnaInv, Asked
  <2> QED
    BY <1>3, <2>1 DEF Listed
<1>9. ASSUME NEW uid \in NodeUids, AllocationKnown(uid) PROVE Table!TableNext
  <2>1. PICK r \in Registrations : grant' = {r} /\ table[r.id] = {r.uid}
    BY <1>9, KnownIs
  <2>2. /\ UNCHANGED <<dnaFlash, dnaOp>> /\ dnaOp = {} /\ dnaPc = "idle" /\ dnaStorageOk
    BY <1>9 DEF AllocationKnown, DnaInv, Asked
  <2>3. table = Listed
    BY <2>2, DnaInvSound DEF TableSound, TableIsJournal, Listed
  <2> QED
    BY <1>4, <2>1, <2>2, <2>3
<1>10. ASSUME NEW uid \in NodeUids, AllocationNew(uid) PROVE Table!TableNext
  <2>1. PICK r \in Registrations : dnaOp' = {r}
    BY <1>10, AllocationIs
  <2>2. UNCHANGED dnaFlash /\ dnaOp = {} /\ grant' = {}
    BY <1>10 DEF AllocationNew, DnaInv, Asked
  <2> QED
    BY <1>2, <2>1, <2>2
<1>11. CASE AppendRefused \/ AppendUnlockFails
  <2>1. UNCHANGED dnaFlash /\ DnaReturn(FALSE)
    BY <1>11 DEF AppendRefused, AppendUnlockFails
  <2>2. dnaOp' = {} /\ grant' = {}
    BY <2>1 DEF DnaReturn
  <2> QED
    BY <1>3, <2>1, <2>2 DEF Listed
<1>12. CASE AppendStart
  BY <1>1, <1>12 DEF AppendStart
<1>13. CASE \/ DnaProgramWord \/ DnaProgramWordFails \/ DnaVerifyBody
            \/ DnaProgramCommit \/ DnaProgramCommitFails
  <2>1. dnaPc \in {"program", "commit"} /\ \E s : Goes(s) /\ Wrote(s)
    BY <1>13, WordKeeps, CommitKeeps
  <2>2. PICK s : Goes(s) /\ Wrote(s)
    BY <2>1
  <2>3. UNCHANGED <<dnaOp, grant>>
    BY <2>2 DEF Goes
  <2>4. CASE UNCHANGED dnaFlash
    BY <1>1, <2>3, <2>4
  <2>5. CASE Touched(s) /\ ~DnaValid(s)
    <3>1. Listed' = Listed
      BY <2>1, <2>5, WrittenReplays
    <3> QED
      BY <1>0, <2>3, <3>1 DEF Table!tableVars, Listed
  <2>6. CASE Touched(s) /\ DnaValid(s)
    <3>1. PICK r : dnaOp = {r}
      BY <2>1 DEF DnaInv, Asked
    <3>2. Listed' = Applied(Listed, r)
      BY <2>1, <2>6, <3>1, WrittenReplays
    <3>3. Applied(Listed, r) = Table!Registered(Listed, r)
      BY DEF Applied, Table!Registered
    <3> QED
      BY <2>3, <3>1, <3>2, <3>3 DEF Table!TableNext, Table!TakeEffect, Listed
  <2> QED
    BY <2>2, <2>4, <2>5, <2>6 DEF Wrote
<1>14. CASE DnaFinish
  <2>1. UNCHANGED dnaFlash /\ dnaOp' = {} /\ dnaPc' = "idle"
    BY <1>14, FinishIs
  <2>2. CASE grant' = {}
    BY <1>3, <2>1, <2>2 DEF Listed
  <2>3. CASE grant' # {}
    <3>1. PICK r \in Registrations : table' = Applied(table, r) /\ grant' = {r}
      BY <1>14, <2>3, FinishIs
    <3>2. dnaStorageOk'
      BY <1>14, <2>3 DEF DnaFinish, DnaReturn, DnaInv, Asked
    <3>3. TableSound'
      <4>1. DnaInv'
        BY <1>14, DnaFinishKeeps
      <4> QED
        BY <4>1, DnaInvSoundNext
    <3>4. table' = Replay(dnaFlash')[DnaSlots]
      BY <2>1, <3>2, <3>3 DEF TableSound, TableIsJournal
    <3>5. table'[r.id] = {r.uid}
      BY <3>1, AppliedIs DEF DnaInv
    <3>6. Listed[r.id] = {r.uid}
      BY <2>1, <3>4, <3>5 DEF Listed
    <3> QED
      BY <1>4, <2>1, <3>1, <3>6
  <2> QED
    BY <2>2, <2>3
<1>15. CASE DnaPowerLoss
  <2>1. dnaOp' = {} /\ grant' = {}
    BY <1>15 DEF DnaPowerLoss
  <2>2. Listed' = Listed
    <3>1. CASE UNCHANGED dnaFlash
      BY <3>1 DEF Listed
    <3>2. CASE dnaPc \in {"program", "commit"} /\ \E s : Touched(s) /\ ~DnaValid(s)
      BY <3>2, WrittenReplays
    <3> QED
      BY <1>15, <3>1, <3>2, PowerLossIs
  <2> QED
    BY <1>3, <2>1, <2>2
<1>16. CASE UNCHANGED dnaVars
  BY <1>1, <1>16 DEF dnaVars
<1> QED
  BY <1>5, <1>6, <1>7, <1>8, <1>9, <1>10, <1>11, <1>12, <1>13, <1>14, <1>15, <1>16 DEF DnaNext

LEMMA TableAtReset == DnaInit => Table!TableInit
<1> SUFFICES ASSUME DnaInit PROVE Table!TableInit
  OBVIOUS
<1>1. \A i \in DnaIndex : ~DnaValid(dnaFlash[i])
  BY DnaConstants DEF DnaInit, DnaErasedSlot, DnaValid
<1>2. 0 \in 0..DnaSlots /\ \A i \in DnaIndex : i >= 0
  BY DnaConstants DEF DnaIndex
<1>3. Replay(dnaFlash)[DnaSlots] = NoTable
  BY <1>1, <1>2, ReplayEnds, ReplayIs
<1> QED
  BY <1>3 DEF Table!TableInit, DnaInit, NoTable

(* The journal implements DnaTable step by step: a registration takes      *)
(* effect with its commit word, an id is granted only when the table says  *)
(* so, and neither power loss nor failing words take a registration back.  *)
THEOREM TableImplemented == ~FaultsLeaveHoles => (DnaSpec => ImplementsTable)
<1> SUFFICES ASSUME ~FaultsLeaveHoles PROVE DnaSpec => ImplementsTable
  OBVIOUS
<1>1. DnaInv /\ [DnaNext]_dnaVars => DnaInv'
  BY DnaStep
<1>2. DnaInv /\ [DnaNext]_dnaVars => [Table!TableNext]_(Table!tableVars)
  BY TableStep
<1> QED
  BY <1>1, <1>2, DnaInitInv, TableAtReset, PTL DEF DnaSpec, ImplementsTable, Table!TableSpec
=============================================================================
