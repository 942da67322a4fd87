-------------------------- MODULE BootloaderProofs --------------------------
(***************************************************************************)
(* The bootloader, for any images, sizes of the flash and of the journal,  *)
(* crash limit, faults, crashes and resets: what it starts is a whole      *)
(* image, what it acknowledges is in the flash, it erases an application   *)
(* only while it can commit another, and it counts consecutive crashes.    *)
(***************************************************************************)
EXTENDS Bootloader, TLAPS

(* What handle_line, the line it handles and the uploader can be.          *)
Pcs ==
  [at : {"idle", "reset"}] \cup [at : {"erase"}, sector : Words]
    \cup [at : {"program"}, pos : Nat]
    \cup [at : {"manifest"}, slot : Index, word : 0..3]

Lines ==
  [op : {"none", "END"}] \cup [op : {"BEGIN"}, image : Images]
    \cup [op : {"DATA2"}, image : Images, off : 0..AppWords, len : 0..AppWords]

Uploaders ==
  [at : {"idle"}] \cup [at : {"begin", "end"}, image : Images, sent : BOOLEAN]
    \cup [at : {"data"}, image : Images, off : 0..AppWords, sent : BOOLEAN]

Shapes == pc \in Pcs /\ command \in Lines /\ uploader \in Uploaders

(* The board handles the line it was sent, and it alone; a reply on its    *)
(* way means that there is no line.                                        *)
Turns ==
  /\ phase # "maintenance" =>
       uploader.at = "idle" /\ command.op = "none" /\ pc.at = "idle"
  /\ pc.at \in {"idle", "reset"} \/ reply = "none"
  /\ command.op # "none" => reply = "none"
  /\ pc.at = "reset" => command.op = "none"
  /\ pc.at = "erase" => command.op = "BEGIN"
  /\ pc.at = "program" => command.op = "DATA2"
  /\ pc.at = "manifest" => command.op = "END"

(* The uploader has one line on its way, and the line is its own.          *)
OwnLine ==
  /\ uploader.at # "idle" /\ ~uploader.sent =>
       command.op = "none" /\ pc.at = "idle" /\ reply = "none"
  /\ uploader.at # "idle" /\ pc.at = "reset" => uploader.at = "end"
  /\ uploader.at # "idle" /\ command.op = "BEGIN" => uploader.at = "begin"
  /\ uploader.at # "idle" /\ command.op = "END" => uploader.at = "end"
  /\ uploader.at # "idle" /\ command.op = "DATA2" =>
       /\ uploader.at = "data" /\ command.image = uploader.image
       /\ command.off = uploader.off
       /\ command.off + command.len = uploader.off + ChunkWords
            \/ command.off + command.len = AppWords

(* A chunk is programmed where the last one ended; what is acknowledged is *)
(* in the flash, with the chunk whose ACK is on its way.                   *)
Chunks ==
  /\ pc.at = "program" =>
       /\ command.off = offset /\ command.off + command.len <= AppWords
       /\ pc.pos <= command.len
  /\ uploader.at = "data" /\ reply = "ACK" =>
       \A i \in Words : i < uploader.off + ChunkWords => app[i] = uploader.image
  /\ AckedIsWritten

(* The journal: used slots first, each with an image whose END was found   *)
(* good; a slot is right unless its writing was spoiled.                   *)
JournalShape ==
  \A i \in Index :
    /\ Erased(manifest[i]) => \A j \in Index : i < j => Erased(manifest[j])
    /\ ~Erased(manifest[i]) => manifest[i].image \in ended
    /\ Erased(manifest[i]) => manifest[i].exact
    /\ manifest[i].exact => manifest[i].good

(* The manifest being written is the last used one or the first free, and  *)
(* speaks of the image the flash holds.                                    *)
Committing ==
  pc.at = "manifest" =>
    /\ expected \in ended /\ Holds(expected)
    /\ manifest[pc.slot].words = pc.word
    /\ pc.word > 0 => manifest[pc.slot].image = expected
    /\ \A i \in Index : i > pc.slot => Erased(manifest[i])
    /\ \A i \in Index : i < pc.slot => ~Erased(manifest[i])
    /\ manifest[pc.slot].exact \/ spoiled

(* An update is open, or the application being erased, only while there is *)
(* a slot for its manifest, unless one was spoiled.                        *)
SlotForUpdate ==
  /\ pc.at # "manifest" /\ (updating \/ pc.at = "erase") => NextSlot # {} \/ spoiled
  /\ pc.at \in {"program", "manifest"} => updating
  /\ NeverStranded

(* What the backup registers say of the crashes: CountAfterBoot, if a      *)
(* crash is still to be counted, is their number up to the limit.          *)
CrashesCounted ==
  /\ marker => phase = "off" /\ crashes > 0
  /\ \/ crashCount = CrashLimit /\ crashes > CrashLimit
     \/ marker /\ crashCount + 1 = crashes
     \/ ~marker /\ crashCount = crashes

BootInv ==
  /\ BootTypeOK /\ Shapes /\ Turns /\ OwnLine /\ Chunks
  /\ JournalShape /\ Committing /\ SlotForUpdate /\ RunsWholeImage /\ CrashesCounted

-----------------------------------------------------------------------------
(* What the provers need to know of the records.                           *)

LEMMA PcFields ==
  ASSUME pc \in Pcs
  PROVE  /\ pc.at \in {"idle", "erase", "program", "manifest", "reset"}
         /\ pc.at = "idle" => pc = [at |-> "idle"]
         /\ pc.at = "erase" =>
              /\ pc.sector \in Words
              /\ [pc EXCEPT !.sector = @ + 1] = [at |-> "erase", sector |-> pc.sector + 1]
         /\ pc.at = "program" =>
              /\ pc.pos \in Nat
              /\ [pc EXCEPT !.pos = @ + 1] = [at |-> "program", pos |-> pc.pos + 1]
         /\ pc.at = "manifest" =>
              /\ pc.slot \in Index /\ pc.word \in 0..3
              /\ [pc EXCEPT !.word = @ + 1]
                   = [at |-> "manifest", slot |-> pc.slot, word |-> pc.word + 1]
BY DEF Pcs

LEMMA LineFields ==
  ASSUME command \in Lines
  PROVE  /\ command.op \in {"none", "BEGIN", "DATA2", "END"}
         /\ command.op = "none" <=> command = NoLine
         /\ command.op = "BEGIN" => command.image \in Images
         /\ command.op = "DATA2" =>
              command.image \in Images /\ command.off \in 0..AppWords
                /\ command.len \in 0..AppWords
BY DEF Lines, NoLine

LEMMA UploaderFields ==
  ASSUME uploader \in Uploaders
  PROVE  /\ uploader.at \in {"idle", "begin", "data", "end"}
         /\ uploader.at = "idle" <=> uploader = Idle
         /\ uploader.at # "idle" => uploader.image \in Images /\ uploader.sent \in BOOLEAN
         /\ uploader.at = "data" => uploader.off \in 0..AppWords
BY DEF Uploaders, Idle

(* The next line's place in the flash.                                     *)
LEMMA HostOffset ==
  ASSUME uploader \in Uploaders
  PROVE  HostOff(uploader) \in 0..AppWords
BY UploaderFields, BootAssumption DEF HostOff

LEMMA IdleShapes ==
  /\ [at |-> "idle"] \in Pcs /\ [at |-> "reset"] \in Pcs
  /\ NoLine \in Lines /\ Idle \in Uploaders
  /\ NoLine.op = "none" /\ Idle.at = "idle"
BY DEF Pcs, Lines, Uploaders, NoLine, Idle

(* A slot of the journal with one word more.                               *)
LEMMA WordLeaves ==
  ASSUME BootTypeOK, Shapes, Committing, pc.at = "manifest", pc.word < 3,
         NEW right \in BOOLEAN, ManifestWord(right)
  PROVE  /\ manifest' \in [Index -> SlotStates]
         /\ \A i \in Index : i # pc.slot => manifest'[i] = manifest[i]
         /\ manifest'[pc.slot].image = expected
         /\ manifest'[pc.slot].words = pc.word + 1
         /\ manifest'[pc.slot].exact <=> manifest[pc.slot].exact /\ right
         /\ manifest'[pc.slot].good <=> manifest[pc.slot].good /\ (right \/ pc.word = 1)
<1>1. pc.slot \in Index /\ pc.word \in 0..3
  BY PcFields DEF Shapes
<1>2. expected \in Images /\ pc.word + 1 \in 0..3
  BY <1>1 DEF Committing, BootTypeOK
<1> DEFINE s == [image |-> expected, words |-> pc.word + 1,
                 good |-> manifest[pc.slot].good /\ (right \/ pc.word = 1),
                 exact |-> manifest[pc.slot].exact /\ right]
<1>3. manifest' = [manifest EXCEPT ![pc.slot] = s]
  BY DEF ManifestWord
<1>4. s \in SlotStates
  BY <1>2 DEF SlotStates
<1>5. manifest' \in [Index -> SlotStates] /\ manifest'[pc.slot] = s
        /\ \A i \in Index : i # pc.slot => manifest'[i] = manifest[i]
  BY <1>1, <1>3, <1>4 DEF BootTypeOK
<1>6. s.image = expected /\ s.words = pc.word + 1
  OBVIOUS
<1>7. s.exact = (manifest[pc.slot].exact /\ right)
  OBVIOUS
<1>8. s.good = (manifest[pc.slot].good /\ (right \/ pc.word = 1))
  OBVIOUS
<1> HIDE DEF s
<1>9. /\ manifest'[pc.slot].exact <=> manifest[pc.slot].exact /\ right
      /\ manifest'[pc.slot].good <=> manifest[pc.slot].good /\ (right \/ pc.word = 1)
  BY <1>5, <1>7, <1>8
<1> QED
  BY <1>5, <1>6, <1>9

(* The image being committed is an image.                                  *)
LEMMA HeldIsImage ==
  ASSUME BootTypeOK, Holds(expected)
  PROVE  expected \in Images
<1>1. 0 \in Words
  BY BootAssumption DEF Words
<1>2. app[0] = expected
  BY <1>1 DEF Holds
<1> QED
  BY <1>1, <1>2, ImageAssumption DEF BootTypeOK

-----------------------------------------------------------------------------
(* Which actions change what.                                              *)

LEMMA WhoChanges ==
  ASSUME BootNext
  PROVE  /\ UNCHANGED app \/ EraseSector \/ EraseFails \/ ProgramWord \/ ProgramFails \/ Reset
         /\ UNCHANGED manifest \/ WriteManifest \/ ManifestFails \/ Reset
         /\ UNCHANGED ended \/ EndWrite
         /\ UNCHANGED spoiled \/ ManifestFails \/ Reset
         /\ UNCHANGED <<marker, crashCount, crashes>> \/ Boot \/ AppRequestsBoot
              \/ AppCrashes \/ AppHealthy \/ Reset
         /\ UNCHANGED request \/ Boot \/ AppRequestsBoot \/ Reset
         /\ UNCHANGED phase \/ Boot \/ IdleTimeout \/ EndReset \/ AppRequestsBoot
              \/ AppCrashes \/ Reset
         /\ UNCHANGED <<updating, expected, offset>> \/ EraseSector \/ DataVerify
              \/ EndVerify \/ Restart
         /\ UNCHANGED bootFaults \/ Fault
<1> USE DEF flash, backup, ram, history, bounds
<1>1. CASE Boot \/ IdleTimeout \/ BeginErase \/ DataProgram
  BY <1>1 DEF Boot, IdleTimeout, BeginErase, DataProgram
<1>2. CASE BeginRefused \/ DataRefused \/ EndRefused
  BY <1>2 DEF BeginRefused, DataRefused, EndRefused
<1>3. CASE EraseSector \/ EraseFails
  BY <1>3 DEF EraseSector, EraseFails
<1>4. CASE ProgramWord \/ ProgramFails
  BY <1>4 DEF ProgramWord, ProgramFails
<1>5. CASE DataVerify \/ EndVerify
  BY <1>5 DEF DataVerify, EndVerify
<1>6. CASE EndWrite \/ WriteManifest \/ ManifestFails
  BY <1>6 DEF EndWrite, WriteManifest, ManifestFails
<1>7. CASE EndReset \/ AppRequestsBoot \/ AppCrashes
  BY <1>7 DEF EndReset, AppRequestsBoot, AppCrashes
<1>8. CASE AppHealthy \/ UploadSend \/ UploadReply \/ UploadTimeout
  BY <1>8 DEF AppHealthy, UploadSend, UploadReply, UploadTimeout
<1>9. CASE \E image \in Images : UploadStart(image)
  BY <1>9 DEF UploadStart
<1>10. CASE Reset
  BY <1>10 DEF Reset
<1> QED
  BY <1>1, <1>2, <1>3, <1>4, <1>5, <1>6, <1>7, <1>8, <1>9, <1>10
     DEF BootNext, Device, Uploader

-----------------------------------------------------------------------------
(* Types.                                                                  *)

LEMMA FlashTypes ==
  ASSUME BootInv, BootNext
  PROVE  app' \in [Words -> Images \cup {"erased", "torn"}]
           /\ manifest' \in [Index -> SlotStates]
<1> DEFINE Contents == Images \cup {"erased", "torn"}
<1>1. app \in [Words -> Contents] /\ manifest \in [Index -> SlotStates]
  BY DEF BootInv, BootTypeOK
<1>2. pc \in Pcs /\ command \in Lines /\ BootTypeOK /\ Shapes /\ Committing /\ Turns
  BY DEF BootInv, Shapes
<1>3. pc.at = "program" => command.op = "DATA2" /\ command.image \in Images
  BY <1>2, LineFields DEF Turns
<1>4. \A j : \A x \in Contents : [app EXCEPT ![j] = x] \in [Words -> Contents]
  BY <1>1
<1> HIDE DEF Contents
<1>5. app' \in [Words -> Contents]
  <2>1. CASE UNCHANGED app
    BY <1>1, <2>1
  <2>2. CASE EraseSector
    BY <1>4, <2>2 DEF EraseSector, Contents
  <2>3. CASE EraseFails
    <3>1. app[pc.sector] \in Contents
      BY <1>1, <1>2, <2>3, PcFields DEF EraseFails
    <3> QED
      BY <1>4, <2>3, <3>1 DEF EraseFails, Contents
  <2>4. CASE ProgramWord
    BY <1>3, <1>4, <2>4 DEF ProgramWord, Programmed, Contents
  <2>5. ASSUME NEW i, app' = [app EXCEPT ![i] = app[i]]
        PROVE  app' \in [Words -> Contents]
    BY <1>1, <2>5
  <2>6. CASE ProgramFails
    BY <1>4, <2>5, <2>6 DEF ProgramFails, Contents
  <2>7. CASE Reset
    BY <1>1, <1>4, <2>7 DEF Reset, flash, Contents
  <2> QED
    BY <2>1, <2>2, <2>3, <2>4, <2>6, <2>7, WhoChanges
<1>6. manifest' \in [Index -> SlotStates]
  <2>1. CASE UNCHANGED manifest
    BY <1>1, <2>1
  <2>2. ASSUME pc.at = "manifest", pc.word < 3, NEW right \in BOOLEAN, ManifestWord(right)
        PROVE  manifest' \in [Index -> SlotStates]
    BY <1>2, <2>2, WordLeaves
  <2>3. CASE WriteManifest
    BY <2>2, <2>3 DEF WriteManifest
  <2>4. CASE ManifestFails
    BY <1>1, <2>2, <2>4 DEF ManifestFails
  <2>5. CASE Reset
    BY <1>1, <2>2, <2>5 DEF Reset, flash
  <2> QED
    BY <2>1, <2>3, <2>4, <2>5, WhoChanges
<1> QED
  BY <1>5, <1>6 DEF Contents

LEMMA RegisterTypes ==
  ASSUME BootInv, BootNext
  PROVE  /\ request' \in BOOLEAN /\ marker' \in BOOLEAN /\ crashCount' \in 0..CrashLimit
         /\ phase' \in {"off", "maintenance", "application"}
         /\ crashes' \in 0..MaxCrashes /\ spoiled' \in BOOLEAN
<1>1. /\ request \in BOOLEAN /\ marker \in BOOLEAN /\ crashCount \in 0..CrashLimit
      /\ phase \in {"off", "maintenance", "application"}
      /\ crashes \in 0..MaxCrashes /\ spoiled \in BOOLEAN
  BY DEF BootInv, BootTypeOK
<1>2. request' \in BOOLEAN
  BY <1>1, WhoChanges DEF Boot, AppRequestsBoot, Reset, backup
<1>3. marker' \in BOOLEAN
  BY <1>1, WhoChanges DEF Boot, AppRequestsBoot, AppCrashes, AppHealthy, Reset, backup
<1>4. crashCount' \in 0..CrashLimit
  <2>1. CountAfterBoot \in 0..CrashLimit
    <3>1. \/ CountAfterBoot = crashCount
          \/ crashCount < CrashLimit /\ CountAfterBoot = crashCount + 1
      BY Zenon DEF CountAfterBoot
    <3> QED
      BY <1>1, <3>1, BootAssumption
  <2>2. crashCount' \in {crashCount, 0, CountAfterBoot}
    BY <1>1, WhoChanges DEF Boot, AppRequestsBoot, AppCrashes, AppHealthy, Reset, backup
  <2> QED
    BY <1>1, <2>1, <2>2, BootAssumption
<1>5. phase' \in {"off", "maintenance", "application"}
  <2>1. CASE Boot
    BY <2>1, Zenon DEF Boot
  <2> QED
    BY <1>1, <2>1, WhoChanges
       DEF IdleTimeout, EndReset, AppRequestsBoot, AppCrashes, Reset, Restart
<1>6. crashes' \in 0..MaxCrashes
  <2>1. \/ crashes' = crashes \/ crashes' = 0
        \/ crashes < MaxCrashes /\ crashes' = crashes + 1
    BY WhoChanges DEF Boot, AppRequestsBoot, AppCrashes, AppHealthy, Reset, history
  <2> QED
    BY <1>1, <2>1, BootAssumption
<1>7. spoiled' \in BOOLEAN
  BY <1>1, WhoChanges DEF ManifestFails, Reset
<1> QED
  BY <1>2, <1>3, <1>4, <1>5, <1>6, <1>7

LEMMA UpdateTypes ==
  ASSUME BootInv, BootNext
  PROVE  /\ toApp' \in BOOLEAN /\ updating' \in BOOLEAN
         /\ expected' \in Images \cup {"none"} /\ offset' \in 0..AppWords
<1>1. /\ toApp \in BOOLEAN /\ updating \in BOOLEAN
      /\ expected \in Images \cup {"none"} /\ offset \in 0..AppWords
  BY DEF BootInv, BootTypeOK
<1>2. command \in Lines /\ Turns /\ Chunks
  BY DEF BootInv, Shapes
<1>3. EraseSector => command.image \in Images
  BY <1>2, LineFields DEF EraseSector, Turns
<1>4. DataVerify => offset + command.len \in 0..AppWords
  BY <1>1, <1>2, LineFields, BootAssumption DEF DataVerify, Turns, Chunks
<1>5. updating' \in BOOLEAN
  BY <1>1, WhoChanges DEF EraseSector, DataVerify, EndVerify, Restart, ram
<1>6. expected' \in Images \cup {"none"}
  BY <1>1, <1>3, WhoChanges DEF EraseSector, DataVerify, EndVerify, Restart, ram
<1>7. offset' \in 0..AppWords
  <2>1. offset' = offset \/ offset' = 0 \/ (DataVerify /\ offset' = offset + command.len)
    BY WhoChanges DEF EraseSector, DataVerify, EndVerify, Restart, ram
  <2> QED
    BY <1>1, <1>4, <2>1, BootAssumption
<1>8. toApp' \in BOOLEAN
  <2>1. UNCHANGED toApp \/ toApp' = FALSE \/ Boot
    BY DEF BootNext, Device, Uploader, IdleTimeout, BeginErase, DataProgram, BeginRefused,
         DataRefused, EndRefused, EraseSector, EraseFails, ProgramWord, ProgramFails,
         DataVerify, EndVerify, EndWrite, WriteManifest, ManifestFails, EndReset,
         AppRequestsBoot, AppCrashes, AppHealthy, UploadSend, UploadReply, UploadTimeout,
         UploadStart, Reset, Restart, ram
  <2> QED
    BY <1>1, <2>1 DEF Boot
<1> QED
  BY <1>5, <1>6, <1>7, <1>8

LEMMA PcType ==
  ASSUME BootInv, BootNext
  PROVE  pc' \in Pcs
<1>1. pc \in Pcs /\ command \in Lines /\ uploader \in Uploaders
  BY DEF BootInv, Shapes
<1>2. [at |-> "idle"] \in Pcs /\ [at |-> "reset"] \in Pcs
  BY IdleShapes
<1>3. CASE EraseSector
  BY <1>1, <1>2, <1>3, PcFields, BootAssumption DEF EraseSector, Answer, Pcs, Words
<1>4. CASE ProgramWord \/ ProgramFails
  BY <1>1, <1>2, <1>4, PcFields DEF ProgramWord, ProgramFails, Answer, Pcs
<1>5. CASE WriteManifest \/ ManifestFails
  <2>0. pc.at = "manifest" /\ pc.word < 3
    BY <1>5 DEF WriteManifest, ManifestFails
  <2>1. pc.at = "manifest" /\ pc.word + 1 \in 0..3 /\ pc.slot \in Index
    BY <1>1, <2>0, PcFields
  <2>2. [pc EXCEPT !.word = @ + 1] = [at |-> "manifest", slot |-> pc.slot, word |-> pc.word + 1]
    BY <1>1, <2>1, PcFields
  <2>3. pc' = [pc EXCEPT !.word = @ + 1] \/ pc' = [at |-> "idle"]
    BY <1>5 DEF WriteManifest, ManifestFails, Answer
  <2> QED
    BY <1>2, <2>1, <2>2, <2>3 DEF Pcs
<1>6. CASE BeginErase \/ DataProgram \/ EndWrite
  BY <1>6, BootAssumption DEF BeginErase, DataProgram, EndWrite, NextSlot, Pcs, Words
<1>7. UNCHANGED pc \/ pc' = [at |-> "idle"] \/ pc' = [at |-> "reset"] \/ EraseSector
        \/ ProgramWord \/ ProgramFails \/ WriteManifest \/ ManifestFails
        \/ BeginErase \/ DataProgram \/ EndWrite
  BY DEF BootNext, Device, Uploader, Boot, IdleTimeout, BeginRefused,
         DataRefused, EndRefused, EraseFails, DataVerify, EndVerify, EndReset,
         AppRequestsBoot, AppCrashes, AppHealthy, UploadSend, UploadReply, UploadTimeout,
         UploadStart, Reset, Restart, Answer
<1> QED
  BY <1>1, <1>2, <1>3, <1>4, <1>5, <1>6, <1>7

LEMMA LineType ==
  ASSUME BootInv, BootNext
  PROVE  command' \in Lines
<1>1. command \in Lines /\ uploader \in Uploaders /\ NoLine \in Lines
  BY IdleShapes DEF BootInv, Shapes
<1>2. UNCHANGED command \/ command' = NoLine \/ UploadSend
  BY DEF BootNext, Device, Uploader, Boot, IdleTimeout, BeginErase, DataProgram,
         BeginRefused, DataRefused, EndRefused, EraseSector, EraseFails, ProgramWord,
         ProgramFails, DataVerify, EndVerify, EndWrite, WriteManifest, ManifestFails,
         EndReset, AppRequestsBoot, AppCrashes, AppHealthy, UploadReply, UploadTimeout,
         UploadStart, Reset, Restart, Answer
<1>3. CASE UploadSend
  <2>1. uploader.at \in {"begin", "data", "end"} /\ uploader.image \in Images
    BY <1>1, <1>3, UploaderFields DEF UploadSend
  <2>2. uploader.at = "data" => uploader.off \in 0..AppWords
    BY <1>1, UploaderFields
  <2>3. CASE uploader.at = "begin"
    BY <1>3, <2>1, <2>3 DEF UploadSend, Lines
  <2>4. CASE uploader.at = "data"
    <3> DEFINE n == IF uploader.off + ChunkWords > AppWords
                    THEN AppWords - uploader.off ELSE ChunkWords
    <3>1. n \in 0..AppWords
      BY <2>2, <2>4, BootAssumption
    <3>2. command' = [op |-> "DATA2", image |-> uploader.image, off |-> uploader.off,
                      len |-> n]
      BY <1>3, <2>4 DEF UploadSend
    <3> HIDE DEF n
    <3> QED
      BY <2>1, <2>2, <2>4, <3>1, <3>2 DEF Lines
  <2>5. CASE uploader.at = "end"
    BY <1>3, <2>5 DEF UploadSend, Lines
  <2> QED
    BY <2>1, <2>3, <2>4, <2>5
<1> QED
  BY <1>1, <1>2, <1>3

LEMMA UploaderType ==
  ASSUME BootInv, BootNext
  PROVE  uploader' \in Uploaders
<1>1. uploader \in Uploaders /\ Idle \in Uploaders
  BY IdleShapes DEF BootInv, Shapes
<1>2. UNCHANGED uploader \/ uploader' = Idle \/ UploadSend \/ UploadReply
        \/ \E image \in Images : UploadStart(image)
  BY DEF BootNext, Device, Uploader, Boot, IdleTimeout, BeginErase, DataProgram,
         BeginRefused, DataRefused, EndRefused, EraseSector, EraseFails, ProgramWord,
         ProgramFails, DataVerify, EndVerify, EndWrite, WriteManifest, ManifestFails,
         EndReset, AppRequestsBoot, AppCrashes, AppHealthy, UploadTimeout,
         Reset, Restart, Answer
<1>3. CASE UploadSend
  BY <1>1, <1>3 DEF UploadSend, Uploaders, Idle
<1>4. CASE UploadReply
  <2>1. uploader.at \in {"begin", "data", "end"} /\ uploader.image \in Images
    BY <1>1, <1>4, UploaderFields DEF UploadReply
  <2>2. CASE uploader.at = "data" /\ uploader.off + ChunkWords < AppWords
    <3>1. uploader.off + ChunkWords \in 0..AppWords
      BY <1>1, <2>2, UploaderFields, BootAssumption
    <3>2. [uploader EXCEPT !.off = @ + ChunkWords, !.sent = FALSE] \in Uploaders
      BY <1>1, <2>2, <3>1 DEF Uploaders
    <3>3. uploader.at = "data" /\ ~(uploader.off + ChunkWords >= AppWords)
      BY <1>1, <2>2, UploaderFields, BootAssumption
    <3> QED
      BY <1>1, <1>4, <2>2, <3>2, <3>3 DEF UploadReply, UploadNext
  <2>3. CASE uploader.at = "data" /\ uploader.off + ChunkWords >= AppWords
    BY <1>1, <1>4, <2>1, <2>3 DEF UploadReply, UploadNext, Uploaders
  <2>4. CASE uploader.at = "begin"
    BY <1>1, <1>4, <2>1, <2>4, BootAssumption DEF UploadReply, UploadNext, Uploaders
  <2>5. CASE uploader.at = "end"
    BY <1>1, <1>4, <2>5 DEF UploadReply, UploadNext
  <2>6. uploader.at = "data" => uploader.off \in Nat
    BY <1>1, UploaderFields
  <2> QED
    BY <2>1, <2>2, <2>3, <2>4, <2>5, <2>6, BootAssumption
<1>5. CASE \E image \in Images : UploadStart(image)
  BY <1>5 DEF UploadStart, Uploaders
<1> QED
  BY <1>1, <1>2, <1>3, <1>4, <1>5

LEMMA BootTypes ==
  ASSUME BootInv, BootNext
  PROVE  BootTypeOK' /\ Shapes'
<1>1. pc' \in Pcs /\ command' \in Lines /\ uploader' \in Uploaders
  BY PcType, LineType, UploaderType
<1>2. pc'.at \in {"idle", "erase", "program", "manifest", "reset"}
  BY <1>1 DEF Pcs
<1>3. command'.op \in {"none", "BEGIN", "DATA2", "END"}
  BY <1>1 DEF Lines
<1>4. uploader'.at \in {"idle", "begin", "data", "end"} /\ HostOff(uploader)' \in 0..AppWords
  BY <1>1, BootAssumption DEF Uploaders, HostOff
<1>5. reply' \in {"none", "ACK", "ERR"} /\ ended' \subseteq Images
  <2>1. reply \in {"none", "ACK", "ERR"} /\ ended \subseteq Images /\ BootTypeOK
    BY DEF BootInv, BootTypeOK
  <2>2. reply' \in {reply, "none", "ACK", "ERR"}
    BY DEF BootNext, Device, Uploader, Boot, IdleTimeout, BeginErase, DataProgram,
         BeginRefused, DataRefused, EndRefused, EraseSector, EraseFails, ProgramWord,
         ProgramFails, DataVerify, EndVerify, EndWrite, WriteManifest, ManifestFails,
         EndReset, AppRequestsBoot, AppCrashes, AppHealthy, UploadSend, UploadReply,
         UploadTimeout, UploadStart, Reset, Restart, Answer
  <2>3. ended' \subseteq Images
    BY <2>1, WhoChanges, HeldIsImage DEF EndWrite, EndAccepted
  <2> QED
    BY <2>1, <2>2, <2>3
<1>6. bootFaults' \in 0..MaxBootFaults /\ breaks' \in 0..MaxBreaks
  <2>1. bootFaults \in 0..MaxBootFaults /\ breaks \in 0..MaxBreaks
    BY DEF BootInv, BootTypeOK
  <2>2. breaks' = breaks \/ (breaks < MaxBreaks /\ breaks' = breaks + 1)
    BY DEF BootNext, Device, Uploader, Boot, IdleTimeout, BeginErase, DataProgram,
         BeginRefused, DataRefused, EndRefused, EraseSector, EraseFails, ProgramWord,
         ProgramFails, DataVerify, EndVerify, EndWrite, WriteManifest, ManifestFails,
         EndReset, AppRequestsBoot, AppCrashes, AppHealthy, UploadSend, UploadReply,
         UploadTimeout, UploadStart, Reset, bounds
  <2> QED
    BY <2>1, <2>2, WhoChanges, BootAssumption DEF Fault
<1> QED
  BY <1>1, <1>2, <1>3, <1>4, <1>5, <1>6, FlashTypes, RegisterTypes, UpdateTypes
     DEF BootTypeOK, Shapes

-----------------------------------------------------------------------------
(* Whose line it is.                                                       *)

LEMMA TurnsStep ==
  ASSUME BootInv, BootNext
  PROVE  Turns'
<1>1. /\ phase \in {"off", "maintenance", "application"}
      /\ Turns /\ pc \in Pcs /\ command \in Lines /\ uploader \in Uploaders
  BY DEF BootInv, BootTypeOK, Shapes
<1>2. /\ NoLine.op = "none" /\ Idle.at = "idle"
      /\ uploader.at # "idle" <=> uploader # Idle
      /\ command.op = "none" <=> command = NoLine
  BY <1>1, IdleShapes, UploaderFields, LineFields
<1>3. CASE Restart
  BY <1>2, <1>3 DEF Restart, Turns
<1>4. CASE Boot
  BY <1>1, <1>4 DEF Boot, Turns
<1>5. CASE IdleTimeout
  BY <1>1, <1>2, <1>5 DEF IdleTimeout, Turns
<1>6. CASE AppHealthy
  BY <1>1, <1>6 DEF AppHealthy, Turns, ram
<1>7. CASE BeginRefused \/ DataRefused \/ EndRefused
  BY <1>1, <1>2, <1>7 DEF BeginRefused, DataRefused, EndRefused, Handling, Answer, Turns
<1>8. CASE BeginErase \/ DataProgram \/ EndWrite
  BY <1>1, <1>2, <1>8 DEF BeginErase, DataProgram, EndWrite, Handling, Turns
<1>9. CASE EraseSector \/ EraseFails
  BY <1>1, <1>2, <1>9, PcFields DEF EraseSector, EraseFails, Answer, Turns
<1>10. CASE ProgramWord \/ ProgramFails
  BY <1>1, <1>2, <1>10, PcFields DEF ProgramWord, ProgramFails, Answer, Turns
<1>11. CASE DataVerify \/ EndVerify
  BY <1>1, <1>2, <1>11 DEF DataVerify, EndVerify, Answer, Turns
<1>12. CASE WriteManifest \/ ManifestFails
  <2>1. \/ pc' = [pc EXCEPT !.word = @ + 1] /\ UNCHANGED <<command, reply>>
        \/ Answer("ERR")
    BY <1>12 DEF WriteManifest, ManifestFails
  <2>2. pc.at = "manifest" /\ UNCHANGED <<phase, uploader>>
    BY <1>12 DEF WriteManifest, ManifestFails
  <2> QED
    BY <1>1, <1>2, <2>1, <2>2, PcFields DEF Answer, Turns
<1>13. CASE \E image \in Images : UploadStart(image)
  BY <1>1, <1>2, <1>13 DEF UploadStart, Turns
<1>14. CASE UploadSend
  BY <1>1, <1>2, <1>14 DEF UploadSend, Turns, BootInv, OwnLine
<1>15. CASE UploadReply \/ UploadTimeout
  BY <1>1, <1>2, <1>15 DEF UploadReply, UploadTimeout, UploadNext, Turns
<1>16. EndReset \/ AppRequestsBoot \/ AppCrashes \/ Reset => Restart
  BY DEF EndReset, AppRequestsBoot, AppCrashes, Reset
<1> QED
  BY <1>3, <1>4, <1>5, <1>6, <1>7, <1>8, <1>9, <1>10, <1>11, <1>12, <1>13, <1>14,
     <1>15, <1>16 DEF BootNext, Device, Uploader

LEMMA OwnLineStep ==
  ASSUME BootInv, BootNext
  PROVE  OwnLine'
<1>1. /\ Turns /\ OwnLine /\ pc \in Pcs /\ command \in Lines /\ uploader \in Uploaders
  BY DEF BootInv, Shapes
<1>2. /\ NoLine.op = "none" /\ Idle.at = "idle"
      /\ uploader.at # "idle" <=> uploader # Idle
      /\ command.op = "none" <=> command = NoLine
  BY <1>1, IdleShapes, UploaderFields, LineFields
<1>3. CASE Restart \/ IdleTimeout \/ UploadTimeout
  BY <1>2, <1>3 DEF Restart, IdleTimeout, UploadTimeout, OwnLine
<1>4. CASE Boot \/ AppHealthy
  BY <1>1, <1>4 DEF Boot, AppHealthy, OwnLine
<1>5. CASE BeginRefused \/ DataRefused \/ EndRefused
  BY <1>1, <1>2, <1>5
     DEF BeginRefused, DataRefused, EndRefused, Handling, Answer, OwnLine
<1>6. CASE BeginErase \/ DataProgram \/ EndWrite
  BY <1>1, <1>2, <1>6 DEF BeginErase, DataProgram, EndWrite, Handling, OwnLine
<1>7. CASE EraseSector \/ EraseFails
  BY <1>1, <1>2, <1>7, PcFields DEF EraseSector, EraseFails, Answer, OwnLine, Turns
<1>8. CASE ProgramWord \/ ProgramFails
  BY <1>1, <1>2, <1>8, PcFields DEF ProgramWord, ProgramFails, Answer, OwnLine, Turns
<1>9. CASE DataVerify \/ EndVerify
  BY <1>1, <1>2, <1>9 DEF DataVerify, EndVerify, Answer, OwnLine, Turns
<1>10. CASE WriteManifest \/ ManifestFails
  BY <1>1, <1>2, <1>10, PcFields DEF WriteManifest, ManifestFails, Answer, OwnLine, Turns
<1>11. CASE \E image \in Images : UploadStart(image)
  BY <1>1, <1>2, <1>11 DEF UploadStart, OwnLine
<1>12. CASE UploadSend
  <2>1. uploader.at # "idle" /\ ~uploader.sent /\ pc.at = "idle" /\ pc' = pc
    BY <1>1, <1>2, <1>12, UploaderFields DEF UploadSend, OwnLine
  <2>2. uploader' = [uploader EXCEPT !.sent = TRUE]
    BY <1>12 DEF UploadSend
  <2>3. /\ uploader'.at = uploader.at /\ uploader'.sent /\ uploader'.image = uploader.image
        /\ uploader.at = "data" => uploader'.off = uploader.off
    BY <1>1, <2>1, <2>2 DEF Uploaders
  <2>4. CASE uploader.at = "begin"
    BY <1>12, <2>1, <2>3, <2>4 DEF UploadSend, OwnLine
  <2>5. CASE uploader.at = "end"
    BY <1>12, <2>1, <2>3, <2>5 DEF UploadSend, OwnLine
  <2>6. CASE uploader.at = "data"
    <3> DEFINE n == IF uploader.off + ChunkWords > AppWords
                    THEN AppWords - uploader.off ELSE ChunkWords
    <3>1. /\ uploader.off + n = uploader.off + ChunkWords \/ uploader.off + n = AppWords
      BY <1>1, <2>6, UploaderFields, BootAssumption
    <3>2. command' = [op |-> "DATA2", image |-> uploader.image, off |-> uploader.off,
                      len |-> n]
      BY <1>12, <2>6 DEF UploadSend
    <3> HIDE DEF n
    <3>3. command'.op = "DATA2" /\ command'.image = uploader.image
            /\ command'.off = uploader.off /\ command'.len = n
      BY <3>2
    <3> QED
      BY <2>1, <2>3, <2>6, <3>1, <3>3 DEF OwnLine
  <2> QED
    BY <1>1, <2>1, <2>4, <2>5, <2>6, UploaderFields
<1>13. CASE UploadReply
  <2>1. command.op = "none" /\ command' = command /\ reply' = "none" /\ pc' = pc
    BY <1>1, <1>13, LineFields DEF UploadReply, Turns
  <2>2. uploader' = Idle \/ (uploader' = UploadNext /\ uploader.at # "end")
    BY <1>1, <1>2, <1>13, UploaderFields DEF UploadReply, UploadNext
  <2>3. pc.at \in {"idle", "reset"}
    BY <1>1, <1>13, PcFields DEF UploadReply, Turns
  <2>4. pc.at = "idle" \/ uploader' = Idle
    BY <1>1, <1>2, <1>13, <2>2, <2>3, UploaderFields DEF OwnLine, UploadReply
  <2> QED
    BY <1>2, <2>1, <2>4 DEF OwnLine
<1>14. EndReset \/ AppRequestsBoot \/ AppCrashes \/ Reset => Restart
  BY DEF EndReset, AppRequestsBoot, AppCrashes, Reset
<1> QED
  BY <1>3, <1>4, <1>5, <1>6, <1>7, <1>8, <1>9, <1>10, <1>11, <1>12, <1>13, <1>14
     DEF BootNext, Device, Uploader

-----------------------------------------------------------------------------
(* What is acknowledged.                                                   *)

LEMMA HostPlace ==
  ASSUME uploader \in Uploaders
  PROVE  /\ uploader.at \in {"idle", "begin"} => HostOff(uploader) = 0
         /\ uploader.at = "data" => HostOff(uploader) = uploader.off
         /\ uploader.at = "end" => HostOff(uploader) = AppWords
BY DEF HostOff

(* A word is programmed behind what is acknowledged.                       *)
LEMMA ProgramKeeps ==
  ASSUME BootInv, pc.at = "program", NEW w, app' = [app EXCEPT ![offset + pc.pos] = w],
         UNCHANGED uploader
  PROVE  AckedIsWritten'
<1>1. /\ Turns /\ OwnLine /\ Chunks /\ pc \in Pcs /\ uploader \in Uploaders
      /\ offset \in Nat /\ app \in [Words -> Images \cup {"erased", "torn"}]
  BY BootAssumption DEF BootInv, Shapes, BootTypeOK
<1>2. pc.pos \in Nat
  BY <1>1, PcFields
<1>3. HostOff(uploader) <= offset /\ HostOff(uploader) \in Nat
  BY <1>1, HostPlace, HostOffset, UploaderFields DEF Turns, OwnLine, Chunks
<1>4. \A i \in Words : i < HostOff(uploader) => i # offset + pc.pos
  BY <1>1, <1>2, <1>3 DEF Words
<1>5. \A i \in Words : i < HostOff(uploader) => app'[i] = app[i]
  BY <1>1, <1>4
<1> QED
  BY <1>1, <1>5 DEF Chunks, AckedIsWritten

LEMMA ReplyWritten ==
  ASSUME BootInv, UploadReply
  PROVE  AckedIsWritten'
<1>1. /\ Chunks /\ uploader \in Uploaders /\ Idle.at = "idle" /\ Idle \in Uploaders
      /\ app' = app /\ AckedIsWritten
  BY IdleShapes DEF BootInv, Shapes, UploadReply, flash, Chunks
<1>2. uploader.at \in {"begin", "data", "end"}
  BY <1>1, UploaderFields DEF UploadReply
<1>3. CASE uploader' = Idle
  BY <1>1, <1>3, BootAssumption DEF HostOff, AckedIsWritten, Words
<1>4. CASE uploader' # Idle
  <2>1. reply = "ACK" /\ uploader' = UploadNext
    BY <1>4 DEF UploadReply
  <2>2. CASE uploader.at = "begin"
    <3>1. uploader' = [at |-> "data", image |-> uploader.image, off |-> 0, sent |-> FALSE]
      BY <2>1, <2>2 DEF UploadNext
    <3>2. HostOff(uploader)' = 0
      BY <3>1 DEF HostOff
    <3> QED
      BY <3>2 DEF AckedIsWritten, Words
  <2>3. CASE uploader.at = "data"
    <3>1. \A i \in Words : i < uploader.off + ChunkWords => app[i] = uploader.image
      BY <1>1, <2>1, <2>3 DEF Chunks
    <3>2. uploader.off \in Nat /\ ChunkWords \in Nat /\ AppWords \in Nat
      BY <1>1, <2>3, UploaderFields, BootAssumption
    <3>3. CASE uploader.off + ChunkWords < AppWords
      <4>1. ~(uploader.off + ChunkWords >= AppWords)
        BY <3>2, <3>3
      <4>2. uploader' = [uploader EXCEPT !.off = @ + ChunkWords, !.sent = FALSE]
        BY <2>1, <2>3, <3>3, <4>1 DEF UploadNext
      <4>3. uploader'.at = "data" /\ uploader'.image = uploader.image
              /\ uploader'.off = uploader.off + ChunkWords
        BY <1>1, <2>3, <4>2 DEF Uploaders
      <4> QED
        BY <1>1, <3>1, <4>3 DEF HostOff, AckedIsWritten
    <3>4. CASE uploader.off + ChunkWords >= AppWords
      <4>1. ~(uploader.off + ChunkWords < AppWords)
        BY <3>2, <3>4
      <4>2. uploader' = [at |-> "end", image |-> uploader.image, sent |-> FALSE]
        BY <2>1, <2>3, <3>4, <4>1 DEF UploadNext
      <4>3. \A i \in Words : app[i] = uploader.image
        BY <3>1, <3>2, <3>4 DEF Words
      <4> QED
        BY <1>1, <4>2, <4>3 DEF AckedIsWritten
    <3> QED
      BY <3>2, <3>3, <3>4
  <2>4. CASE uploader.at = "end"
    BY <1>4, <2>1, <2>4 DEF UploadNext
  <2> QED
    BY <1>2, <2>2, <2>3, <2>4
<1> QED
  BY <1>3, <1>4

(* A chunk that reads back completes what its ACK will acknowledge.        *)
LEMMA VerifiedWritten ==
  ASSUME BootInv, DataVerify, reply' = "ACK", uploader.at = "data"
  PROVE  \A i \in Words : i < uploader.off + ChunkWords => app[i] = uploader.image
<1>1. /\ Turns /\ OwnLine /\ Chunks /\ command \in Lines /\ uploader \in Uploaders
      /\ pc.at = "program"
  BY DEF BootInv, Shapes, DataVerify
<1>2. /\ command.op = "DATA2" /\ command.off = offset /\ command.image = uploader.image
      /\ offset = uploader.off
      /\ offset + command.len = uploader.off + ChunkWords \/ offset + command.len = AppWords
  BY <1>1 DEF Turns, OwnLine, Chunks
<1>3. /\ command.len \in Nat /\ uploader.off \in Nat
      /\ ChunkWords \in Nat /\ AppWords \in Nat
  BY <1>1, <1>2, LineFields, UploaderFields, BootAssumption
<1>4. \A i \in Words : i \in offset..(offset + command.len - 1) => app[i] = command.image
  BY DEF DataVerify, Answer
<1>5. \A i \in Words : i < uploader.off => app[i] = uploader.image
  BY <1>1, HostPlace DEF Chunks, AckedIsWritten
<1> QED
  BY <1>2, <1>3, <1>4, <1>5 DEF Words

LEMMA ChunksStep ==
  ASSUME BootInv, BootNext
  PROVE  Chunks'
<1>1. /\ Turns /\ OwnLine /\ Chunks /\ AckedIsWritten
      /\ pc \in Pcs /\ command \in Lines /\ uploader \in Uploaders
  BY DEF BootInv, Shapes, Chunks
<1>2. /\ NoLine.op = "none" /\ Idle.at = "idle"
      /\ uploader.at # "idle" <=> uploader # Idle
      /\ command.op = "none" <=> command = NoLine
  BY <1>1, IdleShapes, UploaderFields, LineFields
<1>3. ASSUME uploader' = Idle
      PROVE  AckedIsWritten'
  BY <1>2, <1>3 DEF AckedIsWritten, HostOff, Words
<1>4. ASSUME UNCHANGED <<app, uploader>>
      PROVE  AckedIsWritten'
  BY <1>1, <1>4 DEF AckedIsWritten
<1>5. CASE Restart
  BY <1>2, <1>3, <1>5 DEF Restart, Chunks
<1>6. CASE IdleTimeout
  BY <1>2, <1>3, <1>6 DEF IdleTimeout, Chunks
<1>7. CASE UploadTimeout
  <2>1. UNCHANGED <<pc, command, offset>> /\ uploader' = Idle
    BY <1>7 DEF UploadTimeout, ram
  <2> QED
    BY <1>1, <1>2, <1>3, <2>1 DEF Chunks
<1>8. CASE Boot \/ AppHealthy \/ BeginRefused \/ DataRefused \/ EndRefused \/ BeginErase
        \/ EndWrite
  <2>1. UNCHANGED <<app, uploader>> /\ pc'.at # "program" /\ reply' \in {reply, "ERR"}
    BY <1>1, <1>8
       DEF Boot, AppHealthy, BeginRefused, DataRefused, EndRefused, BeginErase, EndWrite,
           Handling, Answer, flash, Turns
  <2> QED
    BY <1>1, <1>4, <2>1 DEF Chunks
<1>9. CASE DataProgram
  <2>1. /\ UNCHANGED <<app, uploader, command, offset, reply>>
        /\ pc' = [at |-> "program", pos |-> 0]
        /\ command.off = offset /\ command.off + command.len <= AppWords
        /\ command.op = "DATA2"
    BY <1>9 DEF DataProgram, Handling, flash, ram
  <2>2. command.len >= 0
    BY <1>1, <2>1, LineFields
  <2> QED
    BY <1>1, <1>4, <2>1, <2>2 DEF Chunks
<1>10. CASE EraseSector \/ EraseFails
  <2>1. pc.at = "erase" /\ UNCHANGED uploader
    BY <1>10 DEF EraseSector, EraseFails
  <2>2. uploader.at \in {"idle", "begin"} /\ HostOff(uploader) = 0
    BY <1>1, <2>1, UploaderFields, HostPlace DEF Turns, OwnLine
  <2>3. pc'.at # "program"
    BY <1>1, <1>10, <2>1, PcFields DEF EraseSector, EraseFails, Answer
  <2>4. AckedIsWritten'
    BY <2>1, <2>2 DEF AckedIsWritten, Words
  <2> QED
    BY <2>1, <2>2, <2>3, <2>4 DEF Chunks
<1>11. CASE ProgramWord \/ ProgramFails
  <2>1. /\ pc.at = "program" /\ pc.pos < command.len /\ UNCHANGED <<uploader, offset>>
        /\ \E w : app' = [app EXCEPT ![offset + pc.pos] = w]
        /\ \/ pc' = [pc EXCEPT !.pos = @ + 1] /\ UNCHANGED <<command, reply>>
           \/ Answer("ERR")
    BY <1>11 DEF ProgramWord, ProgramFails, ram
  <2>2. AckedIsWritten'
    BY <2>1, ProgramKeeps
  <2>3. reply' # "ACK"
    BY <1>1, <2>1 DEF Turns, Answer
  <2>4. CASE Answer("ERR")
    BY <2>2, <2>3, <2>4 DEF Answer, Chunks
  <2>5. CASE pc' = [pc EXCEPT !.pos = @ + 1] /\ UNCHANGED <<command, reply>>
    <3>1. pc'.pos = pc.pos + 1 /\ pc.pos + 1 <= command.len
      BY <1>1, <2>1, <2>5, PcFields, LineFields DEF Turns
    <3> QED
      BY <1>1, <2>1, <2>2, <2>3, <2>5, <3>1 DEF Chunks
  <2> QED
    BY <2>1, <2>4, <2>5
<1>12. CASE DataVerify
  <2>1. UNCHANGED <<app, uploader>> /\ pc'.at = "idle"
    BY <1>12 DEF DataVerify, Answer, flash
  <2> QED
    BY <1>4, <1>12, <2>1, VerifiedWritten DEF Chunks
<1>13. CASE EndVerify
  <2>1. UNCHANGED <<app, uploader>> /\ pc'.at # "program" /\ pc.at = "manifest"
    BY <1>13 DEF EndVerify, Answer, flash
  <2>2. uploader.at # "data"
    BY <1>1, <2>1 DEF Turns, OwnLine
  <2> QED
    BY <1>4, <2>1, <2>2 DEF Chunks
<1>14. CASE WriteManifest \/ ManifestFails
  <2>1. /\ UNCHANGED <<app, uploader>> /\ reply' \in {reply, "ERR"} /\ pc.at = "manifest"
        /\ pc' = [pc EXCEPT !.word = @ + 1] \/ pc' = [at |-> "idle"]
    BY <1>14 DEF WriteManifest, ManifestFails, Answer
  <2>2. pc'.at # "program"
    BY <1>1, <2>1, PcFields
  <2> QED
    BY <1>1, <1>4, <2>1, <2>2 DEF Chunks
<1>15. CASE \E image \in Images : UploadStart(image)
  <2>1. /\ pc'.at = "idle" /\ reply' = "none" /\ app' = app
        /\ uploader'.at = "begin"
    BY <1>1, <1>15 DEF UploadStart, flash
  <2> QED
    BY <2>1 DEF Chunks, AckedIsWritten, HostOff, Words
<1>16. CASE UploadSend
  <2>1. /\ uploader.at # "idle" /\ ~uploader.sent /\ UNCHANGED <<pc, reply, app>>
        /\ uploader' = [uploader EXCEPT !.sent = TRUE]
    BY <1>2, <1>16 DEF UploadSend, flash
  <2>2. pc.at = "idle" /\ reply = "none"
    BY <1>1, <2>1 DEF OwnLine
  <2>3. uploader'.at = uploader.at /\ uploader'.image = uploader.image
          /\ (uploader.at = "data" => uploader'.off = uploader.off)
    BY <1>1, <2>1 DEF Uploaders
  <2>4. HostOff(uploader)' = HostOff(uploader)
    BY <2>3 DEF HostOff
  <2> QED
    BY <1>1, <2>1, <2>2, <2>3, <2>4 DEF Chunks, AckedIsWritten
<1>17. CASE UploadReply
  <2>1. UNCHANGED <<pc, command, offset>> /\ reply' = "none" /\ reply # "none"
    BY <1>17 DEF UploadReply, ram
  <2>2. pc.at # "program"
    BY <1>1, <2>1 DEF Turns
  <2> QED
    BY <1>17, <2>1, <2>2, ReplyWritten DEF Chunks
<1>18. EndReset \/ AppRequestsBoot \/ AppCrashes \/ Reset => Restart
  BY DEF EndReset, AppRequestsBoot, AppCrashes, Reset
<1> QED
  BY <1>5, <1>6, <1>7, <1>8, <1>9, <1>10, <1>11, <1>12, <1>13, <1>14, <1>15, <1>16,
     <1>17, <1>18 DEF BootNext, Device, Uploader

-----------------------------------------------------------------------------
(* The journal and the slot for an update.                                 *)

(* The journal changes by one word of the manifest being written.          *)
LEMMA OneWord ==
  ASSUME BootInv, BootNext
  PROVE  \/ UNCHANGED manifest
         \/ /\ pc.at = "manifest" /\ pc.word < 3 /\ ended' = ended
            /\ \E right \in BOOLEAN : ManifestWord(right) /\ (right \/ spoiled')
<1>1. CASE WriteManifest
  BY <1>1 DEF WriteManifest, history
<1>2. CASE ManifestFails
  BY <1>2 DEF ManifestFails
<1>3. CASE Reset
  <2>1. CASE UNCHANGED manifest
    BY <2>1
  <2>2. CASE manifest' # manifest
    <3>1. pc.at = "manifest" /\ pc.word < 3 /\ ManifestWord(FALSE) /\ ended' = ended
      BY <1>3, <2>2 DEF Reset, flash
    <3>2. spoiled'
      BY <1>3, <3>1, Zenon DEF Reset
    <3> QED
      BY <3>1, <3>2
  <2> QED
    BY <2>1, <2>2
<1> QED
  BY <1>1, <1>2, <1>3, WhoChanges

LEMMA JournalStep ==
  ASSUME BootInv, BootNext
  PROVE  JournalShape'
<1>1. BootTypeOK /\ Shapes /\ Committing /\ JournalShape /\ pc \in Pcs
  BY DEF BootInv, Shapes
<1>2. ended \subseteq ended'
  BY WhoChanges DEF EndWrite
<1>3. CASE UNCHANGED manifest
  BY <1>1, <1>2, <1>3 DEF JournalShape, Erased
<1>4. ASSUME pc.at = "manifest", pc.word < 3, NEW right \in BOOLEAN, ManifestWord(right)
      PROVE  JournalShape'
  <2>1. /\ \A i \in Index : i # pc.slot => manifest'[i] = manifest[i]
        /\ manifest'[pc.slot].image = expected
        /\ manifest'[pc.slot].words = pc.word + 1
        /\ manifest'[pc.slot].exact <=> manifest[pc.slot].exact /\ right
        /\ manifest'[pc.slot].good <=> manifest[pc.slot].good /\ (right \/ pc.word = 1)
    BY <1>1, <1>4, WordLeaves
  <2>2. pc.slot \in Index /\ pc.word \in Nat /\ Index \subseteq Nat
    BY <1>1, <1>4, PcFields, BootAssumption DEF Index
  <2>3. ~Erased(manifest'[pc.slot]) /\ expected \in ended'
    BY <1>1, <1>2, <1>4, <2>1, <2>2 DEF Erased, Committing
  <2>4. \A i \in Index : i > pc.slot => Erased(manifest[i])
    BY <1>1, <1>4 DEF Committing
  <2>5. \A i \in Index : i < pc.slot => ~Erased(manifest[i])
    BY <1>1, <1>4 DEF Committing
  <2>6. manifest'[pc.slot].exact => manifest'[pc.slot].good
    BY <1>1, <2>1, <2>2 DEF JournalShape
  <2>7. \A i, j \in Index : i < j /\ Erased(manifest'[i]) => Erased(manifest'[j])
    <3> SUFFICES ASSUME NEW i \in Index, NEW j \in Index, i < j, Erased(manifest'[i])
                 PROVE  Erased(manifest'[j])
      OBVIOUS
    <3>1. i # pc.slot /\ Erased(manifest[i]) /\ ~(i < pc.slot)
      BY <2>1, <2>3, <2>5
    <3>2. i \in Nat /\ j \in Nat /\ pc.slot \in Nat
      BY <2>2
    <3>3. j > pc.slot /\ j # pc.slot
      BY <3>1, <3>2
    <3> QED
      BY <2>1, <2>4, <3>3
  <2>8. \A i \in Index : /\ ~Erased(manifest'[i]) => manifest'[i].image \in ended'
                         /\ Erased(manifest'[i]) => manifest'[i].exact
                         /\ manifest'[i].exact => manifest'[i].good
    BY <1>1, <1>2, <2>1, <2>3, <2>6 DEF JournalShape
  <2> QED
    BY <2>7, <2>8 DEF JournalShape
<1> QED
  BY <1>3, <1>4, OneWord

LEMMA CommittingStep ==
  ASSUME BootInv, BootNext
  PROVE  Committing'
<1>1. /\ BootTypeOK /\ Shapes /\ Turns /\ OwnLine /\ Committing /\ JournalShape
      /\ pc \in Pcs /\ command \in Lines /\ uploader \in Uploaders
      /\ uploader.at # "idle" <=> uploader # Idle
  BY UploaderFields DEF BootInv, Shapes
<1>2. CASE EndWrite
  <2>1. /\ UNCHANGED <<expected, app, manifest>> /\ expected \in ended' /\ Holds(expected)
        /\ \E i \in NextSlot : pc' = [at |-> "manifest", slot |-> i, word |-> 0]
    BY <1>2 DEF EndWrite, EndAccepted, flash, ram
  <2>2. PICK i \in NextSlot : pc' = [at |-> "manifest", slot |-> i, word |-> 0]
    BY <2>1
  <2>3. pc'.at = "manifest" /\ pc'.slot = i /\ pc'.word = 0
    BY <2>2
  <2>4. /\ i \in Index /\ Erased(manifest[i])
        /\ \A j \in Index : j < i => ~Erased(manifest[j])
    BY BootAssumption DEF NextSlot, Index
  <2>5. manifest[i].words = 0 /\ manifest[i].exact
          /\ \A j \in Index : j > i => Erased(manifest[j])
    BY <1>1, <2>4 DEF JournalShape, Erased
  <2> QED
    BY <2>1, <2>3, <2>4, <2>5 DEF Committing, Holds
<1>3. ASSUME pc.at = "manifest", pc.word < 3, pc' = [pc EXCEPT !.word = @ + 1],
             UNCHANGED <<app, expected, ended>>, spoiled => spoiled',
             NEW right \in BOOLEAN, ManifestWord(right), right \/ spoiled'
      PROVE  Committing'
  <2>1. /\ \A i \in Index : i # pc.slot => manifest'[i] = manifest[i]
        /\ manifest'[pc.slot].image = expected
        /\ manifest'[pc.slot].words = pc.word + 1
        /\ manifest'[pc.slot].exact <=> manifest[pc.slot].exact /\ right
    BY <1>1, <1>3, WordLeaves
  <2>2. /\ pc'.at = "manifest" /\ pc'.slot = pc.slot /\ pc'.word = pc.word + 1
        /\ pc.slot \in Index /\ Index \subseteq Nat
    BY <1>1, <1>3, PcFields DEF Index
  <2>3. /\ expected' \in ended' /\ Holds(expected)'
        /\ \A i \in Index : i > pc.slot => Erased(manifest'[i])
        /\ \A i \in Index : i < pc.slot => ~Erased(manifest'[i])
    BY <1>1, <1>3, <2>1, <2>2 DEF Committing, Holds
  <2>4. manifest'[pc.slot].exact \/ spoiled'
    BY <1>1, <1>3, <2>1 DEF Committing
  <2> QED
    BY <1>3, <2>1, <2>2, <2>3, <2>4 DEF Committing
<1>4. CASE WriteManifest
  BY <1>3, <1>4 DEF WriteManifest, ram, history
<1>5. CASE ManifestFails
  <2>1. \/ pc' = [at |-> "idle"]
        \/ ManifestWord(FALSE) /\ pc' = [pc EXCEPT !.word = @ + 1]
    BY <1>5, Zenon DEF ManifestFails, Answer
  <2>2. pc.at = "manifest" /\ pc.word < 3 /\ UNCHANGED <<app, expected, ended>> /\ spoiled'
    BY <1>5 DEF ManifestFails, ram
  <2>3. CASE pc' = [at |-> "idle"]
    BY <2>3 DEF Committing
  <2> QED
    BY <1>3, <2>1, <2>2, <2>3
<1>6. ASSUME UNCHANGED <<pc, expected, app, manifest, ended, spoiled>>
      PROVE  Committing'
  BY <1>1, <1>6 DEF Committing, Holds
<1>7. CASE Boot \/ AppHealthy \/ UploadSend \/ UploadReply \/ UploadTimeout
  BY <1>6, <1>7
     DEF Boot, AppHealthy, UploadSend, UploadReply, UploadTimeout, flash, ram, history
<1>8. CASE Restart \/ IdleTimeout
  BY <1>8 DEF Restart, IdleTimeout, Committing
<1>9. CASE BeginRefused \/ DataRefused \/ EndRefused \/ DataVerify \/ EndVerify
  BY <1>9 DEF BeginRefused, DataRefused, EndRefused, DataVerify, EndVerify, Answer, Committing
<1>10. CASE BeginErase \/ DataProgram
  BY <1>10 DEF BeginErase, DataProgram, Committing
<1>11. CASE EraseSector \/ EraseFails
  BY <1>1, <1>11, PcFields DEF EraseSector, EraseFails, Answer, Committing
<1>12. CASE ProgramWord \/ ProgramFails
  BY <1>1, <1>12, PcFields DEF ProgramWord, ProgramFails, Answer, Committing
<1>13. CASE \E image \in Images : UploadStart(image)
  BY <1>13 DEF UploadStart, Committing
<1>14. EndReset \/ AppRequestsBoot \/ AppCrashes \/ Reset => Restart
  BY DEF EndReset, AppRequestsBoot, AppCrashes, Reset
<1> QED
  BY <1>2, <1>4, <1>5, <1>7, <1>8, <1>9, <1>10, <1>11, <1>12, <1>13, <1>14
     DEF BootNext, Device, Uploader

(* A manifest all of whose words are written brings its image into force,  *)
(* unless the writing was spoiled.                                         *)
LEMMA Committed ==
  ASSUME BootInv, pc.at = "manifest", pc.word = 3
  PROVE  AppValid \/ spoiled
<1>1. /\ Committing /\ JournalShape /\ pc.slot \in Index
      /\ \A i \in Index : i \in Nat /\ 0..i \subseteq Index
  BY PcFields, BootAssumption DEF BootInv, Shapes, Index
<1>2. SUFFICES ASSUME manifest[pc.slot].exact
               PROVE  AppValid
  BY <1>1 DEF Committing
<1>3. pc.word > 0
  OBVIOUS
<1>4. manifest[pc.slot].words = 3 /\ manifest[pc.slot].image = expected /\ Holds(expected)
  BY <1>1, <1>3 DEF Committing
<1>5. manifest[pc.slot].good
  BY <1>1, <1>2 DEF JournalShape
<1>6. Valid(manifest[pc.slot]) /\ ~Erased(manifest[pc.slot])
  BY <1>4, <1>5 DEF Valid, Erased
<1>7. \A j \in 0..pc.slot : j \in Index /\ (j = pc.slot \/ j < pc.slot)
  BY <1>1
<1>8. \A j \in 0..pc.slot : ~Erased(manifest[j])
  BY <1>1, <1>6, <1>7 DEF Committing
<1>9. \A i \in Index : (\A j \in 0..i : ~Erased(manifest[j])) => i <= pc.slot
  <2> SUFFICES ASSUME NEW i \in Index, ~(i <= pc.slot)
               PROVE  \E j \in 0..i : Erased(manifest[j])
    OBVIOUS
  <2>1. i > pc.slot /\ i \in 0..i
    BY <1>1
  <2> QED
    BY <1>1, <2>1 DEF Committing
<1>10. pc.slot \in Latest
  BY <1>1, <1>6, <1>8, <1>9 DEF Latest
<1> QED
  BY <1>4, <1>10 DEF AppValid

(* As long as a slot is free, the board can commit another application;    *)
(* once none is, it has one.                                               *)
LEMMA SlotStep ==
  ASSUME BootInv, BootNext
  PROVE  SlotForUpdate'
<1>1. /\ Turns /\ OwnLine /\ SlotForUpdate /\ pc \in Pcs
      /\ uploader.at # "idle" <=> uploader # Idle
  BY UploaderFields DEF BootInv, Shapes
<1>2. ASSUME UNCHANGED <<app, manifest>>
      PROVE  (AppValid' <=> AppValid) /\ NextSlot' = NextSlot
  BY <1>2 DEF AppValid, NextSlot, Latest, Holds
<1>3. ASSUME UNCHANGED manifest
      PROVE  NextSlot' = NextSlot
  BY <1>3 DEF NextSlot
(* The application is changed while there is a slot. *)
<1>4. ASSUME pc.at \in {"erase", "program"}
      PROVE  NextSlot # {} \/ spoiled
  BY <1>1, <1>4 DEF SlotForUpdate
<1>5. CASE EraseSector \/ EraseFails
  <2>1. pc.at = "erase" /\ UNCHANGED <<manifest, spoiled>>
    BY <1>5 DEF EraseSector, EraseFails, history
  <2>2. pc'.at \in {"erase", "idle"}
    BY <1>1, <1>5, PcFields DEF EraseSector, EraseFails, Answer
  <2>3. NextSlot' # {} \/ spoiled'
    BY <1>3, <1>4, <2>1
  <2> QED
    BY <2>2, <2>3 DEF SlotForUpdate, NeverStranded
<1>6. CASE ProgramWord \/ ProgramFails
  <2>1. pc.at = "program" /\ UNCHANGED <<manifest, spoiled, updating>>
    BY <1>6 DEF ProgramWord, ProgramFails, ram, history
  <2>2. pc'.at \in {"program", "idle"}
    BY <1>1, <1>6, PcFields DEF ProgramWord, ProgramFails, Answer
  <2>3. NextSlot' # {} \/ spoiled'
    BY <1>3, <1>4, <2>1
  <2> QED
    BY <1>1, <2>1, <2>2, <2>3 DEF SlotForUpdate, NeverStranded
<1>7. CASE BeginErase
  <2>1. NextSlot # {} /\ UNCHANGED <<app, manifest, spoiled>> /\ pc'.at = "erase"
    BY <1>7 DEF BeginErase, flash, history
  <2> QED
    BY <1>2, <2>1 DEF SlotForUpdate, NeverStranded
<1>8. CASE DataProgram
  <2>1. UNCHANGED <<app, manifest, spoiled>> /\ updating /\ updating' /\ pc'.at = "program"
    BY <1>8 DEF DataProgram, flash, ram, history
  <2>2. pc.at = "idle"
    BY <1>8 DEF DataProgram, Handling
  <2> QED
    BY <1>1, <1>2, <2>1, <2>2 DEF SlotForUpdate, NeverStranded
<1>9. CASE EndWrite
  <2>1. updating' /\ pc'.at = "manifest"
    BY <1>9 DEF EndWrite, EndAccepted, ram
  <2> QED
    BY <2>1 DEF SlotForUpdate, NeverStranded
<1>10. CASE WriteManifest
  <2>1. pc.at = "manifest" /\ UNCHANGED updating /\ pc' = [pc EXCEPT !.word = @ + 1]
    BY <1>10 DEF WriteManifest, ram
  <2>2. pc'.at = "manifest"
    BY <1>1, <2>1, PcFields
  <2> QED
    BY <1>1, <2>1, <2>2 DEF SlotForUpdate, NeverStranded
<1>11. CASE ManifestFails
  <2>1. spoiled' /\ pc.at = "manifest" /\ UNCHANGED updating
    BY <1>11, Zenon DEF ManifestFails, ram
  <2> QED
    BY <1>1, <2>1 DEF SlotForUpdate, NeverStranded
<1>12. CASE EndVerify
  <2>1. /\ pc.at = "manifest" /\ pc.word = 3 /\ UNCHANGED <<app, manifest, spoiled>>
        /\ \/ pc'.at = "reset" /\ AppValid /\ ~updating'
           \/ pc'.at = "idle"
    BY <1>12 DEF EndVerify, Answer, flash, history
  <2>2. AppValid' \/ spoiled'
    BY <1>2, <2>1, Committed
  <2>3. pc'.at = "idle" => spoiled' \/ NextSlot' # {}
    <3>1. SUFFICES ASSUME pc'.at = "idle"
                   PROVE  spoiled
      BY <2>1
    <3>2. ~(manifest[pc.slot].exact /\ AppValid)
      BY <1>12, <3>1 DEF EndVerify
    <3> QED
      BY <2>1, <3>2, Committed DEF BootInv, Committing
  <2> QED
    BY <2>1, <2>2, <2>3 DEF SlotForUpdate, NeverStranded
<1>13. CASE EndReset \/ AppRequestsBoot \/ AppCrashes
  <2>1. /\ UNCHANGED <<app, manifest, spoiled>> /\ pc.at \in {"idle", "reset"}
        /\ pc'.at = "idle" /\ ~updating'
    BY <1>1, <1>13
       DEF EndReset, AppRequestsBoot, AppCrashes, Restart, Turns, flash, history
  <2> QED
    BY <1>1, <1>2, <2>1 DEF SlotForUpdate, NeverStranded
<1>14. CASE Reset
  <2>1. pc'.at = "idle" /\ ~updating' /\ (spoiled => spoiled')
    <3>1. pc'.at = "idle" /\ updating' = FALSE
      BY <1>14 DEF Reset, Restart
    <3>2. spoiled' <=> spoiled \/ (pc.at = "manifest" /\ pc.word < 3)
      BY <1>14, Zenon DEF Reset
    <3> QED
      BY <3>1, <3>2
  <2>2. CASE pc.at = "manifest" /\ pc.word < 3
    <3>1. spoiled'
      BY <1>14, <2>2, Zenon DEF Reset
    <3> QED
      BY <2>1, <3>1 DEF SlotForUpdate, NeverStranded
  <2>3. CASE pc.at = "manifest" /\ ~(pc.word < 3)
    <3>1. UNCHANGED <<app, manifest>>
      BY <1>14, <2>3 DEF Reset, flash
    <3>2. pc.word = 3
      BY <1>1, <2>3, PcFields
    <3>3. AppValid \/ spoiled
      BY <2>3, <3>2, Committed
    <3> QED
      BY <1>2, <2>1, <3>1, <3>3 DEF SlotForUpdate, NeverStranded
  <2>4. CASE pc.at \in {"erase", "program"}
    <3>1. UNCHANGED manifest
      BY <1>14, <2>4 DEF Reset, flash
    <3> QED
      BY <1>3, <1>4, <2>1, <2>4, <3>1 DEF SlotForUpdate, NeverStranded
  <2>5. CASE pc.at \in {"idle", "reset"}
    <3>1. UNCHANGED <<app, manifest>>
      BY <1>14, <2>5 DEF Reset, flash
    <3> QED
      BY <1>1, <1>2, <2>1, <2>5, <3>1 DEF SlotForUpdate, NeverStranded
  <2> QED
    BY <1>1, <2>2, <2>3, <2>4, <2>5, PcFields
<1>15. ASSUME UNCHANGED <<app, manifest, spoiled, updating>>,
              UNCHANGED pc \/ (pc'.at = "idle" /\ pc.at \in {"idle", "program"})
       PROVE  SlotForUpdate'
  BY <1>1, <1>2, <1>15 DEF SlotForUpdate, NeverStranded
<1>16. CASE Boot \/ IdleTimeout \/ AppHealthy \/ UploadSend \/ UploadReply \/ UploadTimeout
  BY <1>15, <1>16
     DEF Boot, IdleTimeout, AppHealthy, UploadSend, UploadReply, UploadTimeout,
         flash, ram, history
<1>17. CASE BeginRefused \/ DataRefused \/ EndRefused \/ DataVerify
  BY <1>15, <1>17
     DEF BeginRefused, DataRefused, EndRefused, DataVerify, Handling, Answer,
         flash, ram, history
<1>18. CASE \E image \in Images : UploadStart(image)
  BY <1>15, <1>18 DEF UploadStart, flash, ram, history
<1> QED
  BY <1>5, <1>6, <1>7, <1>8, <1>9, <1>10, <1>11, <1>12, <1>13, <1>14, <1>16, <1>17,
     <1>18 DEF BootNext, Device, Uploader

-----------------------------------------------------------------------------
(* What is started, and what is counted.                                   *)

(* A valid application is an image that an uploader has ended.             *)
LEMMA ValidIsEnded ==
  ASSUME BootInv, AppValid
  PROVE  \E image \in ended : Holds(image)
<1>1. PICK i \in Latest : Holds(manifest[i].image)
  BY DEF AppValid
<1>2. i \in Index /\ Valid(manifest[i])
  BY DEF Latest
<1>3. ~Erased(manifest[i])
  BY <1>2 DEF Valid, Erased
<1> QED
  BY <1>1, <1>2, <1>3 DEF BootInv, JournalShape

LEMMA RunsStep ==
  ASSUME BootInv, BootNext
  PROVE  RunsWholeImage'
<1>1. Turns /\ RunsWholeImage
  BY DEF BootInv
<1>2. ended \subseteq ended'
  BY WhoChanges DEF EndWrite
<1>3. CASE phase' # "application"
  BY <1>3 DEF RunsWholeImage
<1>4. CASE phase' = "application" /\ phase = "application"
  <2>1. pc.at = "idle"
    BY <1>1, <1>4 DEF Turns
  <2>2. UNCHANGED app
    BY <1>4, <2>1, WhoChanges
       DEF EraseSector, EraseFails, ProgramWord, ProgramFails, Reset, Restart
  <2> QED
    BY <1>1, <1>2, <1>4, <2>2 DEF RunsWholeImage, Holds
<1>5. CASE phase' = "application" /\ phase # "application"
  <2>1. Boot \/ IdleTimeout
    BY <1>5, WhoChanges DEF EndReset, AppRequestsBoot, AppCrashes, Reset, Restart
  <2>2. AppValid /\ UNCHANGED app
    BY <1>5, <2>1, Zenon DEF Boot, IdleTimeout, flash
  <2> QED
    BY <1>2, <2>2, ValidIsEnded DEF RunsWholeImage, Holds
<1> QED
  BY <1>3, <1>4, <1>5

(* The crashes that CountAfterBoot counts are those since the application  *)
(* was last healthy.                                                       *)
LEMMA CountedCrashes ==
  ASSUME BootInv
  PROVE  marker => (CountAfterBoot >= CrashLimit <=> crashes >= CrashLimit)
<1>1. crashCount \in Nat /\ crashes \in Nat /\ CrashLimit \in Nat /\ crashCount <= CrashLimit
  BY BootAssumption DEF BootInv, BootTypeOK
<1>2. SUFFICES ASSUME marker
               PROVE  CountAfterBoot >= CrashLimit <=> crashes >= CrashLimit
  OBVIOUS
<1>3. CountAfterBoot = IF crashCount < CrashLimit THEN crashCount + 1 ELSE crashCount
  BY <1>2 DEF CountAfterBoot
<1>4. \/ crashCount = CrashLimit /\ crashes > CrashLimit
      \/ crashCount + 1 = crashes
  BY <1>2 DEF BootInv, CrashesCounted
<1> QED
  BY <1>1, <1>3, <1>4

LEMMA CrashesStep ==
  ASSUME BootInv, BootNext
  PROVE  CrashesCounted'
<1>1. /\ crashCount \in Nat /\ crashes \in Nat /\ CrashLimit \in Nat /\ crashCount <= CrashLimit
      /\ marker \in BOOLEAN
  BY BootAssumption DEF BootInv, BootTypeOK
<1>2. marker => phase = "off" /\ crashes > 0
  BY DEF BootInv, CrashesCounted
<1>3. \/ crashCount = CrashLimit /\ crashes > CrashLimit
      \/ marker /\ crashCount + 1 = crashes
      \/ ~marker /\ crashCount = crashes
  BY <1>1 DEF BootInv, CrashesCounted
(* Nothing to be counted is left. *)
<1>4. ASSUME ~marker',
             crashCount' = crashes' \/ (crashCount' = CrashLimit /\ crashes' > CrashLimit),
             crashCount' \in 0..CrashLimit, crashes' \in Nat
      PROVE  CrashesCounted'
  BY <1>4, Zenon DEF CrashesCounted
(* One crash more, to be counted. *)
<1>5. ASSUME ~marker, marker', phase' = "off", crashCount' = crashCount, crashes' = crashes + 1
      PROVE  CrashesCounted'
  <2>1. \/ crashCount' = CrashLimit /\ crashes' > CrashLimit
        \/ crashCount' + 1 = crashes'
    BY <1>1, <1>3, <1>5
  <2>2. crashes' > 0
    BY <1>1, <1>5
  <2> QED
    BY <1>5, <2>1, <2>2, Zenon DEF CrashesCounted
<1>6. ASSUME UNCHANGED <<marker, crashCount, crashes>>, phase' = phase \/ phase' = "off" \/ ~marker
      PROVE  CrashesCounted'
  BY <1>2, <1>3, <1>6, Zenon DEF CrashesCounted
<1>7. CASE Boot
  <2>1. marker' = FALSE /\ crashes' = crashes /\ crashCount' = CountAfterBoot
    BY <1>7 DEF Boot, history
  <2>2. CASE marker
    <3>1. crashCount' = IF crashCount < CrashLimit THEN crashCount + 1 ELSE crashCount
      BY <2>1, <2>2 DEF CountAfterBoot
    <3>2. \/ crashCount = CrashLimit /\ crashes > CrashLimit
          \/ crashCount + 1 = crashes
      BY <1>3, <2>2
    <3>3. crashCount' = crashes' \/ (crashCount' = CrashLimit /\ crashes' > CrashLimit)
      BY <1>1, <2>1, <3>1, <3>2
    <3>4. crashCount' \in 0..CrashLimit
      BY <1>1, <3>1
    <3> QED
      BY <1>1, <1>4, <2>1, <3>3, <3>4
  <2>3. CASE ~marker
    <3>1. crashCount' = crashCount
      BY <2>1, <2>3 DEF CountAfterBoot
    <3> QED
      BY <1>1, <1>3, <1>4, <2>1, <2>3, <3>1
  <2> QED
    BY <2>2, <2>3
<1>8. ~marker \/ phase = "off"
  BY <1>2
<1>9. CASE AppRequestsBoot \/ AppCrashes
  <2>1. ~marker /\ phase' = "off" /\ crashCount' = crashCount
    BY <1>8, <1>9 DEF AppRequestsBoot, AppCrashes, Restart, backup
  <2>2. \/ UNCHANGED <<marker, crashes>>
        \/ marker' = TRUE /\ crashes' = crashes + 1
    BY <1>9 DEF AppRequestsBoot, AppCrashes
  <2> QED
    BY <1>5, <1>6, <2>1, <2>2
<1>10. CASE AppHealthy
  <2>1. marker' = FALSE /\ crashCount' = 0 /\ crashes' = 0
    BY <1>10 DEF AppHealthy
  <2> QED
    BY <1>1, <1>4, <2>1
<1>11. CASE Reset
  <2>1. /\ phase' = "off"
        /\ \/ UNCHANGED <<marker, crashCount, crashes>>
           \/ marker' = FALSE /\ crashCount' = 0 /\ crashes' = 0
    BY <1>11 DEF Reset, Restart, backup
  <2> QED
    BY <1>1, <1>4, <1>6, <2>1
<1>12. CASE /\ UNCHANGED <<marker, crashCount, crashes>>
            /\ ~(Boot \/ AppRequestsBoot \/ AppCrashes \/ AppHealthy \/ Reset)
  <2>1. UNCHANGED phase \/ IdleTimeout \/ EndReset
    BY <1>12, WhoChanges
  <2>2. phase' = phase \/ phase' = "off" \/ ~marker
    BY <1>8, <2>1 DEF IdleTimeout, EndReset, Restart
  <2> QED
    BY <1>6, <1>12, <2>2
<1> QED
  BY <1>7, <1>9, <1>10, <1>11, <1>12, WhoChanges

-----------------------------------------------------------------------------
(* The theorems.                                                           *)

LEMMA BootInitInv == BootInit => BootInv
<1> SUFFICES ASSUME BootInit
             PROVE  BootInv
  OBVIOUS
<1>1. /\ app = [i \in Words |-> Factory]
      /\ manifest = [i \in Index |->
           IF i = 0 THEN [NoSlot EXCEPT !.image = Factory, !.words = 3] ELSE NoSlot]
      /\ request = FALSE /\ marker = FALSE /\ crashCount = 0
      /\ phase = "off" /\ pc = [at |-> "idle"]
      /\ toApp = FALSE /\ updating = FALSE /\ expected = "none" /\ offset = 0
      /\ command = NoLine /\ reply = "none" /\ uploader = Idle
      /\ ended = {Factory} /\ crashes = 0 /\ spoiled = FALSE
      /\ bootFaults = 0 /\ breaks = 0
  BY DEF BootInit
<1>2. Shapes /\ NoLine.op = "none" /\ Idle.at = "idle" /\ pc.at = "idle"
  BY <1>1, IdleShapes DEF Shapes
<1> DEFINE First == [image |-> Factory, words |-> 3, good |-> TRUE, exact |-> TRUE]
<1>3. /\ [NoSlot EXCEPT !.image = Factory, !.words = 3] = First
      /\ First \in SlotStates /\ NoSlot \in SlotStates
  <2>1. 0 \in 0..3 /\ 3 \in 0..3 /\ Factory \in Images
    BY BootAssumption
  <2>2. First \in SlotStates
    BY <2>1 DEF SlotStates
  <2>3. NoSlot \in SlotStates /\ NoSlot.good = TRUE /\ NoSlot.exact = TRUE
    BY <2>1 DEF NoSlot, SlotStates
  <2>4. ASSUME NEW s \in SlotStates, s.good = TRUE, s.exact = TRUE
        PROVE  [s EXCEPT !.image = Factory, !.words = 3] = First
    <3> DEFINE r == [s EXCEPT !.image = Factory, !.words = 3]
    <3>1. r \in SlotStates
      BY <2>1, <2>4 DEF SlotStates
    <3>2. r.image = Factory /\ r.words = 3 /\ r.good = s.good /\ r.exact = s.exact
      BY <2>4 DEF SlotStates
    <3> HIDE DEF r
    <3>3. r = First
      BY <2>4, <3>1, <3>2 DEF SlotStates
    <3> QED
      BY <3>3 DEF r
  <2> QED
    BY <2>2, <2>3, <2>4
<1>4. manifest = [i \in Index |-> IF i = 0 THEN First ELSE NoSlot]
  BY <1>1, <1>3
<1>5. BootTypeOK
  <2>1. app \in [Words -> Images \cup {"erased", "torn"}]
    BY <1>1, BootAssumption
  <2>2. manifest \in [Index -> SlotStates]
    BY <1>3, <1>4
  <2>3. HostOff(uploader) \in 0..AppWords
    BY <1>1, <1>2, HostOffset DEF Shapes
  <2>4. /\ request \in BOOLEAN /\ marker \in BOOLEAN /\ toApp \in BOOLEAN
        /\ updating \in BOOLEAN /\ spoiled \in BOOLEAN
    BY <1>1
  <2>5. /\ crashCount \in 0..CrashLimit /\ offset \in 0..AppWords /\ crashes \in 0..MaxCrashes
        /\ bootFaults \in 0..MaxBootFaults /\ breaks \in 0..MaxBreaks
    BY <1>1, BootAssumption
  <2>6. /\ phase \in {"off", "maintenance", "application"}
        /\ expected \in Images \cup {"none"} /\ reply \in {"none", "ACK", "ERR"}
        /\ ended \subseteq Images
    BY <1>1, BootAssumption
  <2>7. command.op = "none" /\ uploader.at = "idle"
    BY <1>1, <1>2
  <2> QED
    BY <1>2, <2>1, <2>2, <2>3, <2>4, <2>5, <2>6, <2>7 DEF BootTypeOK
<1>6. \A i \in Index : manifest[i] = IF i = 0 THEN First ELSE NoSlot
  BY <1>4
<1>7. /\ First.words = 3 /\ First.image = Factory /\ First.good /\ First.exact
      /\ NoSlot.words = 0 /\ NoSlot.good /\ NoSlot.exact
  BY DEF NoSlot
<1> HIDE DEF First
<1>8. JournalShape
  <2>1. \A i \in Index : Erased(manifest[i]) <=> i # 0
    BY <1>6, <1>7 DEF Erased
  <2>2. \A i, j \in Index : i < j => j # 0
    BY BootAssumption DEF Index
  <2> QED
    BY <1>1, <1>6, <1>7, <2>1, <2>2 DEF JournalShape
<1>9. Holds(Factory)
  BY <1>1 DEF Holds
<1>10. AppValid
  <2>1. 0 \in Index /\ \A i \in Index : i # 0 => 0..i \subseteq Index /\ i \in 0..i
    BY BootAssumption DEF Index
  <2>2. Valid(manifest[0]) /\ ~Erased(manifest[0])
    BY <1>6, <1>7, <2>1 DEF Valid, Erased
  <2>3. \A i \in Index : Valid(manifest[i]) => i = 0
    BY <1>6, <1>7 DEF Valid
  <2>4. \A j \in 0..0 : j = 0
    OBVIOUS
  <2>5. 0 \in Latest
    BY <2>1, <2>2, <2>3, <2>4 DEF Latest
  <2> QED
    BY <1>6, <1>7, <1>9, <2>1, <2>5 DEF AppValid
<1>11. Turns /\ OwnLine /\ Committing /\ RunsWholeImage
  BY <1>1, <1>2 DEF Turns, OwnLine, Committing, RunsWholeImage
<1>12. Chunks
  BY <1>1, <1>2, HostPlace DEF Chunks, AckedIsWritten, Words, HostOff
<1>13. SlotForUpdate
  BY <1>1, <1>2, <1>10 DEF SlotForUpdate, NeverStranded
<1>14. CrashesCounted
  BY <1>1, BootAssumption DEF CrashesCounted
<1> QED
  BY <1>2, <1>5, <1>8, <1>11, <1>12, <1>13, <1>14 DEF BootInv

LEMMA BootStep == BootInv /\ [BootNext]_bootVars => BootInv'
<1> SUFFICES ASSUME BootInv, [BootNext]_bootVars
             PROVE  BootInv'
  OBVIOUS
<1>1. CASE BootNext
  BY <1>1, BootTypes, TurnsStep, OwnLineStep, ChunksStep, JournalStep, CommittingStep,
     SlotStep, RunsStep, CrashesStep DEF BootInv
<1>2. CASE UNCHANGED bootVars
  BY <1>2
     DEF bootVars, flash, backup, ram, history, bounds, BootInv, BootTypeOK, Shapes, Turns,
         OwnLine, Chunks, AckedIsWritten, JournalShape, Committing, SlotForUpdate,
         NeverStranded, NextSlot, AppValid, Latest, Holds, RunsWholeImage, CrashesCounted
<1> QED
  BY <1>1, <1>2

(* What runs is a whole image, what the host has an ACK for is in the      *)
(* flash, and an update costs the board its last application only if it    *)
(* can be replaced: for images, flashes and journals of every size.        *)
THEOREM ImageKept == BootSpec => []ImageSound
<1>1. BootInv => ImageSound
  BY DEF BootInv, ImageSound, Chunks, SlotForUpdate
<1> QED
  BY <1>1, BootInitInv, BootStep, PTL DEF BootSpec

(* The bootloader starts a whole image unless CrashLimit crashes or more   *)
(* have come since the application was last healthy; then it does not.     *)
THEOREM CrashesCaught == BootSpec => CrashLoopCaught
<1>1. ASSUME BootInv, BootNext, phase = "off", phase' # "off", AppValid, ~request
      PROVE  phase' = "application" <=> ~(marker /\ crashes >= CrashLimit)
  <2>1. Boot
    BY <1>1, WhoChanges DEF IdleTimeout, EndReset, AppRequestsBoot, AppCrashes, Reset, Restart
  <2>2. phase' = "application" <=> ~Repeated
    BY <1>1, <2>1, Zenon DEF Boot
  <2> QED
    BY <1>1, <2>2, CountedCrashes DEF Repeated
<1>2. BootInv /\ [BootNext]_bootVars =>
        [phase = "off" /\ phase' # "off" /\ AppValid /\ ~request =>
           (phase' = "application" <=> ~(marker /\ crashes >= CrashLimit))]_bootVars
  BY <1>1
<1> QED
  BY <1>2, BootInitInv, BootStep, PTL DEF BootSpec, CrashLoopCaught
=============================================================================
