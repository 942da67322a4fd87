------------------------------ MODULE Bootloader ----------------------------
(***************************************************************************)
(* bootloader/src/main.c: the resident bootloader, the manifest journal    *)
(* that says which application image is whole, the backup registers it     *)
(* shares with the application, and the uploader on the host that drives   *)
(* it (scripts/cdc_boot_upload.py).                                        *)
(*                                                                         *)
(* The application's flash is a few words, each also a sector.  A word is  *)
(* erased, torn, or word i of an image, written as the image.  A CRC is    *)
(* taken to accept one image only.  A manifest is three words: the header  *)
(* its CRC covers, the generation, which nothing checks, and the board id, *)
(* which comes last.                                                       *)
(***************************************************************************)
EXTENDS Naturals, FiniteSets

CONSTANTS
  Images,      \* what hosts upload
  Factory,     \* the image in place at first
  AppWords,    \* words of the application's flash, and of every image
  ChunkWords,  \* words of a DATA2 line, at most
  Slots,       \* of the manifest journal: 512
  CrashLimit,  \* APP_CRASH_LIMIT
  MaxBootFaults, MaxCrashes,   \* bounds
  MaxBreaks                    \* of resets and time-outs together

ASSUME BootAssumption ==
  /\ Factory \in Images
  /\ AppWords \in Nat \ {0} /\ ChunkWords \in Nat \ {0} /\ Slots \in Nat \ {0}
  /\ CrashLimit \in Nat \ {0}
  /\ {MaxBootFaults, MaxCrashes, MaxBreaks} \subseteq Nat
ASSUME ImageAssumption == Images \cap {"erased", "torn", "none"} = {}

VARIABLES
  app,         \* the application's flash
  manifest,    \* the journal's slots
  request,     \* BKP0R holds BOOT_REQUEST_MAGIC
  marker,      \* BKP1R holds APP_CRASH_MAGIC
  crashCount,       \* BKP2R
  phase,       \* who runs: nobody yet, the maintenance loop, the application
  pc,          \* where handle_line is
  toApp,       \* timeout_to_app
  updating, expected, offset,   \* update_started, the image, write_offset
  command,     \* the line being handled, or none
  reply,       \* the line on its way to the host, or none
  uploader,        \* the uploader
  ended,       \* images END has found whole
  crashes,     \* crashes since the application was last healthy
  spoiled,     \* the writing of a manifest was interrupted or failed
  bootFaults, breaks

flash == <<app, manifest>>
backup == <<request, marker, crashCount>>
ram == <<toApp, updating, expected, offset>>
history == <<ended, crashes, spoiled>>
bounds == <<bootFaults, breaks>>
bootVars == <<flash, backup, phase, pc, ram, command, reply, uploader, history, bounds>>

Words == 0..(AppWords - 1)
Index == 0..(Slots - 1)
NoSlot == [image |-> "none", words |-> 0, good |-> TRUE, exact |-> TRUE]
SlotStates == [image : Images \cup {"none"}, words : 0..3,
               good : BOOLEAN, exact : BOOLEAN]
Idle == [at |-> "idle"]
NoLine == [op |-> "none"]
HostOff(h) == IF h.at = "data" THEN h.off ELSE IF h.at = "end" THEN AppWords ELSE 0

BootTypeOK ==
  /\ app \in [Words -> Images \cup {"erased", "torn"}]
  /\ manifest \in [Index -> SlotStates]
  /\ request \in BOOLEAN /\ marker \in BOOLEAN /\ crashCount \in 0..CrashLimit
  /\ phase \in {"off", "maintenance", "application"}
  /\ pc.at \in {"idle", "erase", "program", "manifest", "reset"}
  /\ toApp \in BOOLEAN /\ updating \in BOOLEAN
  /\ expected \in Images \cup {"none"} /\ offset \in 0..AppWords
  /\ command.op \in {"none", "BEGIN", "DATA2", "END"}
  /\ reply \in {"none", "ACK", "ERR"}
  /\ uploader.at \in {"idle", "begin", "data", "end"}
  /\ HostOff(uploader) \in 0..AppWords
  /\ ended \subseteq Images /\ crashes \in 0..MaxCrashes /\ spoiled \in BOOLEAN
  /\ bootFaults \in 0..MaxBootFaults /\ breaks \in 0..MaxBreaks

-----------------------------------------------------------------------------
(* The manifest journal.                                                   *)

(* manifest_erased, manifest_record_valid. *)
Erased(m) == m.words = 0
Valid(m) == m.words = 3 /\ m.good

(* latest_manifest: the last valid one before the first erased slot. *)
Latest ==
  LET found == {i \in Index : /\ Valid(manifest[i])
                              /\ \A j \in 0..i : ~Erased(manifest[j])}
  IN {i \in found : \A j \in found : j <= i}

(* manifest_next_address, as a set. *)
NextSlot ==
  {i \in Index : Erased(manifest[i]) /\ \A j \in 0..(i - 1) : ~Erased(manifest[j])}

Holds(image) == \A i \in Words : app[i] = image

(* application_valid *)
AppValid == \E i \in Latest : Holds(manifest[i].image)

-----------------------------------------------------------------------------
BootInit ==
  /\ app = [i \in Words |-> Factory]
  /\ manifest = [i \in Index |->
       IF i = 0 THEN [NoSlot EXCEPT !.image = Factory, !.words = 3] ELSE NoSlot]
  /\ request = FALSE /\ marker = FALSE /\ crashCount = 0
  /\ phase = "off" /\ pc = [at |-> "idle"]
  /\ toApp = FALSE /\ updating = FALSE /\ expected = "none" /\ offset = 0
  /\ command = NoLine /\ reply = "none" /\ uploader = Idle
  /\ ended = {Factory} /\ crashes = 0 /\ spoiled = FALSE
  /\ bootFaults = 0 /\ breaks = 0

(* repeated_app_crash *)
CountAfterBoot ==
  IF marker /\ crashCount < CrashLimit THEN crashCount + 1 ELSE crashCount

RepeatedLate == marker /\ CountAfterBoot >= CrashLimit + 1   \* mutant
Repeated == marker /\ CountAfterBoot >= CrashLimit

(* main *)
Boot ==
  /\ phase = "off"
  /\ request' = FALSE /\ marker' = FALSE /\ crashCount' = CountAfterBoot
  /\ phase' = IF request \/ Repeated \/ ~AppValid
              THEN "maintenance" ELSE "application"
  /\ toApp' = (request /\ AppValid)
  /\ UNCHANGED <<flash, updating, expected, offset, pc, command, reply, uploader,
                 history, bounds>>

(* A reset takes the memory and the USB connection with it. *)
Restart ==
  /\ phase' = "off" /\ pc' = [at |-> "idle"]
  /\ toApp' = FALSE /\ updating' = FALSE /\ expected' = "none" /\ offset' = 0
  /\ command' = NoLine /\ reply' = "none" /\ uploader' = Idle

(* The maintenance loop's idle timeout. *)
IdleTimeout ==
  /\ phase = "maintenance" /\ pc.at = "idle" /\ command = NoLine
  /\ toApp /\ ~updating /\ AppValid
  /\ phase' = "application" /\ uploader' = Idle /\ reply' = "none"
  /\ UNCHANGED <<flash, backup, pc, ram, command, history, bounds>>

-----------------------------------------------------------------------------
(* handle_line.                                                            *)

Handling(op) ==
  phase = "maintenance" /\ pc.at = "idle" /\ command.op = op

Answer(line) ==
  reply' = line /\ command' = NoLine /\ pc' = [at |-> "idle"]

Fault == bootFaults < MaxBootFaults /\ bootFaults' = bootFaults + 1

(* begin_update refuses, for want of a slot for the manifest or because    *)
(* the flash cannot be unlocked.                                           *)
BeginRefused ==
  /\ Handling("BEGIN")
  /\ \/ NextSlot = {} /\ UNCHANGED bootFaults
     \/ NextSlot # {} /\ Fault
  /\ Answer("ERR")
  /\ UNCHANGED <<flash, backup, phase, ram, uploader, history, breaks>>

BeginErase ==
  /\ Handling("BEGIN") /\ NextSlot # {}
  /\ pc' = [at |-> "erase", sector |-> 0]
  /\ UNCHANGED <<flash, backup, phase, ram, command, reply, uploader, history, bounds>>

EraseSector ==
  /\ pc.at = "erase"
  /\ app' = [app EXCEPT ![pc.sector] = "erased"]
  /\ IF pc.sector + 1 < AppWords
     THEN /\ pc' = [pc EXCEPT !.sector = @ + 1]
          /\ UNCHANGED <<ram, command, reply>>
     ELSE /\ expected' = command.image /\ offset' = 0
          /\ updating' = TRUE /\ toApp' = FALSE
          /\ Answer("ACK")
  /\ UNCHANGED <<manifest, backup, phase, uploader, history, bounds>>

(* The erase fails, however far it got; the last update's variables stay.  *)
EraseFails ==
  /\ pc.at = "erase" /\ Fault
  /\ \E w \in {app[pc.sector], "torn", "erased"} : app' = [app EXCEPT ![pc.sector] = w]
  /\ Answer("ERR")
  /\ UNCHANGED <<manifest, backup, phase, ram, uploader, history, breaks>>

(* program_chunk *)
DataRefused ==
  /\ Handling("DATA2")
  /\ \/ /\ ~updating \/ command.off # offset \/ command.off + command.len > AppWords
        /\ UNCHANGED bootFaults
     \/ updating /\ command.off = offset /\ Fault
  /\ Answer("ERR")
  /\ UNCHANGED <<flash, backup, phase, ram, uploader, history, breaks>>

DataProgram ==
  /\ Handling("DATA2")
  /\ updating /\ command.off = offset /\ command.off + command.len <= AppWords
  /\ pc' = [at |-> "program", pos |-> 0]
  /\ UNCHANGED <<flash, backup, phase, ram, command, reply, uploader, history, bounds>>

(* A word programmed over another one only clears bits. *)
Programmed(old, new) ==
  IF old \in {"erased", new} THEN {new}
  ELSE IF old = "torn" THEN {new, "torn"} ELSE {"torn"}

ProgramWord ==
  /\ pc.at = "program" /\ pc.pos < command.len
  /\ \E w \in Programmed(app[offset + pc.pos], command.image) :
       app' = [app EXCEPT ![offset + pc.pos] = w]
  /\ pc' = [pc EXCEPT !.pos = @ + 1]
  /\ UNCHANGED <<manifest, backup, phase, ram, command, reply, uploader, history, bounds>>

(* A word does not take, with an error or without. *)
ProgramFails ==
  /\ pc.at = "program" /\ pc.pos < command.len /\ Fault
  /\ \E w \in {app[offset + pc.pos], "torn"} :
       app' = [app EXCEPT ![offset + pc.pos] = w]
  /\ \/ pc' = [pc EXCEPT !.pos = @ + 1] /\ UNCHANGED <<command, reply>>
     \/ Answer("ERR")
  /\ UNCHANGED <<manifest, backup, phase, ram, uploader, history, breaks>>

DataUnverified ==                  \* mutant: what was written is not read
  /\ pc.at = "program" /\ pc.pos = command.len
  /\ offset' = offset + command.len
  /\ Answer("ACK")
  /\ UNCHANGED <<flash, backup, phase, toApp, updating, expected, uploader,
                 history, bounds>>

(* The chunk reads back, or not. *)
DataVerify ==
  /\ pc.at = "program" /\ pc.pos = command.len
  /\ IF \A i \in Words : i \in offset..(offset + command.len - 1)
                           => app[i] = command.image
     THEN offset' = offset + command.len /\ Answer("ACK")
     ELSE UNCHANGED offset /\ Answer("ERR")
  /\ UNCHANGED <<flash, backup, phase, toApp, updating, expected, uploader,
                 history, bounds>>

(* commit_manifest, up to the writing. *)
EndAccepted ==
  updating /\ offset = AppWords /\ Holds(expected) /\ NextSlot # {}

EndRefused ==
  /\ Handling("END")
  /\ \/ ~EndAccepted /\ UNCHANGED bootFaults
     \/ EndAccepted /\ Fault
  /\ Answer("ERR")
  /\ UNCHANGED <<flash, backup, phase, ram, uploader, history, breaks>>

EndWrite ==
  /\ Handling("END") /\ EndAccepted
  /\ \E i \in NextSlot : pc' = [at |-> "manifest", slot |-> i, word |-> 0]
  /\ ended' = ended \cup {expected}
  /\ UNCHANGED <<flash, backup, phase, ram, command, reply, uploader, crashes,
                 spoiled, bounds>>

ManifestWord(right) ==
  manifest' = [manifest EXCEPT ![pc.slot] =
    [image |-> expected, words |-> pc.word + 1,
     good |-> manifest[pc.slot].good /\ (right \/ pc.word = 1),
     exact |-> manifest[pc.slot].exact /\ right]]

WriteManifest ==
  /\ pc.at = "manifest" /\ pc.word < 3
  /\ ManifestWord(TRUE)
  /\ pc' = [pc EXCEPT !.word = @ + 1]
  /\ UNCHANGED <<app, backup, phase, ram, command, reply, uploader, history, bounds>>

ManifestFails ==
  /\ pc.at = "manifest" /\ pc.word < 3 /\ Fault
  /\ spoiled' = TRUE
  /\ \/ ManifestWord(FALSE) /\ pc' = [pc EXCEPT !.word = @ + 1]
        /\ UNCHANGED <<command, reply>>
     \/ (UNCHANGED manifest \/ ManifestWord(FALSE)) /\ Answer("ERR")
  /\ UNCHANGED <<app, backup, phase, ram, uploader, ended, crashes, breaks>>

(* The manifest reads back, or not; after ACK:END:OK the board resets.     *)
EndVerify ==
  /\ pc.at = "manifest" /\ pc.word = 3
  /\ IF manifest[pc.slot].exact /\ AppValid
     THEN /\ updating' = FALSE /\ reply' = "ACK" /\ command' = NoLine
          /\ pc' = [at |-> "reset"]
     ELSE Answer("ERR") /\ UNCHANGED updating
  /\ UNCHANGED <<flash, backup, phase, toApp, expected, offset, uploader, history,
                 bounds>>

EndReset ==
  /\ pc.at = "reset"
  /\ Restart
  /\ UNCHANGED <<flash, backup, history, bounds>>

-----------------------------------------------------------------------------
(* The uploader: one line at a time.                                       *)

(* It finds the boot port and synchronises with PING and INFO. *)
UploadStart(image) ==
  /\ phase = "maintenance" /\ uploader = Idle /\ command = NoLine /\ pc.at = "idle"
  /\ uploader' = [at |-> "begin", image |-> image, sent |-> FALSE]
  /\ reply' = "none"
  /\ UNCHANGED <<flash, backup, phase, pc, ram, command, history, bounds>>

UploadSend ==
  /\ uploader # Idle /\ ~uploader.sent /\ uploader' = [uploader EXCEPT !.sent = TRUE]
  /\ command' =
       CASE uploader.at = "begin" -> [op |-> "BEGIN", image |-> uploader.image]
         [] uploader.at = "data"  -> [op |-> "DATA2", image |-> uploader.image,
              off |-> uploader.off,
              len |-> IF uploader.off + ChunkWords > AppWords
                      THEN AppWords - uploader.off ELSE ChunkWords]
         [] uploader.at = "end"   -> [op |-> "END"]
  /\ UNCHANGED <<flash, backup, phase, pc, ram, reply, history, bounds>>

(* An ACK takes it on, an ERR makes it give up. *)
UploadNext ==
  CASE uploader.at = "begin" ->
         [at |-> "data", image |-> uploader.image, off |-> 0, sent |-> FALSE]
    [] uploader.at = "data" /\ uploader.off + ChunkWords < AppWords ->
         [uploader EXCEPT !.off = @ + ChunkWords, !.sent = FALSE]
    [] uploader.at = "data" /\ uploader.off + ChunkWords >= AppWords ->
         [at |-> "end", image |-> uploader.image, sent |-> FALSE]
    [] uploader.at = "end" -> Idle

UploadWaitsOn ==                   \* mutant: only an ACK ends the waiting
  /\ uploader # Idle /\ uploader.sent /\ reply # "none"
  /\ uploader' = IF reply = "ACK" THEN UploadNext ELSE uploader
  /\ reply' = "none"
  /\ UNCHANGED <<flash, backup, phase, pc, ram, command, history, bounds>>

UploadReply ==
  /\ uploader # Idle /\ uploader.sent /\ reply # "none"
  /\ uploader' = IF reply = "ACK" THEN UploadNext ELSE Idle
  /\ reply' = "none"
  /\ UNCHANGED <<flash, backup, phase, pc, ram, command, history, bounds>>

(* No answer in time: the line may still be handled. *)
UploadTimeout ==
  /\ uploader # Idle /\ uploader.sent
  /\ breaks < MaxBreaks /\ breaks' = breaks + 1
  /\ uploader' = Idle
  /\ UNCHANGED <<flash, backup, phase, pc, ram, command, reply, history, bootFaults>>

-----------------------------------------------------------------------------
(* The application and the outside world.                                  *)

(* enterSystemDfu; a fault between its write of BKP0R and its reset leaves *)
(* both registers set.                                                     *)
AppRequestsBoot ==
  /\ phase = "application" /\ breaks < MaxBreaks /\ breaks' = breaks + 1
  /\ request' = TRUE
  /\ \/ UNCHANGED <<marker, crashes>>
     \/ marker' = TRUE /\ crashes < MaxCrashes /\ crashes' = crashes + 1
  /\ Restart
  /\ UNCHANGED <<flash, crashCount, ended, spoiled, bootFaults>>

(* Board_FaultReset, appWatchdogIsr *)
AppCrashes ==
  /\ phase = "application" /\ crashes < MaxCrashes /\ crashes' = crashes + 1
  /\ marker' = TRUE
  /\ Restart
  /\ UNCHANGED <<flash, request, crashCount, ended, spoiled, bounds>>

(* After kCrashCounterClearMs. *)
AppHealthy ==
  /\ phase = "application"
  /\ marker' = FALSE /\ crashCount' = 0 /\ crashes' = 0
  /\ UNCHANGED <<flash, request, phase, pc, ram, command, reply, uploader, ended,
                 spoiled, bounds>>

(* Reset pin, the bootloader's watchdog or a power cut, which may also     *)
(* clear the backup registers; a flash operation is left as it is.         *)
Reset ==
  /\ breaks < MaxBreaks /\ breaks' = breaks + 1
  /\ \/ UNCHANGED <<backup, crashes>>
     \/ request' = FALSE /\ marker' = FALSE /\ crashCount' = 0 /\ crashes' = 0
  /\ \/ UNCHANGED flash
     \/ /\ pc.at = "erase" /\ app' = [app EXCEPT ![pc.sector] = "torn"]
        /\ UNCHANGED manifest
     \/ /\ pc.at = "program" /\ pc.pos < command.len
        /\ app' = [app EXCEPT ![offset + pc.pos] = "torn"]
        /\ UNCHANGED manifest
     \/ pc.at = "manifest" /\ pc.word < 3 /\ ManifestWord(FALSE) /\ UNCHANGED app
  /\ spoiled' = (spoiled \/ (pc.at = "manifest" /\ pc.word < 3))
  /\ Restart
  /\ UNCHANGED <<ended, bootFaults>>

Device ==
  \/ Boot \/ IdleTimeout
  \/ BeginRefused \/ BeginErase \/ EraseSector \/ EraseFails
  \/ DataRefused \/ DataProgram \/ ProgramWord \/ ProgramFails \/ DataVerify
  \/ EndRefused \/ EndWrite \/ WriteManifest \/ ManifestFails \/ EndVerify
  \/ EndReset

Uploader ==
  \/ \E image \in Images : UploadStart(image)
  \/ UploadSend \/ UploadReply \/ UploadTimeout

BootNext ==
  \/ Device \/ Uploader
  \/ AppRequestsBoot \/ AppCrashes \/ AppHealthy \/ Reset

BootSpec == BootInit /\ [][BootNext]_bootVars

(* The board runs, and an uploader comes back as long as there is a        *)
(* bootloader to talk to and waits for its answers.  One fairness is       *)
(* enough: the two take turns.                                             *)
BootGoesOn ==
  \/ Device \/ UploadSend \/ UploadReply
  \/ \E image \in Images : UploadStart(image)

BootFairness == WF_bootVars(BootGoesOn)

FairBootSpec == BootSpec /\ BootFairness

-----------------------------------------------------------------------------
(* Properties.                                                             *)

(* An application is started only if the flash holds, whole, an image that *)
(* some uploader has ended: never a torn, partial or mixed one.            *)
RunsWholeImage ==
  phase = "application" => \E image \in ended : Holds(image)

(* program_chunk: what the host has an ACK for is in the flash.            *)
AckedIsWritten ==
  \A i \in Words : i < HostOff(uploader) => app[i] = uploader.image

(* begin_update destroys the application only when its successor can be    *)
(* committed: short of a manifest that was spoiled, the board never ends   *)
(* up with neither an application nor a slot.                              *)
NeverStranded ==
  NextSlot = {} /\ pc.at # "manifest" => AppValid \/ spoiled

(* With a whole image and no request, the bootloader starts the            *)
(* application unless its last CrashLimit starts or more all crashed       *)
(* before it was healthy; then it does not.                                *)
CrashLoopCaught ==
  [][phase = "off" /\ phase' # "off" /\ AppValid /\ ~request =>
       (phase' = "application" <=> ~(marker /\ crashes >= CrashLimit))]_bootVars

(* As long as the journal has a slot left, the board runs an application   *)
(* again and again: whatever failed, the next upload succeeds.             *)
Serves == phase = "application" \/ NextSlot = {}

(* All of it: what runs is a whole image, what the host has an ACK for is  *)
(* in the flash, and an update never costs the board its last application. *)
ImageSound == BootTypeOK /\ RunsWholeImage /\ AckedIsWritten /\ NeverStranded
=============================================================================
