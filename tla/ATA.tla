--------------------------------- MODULE ATA ---------------------------------
(***************************************************************************)
(* The disk driver (Kernel/src/Drivers/ATA.cpp) and, outside the kernel,   *)
(* the drives it polls.  One action of the driver is what it does between  *)
(* two reads of the status register, where the drive's own steps and       *)
(* interrupts can come in between.                                         *)
(*                                                                         *)
(* Two drives share the ports; the device register says which one answers. *)
(* A block of data is [drive, sector], or Junk when the data port is read  *)
(* while the drive offers no data.                                         *)
(***************************************************************************)
EXTENDS Integers, SequencesExt

CONSTANTS
  CountLimit,   \* what the sector count register counts to (256)
  Junk, Stale

Slots == {"ata0m", "ata0s"}

VARIABLES
  drives,    \* each drive: [present, phase, command, sector, left, irq]
  prompt,    \* whether drives show at once that they are busy
  floating,  \* the status of a bus without drives is all ones
  selected,  \* the drive the device register selects
  driver,    \* where the driver is, and in which call: [at, slot, sector, count, block]
  buffer,    \* the blocks the call in progress, or the last one, has read
  returned   \* what the last read returned, in sectors

ataVars == <<drives, prompt, floating, selected, driver, buffer, returned>>

-----------------------------------------------------------------------------
(* The drives. *)

NoDrives == \A s \in Slots : ~ drives[s].present

Bits == {"BSY", "DRQ", "ERR", "DRDY"}

(* The bits of the status register that the driver looks at. *)
Status ==
  LET drive == drives[selected]
      shown == {bit \in Bits : \/ bit = "BSY"  /\ drive.phase = "busy"
                               \/ bit = "DRQ"  /\ drive.phase = "data"
                               \/ bit = "ERR"  /\ drive.phase = "error"
                               \/ bit = "DRDY" /\ drive.phase # "busy"}
  IN  IF floating THEN Bits ELSE IF drive.present THEN shown ELSE {}

(* The same drive in another phase. *)
InPhase(drive, phase, irq) ==
  [present |-> drive.present, phase |-> phase, command |-> drive.command,
   sector |-> drive.sector, left |-> drive.left, irq |-> irq]

(* Reading the status register takes the interrupt request back. *)
StatusRead ==
  drives' = [drives EXCEPT ![selected] = InPhase(drives[selected], drives[selected].phase, FALSE)]

(* The phases in which a drive may show itself after a command or a block. *)
(* A real one takes up to 400 ns to show that it is busy.                  *)
StartPhases == IF prompt THEN {"busy"} ELSE {"busy", "taken"}

(* A drive given a command; a busy one, or none, does not see it. *)
Commanded(state, slot, command, sector, count) ==
  LET started(phase) == [present |-> TRUE, phase |-> phase, command |-> command, sector |-> sector,
                         left |-> IF count = 0 THEN CountLimit ELSE count, irq |-> FALSE]
  IN  IF ~ state[slot].present \/ state[slot].phase = "busy" THEN {state}
      ELSE {[state EXCEPT ![slot] = started(phase)] : phase \in StartPhases}

(* A drive whose data port has been read for a whole block. *)
BlockTaken(state, slot) ==
  LET drive == state[slot]
      next(phase) == [present |-> TRUE, phase |-> phase, command |-> drive.command,
                      sector |-> drive.sector + 1, left |-> drive.left - 1, irq |-> drive.irq]
  IN  IF ~ drive.present \/ drive.phase # "data" THEN {state}
      ELSE {[state EXCEPT ![slot] = next(phase)] :
              phase \in IF drive.left = 1 THEN {"idle"} ELSE StartPhases}

Offered(slot) ==
  LET drive == drives[slot]
  IN  IF drive.present /\ drive.phase = "data"
        THEN [drive |-> slot, sector |-> IF drive.command = "read" THEN drive.sector ELSE -1]
        ELSE Junk

(* A drive goes on: it shows that it is busy; has a block of data; has     *)
(* failed, as one that is no disk always does; or is ready after its reset. *)
DriveStep(s) ==
  LET drive == drives[s]
  IN  /\ drive.present
      /\ \/ /\ drive.phase = "taken"
            /\ drives' = [drives EXCEPT ![s] = InPhase(drive, "busy", drive.irq)]
         \/ /\ drive.phase = "busy" /\ drive.command # "none"
            /\ \E phase \in {"data", "error"} :
                 drives' = [drives EXCEPT ![s] = InPhase(drive, phase, TRUE)]
         \/ /\ drive.phase = "busy" /\ drive.command = "none"
            /\ drives' = [drives EXCEPT ![s] = InPhase(drive, "idle", drive.irq)]
      /\ UNCHANGED <<prompt, floating, selected, driver, buffer, returned>>

AtaInit ==
  /\ \E present \in [Slots -> BOOLEAN], phase \in [Slots -> {"busy", "idle"}] :
       /\ \A s \in Slots : ~ present[s] => phase[s] = "idle"
       /\ drives = [s \in Slots |-> [present |-> present[s], phase |-> phase[s], command |-> "none",
                                     sector |-> 0, left |-> 0, irq |-> FALSE]]
  /\ prompt \in BOOLEAN
  /\ floating \in BOOLEAN /\ (floating => NoDrives)
  /\ selected = "ata0m"
  /\ driver = [at |-> "idle", slot |-> "ata0m", sector |-> 0, count |-> 0, block |-> 0]
  /\ buffer = <<>>
  /\ returned = 0

-----------------------------------------------------------------------------
(* The driver. *)

Driver(at, block) ==
  [at |-> at, slot |-> driver.slot, sector |-> driver.sector, count |-> driver.count, block |-> block]

Goes(at) == driver' = Driver(at, driver.block)

-----------------------------------------------------------------------------
(* identify *)

(* The device is selected and given the command ... *)
identify(slot) ==
  /\ driver.at = "idle"
  /\ selected' = slot
  /\ drives' \in Commanded(drives, slot, "identify", 0, 1)
  /\ Goes("identify")
  /\ UNCHANGED <<prompt, floating, buffer, returned>>

(* ... and its status is read, again while it is busy without an error.    *)
(* A first status of zero means that there is no device.                   *)
IdentifyPoll ==
  /\ driver.at \in {"identify", "identify again"}
  /\ StatusRead
  /\ Goes(IF driver.at = "identify" /\ Status = {} THEN "idle"
          ELSE IF "BSY" \in Status /\ "ERR" \notin Status THEN "identify again"
          ELSE "identity")
  /\ UNCHANGED <<prompt, floating, selected, buffer, returned>>

(* After an error, too, 256 words are read, and forgotten. *)
IdentifyData ==
  /\ driver.at = "identity"
  /\ drives' \in BlockTaken(drives, selected)
  /\ Goes("idle")
  /\ UNCHANGED <<prompt, floating, selected, buffer, returned>>

-----------------------------------------------------------------------------
(* read *)

(* read selects the device, unless it is asked for nothing ...  (Nor does  *)
(* it without a buffer; its callers always have one, on their stack.)      *)
ataRead(slot, sector, count) ==
  /\ driver.at = "idle"
  /\ driver' = [at |-> IF count = 0 THEN "idle" ELSE "wait",
                slot |-> slot, sector |-> sector, count |-> count, block |-> 0]
  /\ selected' = IF count = 0 THEN selected ELSE slot
  /\ returned' = IF count = 0 THEN 0 ELSE returned
  /\ buffer' = <<>>
  /\ UNCHANGED <<drives, prompt, floating>>

(* ... waits while it is busy ... *)
WaitReady ==
  /\ driver.at = "wait"
  /\ StatusRead
  /\ Goes(IF "BSY" \in Status THEN "wait" ELSE "command")
  /\ UNCHANGED <<prompt, floating, selected, buffer, returned>>

(* ... and gives the command; the count register has one byte. *)
SendCommand ==
  /\ driver.at = "command"
  /\ drives' \in Commanded(drives, driver.slot, "read", driver.sector, driver.count % CountLimit)
  /\ Goes("poll")
  /\ UNCHANGED <<prompt, floating, selected, buffer, returned>>

(* Faulty: only the busy bit of the first block is waited for. *)
Poll_FirstBlock ==
  /\ driver.at = "poll"
  /\ StatusRead
  /\ Goes(IF "BSY" \in Status /\ "DRQ" \notin Status /\ driver.block = 0 THEN "poll"
          ELSE IF "ERR" \in Status THEN "idle" ELSE "data")
  /\ returned' = IF driver'.at = "idle" THEN 0 ELSE returned
  /\ UNCHANGED <<prompt, floating, selected, buffer>>

(* Faulty: a drive that has no data is waited for. *)
Poll_ForData ==
  /\ driver.at = "poll"
  /\ StatusRead
  /\ Goes(IF "DRQ" \notin Status THEN "poll" ELSE IF "ERR" \in Status THEN "idle" ELSE "data")
  /\ returned' = IF driver'.at = "idle" THEN 0 ELSE returned
  /\ UNCHANGED <<prompt, floating, selected, buffer>>

(* Before each block read waits while the drive is busy and has no data;   *)
(* an error ends it.                                                       *)
Poll ==
  /\ driver.at = "poll"
  /\ StatusRead
  /\ Goes(IF "BSY" \in Status /\ "DRQ" \notin Status THEN "poll"
          ELSE IF "ERR" \in Status THEN "idle" ELSE "data")
  /\ returned' = IF driver'.at = "idle" THEN 0 ELSE returned
  /\ UNCHANGED <<prompt, floating, selected, buffer>>

(* Faulty: one block more. *)
Transfer_OneMore ==
  /\ driver.at = "data"
  /\ buffer' = Append(buffer, Offered(selected))
  /\ drives' \in BlockTaken(drives, selected)
  /\ LET last == driver.block = driver.count
     IN  /\ driver' = Driver(IF last THEN "idle" ELSE "poll", driver.block + 1)
         /\ returned' = IF last THEN driver.count ELSE returned
  /\ UNCHANGED <<prompt, floating, selected>>

(* A block is read from the data port, whether or not there is one. *)
Transfer ==
  /\ driver.at = "data"
  /\ buffer' = Append(buffer, Offered(selected))
  /\ drives' \in BlockTaken(drives, selected)
  /\ LET last == driver.block + 1 = driver.count
     IN  /\ driver' = Driver(IF last THEN "idle" ELSE "poll", driver.block + 1)
         /\ returned' = IF last THEN driver.count ELSE returned
  /\ UNCHANGED <<prompt, floating, selected>>

DriverStep ==
  \/ IdentifyPoll \/ IdentifyData
  \/ WaitReady \/ SendCommand \/ Poll \/ Transfer

-----------------------------------------------------------------------------
(* Properties. *)

Drive == [present : BOOLEAN, phase : {"idle", "taken", "busy", "data", "error"},
          command : {"none", "identify", "read"}, sector : Nat, left : 0 .. CountLimit, irq : BOOLEAN]

Block == [drive : Slots, sector : Nat \cup {-1}]

AtaTypeOK ==
  /\ drives \in [Slots -> Drive]
  /\ prompt \in BOOLEAN /\ floating \in BOOLEAN
  /\ selected \in Slots
  /\ driver \in [at : {"idle", "identify", "identify again", "identity", "wait", "command", "poll", "data"},
                 slot : Slots, sector : Nat, count : Nat, block : Nat]
  /\ driver.block <= driver.count
  /\ buffer \in Seq(Block \cup {Junk}) /\ Len(buffer) <= driver.count
  /\ returned \in Nat

(* What read has put into the buffer, block by block, are the sectors it   *)
(* was asked for, of the drive it was asked of - whatever identify left    *)
(* behind and whatever both drives do meanwhile - and it returns nothing   *)
(* or all of them.  Not so of an absent drive, of one that is slow to show *)
(* that it is busy, or of more sectors than the register can hold: then    *)
(* read returns success and junk.                                          *)
ReadsItsSectors ==
  drives[driver.slot].present /\ prompt /\ driver.count <= CountLimit =>
    /\ \A i \in DOMAIN buffer : buffer[i] = [drive |-> driver.slot, sector |-> driver.sector + i - 1]
    /\ driver.at = "idle" /\ returned > 0 => returned = driver.count /\ Len(buffer) = driver.count
=============================================================================
