---------------------------- MODULE Stage2Proofs -----------------------------
(***************************************************************************)
(* What stage2 reads from the drives, for a count register of any size and *)
(* reads of any number of sectors.                                         *)
(***************************************************************************)
EXTENDS Stage2, VFSProofs, SequenceTheorems

(* The blocks a drive is told to deliver: a register that counts to        *)
(* CountLimit holds the remainder of the count, and zero stands for all.   *)
Told(count) == IF count % CountLimit = 0 THEN CountLimit ELSE count % CountLimit

InLoop == driver.at \in {"wait", "command", "poll", "data"}

(* A drive that has been told something has a block left to deliver. *)
DrivesAtWork ==
  \A s \in Slots :
    /\ prompt => drives[s].phase # "taken"
    /\ drives[s].phase \in {"taken", "data"} => drives[s].command # "none"
    /\ drives[s].phase \in {"taken", "busy", "data"} /\ drives[s].command # "none" =>
         drives[s].left >= 1

(* A bus that floats has no drives. *)
FloatingBus == floating => \A s \in Slots : ~ drives[s].present

(* Where read is, and what it has. *)
ReadProgress ==
  /\ InLoop => /\ selected = driver.slot
               /\ Len(buffer) = driver.block /\ driver.block < driver.count
  /\ driver.at \in {"wait", "command"} => driver.block = 0
  /\ ~ InLoop /\ returned > 0 => returned = driver.count /\ Len(buffer) = driver.count

(* While blocks are left of those it was told to deliver, the drive and    *)
(* the driver are at the same sector; the driver goes to take a block only *)
(* when there is one.                                                      *)
InStep ==
  drives[driver.slot].present /\ prompt =>
    LET drive == drives[driver.slot]
    IN  /\ driver.at = "command" => drive.phase # "busy"
        /\ driver.at \in {"poll", "data"} /\ driver.block < Told(driver.count) =>
             /\ drive.command = "read"
             /\ drive.sector = driver.sector + driver.block
             /\ drive.left = Told(driver.count) - driver.block
             /\ drive.phase \in {"busy", "data", "error"}
             /\ driver.at = "data" => drive.phase = "data"

(* The blocks the drive was told to deliver are the ones asked for. *)
RightBlocks ==
  drives[driver.slot].present /\ prompt =>
    \A i \in DOMAIN buffer :
      i <= Told(driver.count) =>
        buffer[i] = [drive |-> driver.slot, sector |-> driver.sector + i - 1]

AtaInv == AtaTypeOK /\ FloatingBus /\ DrivesAtWork /\ ReadProgress /\ InStep /\ RightBlocks

-----------------------------------------------------------------------------
(* Facts about the operators. *)

LEMMA ToldLemma ==
  ASSUME NEW count \in Nat
  PROVE  /\ Told(count) \in 1 .. CountLimit
         /\ count \in 1 .. CountLimit => Told(count) = count
<1>1. CountLimit \in Nat /\ CountLimit > 0
  BY Stage2Assumption
<1>2. count % CountLimit \in 0 .. CountLimit - 1
  BY <1>1, SMT
<1>3. count < CountLimit => count % CountLimit = count
  BY <1>1, SMT
<1>4. count = CountLimit => count % CountLimit = 0
  BY <1>1, SMT
<1> QED BY <1>1, <1>2, <1>3, <1>4 DEF Told

LEMMA StatusLemma ==
  ASSUME AtaTypeOK, FloatingBus, drives[selected].present
  PROVE  /\ "BSY" \in Status <=> drives[selected].phase = "busy"
         /\ "DRQ" \in Status <=> drives[selected].phase = "data"
         /\ "ERR" \in Status <=> drives[selected].phase = "error"
BY DEF AtaTypeOK, FloatingBus, Drive, Status, Bits

LEMMA CommandedLemma ==
  ASSUME AtaTypeOK, DrivesAtWork, NEW slot \in Slots, NEW command \in {"identify", "read"},
         NEW sector \in Nat, NEW count \in 0 .. CountLimit,
         drives' \in Commanded(drives, slot, command, sector, count), prompt' = prompt
  PROVE  /\ drives' \in [Slots -> Drive]
         /\ DrivesAtWork'
         /\ \A s \in Slots : drives'[s].present = drives[s].present
         /\ \A s \in Slots : s # slot => drives'[s] = drives[s]
         /\ drives[slot].present /\ drives[slot].phase # "busy" =>
              /\ drives'[slot].command = command
              /\ drives'[slot].sector = sector
              /\ drives'[slot].left = IF count = 0 THEN CountLimit ELSE count
              /\ prompt => drives'[slot].phase = "busy"
<1>1. CountLimit \in Nat \ {0} /\ drives \in [Slots -> Drive]
  BY Stage2Assumption DEF AtaTypeOK
<1>2. CASE ~ drives[slot].present \/ drives[slot].phase = "busy"
  <2>1. drives' = drives
    BY <1>2 DEF Commanded
  <2> QED BY <1>1, <1>2, <2>1 DEF DrivesAtWork
<1>3. CASE drives[slot].present /\ drives[slot].phase # "busy"
  <2>1. PICK phase \in StartPhases :
          drives' = [drives EXCEPT ![slot] =
            [present |-> TRUE, phase |-> phase, command |-> command, sector |-> sector,
             left |-> IF count = 0 THEN CountLimit ELSE count, irq |-> FALSE]]
    BY <1>3 DEF Commanded
  <2>2. phase \in {"busy", "taken"} /\ (prompt => phase = "busy")
    BY DEF StartPhases
  <2> DEFINE drive == [present |-> TRUE, phase |-> phase, command |-> command, sector |-> sector,
                       left |-> IF count = 0 THEN CountLimit ELSE count, irq |-> FALSE]
  <2>3. /\ drive \in Drive /\ drive.present = drives[slot].present
        /\ drive.command = command /\ drive.sector = sector /\ drive.phase = phase
        /\ drive.left = IF count = 0 THEN CountLimit ELSE count
    BY <1>1, <1>3, <2>2 DEF Drive
  <2>4. drives' = [drives EXCEPT ![slot] = drive]
    BY <2>1
  <2> HIDE DEF drive
  <2>5. drives'[slot] = drive /\ \A s \in Slots : s # slot => drives'[s] = drives[s]
    BY <1>1, <2>4
  <2>6. drives' \in [Slots -> Drive]
    BY <1>1, <2>3, <2>4
  <2>7. DrivesAtWork'
    BY <1>1, <2>2, <2>3, <2>5 DEF DrivesAtWork
  <2> QED BY <1>1, <1>3, <2>2, <2>3, <2>5, <2>6, <2>7
<1> QED BY <1>2, <1>3

LEMMA BlockTakenLemma ==
  ASSUME AtaTypeOK, DrivesAtWork, NEW slot \in Slots,
         drives' \in BlockTaken(drives, slot), prompt' = prompt
  PROVE  /\ drives' \in [Slots -> Drive]
         /\ DrivesAtWork'
         /\ \A s \in Slots : drives'[s].present = drives[s].present
         /\ drives[slot].present /\ drives[slot].phase = "data" /\ drives[slot].left > 1 =>
              /\ drives'[slot].command = drives[slot].command
              /\ drives'[slot].sector = drives[slot].sector + 1
              /\ drives'[slot].left = drives[slot].left - 1
              /\ prompt => drives'[slot].phase = "busy"
<1>1. drives \in [Slots -> Drive]
  BY DEF AtaTypeOK
<1>2. CASE ~ drives[slot].present \/ drives[slot].phase # "data"
  <2>1. drives' = drives
    BY <1>2 DEF BlockTaken
  <2> QED BY <1>1, <1>2, <2>1 DEF DrivesAtWork
<1>3. CASE drives[slot].present /\ drives[slot].phase = "data"
  <2>1. drives[slot].left >= 1 /\ drives[slot].left \in 0 .. CountLimit /\ CountLimit \in Nat
    BY <1>1, <1>3, Stage2Assumption DEF DrivesAtWork, Drive
  <2>2. PICK phase \in IF drives[slot].left = 1 THEN {"idle"} ELSE StartPhases :
          drives' = [drives EXCEPT ![slot] =
            [present |-> TRUE, phase |-> phase, command |-> drives[slot].command,
             sector |-> drives[slot].sector + 1, left |-> drives[slot].left - 1,
             irq |-> drives[slot].irq]]
    BY <1>3 DEF BlockTaken
  <2>3. /\ phase \in {"idle", "busy", "taken"}
        /\ drives[slot].left = 1 => phase = "idle"
        /\ drives[slot].left # 1 /\ prompt => phase = "busy"
        /\ drives[slot].left # 1 => phase # "idle"
    BY DEF StartPhases
  <2>4. drives[slot].command # "none"
    BY <1>3 DEF DrivesAtWork
  <2> DEFINE drive == [present |-> TRUE, phase |-> phase, command |-> drives[slot].command,
                       sector |-> drives[slot].sector + 1, left |-> drives[slot].left - 1,
                       irq |-> drives[slot].irq]
  <2>5. /\ drive \in Drive /\ drive.present = drives[slot].present
        /\ drive.command = drives[slot].command /\ drive.sector = drives[slot].sector + 1
        /\ drive.left = drives[slot].left - 1 /\ drive.phase = phase
    BY <1>1, <1>3, <2>1, <2>3 DEF Drive
  <2>6. drives' = [drives EXCEPT ![slot] = drive]
    BY <2>2
  <2> HIDE DEF drive
  <2>7. drives'[slot] = drive /\ \A s \in Slots : s # slot => drives'[s] = drives[s]
    BY <1>1, <2>6
  <2>8. drives' \in [Slots -> Drive]
    BY <1>1, <2>5, <2>6
  <2>9. DrivesAtWork'
    BY <2>1, <2>3, <2>4, <2>5, <2>7 DEF DrivesAtWork
  <2>10. \A s \in Slots : drives'[s].present = drives[s].present
    BY <2>5, <2>7
  <2>11. drives[slot].left > 1 =>
           /\ drives'[slot].command = drives[slot].command
           /\ drives'[slot].sector = drives[slot].sector + 1
           /\ drives'[slot].left = drives[slot].left - 1
           /\ prompt => drives'[slot].phase = "busy"
    BY <2>1, <2>3, <2>5, <2>7
  <2> QED BY <2>8, <2>9, <2>10, <2>11
<1> QED BY <1>2, <1>3

-----------------------------------------------------------------------------
(* The drives go on. *)

LEMMA DriveStepInv ==
  ASSUME AtaInv, NEW s \in Slots, DriveStep(s)
  PROVE  AtaInv'
<1> USE DEF Slots
<1>1. /\ drives \in [Slots -> Drive] /\ drives[s] \in Drive /\ drives[s].present
      /\ AtaTypeOK /\ FloatingBus /\ DrivesAtWork /\ ReadProgress /\ InStep /\ RightBlocks
      /\ UNCHANGED <<prompt, floating, selected, driver, buffer, returned>>
  BY DEF AtaInv, AtaTypeOK, DriveStep
<1>2. PICK phase \in {"idle", "busy", "data", "error"}, line \in BOOLEAN :
        /\ drives' = [drives EXCEPT ![s] = InPhase(drives[s], phase, line)]
        /\ phase = "idle" => drives[s].phase = "busy" /\ drives[s].command = "none"
        /\ phase = "busy" => drives[s].phase = "taken"
        /\ phase \in {"data", "error"} => drives[s].phase = "busy" /\ drives[s].command # "none"
  <2>1. CASE drives[s].phase = "taken" /\ drives' = [drives EXCEPT ![s] = InPhase(drives[s], "busy", drives[s].irq)]
    BY <1>1, <2>1 DEF Drive
  <2>2. CASE /\ drives[s].phase = "busy" /\ drives[s].command # "none"
             /\ drives' = [drives EXCEPT ![s] = InPhase(drives[s], "data", TRUE)]
    BY <2>2
  <2>3. CASE /\ drives[s].phase = "busy" /\ drives[s].command # "none"
             /\ drives' = [drives EXCEPT ![s] = InPhase(drives[s], "error", TRUE)]
    BY <2>3
  <2>4. CASE /\ drives[s].phase = "busy" /\ drives[s].command = "none"
             /\ drives' = [drives EXCEPT ![s] = InPhase(drives[s], "idle", drives[s].irq)]
    BY <1>1, <2>4 DEF Drive
  <2> QED BY <2>1, <2>2, <2>3, <2>4 DEF DriveStep
<1> DEFINE drive == InPhase(drives[s], phase, line)
<1>10. /\ drives' = [drives EXCEPT ![s] = drive] /\ drive \in Drive /\ drive.present = drives[s].present
       /\ drive.command = drives[s].command /\ drive.sector = drives[s].sector
       /\ drive.left = drives[s].left /\ drive.phase = phase
  BY <1>1, <1>2 DEF InPhase, Drive
<1> HIDE DEF drive
<1>3. drives'[s] = drive /\ (\A t \in Slots : t # s => drives'[t] = drives[t]) /\ drives' \in [Slots -> Drive]
  BY <1>1, <1>10
<1>4. AtaTypeOK' /\ FloatingBus' /\ ReadProgress'
  BY <1>1, <1>3, <1>10 DEF AtaTypeOK, FloatingBus, ReadProgress, InLoop
<1>5. DrivesAtWork'
  BY <1>1, <1>2, <1>3, <1>10 DEF DrivesAtWork
<1>6. \A t \in Slots : drives'[t].present = drives[t].present
  BY <1>3, <1>10
<1>7. driver.slot \in Slots
  BY <1>1 DEF AtaTypeOK
<1>8. RightBlocks'
  BY <1>1, <1>6, <1>7 DEF RightBlocks, Told
<1>9. InStep'
  <2>1. CASE driver.slot = s
    BY <1>1, <1>2, <1>3, <1>10, <1>7, <2>1 DEF InStep, Told, DrivesAtWork
  <2>2. CASE driver.slot # s
    BY <1>1, <1>3, <1>7, <2>2 DEF InStep, Told
  <2> QED BY <2>1, <2>2
<1> QED BY <1>4, <1>5, <1>8, <1>9 DEF AtaInv

-----------------------------------------------------------------------------
(* The driver goes on. *)

LEMMA StatusReadLemma ==
  ASSUME AtaTypeOK, DrivesAtWork, StatusRead, prompt' = prompt
  PROVE  /\ drives' \in [Slots -> Drive]
         /\ DrivesAtWork'
         /\ \A s \in Slots :
              /\ drives'[s].present = drives[s].present /\ drives'[s].phase = drives[s].phase
              /\ drives'[s].command = drives[s].command /\ drives'[s].sector = drives[s].sector
              /\ drives'[s].left = drives[s].left
<1> DEFINE drive == InPhase(drives[selected], drives[selected].phase, FALSE)
<1>1. drives \in [Slots -> Drive] /\ selected \in Slots /\ drives[selected] \in Drive
  BY DEF AtaTypeOK
<1>2. /\ drive \in Drive /\ drive.present = drives[selected].present
      /\ drive.phase = drives[selected].phase /\ drive.command = drives[selected].command
      /\ drive.sector = drives[selected].sector /\ drive.left = drives[selected].left
  BY <1>1 DEF InPhase, Drive
<1>3. drives' = [drives EXCEPT ![selected] = drive]
  BY DEF StatusRead
<1> HIDE DEF drive
<1>4. drives' \in [Slots -> Drive] /\ drives'[selected] = drive
      /\ \A s \in Slots : s # selected => drives'[s] = drives[s]
  BY <1>1, <1>2, <1>3
<1>5. \A s \in Slots :
        /\ drives'[s].present = drives[s].present /\ drives'[s].phase = drives[s].phase
        /\ drives'[s].command = drives[s].command /\ drives'[s].sector = drives[s].sector
        /\ drives'[s].left = drives[s].left
  BY <1>2, <1>4
<1> QED BY <1>4, <1>5 DEF DrivesAtWork

LEMMA IdentifyInv ==
  ASSUME AtaInv, NEW slot \in Slots, identify(slot)
  PROVE  AtaInv'
<1>1. /\ AtaTypeOK /\ FloatingBus /\ DrivesAtWork /\ ReadProgress /\ InStep /\ RightBlocks
      /\ driver.at = "idle" /\ selected' = slot /\ driver' = Driver("identify", driver.block)
      /\ drives' \in Commanded(drives, slot, "identify", 0, 1)
      /\ UNCHANGED <<prompt, floating, buffer, returned>>
  BY DEF AtaInv, identify, Goes
<1>2. 1 \in 0 .. CountLimit
  BY Stage2Assumption
<1>3. /\ drives' \in [Slots -> Drive] /\ DrivesAtWork'
      /\ \A s \in Slots : drives'[s].present = drives[s].present
  BY <1>1, <1>2, CommandedLemma
<1>4. /\ driver'.at = "identify" /\ driver'.slot = driver.slot /\ driver'.sector = driver.sector
      /\ driver'.count = driver.count /\ driver'.block = driver.block /\ driver.slot \in Slots
  BY <1>1 DEF Driver, AtaTypeOK
<1>5. AtaTypeOK'
  BY <1>1, <1>3 DEF AtaTypeOK, Driver
<1>6. FloatingBus' /\ ReadProgress' /\ InStep'
  BY <1>1, <1>3, <1>4 DEF FloatingBus, ReadProgress, InLoop, InStep
<1>7. RightBlocks'
  BY <1>1, <1>3, <1>4 DEF RightBlocks, Told
<1> QED BY <1>3, <1>5, <1>6, <1>7 DEF AtaInv

LEMMA IdentifyStepsInv ==
  ASSUME AtaInv, IdentifyPoll \/ IdentifyData
  PROVE  AtaInv'
<1>1. /\ AtaTypeOK /\ FloatingBus /\ DrivesAtWork /\ ReadProgress /\ InStep /\ RightBlocks
      /\ driver.at \in {"identify", "identify again", "identity"}
      /\ UNCHANGED <<prompt, floating, selected, buffer, returned>>
  BY DEF AtaInv, IdentifyPoll, IdentifyData
<1>2. PICK at \in {"idle", "identify again", "identity"} : driver' = Driver(at, driver.block)
  BY DEF IdentifyPoll, IdentifyData, Goes
<1>3. /\ drives' \in [Slots -> Drive] /\ DrivesAtWork'
      /\ \A s \in Slots : drives'[s].present = drives[s].present
  <2>1. CASE IdentifyPoll
    BY <1>1, <2>1, StatusReadLemma DEF IdentifyPoll
  <2>2. CASE IdentifyData
    BY <1>1, <2>2, BlockTakenLemma DEF IdentifyData, AtaTypeOK
  <2> QED BY <2>1, <2>2
<1>4. /\ driver'.at = at /\ driver'.slot = driver.slot /\ driver'.sector = driver.sector
      /\ driver'.count = driver.count /\ driver'.block = driver.block /\ driver.slot \in Slots
  BY <1>1, <1>2 DEF Driver, AtaTypeOK
<1>5. AtaTypeOK'
  BY <1>1, <1>2, <1>3 DEF AtaTypeOK, Driver
<1>6. FloatingBus' /\ ReadProgress' /\ InStep'
  BY <1>1, <1>3, <1>4 DEF FloatingBus, ReadProgress, InLoop, InStep
<1>7. RightBlocks'
  BY <1>1, <1>3, <1>4 DEF RightBlocks, Told
<1> QED BY <1>3, <1>5, <1>6, <1>7 DEF AtaInv

LEMMA AtaReadInv ==
  ASSUME AtaInv, NEW slot \in Slots, NEW sector \in Nat, NEW count \in Nat,
         ataRead(slot, sector, count)
  PROVE  AtaInv'
<1>1. /\ AtaTypeOK /\ FloatingBus /\ DrivesAtWork
      /\ driver' = [at |-> IF count = 0 THEN "idle" ELSE "wait",
                    slot |-> slot, sector |-> sector, count |-> count, block |-> 0]
      /\ selected' = (IF count = 0 THEN selected ELSE slot)
      /\ returned' = (IF count = 0 THEN 0 ELSE returned)
      /\ buffer' = <<>>
      /\ UNCHANGED <<drives, prompt, floating>>
  BY DEF AtaInv, ataRead
<1>2. AtaTypeOK'
  <2>1. /\ driver'.at \in {"idle", "wait"} /\ driver'.slot = slot /\ driver'.sector = sector
        /\ driver'.count = count /\ driver'.block = 0
    BY <1>1
  <2>2. /\ driver' \in [at : {"idle", "identify", "identify again", "identity", "wait", "command", "poll", "data"},
                        slot : Slots, sector : Nat, count : Nat, block : Nat]
    BY <1>1
  <2>3. buffer' \in Seq(Block \cup {Junk}) /\ Len(buffer') = 0
    BY <1>1
  <2>4. selected' \in Slots /\ returned' \in Nat
    BY <1>1 DEF AtaTypeOK
  <2>5. drives' \in [Slots -> Drive] /\ prompt' \in BOOLEAN /\ floating' \in BOOLEAN
    BY <1>1 DEF AtaTypeOK
  <2>6. driver'.block <= driver'.count /\ Len(buffer') <= driver'.count
    BY <2>1, <2>3
  <2> QED BY <2>2, <2>3, <2>4, <2>5, <2>6 DEF AtaTypeOK
<1>3. DrivesAtWork' /\ FloatingBus'
  BY <1>1 DEF DrivesAtWork, FloatingBus
<1>4. ReadProgress' /\ InStep' /\ RightBlocks'
  BY <1>1 DEF ReadProgress, InLoop, InStep, RightBlocks
<1> QED BY <1>2, <1>3, <1>4 DEF AtaInv

LEMMA WaitReadyInv ==
  ASSUME AtaInv, WaitReady
  PROVE  AtaInv'
<1>1. /\ AtaTypeOK /\ FloatingBus /\ DrivesAtWork /\ ReadProgress /\ InStep /\ RightBlocks
      /\ driver.at = "wait" /\ StatusRead
      /\ driver' = Driver(IF "BSY" \in Status THEN "wait" ELSE "command", driver.block)
      /\ UNCHANGED <<prompt, floating, selected, buffer, returned>>
  BY DEF AtaInv, WaitReady, Goes
<1>2. /\ drives' \in [Slots -> Drive] /\ DrivesAtWork'
      /\ \A s \in Slots : drives'[s].present = drives[s].present /\ drives'[s].phase = drives[s].phase
  BY <1>1, StatusReadLemma
<1>3. /\ driver'.at \in {"wait", "command"} /\ driver'.slot = driver.slot
      /\ driver'.at = "command" => "BSY" \notin Status
      /\ driver'.sector = driver.sector /\ driver'.count = driver.count
      /\ driver'.block = driver.block /\ driver.slot \in Slots /\ selected = driver.slot
  BY <1>1 DEF Driver, AtaTypeOK, ReadProgress, InLoop
<1>4. AtaTypeOK'
  BY <1>1, <1>2 DEF AtaTypeOK, Driver
<1>5. FloatingBus' /\ ReadProgress'
  BY <1>1, <1>2, <1>3 DEF FloatingBus, ReadProgress, InLoop
<1>6. InStep'
  BY <1>1, <1>2, <1>3, StatusLemma DEF InStep
<1>7. RightBlocks'
  BY <1>1, <1>2, <1>3 DEF RightBlocks, Told
<1> QED BY <1>2, <1>4, <1>5, <1>6, <1>7 DEF AtaInv

LEMMA SendCommandInv ==
  ASSUME AtaInv, SendCommand
  PROVE  AtaInv'
<1>1. /\ AtaTypeOK /\ FloatingBus /\ DrivesAtWork /\ ReadProgress /\ InStep /\ RightBlocks
      /\ driver.at = "command" /\ driver' = Driver("poll", driver.block)
      /\ drives' \in Commanded(drives, driver.slot, "read", driver.sector, driver.count % CountLimit)
      /\ UNCHANGED <<prompt, floating, selected, buffer, returned>>
  BY DEF AtaInv, SendCommand, Goes
<1>2. /\ driver.slot \in Slots /\ driver.sector \in Nat /\ driver.count \in Nat
      /\ driver.block \in Nat
  BY <1>1 DEF AtaTypeOK
<1>3. driver.count % CountLimit \in 0 .. CountLimit
  <2>1. CountLimit \in Nat /\ CountLimit > 0
    BY Stage2Assumption
  <2> QED BY <1>2, <2>1, SMT
<1>4. /\ drives' \in [Slots -> Drive] /\ DrivesAtWork'
      /\ \A s \in Slots : drives'[s].present = drives[s].present
      /\ drives[driver.slot].present /\ drives[driver.slot].phase # "busy" =>
           /\ drives'[driver.slot].command = "read"
           /\ drives'[driver.slot].sector = driver.sector
           /\ drives'[driver.slot].left = Told(driver.count)
           /\ prompt => drives'[driver.slot].phase = "busy"
  BY <1>1, <1>2, <1>3, CommandedLemma DEF Told
<1>5. /\ driver'.at = "poll" /\ driver'.slot = driver.slot /\ driver'.sector = driver.sector
      /\ driver'.count = driver.count /\ driver'.block = driver.block
  BY <1>1 DEF Driver
<1>6. Told(driver.count)' = Told(driver.count)
  BY <1>5 DEF Told
<1>7. AtaTypeOK'
  BY <1>1, <1>4 DEF AtaTypeOK, Driver
<1>8. FloatingBus' /\ ReadProgress'
  BY <1>1, <1>4, <1>5 DEF FloatingBus, ReadProgress, InLoop
<1>9. RightBlocks'
  BY <1>1, <1>2, <1>4, <1>5, <1>6 DEF RightBlocks
<1>10. InStep'
  <2>1. driver.block = 0 /\ Told(driver.count) \in Nat
    BY <1>1, <1>2, ToldLemma DEF ReadProgress
  <2>2. ASSUME drives[driver.slot].present, prompt
        PROVE  drives[driver.slot].phase # "busy"
    BY <1>1, <2>2 DEF InStep
  <2> QED BY <1>1, <1>2, <1>4, <1>5, <1>6, <2>1, <2>2 DEF InStep
<1> QED BY <1>4, <1>7, <1>8, <1>9, <1>10 DEF AtaInv

LEMMA PollInv ==
  ASSUME AtaInv, Poll
  PROVE  AtaInv'
<1> DEFINE at == IF "BSY" \in Status /\ "DRQ" \notin Status THEN "poll"
                 ELSE IF "ERR" \in Status THEN "idle" ELSE "data"
<1>1. /\ AtaTypeOK /\ FloatingBus /\ DrivesAtWork /\ ReadProgress /\ InStep /\ RightBlocks
      /\ driver.at = "poll" /\ StatusRead /\ driver' = Driver(at, driver.block)
      /\ returned' = (IF driver'.at = "idle" THEN 0 ELSE returned)
      /\ UNCHANGED <<prompt, floating, selected, buffer>>
  BY DEF AtaInv, Poll, Goes
<1>2. /\ drives' \in [Slots -> Drive] /\ DrivesAtWork'
      /\ \A s \in Slots :
           /\ drives'[s].present = drives[s].present /\ drives'[s].phase = drives[s].phase
           /\ drives'[s].command = drives[s].command /\ drives'[s].sector = drives[s].sector
           /\ drives'[s].left = drives[s].left
  BY <1>1, StatusReadLemma
<1>3. /\ driver'.at = at /\ at \in {"poll", "idle", "data"}
      /\ driver'.slot = driver.slot /\ driver'.sector = driver.sector
      /\ driver'.count = driver.count /\ driver'.block = driver.block
      /\ driver.slot \in Slots /\ selected = driver.slot
  BY <1>1 DEF Driver, AtaTypeOK, ReadProgress, InLoop
<1>4. Told(driver.count)' = Told(driver.count)
  BY <1>3 DEF Told
<1>5. drives[driver.slot].present /\ at = "data" =>
        drives[driver.slot].phase \notin {"busy", "error"}
  BY <1>1, <1>3, StatusLemma
<1>6. AtaTypeOK'
  BY <1>1, <1>2, <1>3 DEF AtaTypeOK, Driver
<1> HIDE DEF at
<1>7. FloatingBus' /\ ReadProgress'
  BY <1>1, <1>2, <1>3 DEF FloatingBus, ReadProgress, InLoop
<1>8. RightBlocks'
  BY <1>1, <1>2, <1>3, <1>4 DEF RightBlocks
<1>9. InStep'
  BY <1>1, <1>2, <1>3, <1>4, <1>5 DEF InStep
<1> QED BY <1>2, <1>6, <1>7, <1>8, <1>9 DEF AtaInv

LEMMA OfferedLemma ==
  ASSUME AtaTypeOK, NEW slot \in Slots
  PROVE  /\ Offered(slot) \in Block \cup {Junk}
         /\ drives[slot].present /\ drives[slot].phase = "data" /\ drives[slot].command = "read" =>
              Offered(slot) = [drive |-> slot, sector |-> drives[slot].sector]
<1>1. drives[slot].sector \in Nat
  BY DEF AtaTypeOK, Drive
<1> QED BY <1>1 DEF Offered, Block

LEMMA TransferInv ==
  ASSUME AtaInv, Transfer
  PROVE  AtaInv'
<1> DEFINE last  == driver.block + 1 = driver.count
           block == Offered(selected)
<1>1. /\ AtaTypeOK /\ FloatingBus /\ DrivesAtWork /\ ReadProgress /\ InStep /\ RightBlocks
      /\ driver.at = "data" /\ buffer' = Append(buffer, block)
      /\ drives' \in BlockTaken(drives, selected)
      /\ driver' = Driver(IF last THEN "idle" ELSE "poll", driver.block + 1)
      /\ returned' = (IF last THEN driver.count ELSE returned)
      /\ UNCHANGED <<prompt, floating, selected>>
  BY DEF AtaInv, Transfer
<1>2. /\ selected = driver.slot /\ driver.slot \in Slots
      /\ buffer \in Seq(Block \cup {Junk}) /\ Len(buffer) = driver.block
      /\ driver.block < driver.count /\ driver.block \in Nat /\ driver.count \in Nat
      /\ driver.sector \in Nat
  BY <1>1 DEF AtaTypeOK, ReadProgress, InLoop
<1>3. /\ drives' \in [Slots -> Drive] /\ DrivesAtWork'
      /\ \A s \in Slots : drives'[s].present = drives[s].present
      /\ LET drive == drives[driver.slot]
         IN  drive.present /\ drive.phase = "data" /\ drive.left > 1 =>
               /\ drives'[driver.slot].command = drive.command
               /\ drives'[driver.slot].sector = drive.sector + 1
               /\ drives'[driver.slot].left = drive.left - 1
               /\ prompt => drives'[driver.slot].phase = "busy"
  BY <1>1, <1>2, BlockTakenLemma
<1>4. /\ driver'.at = (IF last THEN "idle" ELSE "poll") /\ driver'.slot = driver.slot
      /\ driver'.sector = driver.sector /\ driver'.count = driver.count
      /\ driver'.block = driver.block + 1
  BY <1>1 DEF Driver
<1>5. Told(driver.count)' = Told(driver.count) /\ Told(driver.count) \in Nat
  BY <1>2, <1>4, ToldLemma DEF Told
<1>6. block \in Block \cup {Junk}
  BY <1>1, <1>2, OfferedLemma
<1> HIDE DEF block
<1>7. /\ buffer' \in Seq(Block \cup {Junk}) /\ Len(buffer') = driver.block + 1
      /\ \A i \in 1 .. driver.block : buffer'[i] = buffer[i]
      /\ buffer'[driver.block + 1] = block
      /\ DOMAIN buffer = 1 .. driver.block /\ DOMAIN buffer' = 1 .. driver.block + 1
  BY <1>1, <1>2, <1>6
<1>8. AtaTypeOK'
  <2>1. driver' \in [at : {"idle", "identify", "identify again", "identity", "wait", "command", "poll", "data"},
                     slot : Slots, sector : Nat, count : Nat, block : Nat]
    BY <1>1, <1>2 DEF Driver
  <2>2. driver'.block <= driver'.count /\ Len(buffer') <= driver'.count /\ returned' \in Nat
    <3>1. returned \in Nat
      BY <1>1 DEF AtaTypeOK
    <3> QED BY <1>1, <1>2, <1>4, <1>7, <3>1
  <2>3. selected' \in Slots /\ prompt' \in BOOLEAN /\ floating' \in BOOLEAN
    BY <1>1 DEF AtaTypeOK
  <2> QED BY <1>3, <1>7, <2>1, <2>2, <2>3 DEF AtaTypeOK
<1>9. FloatingBus' /\ ReadProgress'
  BY <1>1, <1>2, <1>3, <1>4, <1>7, SMTT(30) DEF FloatingBus, ReadProgress, InLoop
<1>10. ASSUME drives[driver.slot].present, prompt, driver.block < Told(driver.count)
       PROVE  /\ drives[driver.slot].phase = "data" /\ drives[driver.slot].command = "read"
              /\ drives[driver.slot].sector = driver.sector + driver.block
              /\ drives[driver.slot].left = Told(driver.count) - driver.block
  BY <1>1, <1>10 DEF InStep
<1>11. RightBlocks'
  <2> SUFFICES ASSUME drives[driver.slot].present, prompt,
                      NEW i \in 1 .. driver.block + 1, i <= Told(driver.count)
               PROVE  buffer'[i] = [drive |-> driver.slot, sector |-> driver.sector + i - 1]
    BY <1>1, <1>2, <1>3, <1>4, <1>5, <1>7 DEF RightBlocks
  <2>1. CASE i <= driver.block
    BY <1>1, <1>2, <1>7, <2>1, SMTT(30) DEF RightBlocks
  <2>2. CASE i = driver.block + 1
    <3>1. block = [drive |-> driver.slot, sector |-> driver.sector + driver.block]
      BY <1>1, <1>2, <1>5, <1>10, <2>2, OfferedLemma DEF block
    <3>2. driver.sector + i - 1 = driver.sector + driver.block
      BY <1>2, <2>2
    <3> QED BY <1>7, <2>2, <3>1, <3>2
  <2> QED BY <1>2, <2>1, <2>2
<1>12. InStep'
  <2> SUFFICES ASSUME drives[driver.slot].present, prompt, driver'.at = "poll",
                      driver.block + 1 < Told(driver.count)
               PROVE  /\ drives'[driver.slot].command = "read"
                      /\ drives'[driver.slot].sector = driver.sector + (driver.block + 1)
                      /\ drives'[driver.slot].left = Told(driver.count) - (driver.block + 1)
                      /\ drives'[driver.slot].phase = "busy"
    BY <1>1, <1>2, <1>3, <1>4, <1>5 DEF InStep
  <2>1. driver.block < Told(driver.count) /\ Told(driver.count) - driver.block > 1
    BY <1>2, <1>5
  <2>2. /\ drives[driver.slot].phase = "data" /\ drives[driver.slot].command = "read"
        /\ drives[driver.slot].sector = driver.sector + driver.block
        /\ drives[driver.slot].left = Told(driver.count) - driver.block
    BY <1>10, <2>1
  <2>3. /\ drives'[driver.slot].command = "read"
        /\ drives'[driver.slot].sector = (driver.sector + driver.block) + 1
        /\ drives'[driver.slot].left = (Told(driver.count) - driver.block) - 1
        /\ drives'[driver.slot].phase = "busy"
    BY <1>3, <2>1, <2>2
  <2>4. /\ (driver.sector + driver.block) + 1 = driver.sector + (driver.block + 1)
        /\ (Told(driver.count) - driver.block) - 1 = Told(driver.count) - (driver.block + 1)
    BY <1>2, <1>5
  <2> QED BY <2>3, <2>4
<1> QED BY <1>3, <1>8, <1>9, <1>11, <1>12 DEF AtaInv

-----------------------------------------------------------------------------
(* stage2. *)

Early == {"construct", "init", "enable", "identify master", "identify slave", "mount"}

OnDev == [path |-> DevPath, fs |-> DevFS, isRoot |-> TRUE]

OneMount == push_back(EmptyVector, OnDev)

Listed(slot) == [name |-> <<slot>>, device |-> slot]

(* What stage2 has entered in the DevFS by now. *)
Registered ==
  IF pc \in Early \cup {"register master"} THEN <<>>
  ELSE IF pc = "register slave" THEN << Listed("ata0m") >>
  ELSE << Listed("ata0m"), Listed("ata0s") >>

TheFile == [path |-> <<"ata0s">>, mountPoint |-> Position(OneMount, 1), fs |-> DevFS, safe |-> TRUE]

(* The only mount point is the DevFS, the devices are in it under their    *)
(* names, and the open file is the second drive.                           *)
FilesInv ==
  /\ mounts = IF pc \in Early THEN EmptyVector ELSE OneMount
  /\ DOMAIN devices = FileSystems /\ devices[DevFS] = Registered
  /\ DOMAIN files = Handles
  /\ files[FileHandle] # Closed => files[FileHandle] = TheFile /\ pc \in {"read", "examine", "close"}

(* The last read is that of the second drive, from its first sector on. *)
LastRead ==
  pc \in {"examine", "close", "halt"} => driver.slot = "ata0s" /\ driver.sector = 0

Stage2Inv == AtaInv /\ FilesInv /\ LastRead /\ MbrIsFirstSector

LEMMA OneMountLemma ==
  /\ OneMount.size = 1 /\ OneMount.array = 1
  /\ OneMount.slots[1] = OnDev /\ 1 \in 1 .. Len(OneMount.slots)
<1> DEFINE S == {OnDev}
<1>0. OnDev \in S
  OBVIOUS
<1> HIDE DEF S
<1>1. EmptyVector \in VectorOf(S) /\ EmptyVector.size = 0
  BY EmptyLemma DEF EmptyVector
<1>2. OneMount \in VectorOf(S) /\ OneMount.size = 1
  BY <1>1, <1>0, PushBackAppends DEF OneMount
<1>3. Elements(OneMount) \in Seq(S) /\ Len(Elements(OneMount)) = 1
      /\ Elements(OneMount)[1] = OneMount.slots[1]
  <2>1. 1 \in 1 .. OneMount.size
    BY <1>2
  <2> QED BY <1>2, <2>1, ElementsLemma
<1>4. Elements(OneMount)[1] \in S
  BY <1>3, ElementOfSeq
<1>5. OneMount.slots[1] = OnDev /\ 1 \in 1 .. Len(OneMount.slots)
  <2>1. OneMount.slots[1] = OnDev
    BY <1>3, <1>4 DEF S
  <2> QED BY <1>2, <2>1 DEF VectorOf
<1>6. OneMount.array = 1
  BY SpaceAssumption DEF OneMount, push_back, Grown, reserve, Updated, EmptyVector
<1> QED BY <1>2, <1>5, <1>6

LEMMA SlaveFound ==
  ASSUME devices[DevFS] = << Listed("ata0m"), Listed("ata0s") >>
  PROVE  findDevice(DevFS, <<"ata0s">>) = "ata0s"
<1> DEFINE found == {i \in DOMAIN devices[DevFS] : devices[DevFS][i].name = <<"ata0s">>}
<1>1. /\ DOMAIN devices[DevFS] = {1, 2} /\ devices[DevFS][2].device = "ata0s"
      /\ devices[DevFS][1].name = <<"ata0m">> /\ devices[DevFS][2].name = <<"ata0s">>
  BY DEF Listed
<1>2. <<"ata0m">> # <<"ata0s">>
  OBVIOUS
<1>3. found = {2}
  BY <1>1, <1>2
<1>4. (CHOOSE i \in found : \A k \in found : i <= k) = 2
  BY <1>3
<1> QED BY <1>1, <1>3, <1>4 DEF findDevice

LEMMA PairLemma ==
  ASSUME NEW S, NEW s \in Seq(S), Len(s) = 2
  PROVE  s = <<s[1], s[2]>>
<1> DEFINE t == <<s[1], s[2]>>
<1>1. s[1] \in S /\ s[2] \in S
  BY ElementOfSeq
<1>2. t \in Seq(S) /\ Len(t) = 2 /\ t[1] = s[1] /\ t[2] = s[2]
  BY <1>1
<1> HIDE DEF t
<1>3. s = t
  BY <1>2, SequencesEqual
<1> QED BY <1>3 DEF t

LEMMA LastTwo ==
  ASSUME NEW S, NEW s \in Seq(S), Len(s) = 4
  PROVE  SubSeq(s, 3, 4) = <<s[3], s[4]>>
<1> DEFINE t == SubSeq(s, 3, 4)
<1>1. t \in Seq(S) /\ Len(t) = 2 /\ t[1] = s[3] /\ t[2] = s[4]
  OBVIOUS
<1> HIDE DEF t
<1>2. t = <<t[1], t[2]>>
  BY <1>1, PairLemma
<1> QED BY <1>1, <1>2 DEF t

LEMMA TupleLemma ==
  ASSUME NEW S, NEW a \in S, NEW b \in S, NEW c \in S, NEW d \in S
  PROVE  <<a, b, c, d>> \in Seq(S) /\ Len(<<a, b, c, d>>) = 4
OBVIOUS

LEMMA DiskName ==
  WithoutSlash(WithoutSlash(SubSeq(DiskPath, Len(DevPath) + 1, Len(DiskPath)))) = <<"ata0s">>
<1> DEFINE S == {"/", "dev", "ata0s"}
<1>1. DiskPath \in Seq(S) /\ Len(DiskPath) = 4
  BY TupleLemma DEF DiskPath
<1>2. Len(DevPath) = 2 /\ DiskPath[3] = "/" /\ DiskPath[4] = "ata0s"
  BY DEF DiskPath, DevPath
<1>3. SubSeq(DiskPath, 3, 4) = <<"/", "ata0s">>
  BY <1>1, <1>2, LastTwo
<1>4. SubSeq(DiskPath, Len(DevPath) + 1, Len(DiskPath)) = <<"/", "ata0s">>
  BY <1>1, <1>2, <1>3
<1>5. WithoutSlash(<<"/", "ata0s">>) = <<"ata0s">>
  BY DEF WithoutSlash
<1>6. WithoutSlash(<<"ata0s">>) = <<"ata0s">>
  BY DEF WithoutSlash
<1> QED BY <1>4, <1>5, <1>6

(* What a step of stage2 does to the driver and its drives. *)
LEMMA AtaSteps ==
  ASSUME Stage2Next
  PROVE  \/ UNCHANGED ataVars
         \/ \E s \in Slots : DriveStep(s)
         \/ DriverStep
         \/ \E slot \in Slots : identify(slot)
         \/ ReadFile
BY DEF Stage2Next, KernelStep, SetUpInterrupts, Identify, SetUpFiles, Drive2, Examine, Close,
       Interrupt, Failure, Timer, Disk, Slots, ataVars

LEMMA DriverStepInv ==
  ASSUME AtaInv, DriverStep
  PROVE  AtaInv'
BY IdentifyStepsInv, WaitReadyInv, SendCommandInv, PollInv, TransferInv DEF DriverStep

(* The file is read from the second drive, which is the device of its name *)
(* where its mount point leads.                                            *)
LEMMA ReadFileLemma ==
  ASSUME FilesInv, ReadFile
  PROVE  \E count \in Nat : ataRead("ata0s", 0, count)
<1>1. /\ pc = "read" /\ read(FileHandle)
      /\ \E count \in ReadCounts : ataRead(result', 0, count)
  BY DEF ReadFile, Goto
<1>2. files[FileHandle] = TheFile
  BY <1>1 DEF FilesInv, read
<1>3. mounts = OneMount /\ devices[DevFS] = << Listed("ata0m"), Listed("ata0s") >>
  BY <1>1 DEF FilesInv, Registered, Early
<1>4. IsValid(mounts, TheFile.mountPoint) /\ TheFile.mountPoint.index = 1
  BY <1>3, OneMountLemma DEF TheFile, Position, IsValid
<1>5. Reaches(files[FileHandle]) = {DevFS}
  BY <1>2, <1>3, <1>4, OneMountLemma DEF Reaches, OnDev
<1>6. result' = "ata0s"
  <2>1. result' = findDevice(DevFS, files[FileHandle].path)
    BY <1>1, <1>5 DEF read
  <2>2. files[FileHandle].path = <<"ata0s">>
    BY <1>2 DEF TheFile
  <2> QED BY <1>3, <2>1, <2>2, SlaveFound
<1> QED BY <1>1, <1>6, Stage2Assumption

(* Only read says which drive the driver is about; drives stay.            *)
LEMMA SameDrives ==
  ASSUME AtaInv, [Stage2Next]_stage2Vars, ~ ReadFile
  PROVE  /\ driver'.slot = driver.slot /\ driver'.sector = driver.sector
         /\ prompt' = prompt
         /\ \A s \in Slots : drives'[s].present = drives[s].present
<1>1. AtaTypeOK /\ DrivesAtWork /\ drives \in [Slots -> Drive] /\ selected \in Slots
  BY DEF AtaInv, AtaTypeOK
<1>2. CASE UNCHANGED ataVars
  BY <1>2 DEF ataVars
<1>3. ASSUME NEW s \in Slots, DriveStep(s)
      PROVE  /\ driver' = driver /\ prompt' = prompt
             /\ \A t \in Slots : drives'[t].present = drives[t].present
  <2>1. PICK phase, line : drives' = [drives EXCEPT ![s] = InPhase(drives[s], phase, line)]
    BY <1>3 DEF DriveStep
  <2>2. \A t \in Slots : drives'[t] = IF t = s THEN InPhase(drives[s], phase, line) ELSE drives[t]
    BY <1>1, <2>1
  <2>3. InPhase(drives[s], phase, line).present = drives[s].present
    BY DEF InPhase
  <2> QED BY <1>3, <2>2, <2>3 DEF DriveStep
<1>4. ASSUME NEW slot \in Slots, identify(slot)
      PROVE  /\ driver'.slot = driver.slot /\ driver'.sector = driver.sector /\ prompt' = prompt
             /\ \A t \in Slots : drives'[t].present = drives[t].present
  <2>1. 1 \in 0 .. CountLimit
    BY Stage2Assumption
  <2>2. drives' \in Commanded(drives, slot, "identify", 0, 1) /\ prompt' = prompt
    BY <1>4 DEF identify
  <2> QED BY <1>1, <1>4, <2>1, <2>2, CommandedLemma DEF identify, Goes, Driver
<1>5. CASE DriverStep
  <2>1. driver'.slot = driver.slot /\ driver'.sector = driver.sector /\ prompt' = prompt
    <3>1. \A at, block : Driver(at, block).slot = driver.slot /\ Driver(at, block).sector = driver.sector
      BY DEF Driver
    <3>2. CASE IdentifyPoll \/ IdentifyData
      BY <3>1, <3>2, ZenonT(40) DEF IdentifyPoll, IdentifyData, Goes
    <3>3. CASE WaitReady \/ SendCommand
      BY <3>1, <3>3 DEF WaitReady, SendCommand, Goes
    <3>4. CASE Poll
      BY <3>1, <3>4 DEF Poll, Goes
    <3>5. CASE Transfer
      BY <3>1, <3>5 DEF Transfer
    <3> QED BY <1>5, <3>2, <3>3, <3>4, <3>5 DEF DriverStep
  <2>2. CASE StatusRead
    BY <1>1, <2>1, <2>2, StatusReadLemma
  <2>3. CASE drives' \in BlockTaken(drives, selected)
    BY <1>1, <2>1, <2>3, BlockTakenLemma
  <2>4. CASE SendCommand
    <3>1. driver.slot \in Slots /\ driver.sector \in Nat /\ driver.count \in Nat
      BY <1>1 DEF AtaTypeOK
    <3>2. CountLimit \in Nat /\ CountLimit > 0
      BY Stage2Assumption
    <3>3. driver.count % CountLimit \in 0 .. CountLimit
      BY <3>1, <3>2, SMT
    <3>4. drives' \in Commanded(drives, driver.slot, "read", driver.sector, driver.count % CountLimit)
      BY <2>4 DEF SendCommand
    <3>5. \A s \in Slots : drives'[s].present = drives[s].present
      <4> DEFINE count == driver.count % CountLimit
      <4>1. count \in 0 .. CountLimit
        BY <3>3
      <4>2. drives' \in Commanded(drives, driver.slot, "read", driver.sector, count)
        BY <3>4
      <4> HIDE DEF count
      <4> QED BY <1>1, <2>1, <3>1, <4>1, <4>2, CommandedLemma
    <3> QED BY <2>1, <3>5
  <2> QED BY <1>5, <2>1, <2>2, <2>3, <2>4
          DEF DriverStep, IdentifyPoll, IdentifyData, WaitReady, Poll, Transfer
<1> QED BY <1>2, <1>3, <1>4, <1>5, AtaSteps DEF stage2Vars, ataVars

LEMMA AtaInvStep ==
  ASSUME AtaInv, FilesInv, [Stage2Next]_stage2Vars
  PROVE  AtaInv'
<1>1. CASE UNCHANGED ataVars
  <2>1. UNCHANGED <<drives, prompt, floating, selected, driver, buffer, returned>>
    BY <1>1 DEF ataVars
  <2>2. AtaTypeOK'
    BY <2>1 DEF AtaInv, AtaTypeOK
  <2>3. FloatingBus' /\ DrivesAtWork' /\ ReadProgress'
    BY <2>1 DEF AtaInv, FloatingBus, DrivesAtWork, ReadProgress, InLoop
  <2>4. InStep' /\ RightBlocks'
    BY <2>1 DEF AtaInv, InStep, RightBlocks, Told
  <2> QED BY <2>2, <2>3, <2>4 DEF AtaInv
<1>2. CASE UNCHANGED stage2Vars
  BY <1>1, <1>2 DEF stage2Vars
<1>3. ASSUME NEW s \in Slots, DriveStep(s) PROVE AtaInv'
  BY <1>3, DriveStepInv
<1>4. CASE DriverStep
  BY <1>4, DriverStepInv
<1>5. ASSUME NEW slot \in Slots, identify(slot) PROVE AtaInv'
  BY <1>5, IdentifyInv
<1>6. CASE ReadFile
  BY <1>6, ReadFileLemma, AtaReadInv DEF Slots
<1> QED BY <1>1, <1>2, <1>3, <1>4, <1>5, <1>6, AtaSteps

-----------------------------------------------------------------------------
(* The files. *)

LEMMA AppendedLemma ==
  ASSUME NEW a, NEW b
  PROVE  /\ Append(<<>>, a) = <<a>> /\ Append(<<a>>, b) = <<a, b>>
         /\ DOMAIN <<a>> = {1} /\ <<a>>[1] = a /\ DOMAIN <<>> = {}
<1> DEFINE S == {a, b}
           s == Append(<<a>>, b)
           t == Append(<<>>, a)
<1>1. a \in S /\ b \in S
  OBVIOUS
<1> HIDE DEF S
<1>2. /\ s \in Seq(S) /\ Len(s) = 2 /\ s[1] = a /\ s[2] = b
      /\ t \in Seq(S) /\ Len(t) = 1 /\ t[1] = a
      /\ <<a>> \in Seq(S) /\ Len(<<a>>) = 1 /\ <<a>>[1] = a
  BY <1>1
<1> HIDE DEF s, t
<1>3. s = <<a, b>>
  BY <1>2, PairLemma
<1>4. t = <<a>>
  BY <1>2, SequencesEqual
<1> QED BY <1>3, <1>4 DEF s, t

LEMMA MountFiles ==
  ASSUME FilesInv, Goto("mount", "register master"), mount(DevPath, DevFS)
  PROVE  FilesInv'
<1>1. pc = "mount" /\ pc' = "register master" /\ mounts = EmptyVector
  BY DEF Goto, FilesInv, Early
<1>2. mounts' = OneMount
  BY <1>1 DEF mount, OneMount, OnDev, EmptyVector
<1>3. files[FileHandle] = Closed /\ FileHandle \in Handles /\ DOMAIN files = Handles
  BY <1>1, Stage2Assumption DEF FilesInv
<1>4. DOMAIN files' = Handles /\ files'[FileHandle] = Closed
  BY <1>3 DEF mount, Disturbed, OpenFiles
<1>5. devices' = devices /\ devices[DevFS] = <<>> /\ DOMAIN devices = FileSystems
  BY <1>1 DEF mount, FilesInv, Registered, Early
<1> QED BY <1>1, <1>2, <1>4, <1>5 DEF FilesInv, Registered, Early

LEMMA RegisterMasterFiles ==
  ASSUME FilesInv, Goto("register master", "register slave"), Register(<<"ata0m">>, "ata0m")
  PROVE  FilesInv'
<1>1. /\ pc = "register master" /\ pc' = "register slave" /\ mounts = OneMount
      /\ devices[DevFS] = <<>> /\ DOMAIN devices = FileSystems /\ DevFS \in FileSystems
      /\ files[FileHandle] = Closed /\ DOMAIN files = Handles
  BY Stage2Assumption DEF Goto, FilesInv, Early, Registered
<1>2. findDevice(DevFS, <<"ata0m">>) = NoDevice
  <2>1. {i \in DOMAIN devices[DevFS] : devices[DevFS][i].name = <<"ata0m">>} = {}
    BY <1>1, AppendedLemma
  <2> QED BY <2>1 DEF findDevice
<1>3. /\ devices' = [devices EXCEPT ![DevFS] = Append(devices[DevFS], Listed("ata0m"))]
      /\ UNCHANGED <<mounts, files>>
  BY <1>2 DEF Register, registerDevice, Listed
<1>4. Append(<<>>, Listed("ata0m")) = <<Listed("ata0m")>>
  BY AppendedLemma
<1>5. DOMAIN devices' = FileSystems /\ devices'[DevFS] = <<Listed("ata0m")>>
  BY <1>1, <1>3, <1>4
<1> QED BY <1>1, <1>3, <1>5 DEF FilesInv, Registered, Early

LEMMA RegisterSlaveFiles ==
  ASSUME FilesInv, Goto("register slave", "open"), Register(<<"ata0s">>, "ata0s")
  PROVE  FilesInv'
<1>1. /\ pc = "register slave" /\ pc' = "open" /\ mounts = OneMount
      /\ devices[DevFS] = <<Listed("ata0m")>> /\ DOMAIN devices = FileSystems
      /\ DevFS \in FileSystems /\ files[FileHandle] = Closed /\ DOMAIN files = Handles
  BY Stage2Assumption DEF Goto, FilesInv, Early, Registered
<1>2. findDevice(DevFS, <<"ata0s">>) = NoDevice
  <2>1. DOMAIN devices[DevFS] = {1} /\ devices[DevFS][1].name = <<"ata0m">>
    <3> DEFINE entry == Listed("ata0m")
    <3>1. entry.name = <<"ata0m">>
      BY DEF Listed
    <3> HIDE DEF entry
    <3>2. DOMAIN <<entry>> = {1} /\ <<entry>>[1] = entry
      BY AppendedLemma
    <3> QED BY <1>1, <3>1, <3>2 DEF entry
  <2>2. <<"ata0m">> # <<"ata0s">>
    OBVIOUS
  <2> QED BY <2>1, <2>2 DEF findDevice
<1>3. /\ devices' = [devices EXCEPT ![DevFS] = Append(devices[DevFS], Listed("ata0s"))]
      /\ UNCHANGED <<mounts, files>>
  BY <1>2 DEF Register, registerDevice, Listed
<1>4. Append(<<Listed("ata0m")>>, Listed("ata0s")) = << Listed("ata0m"), Listed("ata0s") >>
  BY AppendedLemma
<1>5. DOMAIN devices' = FileSystems /\ devices'[DevFS] = << Listed("ata0m"), Listed("ata0s") >>
  BY <1>1, <1>3, <1>4
<1> QED BY <1>1, <1>3, <1>5 DEF FilesInv, Registered, Early

LEMMA OpenFileFiles ==
  ASSUME FilesInv, Goto("open", "read"), open(DiskPath, FileHandle)
  PROVE  FilesInv'
<1>1. /\ pc = "open" /\ pc' = "read" /\ mounts = OneMount
      /\ devices[DevFS] = << Listed("ata0m"), Listed("ata0s") >> /\ DOMAIN devices = FileSystems
      /\ DOMAIN files = Handles /\ FileHandle \in Handles
  BY Stage2Assumption DEF Goto, FilesInv, Early, Registered
<1>2. mounts.size = 1 /\ mounts.slots[1].path = DevPath /\ mounts.slots[1].fs = DevFS
  BY <1>1, OneMountLemma DEF OnDev
<1>3. files' = [files EXCEPT ![FileHandle] = TheFile]
  <2>1. PICK i \in 1 .. mounts.size :
          files' = [files EXCEPT ![FileHandle] =
            [path |-> WithoutSlash(WithoutSlash(
                        SubSeq(DiskPath, Len(mounts.slots[i].path) + 1, Len(DiskPath)))),
             mountPoint |-> Position(mounts, i), fs |-> mounts.slots[i].fs, safe |-> TRUE]]
    BY DEF open
  <2>2. i = 1
    BY <1>2
  <2> QED BY <1>1, <1>2, <2>1, <2>2, DiskName DEF TheFile
<1>4. UNCHANGED <<mounts, devices>>
  BY DEF open
<1> QED BY <1>1, <1>3, <1>4 DEF FilesInv, Registered, Early

LEMMA FilesInvStep ==
  ASSUME FilesInv, [Stage2Next]_stage2Vars
  PROVE  FilesInv'
<1>1. CASE UNCHANGED <<vars, pc>>
  BY <1>1 DEF FilesInv, Registered, vars
<1>2. CASE SetUpInterrupts \/ Identify
  <2>1. UNCHANGED vars /\ pc \in Early /\ pc' \in Early
    BY <1>2 DEF SetUpInterrupts, Identify, Goto, Early
  <2> QED BY <2>1 DEF FilesInv, Registered, vars, Early
<1>3. CASE SetUpFiles
  BY <1>3, MountFiles, RegisterMasterFiles, RegisterSlaveFiles, OpenFileFiles DEF SetUpFiles
<1>4. CASE ReadFile
  BY <1>4 DEF ReadFile, Goto, read, FilesInv, Registered, Early
<1>5. CASE Examine
  BY <1>5 DEF Examine, Goto, vars, FilesInv, Registered, Early
<1>6. CASE Close
  <2>1. files' = [files EXCEPT ![FileHandle] = Closed] /\ UNCHANGED <<mounts, devices>>
        /\ pc = "close" /\ pc' = "halt"
    BY <1>6 DEF Close, Goto, close
  <2> QED BY <2>1, Stage2Assumption DEF FilesInv, Registered, Early
<1> QED BY <1>1, <1>2, <1>3, <1>4, <1>5, <1>6
        DEF Stage2Next, KernelStep, Drive2, Interrupt, Failure, Timer, Disk, stage2Vars

-----------------------------------------------------------------------------
(* The theorems. *)

LEMMA InitStage2 == Stage2Init => Stage2Inv
<1> SUFFICES ASSUME Stage2Init PROVE Stage2Inv
  OBVIOUS
<1>1. CountLimit \in Nat \ {0} /\ FileHandle \in Handles /\ DevFS \in FileSystems
  BY Stage2Assumption
<1>2. AtaTypeOK
  <2>1. drives \in [Slots -> Drive]
    <3>1. PICK present \in [Slots -> BOOLEAN], phase \in [Slots -> {"busy", "idle"}] :
            drives = [s \in Slots |-> [present |-> present[s], phase |-> phase[s], command |-> "none",
                                       sector |-> 0, left |-> 0, irq |-> FALSE]]
      BY DEF Stage2Init, AtaInit
    <3>2. 0 \in 0 .. CountLimit
      BY <1>1
    <3> QED BY <3>1, <3>2 DEF Drive
  <2>2. /\ driver.block <= driver.count /\ buffer \in Seq(Block \cup {Junk})
        /\ Len(buffer) <= driver.count
    BY DEF Stage2Init, AtaInit
  <2>3. /\ prompt \in BOOLEAN /\ floating \in BOOLEAN /\ selected \in Slots /\ returned \in Nat
    BY DEF Stage2Init, AtaInit, Slots
  <2>4. driver \in [at : {"idle", "identify", "identify again", "identity", "wait", "command", "poll", "data"},
                    slot : Slots, sector : Nat, count : Nat, block : Nat]
    BY DEF Stage2Init, AtaInit, Slots
  <2> QED BY <2>1, <2>2, <2>3, <2>4 DEF AtaTypeOK
<1>3. FloatingBus /\ DrivesAtWork /\ ReadProgress /\ InStep /\ RightBlocks
  <2>1. driver.at = "idle" /\ returned = 0 /\ buffer = <<>>
    BY DEF Stage2Init, AtaInit
  <2>2. \A s \in Slots : drives[s].phase \in {"busy", "idle"} /\ drives[s].command = "none"
    BY DEF Stage2Init, AtaInit
  <2>3. FloatingBus
    BY DEF Stage2Init, AtaInit, NoDrives, FloatingBus
  <2> QED BY <2>1, <2>2, <2>3 DEF DrivesAtWork, ReadProgress, InLoop, InStep, RightBlocks
<1>4. FilesInv
  BY <1>1 DEF Stage2Init, Init, FilesInv, Registered, Early
<1>5. LastRead /\ MbrIsFirstSector
  BY DEF Stage2Init, LastRead, MbrIsFirstSector
<1> QED BY <1>2, <1>3, <1>4, <1>5 DEF Stage2Inv, AtaInv

LEMMA FirstBlockRight ==
  ASSUME AtaInv, driver.at = "idle", returned > 0, driver.slot = "ata0s", driver.sector = 0,
         drives["ata0s"].present, prompt
  PROVE  buffer[1] = [drive |-> "ata0s", sector |-> 0]
<1>1. /\ returned = driver.count /\ Len(buffer) = driver.count
      /\ driver.count \in Nat /\ driver.count > 0 /\ buffer \in Seq(Block \cup {Junk})
  BY DEF AtaInv, AtaTypeOK, ReadProgress, InLoop
<1>2. 1 \in DOMAIN buffer /\ 1 <= Told(driver.count)
  BY <1>1, ToldLemma
<1>3. buffer[1] = [drive |-> "ata0s", sector |-> 0 + 1 - 1]
  BY <1>2 DEF AtaInv, RightBlocks
<1> QED BY <1>3

LEMMA NextStage2 == Stage2Inv /\ [Stage2Next]_stage2Vars => Stage2Inv'
<1> SUFFICES ASSUME Stage2Inv, [Stage2Next]_stage2Vars PROVE Stage2Inv'
  OBVIOUS
<1>1. AtaInv /\ FilesInv /\ LastRead /\ MbrIsFirstSector
  BY DEF Stage2Inv
<1>2. AtaInv'
  BY <1>1, AtaInvStep
<1>3. FilesInv'
  BY <1>1, FilesInvStep
<1>4. LastRead' /\ MbrIsFirstSector'
  <2>1. CASE ReadFile
    <3>1. PICK count \in Nat : ataRead("ata0s", 0, count)
      BY <1>1, <2>1, ReadFileLemma
    <3>2. driver'.slot = "ata0s" /\ driver'.sector = 0 /\ UNCHANGED <<drives, prompt, mbr>>
      BY <2>1, <3>1 DEF ataRead, ReadFile
    <3> QED BY <1>1, <3>2 DEF LastRead, MbrIsFirstSector
  <2>2. CASE Examine
    <3>1. UNCHANGED <<drives, prompt, driver>> /\ pc = "examine" /\ pc' = "close" /\ driver.at = "idle"
          /\ mbr' = IF returned > 0 THEN buffer[1] ELSE mbr
      BY <2>2 DEF Examine, Goto, ataVars
    <3>2. LastRead' /\ driver.slot = "ata0s" /\ driver.sector = 0
      BY <1>1, <3>1 DEF LastRead
    <3>3. MbrIsFirstSector'
      BY <1>1, <3>1, <3>2, FirstBlockRight DEF MbrIsFirstSector
    <3> QED BY <3>2, <3>3
  <2>3. CASE ~ ReadFile /\ ~ Examine
    <3>1. pc' \in {"examine", "close", "halt"} => pc \in {"examine", "close", "halt"}
      BY <2>3 DEF Stage2Next, KernelStep, SetUpInterrupts, Identify, SetUpFiles, Drive2, Close, Goto,
                  Interrupt, Failure, Timer, Disk, stage2Vars
    <3>2. UNCHANGED mbr
      BY <2>3 DEF Stage2Next, KernelStep, SetUpInterrupts, Identify, SetUpFiles, Drive2, Close, Goto,
                  Interrupt, Failure, Timer, Disk, stage2Vars
    <3> QED BY <1>1, <2>3, <3>1, <3>2, SameDrives DEF LastRead, MbrIsFirstSector, Slots
  <2> QED BY <2>1, <2>2, <2>3
<1> QED BY <1>2, <1>3, <1>4 DEF Stage2Inv

LEMMA Stage2Invariance == Stage2Spec => []Stage2Inv
<1>1. Stage2Init => Stage2Inv
  BY InitStage2
<1>2. Stage2Inv /\ [Stage2Next]_stage2Vars => Stage2Inv'
  BY NextStage2
<1> QED BY <1>1, <1>2, PTL DEF Stage2Spec

(* The states of the driver and the drives keep their types: no drive is   *)
(* told to deliver more blocks than the register counts to, and read never *)
(* writes more blocks than it was asked for.                               *)
THEOREM DriverTypeCorrect == Stage2Spec => []AtaTypeOK
<1>1. Stage2Inv => AtaTypeOK
  BY DEF Stage2Inv, AtaInv
<1> QED BY <1>1, Stage2Invariance, PTL

(* read of a drive that is there, prompt, and asked for no more sectors    *)
(* than the register counts to, returns nothing, or all of the sectors it  *)
(* was asked for - whatever the register counts to, and whatever the       *)
(* drives, the timer and the interrupts do between two of its steps.       *)
THEOREM ReadReturnsItsSectors == Stage2Spec => []ReadsItsSectors
<1>1. Stage2Inv => ReadsItsSectors
  <2> SUFFICES ASSUME AtaInv, drives[driver.slot].present, prompt, driver.count <= CountLimit
               PROVE  /\ \A i \in DOMAIN buffer :
                           buffer[i] = [drive |-> driver.slot, sector |-> driver.sector + i - 1]
                      /\ driver.at = "idle" /\ returned > 0 =>
                           returned = driver.count /\ Len(buffer) = driver.count
    BY DEF Stage2Inv, ReadsItsSectors
  <2>1. /\ driver.count \in Nat /\ buffer \in Seq(Block \cup {Junk}) /\ Len(buffer) <= driver.count
        /\ CountLimit \in Nat
    BY Stage2Assumption DEF AtaInv, AtaTypeOK
  <2>2. \A i \in DOMAIN buffer : i <= Told(driver.count)
    BY <2>1, ToldLemma
  <2>3. \A i \in DOMAIN buffer :
          buffer[i] = [drive |-> driver.slot, sector |-> driver.sector + i - 1]
    BY <2>2 DEF AtaInv, RightBlocks
  <2>4. driver.at = "idle" /\ returned > 0 => returned = driver.count /\ Len(buffer) = driver.count
    BY DEF AtaInv, ReadProgress, InLoop
  <2> QED BY <2>3, <2>4
<1> QED BY <1>1, Stage2Invariance, PTL

(* What stage2 takes for the master boot record is the first sector of the *)
(* second drive, whatever number of sectors its reads are of.              *)
THEOREM BootRecordIsFirstSector == Stage2Spec => []MbrIsFirstSector
<1>1. Stage2Inv => MbrIsFirstSector
  BY DEF Stage2Inv
<1> QED BY <1>1, Stage2Invariance, PTL

-----------------------------------------------------------------------------
(* Interrupts. *)

(* How many of the constructor's writes a controller has had.              *)
Had(c) ==
  IF c = "master" THEN (11 - Len(writes)) \div 2 ELSE (10 - Len(writes)) \div 2

VectorsFrom(c) == IF c = "master" THEN 32 ELSE 40

(* What they make of it: the first starts its initialisation, the next     *)
(* three are the words of that, and the last is the mask.                  *)
Programmed(pic, words, base) ==
  /\ words \in {0, 4, 5} => pic.icw = 0
  /\ words = 1 => pic.icw = 2
  /\ words = 2 => pic.icw = 3
  /\ words = 3 => pic.icw = 4
  /\ words >= 2 => pic.base = base

(* The controllers take the writes in turn, with interrupts off.           *)
Programming ==
  /\ Len(writes) <= 10
  /\ writes = SubSeq(Initialisation, 11 - Len(writes), 10)
  /\ pc = "construct" <=> writes # <<>>
  /\ \A c \in Controllers : Programmed(pics[c], Had(c), VectorsFrom(c))

(* What is in service when an interrupt is sent as a vector.               *)
Sent(vector, master, slave) ==
  IF vector >= 40
    THEN /\ master = {Cascade}
         /\ slave = {vector - 40} \cap Inputs \/ (vector = 47 /\ slave = {})
    ELSE /\ slave = {}
         /\ master = {vector - 32} \cap Inputs \/ (vector = 39 /\ master = {})

Before == {"construct", "init", "enable"}

Gates == [vector \in 0 .. 47 |-> vector]

(* Interrupts come when everything is set up, from the vectors of the      *)
(* controllers; of those of the exceptions only the failure's.             *)
Vectors ==
  /\ idt = IF pc \in {"construct", "init"} THEN <<>> ELSE Gates
  /\ interruptFlag \/ cpu.at \notin {"kernel", "entry", "panic"} => pc \notin Before
  /\ cpu.at = "entry" /\ cpu.vector # 2 =>
       /\ pc \notin Before
       /\ cpu.vector \in 32 .. 47
       /\ Sent(cpu.vector, pics.master.isr, pics.slave.isr)
  /\ cpu.at = "handler" => cpu.vector \in 32 .. 47
  /\ cpu.at = "slave" => cpu.vector \in 40 .. 47

InterruptsInv ==
  InterruptsTypeOK /\ Programming /\ Vectors /\ InServiceIsHandled /\ PanicsOfFailureOnly

LEMMA LeastLemma ==
  ASSUME NEW S \in SUBSET Inputs, S # {}
  PROVE  Least(S) \in S
<1>1. S \subseteq {0, 1, 2, 3, 4, 5, 6, 7}
  BY DEF Inputs
<1>2. \E i \in S : \A k \in S : i <= k
  <2>1. CASE 0 \in S
    BY <1>1, <2>1
  <2>2. CASE S \subseteq {1, 2, 3, 4, 5, 6, 7} /\ 1 \in S
    BY <2>2
  <2>3. CASE S \subseteq {2, 3, 4, 5, 6, 7} /\ 2 \in S
    BY <2>3
  <2>4. CASE S \subseteq {3, 4, 5, 6, 7} /\ 3 \in S
    BY <2>4
  <2>5. CASE S \subseteq {4, 5, 6, 7} /\ 4 \in S
    BY <2>5
  <2>6. CASE S \subseteq {5, 6, 7} /\ 5 \in S
    BY <2>6
  <2>7. CASE S \subseteq {6, 7} /\ 6 \in S
    BY <2>7
  <2>8. CASE S \subseteq {7} /\ 7 \in S
    BY <2>8
  <2> QED BY <1>1, <2>1, <2>2, <2>3, <2>4, <2>5, <2>6, <2>7, <2>8
<1> QED BY <1>2 DEF Least

(* A single interrupt in service is ended, and none is not.                *)
LEMMA EndLemma ==
  ASSUME NEW pic \in PIC
  PROVE  /\ EndOfInterrupt(pic) \in PIC
         /\ EndOfInterrupt(pic).icw = pic.icw /\ EndOfInterrupt(pic).base = pic.base
         /\ pic.isr = {} => EndOfInterrupt(pic).isr = {}
         /\ \A i : pic.isr = {i} => EndOfInterrupt(pic).isr = {}
<1>2. ASSUME NEW i, pic.isr = {i} PROVE Least({i}) = i
  <2>1. i \in 0 .. 7
    BY <1>2 DEF PIC, Inputs
  <2>2. i <= i
    BY <2>1
  <2> QED BY <2>2 DEF Least
<1>3. pic.isr = {} => EndOfInterrupt(pic) = pic
  BY DEF EndOfInterrupt
<1>4. pic.isr # {} => EndOfInterrupt(pic) = [pic EXCEPT !.isr = pic.isr \ {Least(pic.isr)}]
  BY DEF EndOfInterrupt
<1>5. pic.isr \in SUBSET Inputs
  BY DEF PIC
<1> QED BY <1>2, <1>3, <1>4, <1>5 DEF PIC

LEMMA EndWritten ==
  ASSUME pics \in [Controllers -> PIC], NEW c \in Controllers
  PROVE  Written(pics, To(c, "command", 32)) = [pics EXCEPT ![c] = EndOfInterrupt(pics[c])]
<1> DEFINE write == To(c, "command", 32)
<1>1. write.pic = c /\ write.port = "command" /\ write.data = 32
  BY DEF To
<1> HIDE DEF write
<1>2. Written(pics, write) = [pics EXCEPT ![c] = EndOfInterrupt(pics[c])]
  BY <1>1 DEF Written
<1> QED BY <1>2 DEF write

LEMMA PicUpdated ==
  ASSUME NEW pic \in PIC, NEW base \in {8 * n : n \in 0 .. 31}
  PROVE  /\ LET start == [pic EXCEPT !.icw = 2, !.imr = {}, !.irr = {}, !.isr = {}]
            IN  start \in PIC /\ start.icw = 2 /\ start.isr = {}
         /\ LET based == [pic EXCEPT !.icw = 3, !.base = base]
            IN  based \in PIC /\ based.icw = 3 /\ based.base = base /\ based.isr = pic.isr
<1>1. [pic EXCEPT !.icw = 2] \in PIC
  BY DEF PIC
<1>2. [pic EXCEPT !.icw = 3] \in PIC /\ [pic EXCEPT !.icw = 3].isr = pic.isr
  BY DEF PIC
<1>3. LET start == [pic EXCEPT !.icw = 2, !.imr = {}, !.irr = {}, !.isr = {}]
      IN  start \in PIC /\ start.icw = 2 /\ start.isr = {}
  BY <1>1 DEF PIC
<1>4. LET based == [pic EXCEPT !.icw = 3, !.base = base]
      IN  based \in PIC /\ based.icw = 3 /\ based.base = base /\ based.isr = pic.isr
  BY <1>2 DEF PIC
<1> QED BY <1>3, <1>4

(* The next write for a controller that has had some words.                *)
NextWord(c, write, words, base) ==
  /\ words \in 0 .. 4 /\ base \in {32, 40}
  /\ Programmed(pics[c], words, base) /\ pics[c].isr = {}
  /\ write.pic = c /\ write.data \in 0 .. 255
  /\ words = 0 => write.port = "command" /\ write.data = 17
  /\ words # 0 => write.port = "data"
  /\ words = 1 => write.data = base

(* What it makes of the controller.                                        *)
LEMMA WordWritten ==
  ASSUME pics \in [Controllers -> PIC], NEW c \in Controllers, NEW write, NEW words, NEW base,
         NextWord(c, write, words, base)
  PROVE  LET new == Written(pics, write)
         IN  /\ new \in [Controllers -> PIC]
             /\ \A d \in Controllers : d # c => new[d] = pics[d]
             /\ new[c].isr = {}
             /\ Programmed(new[c], words + 1, base)
<1> DEFINE pic   == pics[c]
           start == [pic EXCEPT !.icw = 2, !.imr = {}, !.irr = {}, !.isr = {}]
           based == [pic EXCEPT !.icw = 3, !.base = write.data]
           wired == [pic EXCEPT !.icw = 4]
           ready == [pic EXCEPT !.icw = 0]
           masked == [pic EXCEPT !.imr = {i \in Inputs : (write.data \div 2 ^ i) % 2 = 1}]
           ended == EndOfInterrupt(pic)
           next  == CASE write.port = "command" /\ write.data = 17 -> start
                      [] write.port = "command" /\ write.data = 32 -> ended
                      [] write.port = "data" /\ pic.icw = 2 -> based
                      [] write.port = "data" /\ pic.icw = 3 -> wired
                      [] write.port = "data" /\ pic.icw = 4 -> ready
                      [] write.port = "data" /\ pic.icw = 0 -> masked
           Right(p) == p \in PIC /\ p.isr = {} /\ Programmed(p, words + 1, base)
<1>0. /\ words \in 0 .. 4 /\ base \in {32, 40}
      /\ Programmed(pics[c], words, base) /\ pics[c].isr = {}
      /\ write.pic = c /\ write.data \in 0 .. 255
      /\ words = 0 => write.port = "command" /\ write.data = 17
      /\ words # 0 => write.port = "data"
      /\ words = 1 => write.data = base
  BY DEF NextWord
<1> USE <1>0
<1>1. Written(pics, write) = [pics EXCEPT ![c] = next]
  BY Zenon DEF Written
<1>2. pic \in PIC /\ pic.isr = {} /\ Programmed(pic, words, base)
  OBVIOUS
<1>3. base \in {8 * n : n \in 0 .. 31}
  <2>1. 32 = 8 * 4 /\ 40 = 8 * 5 /\ 4 \in 0 .. 31 /\ 5 \in 0 .. 31
    OBVIOUS
  <2> QED BY <2>1
<1>4. words = 0 => Right(start)
  <2>1. start \in PIC /\ start.icw = 2 /\ start.isr = {}
    BY <1>2, <1>3, PicUpdated
  <2> HIDE DEF start
  <2> QED BY <2>1 DEF Programmed
<1>5. ASSUME words = 1 PROVE Right(based)
  <2>1. write.data = base /\ write.data \in {8 * n : n \in 0 .. 31}
    BY <1>3, <1>5
  <2>2. based \in PIC /\ based.icw = 3 /\ based.base = write.data /\ based.isr = pic.isr
    BY <1>2, <2>1, PicUpdated, ZenonT(40)
  <2> HIDE DEF based
  <2> QED BY <1>2, <1>5, <2>1, <2>2 DEF Programmed
<1>6. words = 2 => Right(wired)
  BY <1>2 DEF PIC, Programmed
<1>7. words = 3 => Right(ready)
  BY <1>2 DEF PIC, Programmed
<1>8. words = 4 => Right(masked)
  <2> DEFINE mask == {i \in Inputs : (write.data \div 2 ^ i) % 2 = 1}
  <2>1. mask \in SUBSET Inputs /\ masked = [pic EXCEPT !.imr = mask]
    OBVIOUS
  <2> HIDE DEF mask, masked
  <2> QED BY <1>2, <2>1 DEF PIC, Programmed
<1>9. /\ words = 1 => pic.icw = 2
      /\ words = 2 => pic.icw = 3
      /\ words = 3 => pic.icw = 4
      /\ words \in {0, 4} => pic.icw = 0
  BY <1>2 DEF Programmed
<1>10. Right(next)
  <2> HIDE DEF start, based, wired, ready, masked, ended, Right
  <2>1. CASE words = 0
    <3>1. next = start
      BY <2>1
    <3> QED BY <1>4, <2>1, <3>1
  <2>2. CASE words = 1
    <3>1. next = based
      BY <1>9, <2>2
    <3> QED BY <1>5, <2>2, <3>1
  <2>3. CASE words = 2
    <3>1. next = wired
      BY <1>9, <2>3
    <3> QED BY <1>6, <2>3, <3>1
  <2>4. CASE words = 3
    <3>1. next = ready
      BY <1>9, <2>4
    <3> QED BY <1>7, <2>4, <3>1
  <2>5. CASE words = 4
    <3>1. next = masked
      BY <1>9, <2>5
    <3> QED BY <1>8, <2>5, <3>1
  <2> HIDE DEF next
  <2> QED BY <2>1, <2>2, <2>3, <2>4, <2>5
<1> HIDE DEF next
<1> QED BY <1>1, <1>10

LEMMA InitialisationLemma ==
  /\ Initialisation \in Seq([pic : Controllers, port : {"command", "data"}, data : 0 .. 255])
  /\ Len(Initialisation) = 10
  /\ \A i \in 1 .. 10 :
       LET write == Initialisation[i]
           word  == (i + 1) \div 2
       IN  /\ write.pic = IF i % 2 = 1 THEN "master" ELSE "slave"
           /\ write.data \in 0 .. 255
           /\ word = 1 => write.port = "command" /\ write.data = 17
           /\ word # 1 => write.port = "data"
           /\ word = 2 => write.data = VectorsFrom(write.pic)
<1> DEFINE Write == [pic : Controllers, port : {"command", "data"}, data : 0 .. 255]
<1>1. \A c \in Controllers, port \in {"command", "data"}, data \in 0 .. 255 :
        To(c, port, data) \in Write
  BY DEF To
<1>2. /\ To("master", "command", 17) \in Write /\ To("slave", "command", 17) \in Write
      /\ To("master", "data", 32) \in Write /\ To("slave", "data", 40) \in Write
      /\ To("master", "data", 4) \in Write /\ To("slave", "data", 2) \in Write
      /\ To("master", "data", 1) \in Write /\ To("slave", "data", 1) \in Write
      /\ To("master", "data", 0) \in Write /\ To("slave", "data", 0) \in Write
  <2>1. {0, 1, 2, 4, 17, 32, 40} \subseteq 0 .. 255
    OBVIOUS
  <2>2. "master" \in Controllers /\ "slave" \in Controllers
    BY DEF Controllers
  <2> HIDE DEF Write
  <2> QED BY <1>1, <2>1, <2>2
<1>3. Initialisation \in Seq(Write) /\ Len(Initialisation) = 10
  BY <1>2 DEF Initialisation
<1>4. /\ Initialisation[1] = To("master", "command", 17) /\ Initialisation[2] = To("slave", "command", 17)
      /\ Initialisation[3] = To("master", "data", 32) /\ Initialisation[4] = To("slave", "data", 40)
      /\ Initialisation[5] = To("master", "data", 4) /\ Initialisation[6] = To("slave", "data", 2)
      /\ Initialisation[7] = To("master", "data", 1) /\ Initialisation[8] = To("slave", "data", 1)
      /\ Initialisation[9] = To("master", "data", 0) /\ Initialisation[10] = To("slave", "data", 0)
  BY DEF Initialisation
<1>5. ASSUME NEW i \in 1 .. 10
      PROVE  LET write == Initialisation[i]
                 word  == (i + 1) \div 2
             IN  /\ write.pic = IF i % 2 = 1 THEN "master" ELSE "slave"
                 /\ write.data \in 0 .. 255
                 /\ word = 1 => write.port = "command" /\ write.data = 17
                 /\ word # 1 => write.port = "data"
                 /\ word = 2 => write.data = VectorsFrom(write.pic)
  <2>1. CASE i \in {1, 2}
    BY <1>4, <2>1 DEF To
  <2>2. CASE i \in {3, 4}
    BY <1>4, <2>2 DEF To, VectorsFrom
  <2>3. CASE i \in {5, 6}
    BY <1>4, <2>3 DEF To
  <2>4. CASE i \in {7, 8}
    BY <1>4, <2>4 DEF To
  <2>5. CASE i \in {9, 10}
    BY <1>4, <2>5 DEF To
  <2>6. i \in {1, 2} \/ i \in {3, 4} \/ i \in {5, 6} \/ i \in {7, 8} \/ i \in {9, 10}
    OBVIOUS
  <2> QED BY <2>1, <2>2, <2>3, <2>4, <2>5, <2>6, Zenon
<1> QED BY <1>3, <1>5

(* Devices change nothing but requests.                                    *)
LEMMA SetLinesLemma ==
  ASSUME InterruptsTypeOK, NEW new \in SUBSET (0 .. 15), SetLines(new)
  PROVE  /\ lines' \subseteq 0 .. 15
         /\ pics' \in [Controllers -> PIC]
         /\ \A c \in Controllers :
              pics'[c].icw = pics[c].icw /\ pics'[c].base = pics[c].base /\ pics'[c].isr = pics[c].isr
<1> DEFINE of(c, S) == {l % 8 : l \in {k \in S : ControllerOf(k) = c}}
           irr(c) == (pics[c].irr \ of(c, lines \ new)) \cup of(c, new \ lines)
<1>1. lines' = new /\ pics' = [c \in Controllers |-> [pics[c] EXCEPT !.irr = irr(c)]]
  BY DEF SetLines
<1>2. pics \in [Controllers -> PIC] /\ lines \in SUBSET (0 .. 15)
  BY DEF InterruptsTypeOK
<1>3. ASSUME NEW c \in Controllers PROVE irr(c) \in SUBSET Inputs
  <2>1. \A l \in 0 .. 15 : l % 8 \in 0 .. 7
    OBVIOUS
  <2>2. \A S \in SUBSET (0 .. 15) : of(c, S) \in SUBSET Inputs
    BY <2>1 DEF Inputs
  <2>3. pics[c].irr \in SUBSET Inputs
    BY <1>2, <1>3 DEF PIC
  <2>4. lines \ new \in SUBSET (0 .. 15) /\ new \ lines \in SUBSET (0 .. 15)
    BY <1>2
  <2> HIDE DEF of
  <2>5. of(c, new \ lines) \in SUBSET Inputs
    BY <2>2, <2>4
  <2> QED BY <2>3, <2>5
<1> HIDE DEF irr
<1>4. \A c \in Controllers :
        LET next == [pics[c] EXCEPT !.irr = irr(c)]
        IN  next \in PIC /\ next.icw = pics[c].icw /\ next.base = pics[c].base /\ next.isr = pics[c].isr
  BY <1>2, <1>3 DEF PIC
<1> QED BY <1>1, <1>4

LEMMA WinnersLemma ==
  ASSUME InterruptsTypeOK, NEW c \in Controllers
  PROVE  Winners(c) \in SUBSET Inputs
<1>1. /\ pics.master.irr \in SUBSET Inputs /\ pics.slave.irr \in SUBSET Inputs
      /\ Cascade \in Inputs
  <2>1. pics["master"] \in PIC /\ pics["slave"] \in PIC
    BY DEF InterruptsTypeOK, Controllers
  <2>2. \A pic \in PIC : pic.irr \in SUBSET Inputs
    BY DEF PIC
  <2> QED BY <2>1, <2>2 DEF Cascade, Inputs
<1>2. \A requests, pic : Eligible(requests, pic) \subseteq requests
  BY DEF Eligible
<1> QED BY <1>1, <1>2 DEF Winners

(* Where only requests change, and stage2 goes on after enable or not at   *)
(* all, the invariant is kept.                                             *)
LEMMA RequestsInv ==
  ASSUME InterruptsInv, UNCHANGED <<writes, idt, interruptFlag, cpu>>,
         lines' \subseteq 0 .. 15, pics' \in [Controllers -> PIC],
         \A c \in Controllers :
           pics'[c].icw = pics[c].icw /\ pics'[c].base = pics[c].base /\ pics'[c].isr = pics[c].isr,
         pc' = pc \/ (pc \notin Before /\ pc' \notin Before)
  PROVE  InterruptsInv'
<1>1. "master" \in Controllers /\ "slave" \in Controllers
  BY DEF Controllers
<1>2. pics'["master"].isr = pics["master"].isr /\ pics'["slave"].isr = pics["slave"].isr
  BY <1>1
<1>3. InterruptsTypeOK'
  BY DEF InterruptsInv, InterruptsTypeOK
<1>4. Programming'
  <2>1. \A c \in Controllers : Had(c)' = Had(c)
    BY DEF Had
  <2>2. \A c \in Controllers : Programmed(pics'[c], Had(c), VectorsFrom(c))
    BY DEF InterruptsInv, Programming, Programmed
  <2>3. (pc' = "construct") <=> (pc = "construct")
    BY DEF Before
  <2> QED BY <2>1, <2>2, <2>3 DEF InterruptsInv, Programming
<1>5. Vectors'
  BY <1>2 DEF InterruptsInv, Vectors, Before
<1>6. InServiceIsHandled' /\ PanicsOfFailureOnly'
  BY <1>2 DEF InterruptsInv, InServiceIsHandled, PanicsOfFailureOnly
<1> QED BY <1>3, <1>4, <1>5, <1>6 DEF InterruptsInv

LEMMA LinesInv ==
  ASSUME InterruptsInv, NEW new \in SUBSET (0 .. 15), SetLines(new),
         UNCHANGED <<writes, idt, interruptFlag, cpu>>,
         pc' = pc \/ (pc \notin Before /\ pc' \notin Before)
  PROVE  InterruptsInv'
BY SetLinesLemma, RequestsInv DEF InterruptsInv

LEMMA FollowDiskInv ==
  ASSUME InterruptsInv, FollowDisk, pc' = pc \/ (pc \notin Before /\ pc' \notin Before)
  PROVE  InterruptsInv'
<1>1. lines \subseteq 0 .. 15
  BY DEF InterruptsInv, InterruptsTypeOK
<1>2. (lines \ {DiskLine}) \cup (IF drives'[selected'].irq THEN {DiskLine} ELSE {}) \in SUBSET (0 .. 15)
  BY <1>1 DEF DiskLine
<1> QED BY <1>2, LinesInv DEF FollowDisk

LEMMA TimerInv ==
  ASSUME InterruptsInv, Timer
  PROVE  InterruptsInv'
<1>1. lines \subseteq 0 .. 15
  BY DEF InterruptsInv, InterruptsTypeOK
<1>2. (IF 0 \in lines THEN lines \ {0} ELSE lines \cup {0}) \in SUBSET (0 .. 15)
  BY <1>1
<1> QED BY <1>2, LinesInv DEF Timer

LEMMA StillInv ==
  ASSUME InterruptsInv, UNCHANGED interruptVars, pc' = pc \/ (pc \notin Before /\ pc' \notin Before)
  PROVE  InterruptsInv'
<1>1. /\ UNCHANGED <<writes, idt, interruptFlag, cpu>> /\ lines' = lines /\ pics' = pics
      /\ lines \subseteq 0 .. 15 /\ pics \in [Controllers -> PIC]
  BY DEF interruptVars, InterruptsInv, InterruptsTypeOK
<1> QED BY <1>1, RequestsInv

LEMMA RestLemma ==
  ASSUME NEW S, NEW s \in Seq(S), NEW k \in 1 .. Len(s)
  PROVE  LET rest == SubSeq(s, k, Len(s))
         IN  /\ Head(rest) = s[k]
             /\ Tail(rest) \in Seq(S) /\ Len(Tail(rest)) = Len(s) - k
             /\ Tail(rest) = SubSeq(s, k + 1, Len(s))
<1> DEFINE rest == SubSeq(s, k, Len(s))
           next == SubSeq(s, k + 1, Len(s))
<1>1. rest \in Seq(S) /\ Len(rest) = Len(s) - k + 1 /\ \A i \in 1 .. Len(s) - k + 1 : rest[i] = s[k + i - 1]
  OBVIOUS
<1>2. next \in Seq(S) /\ Len(next) = Len(s) - k /\ \A i \in 1 .. Len(s) - k : next[i] = s[(k + 1) + i - 1]
  OBVIOUS
<1> HIDE DEF rest, next
<1>3. rest # <<>> /\ Head(rest) = s[k]
  BY <1>1
<1>4. Tail(rest) \in Seq(S) /\ Len(Tail(rest)) = Len(s) - k /\ \A i \in 1 .. Len(s) - k : Tail(rest)[i] = rest[i + 1]
  BY <1>1, <1>3
<1>5. ASSUME NEW i \in 1 .. Len(s) - k PROVE Tail(rest)[i] = next[i]
  <2>1. i + 1 \in 1 .. Len(s) - k + 1 /\ k + (i + 1) - 1 = (k + 1) + i - 1
    OBVIOUS
  <2>2. rest[i + 1] = s[k + (i + 1) - 1]
    BY <1>1, <2>1
  <2> QED BY <1>2, <1>4, <2>1, <2>2
<1>6. Tail(rest) = next
  BY <1>2, <1>4, <1>5, SequencesEqual
<1> QED BY <1>3, <1>4, <1>6 DEF rest, next

(* The constructor, write by write.                                        *)
LEMMA ConstructInv ==
  ASSUME InterruptsInv, cpu.at = "kernel", InterruptManager,
         Goto("construct", IF Len(writes) = 1 THEN "init" ELSE "construct")
  PROVE  InterruptsInv'
<1>0. PICK n, write, c : n = Len(writes) /\ write = Initialisation[11 - n] /\ c = write.pic
  OBVIOUS
<1>1. /\ writes # <<>> /\ pics' = Written(pics, Head(writes)) /\ writes' = Tail(writes)
      /\ UNCHANGED <<lines, idt, interruptFlag, cpu>>
      /\ pc = "construct" /\ pc' = IF n = 1 THEN "init" ELSE "construct"
  BY <1>0 DEF InterruptManager, Goto
<1>2. /\ InterruptsTypeOK /\ Programming /\ Vectors /\ InServiceIsHandled /\ PanicsOfFailureOnly
  BY DEF InterruptsInv
<1>3. /\ n \in 1 .. 10 /\ Head(writes) = write /\ Len(writes') = n - 1
      /\ writes' = SubSeq(Initialisation, 11 - Len(writes'), 10)
      /\ writes' \in Seq([pic : Controllers, port : {"command", "data"}, data : 0 .. 255])
  <2> DEFINE Write == [pic : Controllers, port : {"command", "data"}, data : 0 .. 255]
  <2>1. /\ Initialisation \in Seq(Write) /\ Len(Initialisation) = 10 /\ n \in Nat /\ n <= 10
        /\ writes = SubSeq(Initialisation, 11 - n, 10) /\ writes \in Seq(Write)
    <3>1. writes \in Seq(Write) /\ Len(writes) <= 10 /\ writes = SubSeq(Initialisation, 11 - Len(writes), 10)
      BY <1>2 DEF Programming, InterruptsTypeOK
    <3>2. Initialisation \in Seq(Write) /\ Len(Initialisation) = 10
      BY InitialisationLemma
    <3> HIDE DEF Write
    <3> QED BY <1>0, <3>1, <3>2
  <2> HIDE DEF Write
  <2>2. n \in 1 .. 10
    <3>1. writes \in Seq(Write) /\ writes # <<>>
      BY <1>1, <2>1
    <3>2. Len(writes) \in Nat /\ Len(writes) # 0
      BY <3>1
    <3>3. n \in Nat /\ n <= 10
      BY <2>1
    <3>4. n # 0
      BY <1>0, <3>2, Zenon
    <3> HIDE DEF Write
    <3> QED BY <3>3, <3>4
  <2>3. 11 - n \in 1 .. 10 /\ (11 - n) + 1 = 12 - n /\ 10 - (11 - n) = n - 1
    BY <2>2
  <2>4. Head(writes) = write
    BY <1>0, <2>1, <2>3, RestLemma
  <2>5. Tail(writes) \in Seq(Write) /\ Len(Tail(writes)) = n - 1 /\ Tail(writes) = SubSeq(Initialisation, 12 - n, 10)
    <3> DEFINE k == 11 - n
    <3>1. /\ Tail(writes) \in Seq(Write) /\ Len(Tail(writes)) = 10 - k
          /\ Tail(writes) = SubSeq(Initialisation, k + 1, 10)
      <4> HIDE DEF k
      <4>1. k \in 1 .. 10 /\ writes = SubSeq(Initialisation, k, 10)
        BY <2>1, <2>3 DEF k
      <4>2. Initialisation \in Seq(Write) /\ Len(Initialisation) = 10 /\ k \in 1 .. Len(Initialisation)
        BY <2>1, <4>1
      <4>3. LET rest == SubSeq(Initialisation, k, 10)
            IN  /\ Tail(rest) \in Seq(Write) /\ Len(Tail(rest)) = 10 - k
                /\ Tail(rest) = SubSeq(Initialisation, k + 1, 10)
        BY <4>2, RestLemma, Zenon
      <4> QED BY <4>1, <4>3
    <3> QED BY <2>3, <3>1
  <2>6. 12 - n = 11 - (n - 1)
    BY <2>2
  <2> QED BY <1>1, <2>2, <2>4, <2>5, <2>6 DEF Write
<1>4. /\ write.pic = (IF (11 - n) % 2 = 1 THEN "master" ELSE "slave") /\ c \in Controllers
      /\ write.data \in 0 .. 255
      /\ (12 - n) \div 2 = 1 => write.port = "command" /\ write.data = 17
      /\ (12 - n) \div 2 # 1 => write.port = "data"
      /\ (12 - n) \div 2 = 2 => write.data = VectorsFrom(c)
  <2>1. 11 - n \in 1 .. 10 /\ (11 - n) + 1 = 12 - n
    BY <1>3
  <2> QED BY <1>0, <2>1, InitialisationLemma, ZenonT(40) DEF Controllers
<1>5. /\ Had(c) \in 0 .. 4 /\ (12 - n) \div 2 = Had(c) + 1
      /\ Had(c)' = Had(c) + 1
      /\ \A d \in Controllers : d # c => Had(d)' = Had(d)
  <2>1. n \in 1 .. 10 /\ Len(writes') = n - 1 /\ Len(writes) = n
    BY <1>0, <1>3
  <2>2. CASE (11 - n) % 2 = 1
    <3>1. c = "master"
      BY <1>0, <1>4, <2>2
    <3>2. n \in {2, 4, 6, 8, 10}
      BY <2>1, <2>2
    <3> QED BY <2>1, <3>1, <3>2 DEF Had, Controllers
  <2>3. CASE (11 - n) % 2 # 1
    <3>1. c = "slave"
      BY <1>0, <1>4, <2>3
    <3>2. n \in {1, 3, 5, 7, 9}
      BY <2>1, <2>3
    <3> QED BY <2>1, <3>1, <3>2 DEF Had, Controllers
  <2> QED BY <2>2, <2>3
<1>6. /\ pics' \in [Controllers -> PIC]
      /\ \A d \in Controllers : d # c => pics'[d] = pics[d]
      /\ pics'[c].isr = {}
      /\ Programmed(pics'[c], Had(c) + 1, VectorsFrom(c))
  <2>1. \A d \in Controllers : pics[d].isr = {}
    BY <1>2 DEF InServiceIsHandled, Controllers
  <2>2. VectorsFrom(c) \in {32, 40}
    BY DEF VectorsFrom
  <2>3. Programmed(pics[c], Had(c), VectorsFrom(c)) /\ pics \in [Controllers -> PIC]
    BY <1>2, <1>4 DEF Programming, InterruptsTypeOK
  <2>4. /\ Had(c) = 0 => write.port = "command" /\ write.data = 17
        /\ Had(c) # 0 => write.port = "data"
        /\ Had(c) = 1 => write.data = VectorsFrom(c)
    BY <1>4, <1>5
  <2>5. pics' = Written(pics, write)
    BY <1>1, <1>3
  <2>6. pics[c].isr = {} /\ c = write.pic
    BY <1>0, <1>4, <2>1
  <2>7. PICK words, base : words = Had(c) /\ base = VectorsFrom(c)
    OBVIOUS
  <2>8. NextWord(c, write, words, base)
    BY <1>4, <1>5, <2>2, <2>3, <2>4, <2>6, <2>7 DEF NextWord
  <2>9. LET new == Written(pics, write)
        IN  /\ new \in [Controllers -> PIC]
            /\ \A d \in Controllers : d # c => new[d] = pics[d]
            /\ new[c].isr = {}
            /\ Programmed(new[c], words + 1, base)
    BY <1>4, <2>3, <2>8, WordWritten
  <2> QED BY <2>5, <2>7, <2>9
<1>7. InterruptsTypeOK'
  BY <1>1, <1>2, <1>3, <1>6 DEF InterruptsTypeOK
<1>8. Programming'
  <2>1. ASSUME NEW d \in Controllers PROVE Programmed(pics'[d], Had(d)', VectorsFrom(d))
    <3>1. Programmed(pics[d], Had(d), VectorsFrom(d))
      BY <1>2 DEF Programming
    <3>2. CASE d = c
      BY <1>5, <1>6, <3>2
    <3>3. CASE d # c
      BY <1>5, <1>6, <3>1, <3>3
    <3> QED BY <3>2, <3>3
  <2>2. pc' = "construct" <=> writes' # <<>>
    <3>1. writes' # <<>> <=> n # 1
      BY <1>3
    <3> QED BY <1>1, <3>1
  <2> QED BY <1>3, <2>1, <2>2 DEF Programming
<1>9. pics'.master.isr = {} /\ pics'.slave.isr = {}
  <2>1. \A d \in Controllers : pics[d].isr = {}
    BY <1>2 DEF InServiceIsHandled, Controllers
  <2>2. \A d \in Controllers : pics'[d].isr = {}
    BY <1>6, <2>1
  <2> QED BY <2>2 DEF Controllers
<1>10. Vectors' /\ InServiceIsHandled' /\ PanicsOfFailureOnly'
  BY <1>1, <1>2, <1>9 DEF Vectors, InServiceIsHandled, PanicsOfFailureOnly, Before
<1> QED BY <1>7, <1>8, <1>10 DEF InterruptsInv

(* init writes the gates, and enable lets interrupts come.                 *)
LEMMA SetUpInv ==
  ASSUME InterruptsInv, cpu.at = "kernel", SetUpInterrupts
  PROVE  InterruptsInv'
<1>1. CASE Goto("construct", IF Len(writes) = 1 THEN "init" ELSE "construct") /\ InterruptManager
  BY <1>1, ConstructInv
<1>2. ASSUME UNCHANGED <<writes, lines, pics, cpu>>, pc # "construct", pc' # "construct"
      PROVE  Programming' /\ InServiceIsHandled' /\ PanicsOfFailureOnly'
  <2>1. \A c \in Controllers : Had(c)' = Had(c)
    BY <1>2 DEF Had
  <2>2. \A c \in Controllers : Programmed(pics'[c], Had(c), VectorsFrom(c))
    BY <1>2 DEF InterruptsInv, Programming, Programmed
  <2>3. Programming'
    BY <1>2, <2>1, <2>2 DEF InterruptsInv, Programming
  <2> QED BY <1>2, <2>3 DEF InterruptsInv, InServiceIsHandled, PanicsOfFailureOnly
<1>3. CASE Goto("init", "enable") /\ init
  <2>1. /\ UNCHANGED <<writes, lines, pics, interruptFlag, cpu>> /\ pc = "init" /\ pc' = "enable"
        /\ idt' = [vector \in 0 .. 47 |-> IF vector < 32 THEN isr(vector) ELSE irq(vector - 32)]
    BY <1>3 DEF Goto, init
  <2>2. idt' = Gates
    BY <2>1 DEF Gates, isr, irq
  <2>3. Gates \in [0 .. 47 -> 0 .. 47]
    BY DEF Gates
  <2>4. InterruptsTypeOK'
    <3>1. InterruptsTypeOK
      BY DEF InterruptsInv
    <3> HIDE DEF Gates
    <3> QED BY <2>1, <2>2, <2>3, <3>1, ZenonT(40) DEF InterruptsTypeOK
  <2>5. Vectors'
    BY <2>1, <2>2 DEF InterruptsInv, Vectors, Before
  <2> QED BY <1>2, <2>1, <2>4, <2>5 DEF InterruptsInv
<1>4. CASE Goto("enable", "identify master") /\ enable
  <2>1. /\ UNCHANGED <<writes, lines, pics, idt, cpu>> /\ pc = "enable" /\ pc' = "identify master"
        /\ interruptFlag' = TRUE
    BY <1>4 DEF Goto, enable
  <2>2. InterruptsTypeOK'
    BY <2>1 DEF InterruptsInv, InterruptsTypeOK
  <2>3. Vectors'
    BY <2>1 DEF InterruptsInv, Vectors, Before
  <2> QED BY <1>2, <2>1, <2>2, <2>3 DEF InterruptsInv
<1> QED BY <1>1, <1>3, <1>4 DEF SetUpInterrupts

(* Steps of the processor that leave the controllers and the gates alone.  *)
LEMMA CpuInv ==
  ASSUME InterruptsInv, UNCHANGED <<writes, lines, pics, idt, pc>>,
         interruptFlag' \in BOOLEAN, interruptFlag' => pc \notin Before,
         NEW at \in {"kernel", "acknowledge", "acknowledge slave", "entry", "handler", "slave", "return", "panic"},
         NEW vector \in 0 .. 255, cpu' = [at |-> at, vector |-> vector]
  PROVE  InterruptsTypeOK' /\ Programming' /\ cpu'.at = at /\ cpu'.vector = vector
<1>1. cpu'.at = at /\ cpu'.vector = vector
  OBVIOUS
<1>2. InterruptsTypeOK'
  <2>1. cpu' \in [at : {"kernel", "acknowledge", "acknowledge slave", "entry", "handler",
                       "slave", "return", "panic"}, vector : 0 .. 255]
    OBVIOUS
  <2>2. InterruptsTypeOK
    BY DEF InterruptsInv
  <2> QED BY <2>1, <2>2 DEF InterruptsTypeOK
<1>3. \A c \in Controllers : Had(c)' = Had(c)
  BY DEF Had
<1>4. \A c \in Controllers : Programmed(pics'[c], Had(c), VectorsFrom(c))
  BY DEF InterruptsInv, Programming
<1>5. Programming'
  BY <1>3, <1>4 DEF InterruptsInv, Programming
<1> QED BY <1>1, <1>2, <1>5

LEMMA CpuType ==
  ASSUME InterruptsInv
  PROVE  /\ cpu.at \in {"kernel", "acknowledge", "acknowledge slave", "entry", "handler", "slave",
                        "return", "panic"}
         /\ cpu.vector \in 0 .. 255 /\ interruptFlag \in BOOLEAN
         /\ \A at : [cpu EXCEPT !.at = at] = [at |-> at, vector |-> cpu.vector]
<1>1. /\ cpu \in [at : {"kernel", "acknowledge", "acknowledge slave", "entry", "handler",
                      "slave", "return", "panic"}, vector : 0 .. 255]
      /\ interruptFlag \in BOOLEAN
  BY DEF InterruptsInv, InterruptsTypeOK
<1>2. PICK old, vector : cpu = [at |-> old, vector |-> vector]
  BY <1>1
<1>3. \A at : [cpu EXCEPT !.at = at] = [at |-> at, vector |-> cpu.vector]
  BY <1>2
<1> QED BY <1>1, <1>3

LEMMA NoticeInv ==
  ASSUME InterruptsInv, Notice, UNCHANGED pc
  PROVE  InterruptsInv'
<1>1. /\ cpu.at = "kernel" /\ interruptFlag /\ cpu' = [at |-> "acknowledge", vector |-> cpu.vector]
      /\ UNCHANGED <<writes, lines, pics, idt, interruptFlag, pc>>
  BY CpuType DEF Notice
<1>2. pc \notin Before
  BY <1>1 DEF InterruptsInv, Vectors
<1>3. /\ InterruptsTypeOK' /\ Programming' /\ cpu'.at = "acknowledge" /\ cpu'.vector = cpu.vector
  <2>1. interruptFlag' \in BOOLEAN /\ (interruptFlag' => pc \notin Before)
    BY <1>1, <1>2, CpuType
  <2> QED BY <1>1, <2>1, CpuInv, CpuType, ZenonT(40)
<1>4. Vectors'
  BY <1>1, <1>2, <1>3 DEF InterruptsInv, Vectors
<1>5. InServiceIsHandled' /\ PanicsOfFailureOnly'
  BY <1>1, <1>3 DEF InterruptsInv, InServiceIsHandled, PanicsOfFailureOnly
<1> QED BY <1>3, <1>4, <1>5 DEF InterruptsInv

LEMMA NonMaskableInv ==
  ASSUME InterruptsInv, NonMaskable, UNCHANGED pc
  PROVE  InterruptsInv'
<1>1. /\ cpu' = [at |-> "entry", vector |-> 2]
      /\ UNCHANGED <<writes, lines, pics, idt, interruptFlag, pc>>
  BY DEF NonMaskable
<1>2. /\ InterruptsTypeOK' /\ Programming' /\ cpu'.at = "entry" /\ cpu'.vector = 2
  <2>1. interruptFlag' \in BOOLEAN /\ (interruptFlag' => pc \notin Before)
    BY <1>1, CpuType DEF InterruptsInv, Vectors
  <2>2. 2 \in 0 .. 255
    OBVIOUS
  <2> QED BY <1>1, <2>1, <2>2, CpuInv
<1>3. Vectors'
  BY <1>1, <1>2 DEF InterruptsInv, Vectors
<1>4. InServiceIsHandled' /\ PanicsOfFailureOnly'
  BY <1>1, <1>2 DEF InServiceIsHandled, PanicsOfFailureOnly
<1> QED BY <1>2, <1>3, <1>4 DEF InterruptsInv

(* A vector of a controller leads to the handler, the failure's to panic.  *)
LEMMA EnterInv ==
  ASSUME InterruptsInv, Enter, UNCHANGED pc
  PROVE  InterruptsInv'
<1>1. /\ cpu.at = "entry" /\ interruptFlag' = FALSE
      /\ cpu' = IF cpu.vector \in DOMAIN idt /\ ~ IsException(idt[cpu.vector])
                THEN [at |-> "handler", vector |-> idt[cpu.vector]]
                ELSE [at |-> "panic", vector |-> cpu.vector]
      /\ UNCHANGED <<writes, lines, pics, idt, pc>>
  BY CpuType DEF Enter
<1>2. CASE cpu.vector = 2
  <2>1. ~ (2 \in DOMAIN idt /\ ~ IsException(idt[2]))
    <3>1. idt = <<>> \/ idt = Gates
      BY DEF InterruptsInv, Vectors
    <3>2. Gates[2] = 2
      BY DEF Gates
    <3>3. idt = <<>> => 2 \notin DOMAIN idt
      OBVIOUS
    <3> QED BY <3>1, <3>2, <3>3 DEF IsException
  <2>2. cpu' = [at |-> "panic", vector |-> 2]
    BY <1>1, <1>2, <2>1
  <2>3. InterruptsTypeOK' /\ Programming' /\ cpu'.at = "panic" /\ cpu'.vector = 2
    <3>1. interruptFlag' \in BOOLEAN /\ (interruptFlag' => pc \notin Before)
      BY <1>1, Zenon
    <3>2. 2 \in 0 .. 255
      OBVIOUS
    <3> QED BY <1>1, <2>2, <3>1, <3>2, CpuInv
  <2>4. Vectors'
    BY <1>1, <2>3 DEF InterruptsInv, Vectors
  <2>5. InServiceIsHandled' /\ PanicsOfFailureOnly'
    BY <1>1, <2>3 DEF InServiceIsHandled, PanicsOfFailureOnly
  <2> QED BY <2>3, <2>4, <2>5 DEF InterruptsInv
<1>3. CASE cpu.vector # 2
  <2>1. /\ pc \notin Before /\ cpu.vector \in 32 .. 47
        /\ Sent(cpu.vector, pics.master.isr, pics.slave.isr)
    BY <1>1, <1>3 DEF InterruptsInv, Vectors
  <2>2. idt = Gates
    BY <2>1 DEF InterruptsInv, Vectors, Before
  <2>3. cpu.vector \in DOMAIN idt /\ idt[cpu.vector] = cpu.vector /\ ~ IsException(cpu.vector)
    BY <2>1, <2>2 DEF Gates, IsException
  <2>4. cpu' = [at |-> "handler", vector |-> cpu.vector]
    BY <1>1, <2>3
  <2>5. InterruptsTypeOK' /\ Programming' /\ cpu'.at = "handler" /\ cpu'.vector = cpu.vector
    BY <1>1, <2>1, <2>4, CpuInv, CpuType
  <2>6. Vectors'
    BY <1>1, <2>1, <2>2, <2>5 DEF InterruptsInv, Vectors
  <2>7. InServiceIsHandled' /\ PanicsOfFailureOnly'
    BY <1>1, <2>1, <2>5 DEF InServiceIsHandled, PanicsOfFailureOnly, Sent
  <2> QED BY <2>5, <2>6, <2>7 DEF InterruptsInv
<1> QED BY <1>2, <1>3

LEMMA ReturnInv ==
  ASSUME InterruptsInv, Return, UNCHANGED pc
  PROVE  InterruptsInv'
<1>1. /\ cpu.at = "return" /\ interruptFlag' = TRUE /\ cpu' = [at |-> "kernel", vector |-> cpu.vector]
      /\ UNCHANGED <<writes, lines, pics, idt, pc>>
  BY CpuType DEF Return
<1>2. pc \notin Before
  BY <1>1 DEF InterruptsInv, Vectors
<1>3. InterruptsTypeOK' /\ Programming' /\ cpu'.at = "kernel" /\ cpu'.vector = cpu.vector
  BY <1>1, <1>2, CpuInv, CpuType
<1>4. Vectors'
  BY <1>1, <1>2, <1>3 DEF InterruptsInv, Vectors
<1>5. InServiceIsHandled' /\ PanicsOfFailureOnly'
  BY <1>1, <1>3 DEF InterruptsInv, InServiceIsHandled, PanicsOfFailureOnly
<1> QED BY <1>3, <1>4, <1>5 DEF InterruptsInv

(* What is written to the controllers' command ports between interrupts,   *)
(* and what the processor takes from them, leaves their set-up alone.      *)
LEMMA ServiceInv ==
  ASSUME InterruptsInv, UNCHANGED <<writes, lines, idt, interruptFlag, pc>>,
         NEW c \in Controllers, NEW pic \in PIC, pics' = [pics EXCEPT ![c] = pic],
         pic.icw = pics[c].icw, pic.base = pics[c].base,
         NEW at \in {"kernel", "acknowledge", "acknowledge slave", "entry", "handler", "slave", "return", "panic"},
         NEW vector \in 0 .. 255, cpu' = [at |-> at, vector |-> vector]
  PROVE  InterruptsTypeOK' /\ Programming' /\ cpu'.at = at /\ cpu'.vector = vector
<1>1. cpu'.at = at /\ cpu'.vector = vector
  OBVIOUS
<1>2. pics' \in [Controllers -> PIC]
  BY DEF InterruptsInv, InterruptsTypeOK
<1>3. InterruptsTypeOK'
  <2>1. cpu' \in [at : {"kernel", "acknowledge", "acknowledge slave", "entry", "handler",
                       "slave", "return", "panic"}, vector : 0 .. 255]
    OBVIOUS
  <2>2. InterruptsTypeOK
    BY DEF InterruptsInv
  <2> QED BY <1>2, <2>1, <2>2 DEF InterruptsTypeOK
<1>4. \A d \in Controllers : Had(d)' = Had(d)
  BY DEF Had
<1>5. \A d \in Controllers : Programmed(pics'[d], Had(d), VectorsFrom(d))
  <2>1. \A d \in Controllers : pics'[d].icw = pics[d].icw /\ pics'[d].base = pics[d].base
    BY DEF InterruptsInv, InterruptsTypeOK
  <2>2. \A d \in Controllers : Programmed(pics[d], Had(d), VectorsFrom(d))
    BY DEF InterruptsInv, Programming
  <2> SUFFICES ASSUME NEW d \in Controllers
               PROVE  Programmed(pics'[d], Had(d), VectorsFrom(d))
    OBVIOUS
  <2>3. pics'[d].icw = pics[d].icw /\ pics'[d].base = pics[d].base
    BY <2>1
  <2>4. Programmed(pics[d], Had(d), VectorsFrom(d))
    BY <2>2
  <2> QED BY <2>3, <2>4 DEF Programmed
<1>6. Programming'
  BY <1>4, <1>5 DEF InterruptsInv, Programming
<1> QED BY <1>1, <1>3, <1>6

(* When stage2 is past enable, the controllers send their own vectors.     *)
LEMMA BasesLemma ==
  ASSUME InterruptsInv, pc \notin Before
  PROVE  /\ \A c \in Controllers : pics[c].base = VectorsFrom(c)
         /\ idt = Gates
<1>1. writes = <<>>
  BY DEF InterruptsInv, Programming, Before
<1>2. Len(writes) = 0
  BY <1>1
<1>3. \A c \in Controllers : Had(c) = 5
  BY <1>2 DEF Had
<1>4. \A c \in Controllers : Programmed(pics[c], 5, VectorsFrom(c))
  BY <1>3 DEF InterruptsInv, Programming
<1>5. \A c \in Controllers : pics[c].base = VectorsFrom(c)
  BY <1>4 DEF Programmed
<1> QED BY <1>5 DEF InterruptsInv, Vectors, Before

LEMMA AcknowledgeInv ==
  ASSUME InterruptsInv, NEW c \in Controllers, Acknowledge(c), UNCHANGED pc
  PROVE  InterruptsInv'
<1>0. PICK winners \in SUBSET Inputs : winners = Winners(c)
  BY WinnersLemma DEF InterruptsInv
<1>1. PICK input : input = IF winners = {} THEN 7 ELSE Least(winners)
  OBVIOUS
<1>2. /\ cpu.at = (IF c = "master" THEN "acknowledge" ELSE "acknowledge slave")
      /\ pics' = IF winners = {} THEN pics
                 ELSE [pics EXCEPT ![c].isr = @ \cup {input}, ![c].irr = @ \ {input}]
      /\ cpu' = IF c = "master" /\ winners # {} /\ input = Cascade
                THEN [cpu EXCEPT !.at = "acknowledge slave"]
                ELSE [at |-> "entry", vector |-> pics[c].base + input]
      /\ UNCHANGED <<writes, lines, idt, interruptFlag, pc>>
  BY <1>0, <1>1 DEF Acknowledge
<1>3. input \in Inputs
  BY <1>1, LeastLemma DEF Inputs
<1>4. pc \notin Before
  BY <1>2 DEF InterruptsInv, Vectors
<1>5. pics[c].base = VectorsFrom(c) /\ pics \in [Controllers -> PIC] /\ pics[c] \in PIC
  BY <1>4, BasesLemma DEF InterruptsInv, InterruptsTypeOK
<1>6. /\ c = "master" => pics.master.isr = {} /\ pics.slave.isr = {}
      /\ c = "slave" => pics.master.isr = {Cascade} /\ pics.slave.isr = {}
  BY <1>2 DEF InterruptsInv, InServiceIsHandled
<1>7. PICK pic \in PIC : /\ pics' = [pics EXCEPT ![c] = pic]
                         /\ pic.icw = pics[c].icw /\ pic.base = pics[c].base
                         /\ pic.isr = IF winners = {} THEN {} ELSE {input}
  <2>1. CASE winners = {}
    <3>1. pics' = [pics EXCEPT ![c] = pics[c]]
      BY <1>2, <1>5, <2>1
    <3>2. pics[c].isr = {}
      BY <1>6 DEF Controllers
    <3> QED BY <1>5, <2>1, <3>1, <3>2
  <2>2. CASE winners # {}
    <3> DEFINE pic == [pics[c] EXCEPT !.isr = pics[c].isr \cup {input}, !.irr = pics[c].irr \ {input}]
    <3>1. pics' = [pics EXCEPT ![c] = pic]
      BY <1>2, <1>5, <2>2
    <3>2. pics[c].isr \cup {input} \in SUBSET Inputs /\ pics[c].irr \ {input} \in SUBSET Inputs
      BY <1>3, <1>5 DEF PIC
    <3>3. pic \in PIC /\ pic.icw = pics[c].icw /\ pic.base = pics[c].base
          /\ pic.isr = pics[c].isr \cup {input}
      <4> DEFINE p == pics[c]
                 new == pics[c].isr \cup {input}
                 left == pics[c].irr \ {input}
      <4>1. p \in PIC /\ new \in SUBSET Inputs /\ left \in SUBSET Inputs
        BY <1>5, <3>2
      <4> HIDE DEF p, new, left
      <4>2. LET next == [p EXCEPT !.isr = new, !.irr = left]
            IN  next \in PIC /\ next.icw = p.icw /\ next.base = p.base /\ next.isr = new
        BY <4>1 DEF PIC
      <4> QED BY <4>2 DEF p, new, left
    <3>4. pics[c].isr = {}
      BY <1>6 DEF Controllers
    <3> HIDE DEF pic
    <3> QED BY <2>2, <3>1, <3>3, <3>4
  <2> QED BY <2>1, <2>2
<1>8. /\ pics'[c].isr = (IF winners = {} THEN {} ELSE {input})
      /\ \A d \in Controllers : d # c => pics'[d].isr = pics[d].isr
  BY <1>5, <1>7
<1>9. CASE c = "master" /\ winners # {} /\ input = Cascade
  <2>1. cpu' = [at |-> "acknowledge slave", vector |-> cpu.vector]
    BY <1>2, <1>9, CpuType
  <2>2. InterruptsTypeOK' /\ Programming' /\ cpu'.at = "acknowledge slave" /\ cpu'.vector = cpu.vector
    BY <1>2, <1>7, <2>1, ServiceInv, CpuType, ZenonT(40)
  <2>3. pics'.master.isr = {Cascade} /\ pics'.slave.isr = {}
    BY <1>6, <1>8, <1>9 DEF Controllers
  <2>4. Vectors'
    BY <1>2, <1>4, <2>2 DEF InterruptsInv, Vectors
  <2>5. InServiceIsHandled' /\ PanicsOfFailureOnly'
    BY <2>2, <2>3 DEF InServiceIsHandled, PanicsOfFailureOnly
  <2> QED BY <2>2, <2>4, <2>5 DEF InterruptsInv
<1>10. CASE ~ (c = "master" /\ winners # {} /\ input = Cascade)
  <2>1. PICK vector : vector = VectorsFrom(c) + input
    OBVIOUS
  <2>2. cpu' = [at |-> "entry", vector |-> vector]
    BY <1>2, <1>5, <1>10, <2>1
  <2>3. /\ vector \in 32 .. 47 /\ vector \in 0 .. 255
        /\ c = "master" => vector < 40 /\ vector - 32 = input
        /\ c = "slave" => vector >= 40 /\ vector - 40 = input
        /\ vector - VectorsFrom(c) = input
    BY <1>3, <2>1 DEF VectorsFrom, Inputs, Controllers
  <2>4. InterruptsTypeOK' /\ Programming' /\ cpu'.at = "entry" /\ cpu'.vector = vector
    BY <1>2, <1>7, <2>2, <2>3, ServiceInv
  <2>5. Sent(vector, pics'.master.isr, pics'.slave.isr)
    <3>1. CASE c = "master"
      <4>1. pics'.slave.isr = {} /\ pics'.master.isr = (IF winners = {} THEN {} ELSE {input})
        BY <1>6, <1>8, <3>1 DEF Controllers
      <4>2. winners = {} => vector = 39
        BY <1>1, <2>1, <3>1 DEF VectorsFrom
      <4>3. {vector - 32} \cap Inputs = {input}
        BY <1>3, <2>3, <3>1
      <4> QED BY <2>3, <3>1, <4>1, <4>2, <4>3 DEF Sent
    <3>2. CASE c = "slave"
      <4>1. pics'.master.isr = {Cascade} /\ pics'.slave.isr = (IF winners = {} THEN {} ELSE {input})
        BY <1>6, <1>8, <3>2 DEF Controllers
      <4>2. winners = {} => vector = 47
        BY <1>1, <2>1, <3>2 DEF VectorsFrom
      <4>3. {vector - 40} \cap Inputs = {input}
        BY <1>3, <2>3, <3>2
      <4> QED BY <2>3, <3>2, <4>1, <4>2, <4>3 DEF Sent
    <3> QED BY <3>1, <3>2 DEF Controllers
  <2>6. Vectors'
    BY <1>2, <1>4, <2>3, <2>4, <2>5 DEF InterruptsInv, Vectors
  <2>7. InServiceIsHandled' /\ PanicsOfFailureOnly'
    BY <2>4 DEF InServiceIsHandled, PanicsOfFailureOnly
  <2> QED BY <2>4, <2>6, <2>7 DEF InterruptsInv
<1> QED BY <1>9, <1>10

LEMMA AcknowledgeMasterInv ==
  ASSUME InterruptsInv, AcknowledgeMaster, UNCHANGED pc
  PROVE  InterruptsInv'
<1>1. PICK at : at = IF cpu.vector >= 40 THEN "slave" ELSE "return"
  OBVIOUS
<1>2. /\ cpu.at = "handler" /\ cpu' = [at |-> at, vector |-> cpu.vector]
      /\ pics' = Written(pics, To("master", "command", 32))
      /\ UNCHANGED <<writes, lines, idt, interruptFlag, pc>>
  BY <1>1, CpuType DEF AcknowledgeMaster
<1>3. pc \notin Before /\ cpu.vector \in 32 .. 47 /\ pics \in [Controllers -> PIC]
  BY <1>2 DEF InterruptsInv, Vectors, InterruptsTypeOK
<1>4. PICK pic \in PIC : pic = EndOfInterrupt(pics["master"])
  BY <1>3, EndLemma DEF Controllers
<1>5. pics' = [pics EXCEPT !["master"] = pic]
  BY <1>2, <1>3, <1>4, EndWritten DEF Controllers
<1>6. Sent(cpu.vector, pics.master.isr, pics.slave.isr)
  BY <1>2 DEF InterruptsInv, InServiceIsHandled, Sent
<1>7. pic.icw = pics["master"].icw /\ pic.base = pics["master"].base /\ pic.isr = {}
  <2>1. pics["master"].isr = {} \/ \E i : pics["master"].isr = {i}
    <3>1. CASE cpu.vector >= 40
      BY <1>6, <3>1 DEF Sent
    <3>2. CASE ~ (cpu.vector >= 40)
      <4>1. cpu.vector - 32 \in Inputs
        BY <1>3, <3>2 DEF Inputs
      <4>2. {cpu.vector - 32} \cap Inputs = {cpu.vector - 32}
        BY <4>1
      <4> QED BY <1>6, <3>2, <4>2 DEF Sent
    <3> QED BY <3>1, <3>2
  <2>2. pics["master"] \in PIC
    BY <1>3 DEF Controllers
  <2> QED BY <1>4, <2>1, <2>2, EndLemma
<1>8. pics'["master"].isr = {} /\ pics'["slave"].isr = pics["slave"].isr
  BY <1>3, <1>5, <1>7 DEF Controllers
<1>9. InterruptsTypeOK' /\ Programming' /\ cpu'.at = at /\ cpu'.vector = cpu.vector
  <2>1. at \in {"kernel", "acknowledge", "acknowledge slave", "entry", "handler", "slave", "return", "panic"}
    BY <1>1
  <2>2. "master" \in Controllers
    BY DEF Controllers
  <2>3. cpu.vector \in 0 .. 255
    BY CpuType
  <2>4. CASE at = "slave"
    BY <1>2, <1>5, <1>7, <2>2, <2>3, <2>4, ServiceInv, ZenonT(40)
  <2>5. CASE at = "return"
    BY <1>2, <1>5, <1>7, <2>2, <2>3, <2>5, ServiceInv, ZenonT(40)
  <2> QED BY <1>1, <2>4, <2>5
<1>10. Vectors'
  <2>1. at = "slave" => cpu.vector \in 40 .. 47
    BY <1>1, <1>3
  <2>2. at \in {"slave", "return"}
    BY <1>1
  <2> QED BY <1>2, <1>3, <1>9, <2>1, <2>2 DEF InterruptsInv, Vectors
<1>11. InServiceIsHandled' /\ PanicsOfFailureOnly'
  <2>1. CASE cpu.vector >= 40
    <3>1. pics.slave.isr \subseteq {cpu.vector - 40} \cap Inputs /\ at = "slave"
      BY <1>1, <1>6, <2>1 DEF Sent
    <3> QED BY <1>8, <1>9, <3>1 DEF InServiceIsHandled, PanicsOfFailureOnly
  <2>2. CASE ~ (cpu.vector >= 40)
    <3>1. pics.slave.isr = {} /\ at = "return"
      BY <1>1, <1>6, <2>2 DEF Sent
    <3> QED BY <1>8, <1>9, <3>1 DEF InServiceIsHandled, PanicsOfFailureOnly
  <2> QED BY <2>1, <2>2
<1> QED BY <1>9, <1>10, <1>11 DEF InterruptsInv

LEMMA AcknowledgeSlaveInv ==
  ASSUME InterruptsInv, AcknowledgeSlave, UNCHANGED pc
  PROVE  InterruptsInv'
<1>1. /\ cpu.at = "slave" /\ cpu' = [at |-> "return", vector |-> cpu.vector]
      /\ pics' = Written(pics, To("slave", "command", 32))
      /\ UNCHANGED <<writes, lines, idt, interruptFlag, pc>>
  BY CpuType DEF AcknowledgeSlave
<1>2. pc \notin Before /\ pics \in [Controllers -> PIC]
      /\ pics.master.isr = {} /\ pics.slave.isr \subseteq {cpu.vector - 40} \cap Inputs
  BY <1>1 DEF InterruptsInv, Vectors, InterruptsTypeOK, InServiceIsHandled
<1>3. PICK pic \in PIC : pic = EndOfInterrupt(pics["slave"])
  BY <1>2, EndLemma DEF Controllers
<1>4. pics' = [pics EXCEPT !["slave"] = pic]
  BY <1>1, <1>2, <1>3, EndWritten DEF Controllers
<1>5. pic.icw = pics["slave"].icw /\ pic.base = pics["slave"].base /\ pic.isr = {}
  <2>1. pics["slave"].isr = {} \/ pics["slave"].isr = {cpu.vector - 40}
    BY <1>2
  <2>2. pics["slave"] \in PIC
    BY <1>2 DEF Controllers
  <2> QED BY <1>3, <2>1, <2>2, EndLemma
<1>6. pics'["slave"].isr = {} /\ pics'["master"].isr = {}
  BY <1>2, <1>4, <1>5 DEF Controllers
<1>7. InterruptsTypeOK' /\ Programming' /\ cpu'.at = "return" /\ cpu'.vector = cpu.vector
  <2>1. "slave" \in Controllers
    BY DEF Controllers
  <2> QED BY <1>1, <1>4, <1>5, <2>1, ServiceInv, CpuType
<1>8. Vectors'
  BY <1>1, <1>2, <1>7 DEF InterruptsInv, Vectors
<1>9. InServiceIsHandled' /\ PanicsOfFailureOnly'
  BY <1>6, <1>7 DEF InServiceIsHandled, PanicsOfFailureOnly
<1> QED BY <1>7, <1>8, <1>9 DEF InterruptsInv

LEMMA WholeLemma ==
  ASSUME NEW S, NEW s \in Seq(S), NEW n \in Nat \ {0}, Len(s) = n
  PROVE  SubSeq(s, 1, n) = s /\ s # <<>>
<1> DEFINE all == SubSeq(s, 1, n)
<1>1. all \in Seq(S) /\ Len(all) = n /\ \A i \in 1 .. n : all[i] = s[i]
  OBVIOUS
<1> HIDE DEF all
<1>2. all = s
  BY <1>1, SequencesEqual
<1>3. s # <<>>
  OBVIOUS
<1> QED BY <1>2, <1>3 DEF all

LEMMA InitInterrupts ==
  ASSUME Stage2Init
  PROVE  InterruptsInv
<1>1. /\ writes = Initialisation /\ lines = {} /\ idt = <<>> /\ interruptFlag = FALSE
      /\ cpu = [at |-> "kernel", vector |-> 0] /\ pc = "construct"
  BY DEF Stage2Init
<1>2. PICK mask \in {{}, Inputs} :
        pics = [c \in Controllers |-> [icw |-> 0, base |-> IF c = "master" THEN 8 ELSE 112,
                                       imr |-> mask, irr |-> {}, isr |-> {}]]
  BY DEF Stage2Init
<1>3. pics \in [Controllers -> PIC] /\ \A c \in Controllers : pics[c].icw = 0 /\ pics[c].isr = {}
  <2>1. 8 \in {8 * n : n \in 0 .. 31} /\ 112 \in {8 * n : n \in 0 .. 31}
    <3>1. 8 = 8 * 1 /\ 112 = 8 * 14 /\ 1 \in 0 .. 31 /\ 14 \in 0 .. 31
      OBVIOUS
    <3> QED BY <3>1
  <2>2. mask \in SUBSET Inputs
    OBVIOUS
  <2>3. \A base \in {8 * n : n \in 0 .. 31} :
          [icw |-> 0, base |-> base, imr |-> mask, irr |-> {}, isr |-> {}] \in PIC
    BY <2>2 DEF PIC
  <2> QED BY <1>2, <2>1, <2>3
<1>4. InterruptsTypeOK
  <2>1. cpu \in [at : {"kernel", "acknowledge", "acknowledge slave", "entry", "handler",
                      "slave", "return", "panic"}, vector : 0 .. 255]
    BY <1>1
  <2>2. writes \in Seq([pic : Controllers, port : {"command", "data"}, data : 0 .. 255])
    BY <1>1, InitialisationLemma
  <2>3. lines \subseteq 0 .. 15 /\ (idt = <<>> \/ idt \in [0 .. 47 -> 0 .. 47]) /\ interruptFlag \in BOOLEAN
    BY <1>1
  <2> QED BY <1>3, <2>1, <2>2, <2>3 DEF InterruptsTypeOK
<1>5. Programming
  <2>1. Len(writes) = 10
    BY <1>1, InitialisationLemma
  <2>2. writes = SubSeq(Initialisation, 1, 10) /\ writes # <<>>
    <3>1. SubSeq(Initialisation, 1, 10) = Initialisation /\ Initialisation # <<>>
      <4>1. PICK S : Initialisation \in Seq(S) /\ Len(Initialisation) = 10
        BY InitialisationLemma
      <4>2. 10 \in Nat \ {0}
        OBVIOUS
      <4> QED BY <4>1, <4>2, WholeLemma, Zenon
    <3> QED BY <1>1, <3>1
  <2>3. 11 - Len(writes) = 1 /\ Len(writes) <= 10
    BY <2>1
  <2>4. \A c \in Controllers : Had(c) = 0
    BY <2>1 DEF Had
  <2>5. \A c \in Controllers : Programmed(pics[c], Had(c), VectorsFrom(c))
    BY <1>3, <2>4 DEF Programmed
  <2> QED BY <1>1, <2>2, <2>3, <2>5 DEF Programming
<1>6. pics.master.isr = {} /\ pics.slave.isr = {}
  BY <1>3 DEF Controllers
<1>7. Vectors /\ InServiceIsHandled /\ PanicsOfFailureOnly
  BY <1>1, <1>6 DEF Vectors, InServiceIsHandled, PanicsOfFailureOnly
<1> QED BY <1>4, <1>5, <1>7 DEF InterruptsInv

LEMMA NextInterrupts ==
  ASSUME InterruptsInv, [Stage2Next]_stage2Vars
  PROVE  InterruptsInv'
<1>1. CASE cpu.at = "kernel" /\ SetUpInterrupts
  BY <1>1, SetUpInv
<1>2. CASE Identify \/ ReadFile
  <2>1. FollowDisk /\ pc \notin Before /\ pc' \notin Before
    BY <1>2 DEF Identify, ReadFile, Goto, Before
  <2> QED BY <2>1, FollowDiskInv
<1>3. CASE SetUpFiles \/ Examine \/ Close
  <2>1. UNCHANGED interruptVars /\ pc \notin Before /\ pc' \notin Before
    BY <1>3 DEF SetUpFiles, Examine, Close, Goto, Before
  <2> QED BY <2>1, StillInv
<1>4. CASE Drive2 \/ \E s \in Slots : Disk(s)
  <2>1. FollowDisk /\ UNCHANGED pc
    BY <1>4 DEF Drive2, Disk
  <2> QED BY <2>1, FollowDiskInv
<1>5. CASE Interrupt
  BY <1>5, NoticeInv, AcknowledgeInv, EnterInv, AcknowledgeMasterInv, AcknowledgeSlaveInv, ReturnInv
     DEF Interrupt, InterruptStep
<1>6. CASE Failure
  BY <1>6, NonMaskableInv DEF Failure
<1>7. CASE Timer
  BY <1>7, TimerInv
<1>8. CASE UNCHANGED stage2Vars
  BY <1>8, StillInv DEF stage2Vars
<1> QED BY <1>1, <1>2, <1>3, <1>4, <1>5, <1>6, <1>7, <1>8 DEF Stage2Next, KernelStep

LEMMA InterruptsInvariance == Stage2Spec => []InterruptsInv
<1>1. Stage2Init => InterruptsInv
  BY InitInterrupts
<1>2. InterruptsInv /\ [Stage2Next]_stage2Vars => InterruptsInv'
  BY NextInterrupts
<1> QED BY <1>1, <1>2, PTL DEF Stage2Spec

(* Whatever devices interrupt stage2 and when, in whatever order           *)
(* controllers are asked and requests vanish, the handler ends what is in  *)
(* service, at both controllers and nothing else's, and returns with       *)
(* nothing in service.                                                     *)
THEOREM HandlerEndsService == Stage2Spec => []InServiceIsHandled
<1>1. InterruptsInv => InServiceIsHandled
  BY DEF InterruptsInv
<1> QED BY <1>1, InterruptsInvariance, PTL

(* No interrupt of a device, spurious ones included, looks like an         *)
(* exception: not while the constructor programs the controllers, nor      *)
(* between init and enable, nor after.                                     *)
THEOREM OnlyFailuresPanic == Stage2Spec => []PanicsOfFailureOnly
<1>1. InterruptsInv => PanicsOfFailureOnly
  BY DEF InterruptsInv
<1> QED BY <1>1, InterruptsInvariance, PTL

-----------------------------------------------------------------------------
(* All of it. *)

(* stage2 uses the file system as its callers may. *)
LEMMA FileSteps ==
  ASSUME [Stage2Next]_stage2Vars
  PROVE  [Next]_vars
<1>1. /\ DevPath \in Paths /\ DiskPath \in Paths /\ DevFS \in FileSystems /\ FileHandle \in Handles
      /\ "ata0m" \in Devices /\ "ata0s" \in Devices /\ <<"ata0m">> \in Names /\ <<"ata0s">> \in Names
  BY Stage2Assumption DEF Slots
<1>2. CASE SetUpFiles
  <2>1. CASE mount(DevPath, DevFS)
    BY <1>1, <2>1 DEF Next
  <2>2. CASE Register(<<"ata0m">>, "ata0m")
    BY <1>1, <2>2 DEF Register, Next
  <2>3. CASE Register(<<"ata0s">>, "ata0s")
    BY <1>1, <2>3 DEF Register, Next
  <2>4. CASE open(DiskPath, FileHandle)
    BY <1>1, <2>4 DEF Next
  <2> QED BY <1>2, <2>1, <2>2, <2>3, <2>4 DEF SetUpFiles
<1>3. CASE ReadFile \/ Close
  BY <1>1, <1>3 DEF ReadFile, Close, Next
<1> QED BY <1>2, <1>3 DEF Stage2Next, KernelStep, SetUpInterrupts, Identify, Drive2, Examine,
                          Interrupt, Failure, Timer, Disk, stage2Vars

AllTypes ==
  /\ pc \in {"construct", "init", "enable", "identify master", "identify slave", "mount",
             "register master", "register slave", "open", "read", "examine", "close", "halt"}
  /\ mbr \in Block \cup {Junk, Stale}

LEMMA AllTypesStep ==
  ASSUME AllTypes, AtaInv, [Stage2Next]_stage2Vars
  PROVE  AllTypes'
<1>1. CASE Examine
  <2>1. pc' = "close" /\ driver.at = "idle" /\ mbr' = IF returned > 0 THEN buffer[1] ELSE mbr
    BY <1>1 DEF Examine, Goto
  <2>2. returned > 0 => buffer[1] \in Block \cup {Junk}
    <3>1. ASSUME returned > 0 PROVE buffer \in Seq(Block \cup {Junk}) /\ Len(buffer) = returned /\ returned \in Nat
      BY <2>1, <3>1 DEF AtaInv, AtaTypeOK, ReadProgress, InLoop
    <3>2. ASSUME returned > 0 PROVE 1 \in 1 .. Len(buffer)
      BY <3>1, <3>2
    <3> QED BY <3>1, <3>2, ElementOfSeq
  <2> QED BY <2>1, <2>2 DEF AllTypes
<1>2. CASE ~ Examine
  <2>1. mbr' = mbr
    BY <1>2 DEF Stage2Next, KernelStep, SetUpInterrupts, Identify, SetUpFiles, ReadFile, Drive2, Close,
                Interrupt, Failure, Timer, Disk, stage2Vars
  <2>2. pc' \in {pc, "construct", "init", "enable", "identify master", "identify slave", "mount",
                 "register master", "register slave", "open", "read", "examine", "close", "halt"}
    BY <1>2 DEF Stage2Next, KernelStep, SetUpInterrupts, Identify, SetUpFiles, ReadFile, Drive2, Close,
                Goto, Interrupt, Failure, Timer, Disk, stage2Vars
  <2> QED BY <2>1, <2>2 DEF AllTypes
<1> QED BY <1>1, <1>2

(* The variables of stage2 and of what it is composed of keep their types, *)
(* for drives, file systems and interrupts together.                       *)
THEOREM Stage2TypeCorrect == Stage2Spec => []Stage2TypeOK
<1>1. Stage2Init => Inv /\ AllTypes
  <2>1. Stage2Init => Init
    BY DEF Stage2Init
  <2>2. Stage2Init => AllTypes
    BY DEF Stage2Init, AllTypes
  <2> QED BY <2>1, <2>2, InitInv
<1>2. Inv /\ AllTypes /\ Stage2Inv /\ [Stage2Next]_stage2Vars => (Inv /\ AllTypes)'
  BY FileSteps, NextInv, AllTypesStep DEF Stage2Inv
<1>3. Inv /\ AllTypes /\ Stage2Inv /\ InterruptsInv => Stage2TypeOK
  BY DEF Inv, Types, TypeOK, VectorOf, AllTypes, Stage2Inv, AtaInv, InterruptsInv, Stage2TypeOK
<1> QED BY <1>1, <1>2, <1>3, Stage2Invariance, InterruptsInvariance, PTL DEF Stage2Spec
=============================================================================
