------------------------------- MODULE Stage2 --------------------------------
(***************************************************************************)
(* From enabling interrupts in stage1 to the end of stage2                 *)
(* (Kernel/src/main.cpp): the two drives are identified, entered in a      *)
(* DevFS that is mounted on /dev, and the first sector of the second one   *)
(* is read by its path - while the timer, the drives and the processor's   *)
(* interrupts go on beside.  Composed of VFS, ATA and Interrupts.          *)
(***************************************************************************)
EXTENDS VFS, ATA, Interrupts

CONSTANTS
  DevFS,       \* the file system stage2 mounts
  FileHandle,  \* where its file is
  ReadCounts   \* sectors a file is read by; sizeof(MasterBootRecord) is 1

VARIABLES
  pc,   \* where the kernel is
  mbr   \* the block stage2 looks at for partitions

stage2Vars == <<vars, ataVars, interruptVars, pc, mbr>>

DiskLine == 14
DevPath  == <<"/", "dev">>
DiskPath == <<"/", "dev", "/", "ata0s">>

ASSUME Stage2Assumption ==
  /\ {DevPath, DiskPath} \subseteq Paths
  /\ DevFS \in FileSystems /\ FileHandle \in Handles
  /\ Slots \subseteq Devices /\ {<<"ata0m">>, <<"ata0s">>} \subseteq Names
  /\ ReadCounts \subseteq Nat /\ CountLimit \in Nat \ {0}

-----------------------------------------------------------------------------
Stage2Init ==
  /\ Init /\ AtaInit
  /\ writes = Initialisation
  /\ lines = {}
  /\ pics \in {[c \in Controllers |-> [icw |-> 0, base |-> IF c = "master" THEN 8 ELSE 112,
                                       imr |-> mask, irr |-> {}, isr |-> {}]] : mask \in {{}, Inputs}}
  /\ idt = <<>>
  /\ interruptFlag = FALSE
  /\ cpu = [at |-> "kernel", vector |-> 0]
  /\ pc = "construct"
  /\ mbr = Stale

(* The line of the drives is that of the one selected. *)
FollowDisk ==
  /\ SetLines((lines \ {DiskLine}) \cup (IF drives'[selected'].irq THEN {DiskLine} ELSE {}))
  /\ UNCHANGED <<writes, idt, interruptFlag, cpu>>

Goto(from, to) == pc = from /\ pc' = to

-----------------------------------------------------------------------------
(* The kernel. *)

(* instance() constructs the InterruptManager; init; enable. *)
SetUpInterrupts ==
  /\ \/ Goto("construct", IF Len(writes) = 1 THEN "init" ELSE "construct") /\ InterruptManager
     \/ Goto("init", "enable")             /\ init
     \/ Goto("enable", "identify master")  /\ enable
  /\ UNCHANGED <<vars, ataVars, mbr>>

Identify ==
  /\ \/ Goto("identify master", "identify slave") /\ identify("ata0m")
     \/ Goto("identify slave", "mount")           /\ identify("ata0s")
  /\ FollowDisk
  /\ UNCHANGED <<vars, mbr>>

(* A name that is taken is reported, and stage2 goes on. *)
Register(name, slot) ==
  IF findDevice(DevFS, name) = NoDevice THEN registerDevice(DevFS, name, slot) ELSE UNCHANGED vars

SetUpFiles ==
  /\ driver.at = "idle"
  /\ \/ Goto("mount", "register master")         /\ mount(DevPath, DevFS)
     \/ Goto("register master", "register slave") /\ Register(<<"ata0m">>, "ata0m")
     \/ Goto("register slave", "open")            /\ Register(<<"ata0s">>, "ata0s")
     \/ Goto("open", "read")                      /\ open(DiskPath, FileHandle)
  /\ UNCHANGED <<ataVars, interruptVars, mbr>>

(* VFSManager::read comes down to ATA::read, from sector 0. *)
ReadFile ==
  /\ Goto("read", "examine")
  /\ read(FileHandle)
  /\ \E count \in ReadCounts : ataRead(result', 0, count)
  /\ FollowDisk
  /\ UNCHANGED mbr

(* The driver at work for stage2. *)
Drive2 ==
  /\ DriverStep
  /\ FollowDisk
  /\ UNCHANGED <<vars, pc, mbr>>

(* The record is looked at whether or not the read has failed. *)
Examine ==
  /\ Goto("examine", "close")
  /\ driver.at = "idle"
  /\ mbr' = IF returned > 0 THEN buffer[1] ELSE mbr
  /\ UNCHANGED <<vars, ataVars, interruptVars>>

Close ==
  /\ Goto("close", "halt")
  /\ close(FileHandle)
  /\ UNCHANGED <<ataVars, interruptVars, mbr>>

KernelStep ==
  /\ cpu.at = "kernel"
  /\ SetUpInterrupts \/ Identify \/ SetUpFiles \/ ReadFile \/ Drive2 \/ Examine \/ Close

-----------------------------------------------------------------------------
(* What goes on beside it. *)

Interrupt == InterruptStep /\ UNCHANGED <<vars, ataVars, pc, mbr>>

Failure == NonMaskable /\ UNCHANGED <<vars, ataVars, pc, mbr>>

Timer ==
  /\ SetLines(IF 0 \in lines THEN lines \ {0} ELSE lines \cup {0})
  /\ UNCHANGED <<writes, idt, interruptFlag, cpu, vars, ataVars, pc, mbr>>

Disk(s) == DriveStep(s) /\ FollowDisk /\ UNCHANGED <<vars, pc, mbr>>

Stage2Next ==
  KernelStep \/ Interrupt \/ Failure \/ Timer \/ \E s \in Slots : Disk(s)

(* A processor does not stop in an interrupt, and the timer leaves it time *)
(* for the kernel: it ticks 18 times a second.  A drive finishes what it   *)
(* has been told.                                                          *)
Stage2Spec ==
  /\ Stage2Init /\ [][Stage2Next]_stage2Vars
  /\ WF_stage2Vars(Interrupt)
  /\ SF_stage2Vars(KernelStep)
  /\ \A s \in Slots : WF_stage2Vars(Disk(s))

-----------------------------------------------------------------------------
(* Properties. *)

Stage2TypeOK ==
  /\ TypeOK /\ AtaTypeOK /\ InterruptsTypeOK
  /\ pc \in {"construct", "init", "enable", "identify master", "identify slave", "mount",
             "register master", "register slave", "open", "read", "examine", "close", "halt"}
  /\ mbr \in Block \cup {Junk, Stale}

(* A device's interrupt never looks like an exception, from the first one  *)
(* after enable on: the kernel panics of a failure only.  (At power-on the *)
(* timer's vector is 8, that of a double fault.)                           *)
PanicsOfFailureOnly == cpu.at = "panic" => cpu.vector = 2

(* When stage2 looks for partitions in something it has read, and there is *)
(* a second drive, it is the first sector of that disk, through path,      *)
(* mount point, device name and drive selection.                           *)
MbrIsFirstSector ==
  drives["ata0s"].present /\ prompt /\ mbr # Stale =>
    mbr = [drive |-> "ata0s", sector |-> 0]

(* stage2 comes to its end whatever drives there are, unless the processor *)
(* fails.  (A bus without drives that reads as all ones looks busy to read *)
(* for ever.)                                                              *)
Stage2Ends == ~ floating => <>(pc = "halt" \/ cpu.at = "panic")
=============================================================================
