--------------------------------- MODULE VMM ---------------------------------
(***************************************************************************)
(* Virtual memory, from the boot loader's memory map to a mapped heap and  *)
(* framebuffer: initPMM, initVMM and mapPage (Kernel/src/MM/VMM.cpp) and   *)
(* the loops of stage1 and stage2 (Kernel/src/main.cpp) that call them,    *)
(* with the frames they take from the allocator of module PMM.             *)
(*                                                                         *)
(* Page tables live in physical frames.  The kernel writes them through    *)
(* the window at 0xC0000000, so every access is translated by the tables   *)
(* in force; one that is not mapped is a page fault, which halts it.       *)
(***************************************************************************)
EXTENDS PMM, FiniteSets

CONSTANTS
  TableEntries,       \* entries of a page table, and of a page directory
  KernelEntry,        \* directory entry of 0xC0000000, where the window starts
  HeapPages,          \* KERNEL_HEAP_SIZE in pages
  FramebufferFrame,   \* frame the framebuffer starts at
  FramebufferSizes,   \* its size in whole pages
  StaleEntries,       \* what an entry of a frame fresh from allocBlock may hold
  NotPresent          \* an entry whose present bit is clear

Entries == 0 .. TableEntries - 1
Pages   == 0 .. TableEntries * TableEntries - 1
Frames  == Pages

WindowStart      == KernelEntry * TableEntries
HeapFirst        == WindowStart + TableEntries   \* 0xC0400000
FramebufferFirst == HeapFirst + HeapPages        \* 0xC0500000

ASSUME LayoutAssumption ==
  /\ TableEntries \in Nat \ {0} /\ KernelEntry \in Entries
  /\ HeapPages \in Nat \ {0}
  /\ FramebufferFrame \in Frames
  /\ FramebufferSizes \subseteq Nat
  /\ \A n \in FramebufferSizes : FramebufferFirst + n <= TableEntries * TableEntries
  /\ \A n \in FramebufferSizes : FramebufferFrame + n <= TableEntries * TableEntries
  /\ \A e \in StaleEntries : e \in Frames \/ e = NotPresent
  /\ NotPresent \notin Frames
  /\ 1 \in Requests

(* Memory ends within the address space, and the frames of the framebuffer *)
(* are not memory that the allocator may hand out.                         *)
ASSUME MemoryAssumption ==
  \A m \in Machines :
    LET end == LowPages + m.mem_upper \div 4
    IN  /\ end <= TableEntries * TableEntries
        /\ \A n \in FramebufferSizes : \A f \in FramebufferFrame .. FramebufferFrame + n - 1 :
             f < end => \E i \in 1 .. Len(m.map) :
                          ~ m.map[i].available /\ f \in RegionPages(m.map[i])

VARIABLES
  mem,      \* contents of the frames written as page tables so far
  stale,    \* what the other frames hold
  cr3,      \* frame of currentPageDirectory; NotPresent while on the boot tables
  table,    \* the frame initVMM has taken for its page table
  phys,     \* physicalAddress of the loop of stage1, as a frame
  mapped,   \* pages the loops have mapped so far
  fbPages,  \* pages of the framebuffer
  tables,   \* history: the frames taken for page tables
  pc        \* where the boot is

vmmVars == <<mem, stale, cr3, table, phys, mapped, fbPages, tables>>
allVars == <<vars, vmmVars, pc>>

-----------------------------------------------------------------------------
(* Memory as the kernel sees it. *)

(* An address as a frame number.  The value of a failed allocBlock is all  *)
(* ones: the last frame of the address space.                              *)
FrameOf(page) == IF page = NoBlock THEN TableEntries * TableEntries - 1 ELSE page

(* Faulty: physical addresses are used as they are. *)
PHYS_TO_VIRT_Identity(frame) == frame

PHYS_TO_VIRT(frame) == (WindowStart + frame) % (TableEntries * TableEntries)

Contents(m, frame) == IF frame \in DOMAIN m THEN m[frame] ELSE [i \in Entries |-> stale]

(* The frame a page is mapped to by the tables in m below directory dir.   *)
(* The boot directory maps the window with one large page.                 *)
Walk(m, dir, page) ==
  IF dir = NotPresent
    THEN IF page \in WindowStart .. WindowStart + TableEntries - 1
           THEN page - WindowStart ELSE NotPresent
    ELSE LET entry == Contents(m, dir)[page \div TableEntries]
         IN  IF entry = NotPresent THEN NotPresent
             ELSE Contents(m, entry)[page % TableEntries]

Translate(page) == Walk(mem, cr3, page)

(* The frame that an access through the window to a given frame reaches.   *)
Reached(frame) == Translate(PHYS_TO_VIRT(frame))

Store(m, frame, index, entry) ==
  [f \in DOMAIN m \cup {frame} |->
     IF f = frame THEN [Contents(m, frame) EXCEPT ![index] = entry] ELSE m[f]]

(* Faulty: a table is used as it comes from allocBlock, without memset. *)
Cleared_Skipped(m, frame) ==
  [f \in DOMAIN m \cup {frame} |-> Contents(m, f)]

Cleared(m, frame) ==
  [f \in DOMAIN m \cup {frame} |-> IF f = frame THEN [i \in Entries |-> NotPresent] ELSE m[f]]

(* Faulty: physicalAddress is advanced before it is used. *)
WindowEntries_FromOne == [i \in Entries |-> (i + 1) % TableEntries]

(* The entries of the table of the window: the first frames of memory. *)
WindowEntries == [i \in Entries |-> i]

(* handleInterrupt panics on an exception, which halts the processor. *)
PageFault == pc' = "fault" /\ UNCHANGED vmmVars

-----------------------------------------------------------------------------
BootInit ==
  /\ Init
  /\ stale \in StaleEntries
  /\ fbPages \in FramebufferSizes
  /\ mem = <<>>
  /\ cr3 = NotPresent
  /\ table = NotPresent
  /\ phys = NotPresent
  /\ mapped = 0
  /\ tables = {}
  /\ pc = "initPMM"

InitPMM ==
  /\ pc = "initPMM"
  /\ \/ MarkEntry /\ UNCHANGED pc
     \/ marked = Len(memoryMap) /\ pc' = "table" /\ UNCHANGED vars
  /\ UNCHANGED vmmVars

(* initVMM takes a frame for the table of the window and clears it. *)
AllocTable ==
  /\ pc = "table"
  /\ AllocBlock(1)
  /\ LET frame == FrameOf(result'.page)
     IN  \/ Reached(frame) = NotPresent /\ PageFault
         \/ /\ Reached(frame) # NotPresent
            /\ mem' = Cleared(mem, Reached(frame))
            /\ table' = frame
            /\ tables' = {frame}
            /\ pc' = "directory"
            /\ UNCHANGED <<stale, cr3, phys, mapped, fbPages>>

(* It takes and clears one for the directory, maps the first frames of     *)
(* memory into the window and switches to the new tables.                  *)
AllocDirectory ==
  /\ pc = "directory"
  /\ AllocBlock(1)
  /\ LET dir == FrameOf(result'.page)
     IN  \/ Reached(dir) = NotPresent /\ PageFault
         \/ /\ Reached(dir) # NotPresent
            /\ mem' = Store([Cleared(mem, Reached(dir)) EXCEPT ![Reached(table)] = WindowEntries],
                            Reached(dir), KernelEntry, table)
            /\ cr3' = dir
            /\ tables' = tables \cup {dir}
            /\ pc' = "first"
            /\ UNCHANGED <<stale, table, phys, mapped, fbPages>>

(* Faulty: the loop does not advance virtualAddress. *)
Advance_Forgotten(next) == pc' = next /\ UNCHANGED <<stale, cr3, table, phys, mapped, fbPages>>

(* The loops go on to the next page. *)
Advance(next) ==
  /\ mapped' = mapped + 1
  /\ pc' = next
  /\ UNCHANGED <<stale, cr3, table, phys, fbPages>>

(* Faulty: the present bit is not looked at. *)
MapPage_AlwaysNewTable(frame, page, next) ==
  /\ AllocBlock(1)
  /\ LET new == FrameOf(result'.page)
     IN  \/ Reached(new) = NotPresent /\ PageFault
         \/ /\ Reached(new) # NotPresent
            /\ mem' = Store(Store(Cleared(mem, Reached(new)), Reached(new), page % TableEntries, frame),
                            Reached(cr3), page \div TableEntries, new)
            /\ tables' = tables \cup {new}
            /\ Advance(next)

(* mapPage finds the table of the page through the directory and writes    *)
(* the page's entry; without a table it takes a frame and clears it first. *)
(* The tables are written where the window shows them: TablesReachable.    *)
MapPage(frame, page, next) ==
  LET dir   == Reached(cr3)
      entry == Contents(mem, dir)[page \div TableEntries]
      found == entry # NotPresent
  IN  \/ /\ dir = NotPresent \/ (found /\ Reached(entry) = NotPresent)
         /\ PageFault
         /\ UNCHANGED vars
      \/ /\ dir # NotPresent /\ found /\ Reached(entry) # NotPresent
         /\ mem' = Store(mem, Reached(entry), page % TableEntries, frame)
         /\ Advance(next)
         /\ UNCHANGED <<vars, tables>>
      \/ /\ dir # NotPresent /\ ~ found
         /\ AllocBlock(1)
         /\ LET new == FrameOf(result'.page)
            IN  \/ Reached(new) = NotPresent /\ PageFault
                \/ /\ Reached(new) # NotPresent
                   /\ mem' = Store(Store(Cleared(mem, Reached(new)),
                                         Reached(new), page % TableEntries, frame),
                                   dir, page \div TableEntries, new)
                   /\ tables' = tables \cup {new}
                   /\ Advance(next)

(* stage1 takes the frame of the first heap page ... *)
AllocFirst ==
  /\ pc = "first"
  /\ AllocBlock(1)
  /\ phys' = FrameOf(result'.page)
  /\ pc' = "map"
  /\ UNCHANGED <<mem, stale, cr3, table, mapped, fbPages, tables>>

(* ... maps it ... *)
MapHeapPage ==
  /\ pc = "map"
  /\ MapPage(phys, HeapFirst + mapped, "alloc")

(* Faulty: one page too many. *)
AllocNext_OneMore ==
  /\ pc = "alloc"
  /\ AllocBlock(1)
  /\ phys' = FrameOf(result'.page)
  /\ pc' = IF mapped <= HeapPages THEN "map" ELSE "framebuffer"
  /\ UNCHANGED <<mem, stale, cr3, table, mapped, fbPages, tables>>

(* Faulty: the frame of the first page is used for all of them. *)
AllocNext_SameFrame ==
  /\ pc = "alloc"
  /\ pc' = IF mapped < HeapPages THEN "map" ELSE "framebuffer"
  /\ UNCHANGED <<vars, mem, stale, cr3, table, phys, mapped, fbPages, tables>>

(* Faulty: the frame of the page table is taken for the next page. *)
AllocNext_OfTable ==
  /\ pc = "alloc"
  /\ AllocBlock(1)
  /\ phys' = table
  /\ pc' = IF mapped < HeapPages THEN "map" ELSE "framebuffer"
  /\ UNCHANGED <<mem, stale, cr3, table, mapped, fbPages, tables>>

(* ... and takes the next one before it looks whether the heap is full.    *)
AllocNext ==
  /\ pc = "alloc"
  /\ AllocBlock(1)
  /\ phys' = FrameOf(result'.page)
  /\ pc' = IF mapped < HeapPages THEN "map" ELSE "framebuffer"
  /\ UNCHANGED <<mem, stale, cr3, table, mapped, fbPages, tables>>

(* stage2 maps the framebuffer right behind the heap. *)
MapFramebuffer ==
  /\ pc = "framebuffer"
  /\ mapped < HeapPages + fbPages
  /\ MapPage(FramebufferFrame + (mapped - HeapPages), HeapFirst + mapped, "framebuffer")

FramebufferDone ==
  /\ pc = "framebuffer"
  /\ mapped = HeapPages + fbPages
  /\ pc' = "done"
  /\ UNCHANGED <<vars, vmmVars>>

(* kmain, or the exception handler, halts the processor for good. *)
Halt == pc \in {"done", "fault"} /\ UNCHANGED allVars

BootNext ==
  \/ InitPMM \/ AllocTable \/ AllocDirectory
  \/ AllocFirst \/ MapHeapPage \/ AllocNext
  \/ MapFramebuffer \/ FramebufferDone
  \/ Halt

(* Nothing else runs: the processor goes on with the boot.                 *)
BootSpec == BootInit /\ [][BootNext]_allVars /\ WF_allVars(BootNext)

-----------------------------------------------------------------------------
(* Properties. *)

OnKernelTables == cr3 # NotPresent

(* The frames that hold the kernel's page tables. *)
TableFrames ==
  (IF OnKernelTables THEN {cr3} \cup {Contents(mem, cr3)[i] : i \in Entries} ELSE {table})
    \ {NotPresent}

HeapRange == HeapFirst .. HeapFirst + HeapPages - 1

BootTypeOK ==
  /\ TypeOK
  /\ DOMAIN mem \subseteq Frames
  /\ \A f \in DOMAIN mem : mem[f] \in [Entries -> Frames \cup {NotPresent}]
  /\ {cr3, table, phys, stale} \subseteq Frames \cup {NotPresent}
  /\ tables \subseteq Frames
  /\ mapped \in 0 .. HeapPages + fbPages
  /\ pc \in {"initPMM", "table", "directory", "first", "map", "alloc", "framebuffer", "done", "fault"}

(* The frames taken for page tables are all frames that the window maps.   *)
(* Nothing in the code sees to that: it is so while the allocator has free *)
(* frames below 4 MB.  Of a frame beyond, PHYS_TO_VIRT makes an address in *)
(* the heap or the framebuffer, the table is written there, and what has   *)
(* been in the frame is taken for the table.                               *)
TablesInWindow == \A f \in tables : f < TableEntries

(* While that is so, the page tables implement the address space that the  *)
(* kernel relies on: the mapping starts as the window, and no step of the  *)
(* boot maps a page that was not asked for, changes a mapping or takes one *)
(* away - whatever was in the frames the tables were made of.              *)
Space == INSTANCE AddressSpace WITH
           Window <- [p \in WindowStart .. WindowStart + TableEntries - 1 |-> p - WindowStart],
           None   <- NotPresent,
           space  <- [p \in Pages |-> Translate(p)],
           sound  <- TablesInWindow

AddressSpaceSpec == Space!Spec

(* While they are, no page table can be written through a page of the heap *)
(* or of the framebuffer.                                                  *)
TablesPrivate ==
  OnKernelTables /\ TablesInWindow =>
    \A p \in HeapFirst .. FramebufferFirst + fbPages - 1 : Translate(p) \notin TableFrames

(* The kernel can then reach the tables in force, and what it reaches is   *)
(* the frame it means, so that mapPage never writes an entry into          *)
(* something else.                                                         *)
TablesReachable ==
  OnKernelTables /\ TablesInWindow => \A f \in TableFrames : Reached(f) = f

(* Every frame taken has one use: it holds a table, or backs one page of   *)
(* the heap, or is the one stage1 has in hand.  After the last page of the *)
(* heap that frame is never used: one frame is lost.                       *)
FramesAccounted ==
  TablesInWindow /\ result.page # NoBlock /\ pc # "fault" =>
    LET backing == {p \in HeapRange : OnKernelTables /\ Translate(p) # NotPresent}
        inHand  == IF pc \in {"map", "framebuffer", "done"} THEN {phys} ELSE {}
    IN  /\ held = TableFrames \cup {Translate(p) : p \in backing} \cup inHand
        /\ Cardinality(held) = Cardinality(TableFrames) + Cardinality(backing) + Cardinality(inHand)

(* Once the heap is mapped and allocBlock has not failed, every page of it *)
(* has memory of its own, and the framebuffer's pages are its frames in    *)
(* order.                                                                  *)
HeapBacked ==
  pc = "done" /\ TablesInWindow /\ result.page # NoBlock =>
    /\ \A p \in HeapRange : Translate(p) \in held
    /\ \A p, q \in HeapRange : p # q => Translate(p) # Translate(q)
    /\ \A i \in 0 .. fbPages - 1 : Translate(FramebufferFirst + i) = FramebufferFrame + i

(* The boot faults only after allocBlock has failed, or has returned a     *)
(* frame that the window does not reach, for a page table.                 *)
FaultOnlyWithoutFrame ==
  pc = "fault" => result.page = NoBlock \/ result.page >= TableEntries

(* Where the window has free frames for the tables, the heap and the frame *)
(* that is lost, the boot comes to its end; anywhere else it stops, too.   *)
FramesNeeded ==
  2 + HeapPages + 1
    + Cardinality({p \div TableEntries : p \in HeapFirst .. FramebufferFirst + fbPages - 1})

FramesFree ==
  Cardinality({f \in 0 .. totalMemory \div 4 - 1 :
                 f < TableEntries /\ \A i \in 1 .. Len(memoryMap) :
                                       memoryMap[i].available \/ f \notin RegionPages(memoryMap[i])})

BootCompletes ==
  /\ <>(pc \in {"done", "fault"})
  /\ FramesFree >= FramesNeeded => <>(pc = "done")
=============================================================================
