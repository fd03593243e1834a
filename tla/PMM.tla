--------------------------------- MODULE PMM ---------------------------------
(***************************************************************************)
(* The physical page allocator of the kernel (Kernel/src/MM/PMM.cpp):      *)
(* five bitmaps, one per block size, that hand out runs of 4 KB pages and  *)
(* never take one back.                                                    *)
(*                                                                         *)
(* A page is named by its number (physical address \div 4096).  The five   *)
(* bitmaps lie one after another in the array bitmapAddress, so a bit is   *)
(* named by its position in that array: a bitmap longer than its row runs  *)
(* into the next row, as it does in the code.                              *)
(***************************************************************************)
EXTENDS Integers, Sequences

CONSTANTS
  MAX_BLOCKS_PER_LEVEL,  \* bits in one row of bitmapAddress (16384 in the code)
  Machines,              \* what the boot loader reports: mem_upper, in KB, and
                         \* a memory map, a sequence of [addr, len, available]
  Requests,              \* page counts the callers of allocBlock pass
  LowPages,              \* pages below 1 MB, which mem_upper does not count
  NoBlock                \* what allocBlock returns when it fails (0xFFFFFFFF)

MIN_BLOCK_SIZE == 4096
NUM_LEVELS     == 5
Levels         == 0 .. NUM_LEVELS - 1

(* The pages of one block of a level: MIN_BLOCK_SIZE << level bytes. *)
BlockPages(level) == <<1, 2, 4, 8, 16>>[level + 1]

MemoryMapEntry == [addr : Nat, len : Nat, available : BOOLEAN]

ASSUME RowAssumption == MAX_BLOCKS_PER_LEVEL \in Nat \ {0}

ASSUME MachineAssumption ==
  \A m \in Machines : m.mem_upper \in Nat /\ m.map \in Seq(MemoryMapEntry)

(* Callers ask for at least one page and for no more than the largest      *)
(* block holds: a longer request is cut to that block without an error.    *)
ASSUME RequestAssumption == Requests \subseteq 1 .. BlockPages(NUM_LEVELS - 1)

(* The first megabyte is not counted in mem_upper.  112 pages of it cover  *)
(* what rounding a bitmap up to whole bytes can add: 7 blocks of 16 pages. *)
ASSUME LowAssumption == LowPages \in Nat /\ LowPages >= 7 * 16

ASSUME NoBlockAssumption == NoBlock \notin Nat

VARIABLES
  totalMemory,  \* mem_upper, in KB
  memoryMap,    \* the entries of the boot loader's memory map
  marked,       \* how many of those entries initPMM has processed
  bits,         \* positions of the bits of bitmapAddress that are 1
  result,       \* what the last allocBlock was asked for and returned
  held,         \* history: the pages handed out
  shared        \* history: the pages handed out more than once

vars == <<totalMemory, memoryMap, marked, bits, result, held, shared>>

-----------------------------------------------------------------------------
(* The bitmaps. *)

Bit(level, index) == level * MAX_BLOCKS_PER_LEVEL + index

NumBlocks(level) == totalMemory \div (4 * BlockPages(level))

(* Faulty: the bytes of a bitmap taken for its bits. *)
SearchLimit_BytesForBits(level) == 8 * NumBlocks(level)

(* A bitmap is searched to the end of its last byte. *)
SearchLimit(level) == 8 * ((NumBlocks(level) + 7) \div 8)

(* The bitmaps lie in the array, so that clearing them writes nothing      *)
(* else, and no search reads what is not a bitmap's.  The code does not    *)
(* check it: of five rows, that of the smallest blocks, which may run into *)
(* all others, holds 320 MB.                                               *)
ASSUME ArrayAssumption ==
  \A m \in Machines, level \in Levels :
    Bit(level, 8 * ((m.mem_upper \div (4 * BlockPages(level)) + 7) \div 8))
      <= NUM_LEVELS * MAX_BLOCKS_PER_LEVEL

(* Faulty: the shifts up and down the tree exchanged. *)
indexToLevel_Swapped(source, target, index) ==
  IF target > source THEN index * BlockPages(target - source)
                     ELSE index \div BlockPages(source - target)

indexToLevel(source, target, index) ==
  IF target > source THEN index \div BlockPages(target - source)
                     ELSE index * BlockPages(source - target)

(* Faulty: the loop over the parents stops one level early. *)
Parents_StopEarly(level, index) ==
  {Bit(i, indexToLevel(level, i, index)) : i \in level + 1 .. NUM_LEVELS - 2}

(* The bits of the larger blocks a block lies in. *)
Parents(level, index) ==
  {Bit(i, indexToLevel(level, i, index)) : i \in level + 1 .. NUM_LEVELS - 1}

(* Faulty: rounded down. *)
ChildCount_RoundDown(i, count) == (4 * count) \div ((i + 1) * 4)

(* How many blocks of a smaller level the code marks for a request. *)
ChildCount(i, count) == (4 * count + (i + 1) * 4 - 1) \div ((i + 1) * 4)

Children(level, index, count) ==
  UNION {{Bit(i, indexToLevel(level, i, index) + j) : j \in 0 .. ChildCount(i, count) - 1}
           : i \in 0 .. level - 1}

(* getNearestFreeblock returns index ... *)
NearestFree(level, index) ==
  /\ index \in 0 .. SearchLimit(level) - 1
  /\ Bit(level, index) \notin bits
  /\ \A i \in 0 .. index - 1 : Bit(level, i) \in bits

(* Faulty: the last bit is not looked at. *)
NoneFree_SkipLast(level) == \A i \in 0 .. SearchLimit(level) - 2 : Bit(level, i) \in bits

(* ... or finds none. *)
NoneFree(level) == \A i \in 0 .. SearchLimit(level) - 1 : Bit(level, i) \in bits

(* The level allocBlock serves a request from: the smallest whose blocks   *)
(* hold it, or the largest there is.                                       *)
LevelFor(count, level) ==
  /\ \A l \in Levels : l < level => BlockPages(l) < count
  /\ BlockPages(level) >= count \/ level = NUM_LEVELS - 1

-----------------------------------------------------------------------------
(* Faulty: the length of a region rounded down to pages. *)
RegionPages_RoundDown(region) ==
  LET startBlock == region.addr \div MIN_BLOCK_SIZE
  IN  startBlock .. startBlock + region.len \div MIN_BLOCK_SIZE - 1

(* The pages markRegionAllocated marks for a region. *)
RegionPages(region) ==
  LET startBlock == region.addr \div MIN_BLOCK_SIZE
      numBlocks  == (region.len + MIN_BLOCK_SIZE - 1) \div MIN_BLOCK_SIZE
  IN  startBlock .. startBlock + numBlocks - 1

Init ==
  /\ \E m \in Machines : totalMemory = m.mem_upper /\ memoryMap = m.map
  /\ marked = 0
  /\ bits = {}
  /\ result = [count |-> 0, page |-> NoBlock]
  /\ held = {}
  /\ shared = {}

(* Faulty: available memory is marked too. *)
MarkEntry_AnyType ==
  /\ marked < Len(memoryMap)
  /\ marked' = marked + 1
  /\ bits' = bits \cup UNION {{Bit(0, p)} \cup Parents(0, p) : p \in RegionPages(memoryMap[marked + 1])}
  /\ UNCHANGED <<totalMemory, memoryMap, result, held, shared>>

(* Faulty: an entry taken for two, so that every other one is skipped. *)
MarkEntry_WrongStride ==
  /\ marked < Len(memoryMap)
  /\ marked' = marked + 2
  /\ LET entry == memoryMap[marked + 1]
     IN  bits' = IF entry.available
                   THEN bits
                   ELSE bits \cup UNION {{Bit(0, p)} \cup Parents(0, p) : p \in RegionPages(entry)}
  /\ UNCHANGED <<totalMemory, memoryMap, result, held, shared>>

(* initPMM processes the next entry of the memory map; everything that is  *)
(* not available memory is marked, page by page, with the blocks above it. *)
MarkEntry ==
  /\ marked < Len(memoryMap)
  /\ marked' = marked + 1
  /\ LET entry == memoryMap[marked + 1]
     IN  bits' = IF entry.available
                   THEN bits
                   ELSE bits \cup UNION {{Bit(0, p)} \cup Parents(0, p) : p \in RegionPages(entry)}
  /\ UNCHANGED <<totalMemory, memoryMap, result, held, shared>>

(* The pages the caller may use of the block that starts at page first. *)
GrantedPages(first, count) == first .. first + count - 1

(* allocBlock finds a free block, marks it, its parents and its children,  *)
(* and returns its address.                                                *)
Grant(count, level, index) ==
  /\ NearestFree(level, index)
  /\ bits' = bits \cup {Bit(level, index)}
                  \cup Parents(level, index)
                  \cup Children(level, index, count)
  /\ LET first == index * BlockPages(level)
         pages == GrantedPages(first, count)
     IN  /\ result' = [count |-> count, page |-> first]
         /\ shared' = shared \cup (held \cap pages)
         /\ held' = held \cup pages

Refuse(count, level) ==
  /\ NoneFree(level)
  /\ result' = [count |-> count, page |-> NoBlock]
  /\ UNCHANGED <<bits, held, shared>>

AllocBlock(count) ==
  /\ marked = Len(memoryMap)
  /\ \E level \in Levels :
       /\ LevelFor(count, level)
       /\ \/ \E index \in 0 .. SearchLimit(level) - 1 : Grant(count, level, index)
          \/ Refuse(count, level)
  /\ UNCHANGED <<totalMemory, memoryMap, marked>>

Next == MarkEntry \/ \E count \in Requests : AllocBlock(count)

Spec == Init /\ [][Next]_vars

-----------------------------------------------------------------------------
(* Properties. *)

(* The entries of the memory map that initPMM has marked so far. *)
MarkedRegions == {memoryMap[i] : i \in {j \in 1 .. marked : ~ memoryMap[j].available}}

(* The pages a region touches, whole or in part. *)
TouchedPages(region) ==
  IF region.len = 0 THEN {}
  ELSE region.addr \div MIN_BLOCK_SIZE .. (region.addr + region.len - 1) \div MIN_BLOCK_SIZE

ReservedPages == UNION {RegionPages(r) : r \in MarkedRegions}

(* The variables have the values the code can give them.                   *)
TypeOK ==
  /\ totalMemory \in Nat
  /\ memoryMap \in Seq(MemoryMapEntry)
  /\ marked \in 0 .. Len(memoryMap)
  /\ bits \subseteq Nat
  /\ result \in [count : Nat, page : Nat \cup {NoBlock}]
  /\ held \subseteq Nat
  /\ shared \subseteq held

(* allocBlock never hands out a page that some caller already holds,       *)
(* whatever the mix of request sizes, and even where a bitmap longer than  *)
(* its row shares bits with the next level.                                *)
NoDoubleGrant == shared = {}

(* A page of a region the boot loader reports as reserved is never handed  *)
(* out, not even a page such a region only touches.  It needs a region to  *)
(* start or to end on a page boundary: of one that does neither, the last  *)
(* page is not marked.                                                     *)
PageAligned(r) == \/ r.addr % MIN_BLOCK_SIZE = 0
                  \/ (r.addr + r.len) % MIN_BLOCK_SIZE = 0

ReservedNeverGranted ==
  \A r \in MarkedRegions : PageAligned(r) => TouchedPages(r) \cap held = {}

(* What the two properties above rest on: a page that is held, or marked   *)
(* as reserved, has its bit set in the bitmap of every level, so no search *)
(* at any level can return a block that contains it.                       *)
TakenIsMarked ==
  \A p \in held \cup ReservedPages, l \in Levels : Bit(l, p \div BlockPages(l)) \in bits

(* Nothing above the end of memory is handed out, although a bitmap is     *)
(* searched to the end of its last byte and so beyond its last block.      *)
GrantsInsideMemory == \A p \in held : p < LowPages + totalMemory \div 4

(* No bit is set outside bitmapAddress, behind which the array bitmaps     *)
(* lies in memory.  (That no bitmap is cleared there is ArrayAssumption.)  *)
StorageInBounds == \A b \in bits : b < NUM_LEVELS * MAX_BLOCKS_PER_LEVEL

(* Each bitmap fits its row, and no region lies above what they cover.     *)
RowsFit ==
  /\ \A l \in Levels : SearchLimit(l) * BlockPages(l) <= MAX_BLOCKS_PER_LEVEL
  /\ \A i \in 1 .. Len(memoryMap) :
       ~ memoryMap[i].available => RegionPages(memoryMap[i]) \subseteq 0 .. MAX_BLOCKS_PER_LEVEL - 1

BitsArePages ==
  {p \in 0 .. MAX_BLOCKS_PER_LEVEL - 1 : Bit(0, p) \in bits} = held \cup ReservedPages

(* Where each bitmap fits its row, the lowest bitmap says exactly which    *)
(* pages are taken: marking blocks up and down the tree loses no page.     *)
PageBitsExact == RowsFit => BitsArePages

(* allocBlock implements the page pool its callers rely on: each step of  *)
(* it is a step of the pool, or leaves the pool as it is.                  *)
Pool == INSTANCE PagePool WITH end <- LowPages + totalMemory \div 4, reserved <- ReservedPages

PoolSpec == Pool!Spec

(* There, a request for one page is refused only when no page is left.     *)
RefusedOnlyWhenFull ==
  RowsFit /\ result = [count |-> 1, page |-> NoBlock]
    => 0 .. totalMemory \div 4 - 1 \subseteq held \cup ReservedPages

(* What the legend of printBuddyVisualization says: a block shown as       *)
(* allocated has a page that is.                                           *)
MarkedIsAllocated ==
  \A l \in Levels : \A i \in 0 .. NumBlocks(l) - 1 :
    Bit(l, i) \in bits
      => \E p \in GrantedPages(i * BlockPages(l), BlockPages(l)) : p \in held \cup ReservedPages

=============================================================================
