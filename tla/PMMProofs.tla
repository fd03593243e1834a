------------------------------ MODULE PMMProofs ------------------------------
(***************************************************************************)
(* What PMM promises for every memory size, memory map and mix of request  *)
(* sizes, proved from one inductive invariant: a page that is taken has    *)
(* its bit set in the bitmap of every level.                               *)
(***************************************************************************)
EXTENDS PMM, TLAPS

(* The five levels and their block sizes. *)
LEMMA LevelCases ==
  /\ Levels = {0, 1, 2, 3, 4}
  /\ BlockPages(0) = 1
  /\ BlockPages(1) = 2
  /\ BlockPages(2) = 4
  /\ BlockPages(3) = 8
  /\ BlockPages(4) = 16
BY DEF Levels, NUM_LEVELS, BlockPages

LEMMA BitNat == ASSUME NEW level \in Levels, NEW index \in Nat
                PROVE  Bit(level, index) \in Nat
<1>1. level * MAX_BLOCKS_PER_LEVEL \in Nat
  BY LevelCases, RowAssumption
<1> QED BY <1>1 DEF Bit

(* A request fits into one block of the level that serves it. *)
LEMMA RequestFits == ASSUME NEW count \in Requests, NEW level \in Levels, LevelFor(count, level)
                     PROVE  count \in Nat \ {0} /\ count <= BlockPages(level)
BY LevelCases, RequestAssumption DEF LevelFor, NUM_LEVELS

(* The pages of a grant all lie in the block it was cut from. *)
LEMMA GrantInBlock ==
  ASSUME NEW count \in Nat, NEW level \in Levels, count <= BlockPages(level),
         NEW index \in Nat, NEW p \in GrantedPages(index * BlockPages(level), count)
  PROVE  /\ p \in Nat
         /\ p \div BlockPages(level) = index
         /\ p < (index + 1) * BlockPages(level)
<1> USE LevelCases DEF GrantedPages
<1>0. CASE level = 0  BY <1>0
<1>1. CASE level = 1  BY <1>1
<1>2. CASE level = 2  BY <1>2
<1>3. CASE level = 3  BY <1>3
<1>4. CASE level = 4  BY <1>4
<1> QED BY <1>0, <1>1, <1>2, <1>3, <1>4

(* A page's block on a higher level is the parent of its block. *)
LEMMA ParentOf ==
  ASSUME NEW level \in Levels, NEW l \in Levels, level < l, NEW p \in Nat
  PROVE  p \div BlockPages(l) = indexToLevel(level, l, p \div BlockPages(level))
<1> USE LevelCases DEF indexToLevel
<1>0. CASE level = 0  BY <1>0
<1>1. CASE level = 1  BY <1>1
<1>2. CASE level = 2  BY <1>2
<1>3. CASE level = 3  BY <1>3
<1> QED BY <1>0, <1>1, <1>2, <1>3

(* The code marks enough blocks on every lower level to cover the grant. *)
LEMMA ChildOf ==
  ASSUME NEW count \in Nat \ {0}, NEW level \in Levels, count <= BlockPages(level),
         NEW l \in Levels, l < level,
         NEW index \in Nat, NEW p \in GrantedPages(index * BlockPages(level), count)
  PROVE  \E j \in 0 .. ChildCount(l, count) - 1 :
           p \div BlockPages(l) = indexToLevel(level, l, index) + j
<1> DEFINE j == p \div BlockPages(l) - indexToLevel(level, l, index)
<1> SUFFICES j \in 0 .. ChildCount(l, count) - 1 /\ indexToLevel(level, l, index) \in Int
                /\ p \div BlockPages(l) \in Int
  OBVIOUS
<1> USE LevelCases DEF GrantedPages, ChildCount, indexToLevel
<1>1. CASE level = 1  BY <1>1
<1>2. CASE level = 2
  <2>0. CASE l = 0  BY <1>2, <2>0
  <2>1. CASE l = 1  BY <1>2, <2>1
  <2> QED BY <1>2, <2>0, <2>1
<1>3. CASE level = 3
  <2>0. CASE l = 0  BY <1>3, <2>0
  <2>1. CASE l = 1  BY <1>3, <2>1
  <2>2. CASE l = 2  BY <1>3, <2>2
  <2> QED BY <1>3, <2>0, <2>1, <2>2
<1>4. CASE level = 4
  <2>0. CASE l = 0  BY <1>4, <2>0
  <2>1. CASE l = 1  BY <1>4, <2>1
  <2>2. CASE l = 2  BY <1>4, <2>2
  <2>3. CASE l = 3  BY <1>4, <2>3
  <2> QED BY <1>4, <2>0, <2>1, <2>2, <2>3
<1> QED BY <1>1, <1>2, <1>3, <1>4

-----------------------------------------------------------------------------
(* What a grant sets. *)
GrantBits(count, level, index) ==
  {Bit(level, index)} \cup Parents(level, index) \cup Children(level, index, count)

(* Every page of a grant has its bit among those the grant sets, on every  *)
(* level.                                                                  *)
LEMMA GrantMarked ==
  ASSUME NEW count \in Requests, NEW level \in Levels, LevelFor(count, level),
         NEW index \in Nat, NEW p \in GrantedPages(index * BlockPages(level), count),
         NEW l \in Levels
  PROVE  Bit(l, p \div BlockPages(l)) \in GrantBits(count, level, index)
<1>1. count \in Nat \ {0} /\ count <= BlockPages(level)
  BY RequestFits
<1>2. p \in Nat /\ p \div BlockPages(level) = index
  BY <1>1, GrantInBlock
<1>3. CASE l = level
  BY <1>2, <1>3 DEF GrantBits
<1>4. CASE level < l
  <2>1. p \div BlockPages(l) = indexToLevel(level, l, index)
    BY <1>2, <1>4, ParentOf
  <2>2. l \in level + 1 .. NUM_LEVELS - 1
    BY <1>4, LevelCases DEF NUM_LEVELS
  <2> QED BY <2>1, <2>2 DEF GrantBits, Parents
<1>5. CASE l < level
  <2>1. PICK j \in 0 .. ChildCount(l, count) - 1 :
               p \div BlockPages(l) = indexToLevel(level, l, index) + j
    BY <1>1, <1>5, ChildOf
  <2>2. l \in 0 .. level - 1
    BY <1>5, LevelCases
  <2> QED BY <2>1, <2>2 DEF GrantBits, Children
<1> QED BY <1>3, <1>4, <1>5, LevelCases

(* Marking page p as reserved sets its bit on every level. *)
LEMMA ReservedMarked ==
  ASSUME NEW p \in Nat, NEW l \in Levels
  PROVE  Bit(l, p \div BlockPages(l)) \in {Bit(0, p)} \cup Parents(0, p)
<1>1. CASE l = 0
  <2>1. p \div BlockPages(l) = p
    BY <1>1, LevelCases
  <2> QED BY <1>1, <2>1
<1>2. CASE 0 < l
  <2>1. p \div BlockPages(0) = p
    BY LevelCases
  <2>2. p \div BlockPages(l) = indexToLevel(0, l, p)
    BY <1>2, <2>1, ParentOf, LevelCases
  <2>3. l \in 0 + 1 .. NUM_LEVELS - 1
    BY <1>2, LevelCases DEF NUM_LEVELS
  <2> QED BY <2>2, <2>3 DEF Parents
<1> QED BY <1>1, <1>2, LevelCases

(* indexToLevel keeps to the naturals. *)
LEMMA IndexNat ==
  ASSUME NEW level \in Levels, NEW l \in Levels, NEW index \in Nat
  PROVE  indexToLevel(level, l, index) \in Nat
<1> USE LevelCases DEF indexToLevel
<1>0. CASE level = 0  BY <1>0
<1>1. CASE level = 1  BY <1>1
<1>2. CASE level = 2  BY <1>2
<1>3. CASE level = 3  BY <1>3
<1>4. CASE level = 4  BY <1>4
<1> QED BY <1>0, <1>1, <1>2, <1>3, <1>4

(* Every bit the code sets has a position in the array. *)
LEMMA MarksAreNat ==
  ASSUME NEW level \in Levels, NEW index \in Nat, NEW count \in Nat
  PROVE  GrantBits(count, level, index) \subseteq Nat
<1>1. \A l \in Levels : indexToLevel(level, l, index) \in Nat
  BY IndexNat
<1>2. Bit(level, index) \in Nat
  BY BitNat
<1>3. Parents(level, index) \subseteq Nat
  <2> SUFFICES ASSUME NEW i \in level + 1 .. NUM_LEVELS - 1
               PROVE  Bit(i, indexToLevel(level, i, index)) \in Nat
    BY DEF Parents
  <2>1. i \in Levels
    BY LevelCases DEF NUM_LEVELS
  <2> QED BY <1>1, <2>1, BitNat
<1>4. Children(level, index, count) \subseteq Nat
  <2> SUFFICES ASSUME NEW i \in 0 .. level - 1, NEW j \in 0 .. ChildCount(i, count) - 1
               PROVE  Bit(i, indexToLevel(level, i, index) + j) \in Nat
    BY DEF Children
  <2>1. i \in Levels
    BY LevelCases
  <2>2. indexToLevel(level, i, index) + j \in Nat
    BY <1>1, <2>1
  <2> QED BY <2>1, <2>2, BitNat
<1> QED BY <1>2, <1>3, <1>4 DEF GrantBits

-----------------------------------------------------------------------------
(* The inductive invariant.  Disjointness alone is not inductive: it holds *)
(* after a grant because the bits of all taken pages were set before it.   *)
Inv ==
  /\ TypeOK
  /\ TakenIsMarked
  /\ NoDoubleGrant
  /\ GrantsInsideMemory
  /\ held \cap ReservedPages = {}
  /\ marked < Len(memoryMap) => held = {}

(* The search of a level ends inside memory, rounding included. *)
LEMMA SearchEndsInMemory ==
  ASSUME totalMemory \in Nat, NEW level \in Levels, NEW index \in 0 .. SearchLimit(level) - 1
  PROVE  (index + 1) * BlockPages(level) <= LowPages + totalMemory \div 4
<1> USE LevelCases, LowAssumption DEF SearchLimit, NumBlocks
<1>0. CASE level = 0  BY <1>0
<1>1. CASE level = 1  BY <1>1
<1>2. CASE level = 2  BY <1>2
<1>3. CASE level = 3  BY <1>3
<1>4. CASE level = 4  BY <1>4
<1> QED BY <1>0, <1>1, <1>2, <1>3, <1>4

(* The pages of a region of the memory map. *)
LEMMA RegionPagesNat ==
  ASSUME NEW r \in MemoryMapEntry
  PROVE  RegionPages(r) \subseteq Nat
BY DEF RegionPages, MemoryMapEntry, MIN_BLOCK_SIZE

(* The pages a page-aligned region touches are the pages that are marked. *)
LEMMA AlignedRegionCovered ==
  ASSUME NEW r \in MemoryMapEntry, PageAligned(r)
  PROVE  TouchedPages(r) \subseteq RegionPages(r)
BY DEF RegionPages, TouchedPages, PageAligned, MemoryMapEntry, MIN_BLOCK_SIZE

(* The regions marked so far are entries of a well-formed memory map. *)
LEMMA MarkedRegionsType ==
  ASSUME TypeOK
  PROVE  /\ MarkedRegions \subseteq MemoryMapEntry
         /\ ReservedPages \subseteq Nat
<1>1. memoryMap \in Seq(MemoryMapEntry)
  BY MachineAssumption DEF TypeOK
<1>2. MarkedRegions \subseteq MemoryMapEntry
  BY <1>1 DEF MarkedRegions, TypeOK
<1> QED BY <1>2, RegionPagesNat DEF ReservedPages

LEMMA InitInv == Init => Inv
<1> SUFFICES ASSUME Init PROVE Inv
  OBVIOUS
<1>1. TypeOK
  BY MachineAssumption DEF Init, TypeOK
<1>2. MarkedRegions = {}
  BY DEF Init, MarkedRegions
<1> QED
  BY <1>1, <1>2 DEF Init, Inv, TakenIsMarked, NoDoubleGrant, GrantsInsideMemory, ReservedPages

LEMMA MarkEntryInv == Inv /\ MarkEntry => Inv'
<1> SUFFICES ASSUME Inv, MarkEntry PROVE Inv'
  OBVIOUS
<1> USE DEF Inv
<1> DEFINE entry == memoryMap[marked + 1]
<1>1. /\ marked < Len(memoryMap)
      /\ marked' = marked + 1
      /\ UNCHANGED <<totalMemory, memoryMap, result, held, shared>>
  BY DEF MarkEntry
<1>2. memoryMap \in Seq(MemoryMapEntry) /\ marked \in 0 .. Len(memoryMap)
  BY MachineAssumption DEF TypeOK
<1>3. entry \in MemoryMapEntry
  BY <1>1, <1>2
<1>4. bits' = IF entry.available
                THEN bits
                ELSE bits \cup UNION {{Bit(0, p)} \cup Parents(0, p) : p \in RegionPages(entry)}
  BY DEF MarkEntry
<1>5. TypeOK'
  <2>1. \A p \in RegionPages(entry) : {Bit(0, p)} \cup Parents(0, p) \subseteq Nat
    BY <1>3, RegionPagesNat, MarksAreNat, LevelCases DEF GrantBits
  <2>2. bits' \subseteq Nat
    BY <1>4, <2>1 DEF TypeOK
  <2> QED BY <1>1, <1>2, <2>2 DEF TypeOK
<1>6. MarkedRegions' = MarkedRegions \cup (IF entry.available THEN {} ELSE {entry})
  BY <1>1, <1>2, Z3 DEF MarkedRegions
<1>7. ReservedPages' = ReservedPages \cup (IF entry.available THEN {} ELSE RegionPages(entry))
  BY <1>6 DEF ReservedPages
<1>8. held = {}
  BY <1>1
<1>9. TakenIsMarked'
  <2> SUFFICES ASSUME NEW p \in (held \cup ReservedPages)', NEW l \in Levels
               PROVE  Bit(l, p \div BlockPages(l)) \in bits'
    BY DEF TakenIsMarked
  <2>1. CASE p \in ReservedPages
    BY <1>4, <2>1 DEF TakenIsMarked
  <2>2. CASE p \notin ReservedPages
    <3>1. ~ entry.available /\ p \in RegionPages(entry)
      BY <1>1, <1>7, <1>8, <2>2
    <3>2. p \in Nat
      BY <1>3, <3>1, RegionPagesNat
    <3>3. Bit(l, p \div BlockPages(l)) \in {Bit(0, p)} \cup Parents(0, p)
      BY <3>2, ReservedMarked
    <3> QED BY <1>4, <3>1, <3>3
  <2> QED BY <2>1, <2>2
<1> QED BY <1>1, <1>5, <1>8, <1>9 DEF NoDoubleGrant, GrantsInsideMemory

(* A grant takes pages of memory that were neither held nor reserved. *)
LEMMA GrantFacts ==
  ASSUME Inv, NEW count \in Requests, NEW level \in Levels, LevelFor(count, level),
         NEW index \in 0 .. SearchLimit(level) - 1, Grant(count, level, index),
         UNCHANGED <<totalMemory, memoryMap, marked>>,
         NEW pages, pages = GrantedPages(index * BlockPages(level), count)
  PROVE  /\ bits' = bits \cup GrantBits(count, level, index)
         /\ result' = [count |-> count, page |-> index * BlockPages(level)]
         /\ index * BlockPages(level) \in Nat
         /\ shared' = shared \cup (held \cap pages)
         /\ held' = held \cup pages
         /\ (held \cup ReservedPages) \cap pages = {}
         /\ pages \subseteq Nat
         /\ \A p \in pages : p < LowPages + totalMemory \div 4
         /\ MarkedRegions' = MarkedRegions
         /\ ReservedPages' = ReservedPages
<1> USE DEF Inv
<1>1. /\ Bit(level, index) \notin bits
      /\ bits' = bits \cup GrantBits(count, level, index)
      /\ result' = [count |-> count, page |-> index * BlockPages(level)]
      /\ shared' = shared \cup (held \cap pages)
      /\ held' = held \cup pages
  BY DEF Grant, NearestFree, GrantBits
<1>2. totalMemory \in Nat /\ index \in Nat
  <2>1. totalMemory \in Nat
    BY MachineAssumption DEF TypeOK
  <2> QED BY <2>1
<1>3. index * BlockPages(level) \in Nat
  BY <1>2, LevelCases
<1>4. count \in Nat \ {0} /\ count <= BlockPages(level)
  BY RequestFits
<1>5. \A p \in pages : /\ p \in Nat
                       /\ p \div BlockPages(level) = index
                       /\ p < (index + 1) * BlockPages(level)
  BY <1>2, <1>4, GrantInBlock
<1>6. (held \cup ReservedPages) \cap pages = {}
  BY <1>1, <1>5 DEF TakenIsMarked
<1>7. \A p \in pages : p < LowPages + totalMemory \div 4
  <2>1. (index + 1) * BlockPages(level) <= LowPages + totalMemory \div 4
    BY <1>2, SearchEndsInMemory
  <2>2. (index + 1) * BlockPages(level) \in Nat /\ LowPages + totalMemory \div 4 \in Nat
    BY <1>2, LevelCases, LowAssumption
  <2> QED BY <1>5, <2>1, <2>2
<1>8. MarkedRegions' = MarkedRegions /\ ReservedPages' = ReservedPages
  BY DEF MarkedRegions, ReservedPages
<1> QED BY <1>1, <1>3, <1>5, <1>6, <1>7, <1>8

LEMMA GrantInv ==
  ASSUME Inv, NEW count \in Requests, NEW level \in Levels, LevelFor(count, level),
         NEW index \in 0 .. SearchLimit(level) - 1, Grant(count, level, index),
         marked = Len(memoryMap), UNCHANGED <<totalMemory, memoryMap, marked>>
  PROVE  Inv'
<1> USE DEF Inv
<1> DEFINE pages == GrantedPages(index * BlockPages(level), count)
<1>1. /\ bits' = bits \cup GrantBits(count, level, index)
      /\ result' = [count |-> count, page |-> index * BlockPages(level)]
      /\ index * BlockPages(level) \in Nat
      /\ shared' = shared \cup (held \cap pages)
      /\ held' = held \cup pages
      /\ (held \cup ReservedPages) \cap pages = {}
      /\ pages \subseteq Nat
      /\ \A p \in pages : p < LowPages + totalMemory \div 4
      /\ ReservedPages' = ReservedPages
  BY GrantFacts
<1>2. count \in Nat /\ index \in Nat
  BY RequestFits
<1>3. TypeOK'
  <2>1. bits' \subseteq Nat
    BY <1>1, <1>2, MarksAreNat DEF TypeOK
  <2> QED BY <1>1, <1>2, <2>1 DEF TypeOK
<1>4. TakenIsMarked'
  <2> SUFFICES ASSUME NEW p \in held' \cup ReservedPages', NEW l \in Levels
               PROVE  Bit(l, p \div BlockPages(l)) \in bits'
    BY DEF TakenIsMarked
  <2>1. CASE p \in held \cup ReservedPages
    BY <1>1, <2>1 DEF TakenIsMarked
  <2>2. CASE p \in pages
    BY <1>1, <1>2, <2>2, GrantMarked
  <2> QED BY <1>1, <2>1, <2>2
<1>5. NoDoubleGrant'
  BY <1>1 DEF NoDoubleGrant
<1>6. GrantsInsideMemory'
  BY <1>1 DEF GrantsInsideMemory
<1> QED BY <1>1, <1>3, <1>4, <1>5, <1>6

LEMMA RefuseInv ==
  ASSUME Inv, NEW count \in Requests, NEW level \in Levels, Refuse(count, level),
         UNCHANGED <<totalMemory, memoryMap, marked>>
  PROVE  Inv'
<1>1. MarkedRegions' = MarkedRegions /\ ReservedPages' = ReservedPages
  BY DEF MarkedRegions, ReservedPages
<1>2. TypeOK'
  BY RequestAssumption, LevelCases DEF Inv, TypeOK, Refuse, NUM_LEVELS
<1> QED
  BY <1>1, <1>2 DEF Inv, Refuse, TakenIsMarked, NoDoubleGrant, GrantsInsideMemory

LEMMA NextInv == Inv /\ [Next]_vars => Inv'
<1> SUFFICES ASSUME Inv, [Next]_vars PROVE Inv'
  OBVIOUS
<1>1. CASE MarkEntry
  BY <1>1, MarkEntryInv
<1>2. ASSUME NEW count \in Requests, AllocBlock(count) PROVE Inv'
  <2>1. PICK level \in Levels :
          /\ LevelFor(count, level)
          /\ \/ \E index \in 0 .. SearchLimit(level) - 1 : Grant(count, level, index)
             \/ Refuse(count, level)
    BY <1>2 DEF AllocBlock
  <2>2. marked = Len(memoryMap) /\ UNCHANGED <<totalMemory, memoryMap, marked>>
    BY <1>2 DEF AllocBlock
  <2>3. ASSUME NEW index \in 0 .. SearchLimit(level) - 1, Grant(count, level, index) PROVE Inv'
    BY <2>1, <2>2, <2>3, GrantInv
  <2>4. CASE Refuse(count, level)
    BY <2>2, <2>4, RefuseInv
  <2> QED BY <2>1, <2>3, <2>4
<1>3. CASE UNCHANGED vars
  BY <1>3 DEF vars, Inv, TypeOK, TakenIsMarked, NoDoubleGrant, GrantsInsideMemory,
              ReservedPages, MarkedRegions
<1> QED BY <1>1, <1>2, <1>3 DEF Next

LEMMA Invariance == Spec => []Inv
BY InitInv, NextInv, PTL DEF Spec

-----------------------------------------------------------------------------
(* For every memory size, memory map and sequence of requests the          *)
(* allocator's variables keep their types.                                 *)
THEOREM TypeCorrect == Spec => []TypeOK
<1>1. Inv => TypeOK
  BY DEF Inv
<1> QED BY <1>1, Invariance, PTL

(* A taken page is marked on every level: PMM.cpp sets enough bits up and  *)
(* down the tree for every request of up to 16 pages.                      *)
THEOREM TakenMarked == Spec => []TakenIsMarked
<1>1. Inv => TakenIsMarked
  BY DEF Inv
<1> QED BY <1>1, Invariance, PTL

(* No page is handed out twice, whatever the row length: also where the    *)
(* bitmap of a level runs into the row of the next.                        *)
THEOREM DisjointGrants == Spec => []NoDoubleGrant
<1>1. Inv => NoDoubleGrant
  BY DEF Inv
<1> QED BY <1>1, Invariance, PTL

(* No page above the end of memory is handed out, whatever the rounding of *)
(* the bitmaps adds to the search.                                         *)
THEOREM InsideMemory == Spec => []GrantsInsideMemory
<1>1. Inv => GrantsInsideMemory
  BY DEF Inv
<1> QED BY <1>1, Invariance, PTL

(* No page touched by a page-aligned reserved region is handed out. *)
THEOREM ReservedSafe == Spec => []ReservedNeverGranted
<1>1. Inv => ReservedNeverGranted
  <2> SUFFICES ASSUME Inv, NEW r \in MarkedRegions, PageAligned(r)
               PROVE  TouchedPages(r) \cap held = {}
    BY DEF ReservedNeverGranted
  <2>1. TouchedPages(r) \subseteq RegionPages(r)
    BY AlignedRegionCovered, MarkedRegionsType DEF Inv
  <2> QED BY <2>1 DEF Inv, ReservedPages
<1> QED BY <1>1, Invariance, PTL

-----------------------------------------------------------------------------
(* The allocator implements the page pool. *)

LEMMA InitPool == Init => Pool!Init
<1> SUFFICES ASSUME Init PROVE Pool!Init
  OBVIOUS
<1>1. ReservedPages = {}
  BY DEF Init, ReservedPages, MarkedRegions
<1>2. LowPages + totalMemory \div 4 \in Nat
  BY MachineAssumption, LowAssumption DEF Init
<1> QED BY <1>1, <1>2 DEF Init, Pool!Init

LEMMA MarkEntryPool == Inv /\ MarkEntry => Pool!Reserve
<1> SUFFICES ASSUME Inv, MarkEntry PROVE Pool!Reserve
  OBVIOUS
<1>1. marked \in Nat /\ marked' = marked + 1 /\ held = {}
      /\ UNCHANGED <<totalMemory, memoryMap, held, result>>
  BY DEF Inv, MarkEntry, TypeOK
<1>2. MarkedRegions \subseteq MarkedRegions'
  BY <1>1 DEF MarkedRegions
<1>3. ReservedPages \subseteq ReservedPages'
  BY <1>2 DEF ReservedPages
<1> QED BY <1>1, <1>3 DEF Pool!Reserve

(* Every block starts at a multiple of its size, and no smaller block      *)
(* would have held the request.                                            *)
LEMMA BlocksAligned ==
  ASSUME NEW count \in Requests, NEW level \in Levels, LevelFor(count, level), NEW index \in Nat
  PROVE  Pool!Aligned(index * BlockPages(level), count)
<1>1. count \in 1 .. 16
  BY RequestAssumption, LevelCases DEF NUM_LEVELS
<1>2. BlockPages(level) >= count /\ BlockPages(level) < 2 * count
  BY <1>1, LevelCases DEF LevelFor, NUM_LEVELS
<1>3. BlockPages(level) \in {1, 2, 4, 8, 16} /\ (index * BlockPages(level)) % BlockPages(level) = 0
  BY LevelCases
<1> QED BY <1>2, <1>3 DEF Pool!Aligned

LEMMA NextPool == Inv /\ [Next]_vars => [Pool!Next]_(Pool!poolVars)
<1> SUFFICES ASSUME Inv, [Next]_vars PROVE [Pool!Next]_(Pool!poolVars)
  OBVIOUS
<1>1. CASE MarkEntry
  BY <1>1, MarkEntryPool DEF Pool!Next
<1>2. ASSUME NEW count \in Requests, AllocBlock(count) PROVE Pool!Next
  <2>1. PICK level \in Levels :
          /\ LevelFor(count, level)
          /\ \/ \E index \in 0 .. SearchLimit(level) - 1 : Grant(count, level, index)
             \/ Refuse(count, level)
    BY <1>2 DEF AllocBlock
  <2>2. UNCHANGED <<totalMemory, memoryMap, marked>>
    BY <1>2 DEF AllocBlock
  <2>3. ASSUME NEW index \in 0 .. SearchLimit(level) - 1, Grant(count, level, index)
        PROVE  Pool!Give(count)
    <3> DEFINE pages == GrantedPages(index * BlockPages(level), count)
    <3>1. /\ result' = [count |-> count, page |-> index * BlockPages(level)]
          /\ index * BlockPages(level) \in Nat
          /\ held' = held \cup pages
          /\ (held \cup ReservedPages) \cap pages = {}
          /\ \A p \in pages : p < LowPages + totalMemory \div 4
          /\ ReservedPages' = ReservedPages
      BY <2>1, <2>2, <2>3, GrantFacts
    <3>2. Pool!Aligned(index * BlockPages(level), count)
      BY <2>1, BlocksAligned
    <3>3. pages = Pool!Run(index * BlockPages(level), count)
      BY DEF GrantedPages, Pool!Run
    <3> QED BY <2>2, <3>1, <3>2, <3>3 DEF Pool!Give
  <2>4. ASSUME Refuse(count, level) PROVE Pool!Decline(count)
    BY <2>2, <2>4 DEF Refuse, Pool!Decline, ReservedPages, MarkedRegions
  <2> QED BY <2>1, <2>3, <2>4 DEF Pool!Next
<1>3. CASE UNCHANGED vars
  BY <1>3 DEF vars, Pool!poolVars, ReservedPages, MarkedRegions
<1> QED BY <1>1, <1>2, <1>3 DEF Next

(* Whatever allocBlock does with its bitmaps, its callers see a page pool. *)
THEOREM ImplementsPool == Spec => PoolSpec
BY InitPool, NextPool, Invariance, PTL DEF Spec, PoolSpec, Pool!Spec

-----------------------------------------------------------------------------
(* Where every bitmap fits its row, no page is lost and no bit is set      *)
(* outside bitmapAddress.                                                  *)

(* A bit of the lowest bitmap is a page; the other bitmaps lie after it. *)
LEMMA LowestRow ==
  ASSUME NEW l \in Levels, NEW index \in Nat
  PROVE  /\ l = 0 => Bit(l, index) = index
         /\ l # 0 => Bit(l, index) >= MAX_BLOCKS_PER_LEVEL
<1>1. MAX_BLOCKS_PER_LEVEL \in Nat \ {0}
  BY RowAssumption
<1>2. CASE l = 0  BY <1>1, <1>2 DEF Bit
<1>3. CASE l = 1  BY <1>1, <1>3 DEF Bit
<1>4. CASE l = 2  BY <1>1, <1>4 DEF Bit
<1>5. CASE l = 3  BY <1>1, <1>5 DEF Bit
<1>6. CASE l = 4  BY <1>1, <1>6 DEF Bit
<1> QED BY <1>2, <1>3, <1>4, <1>5, <1>6, LevelCases

(* In the lowest bitmap a grant sets the bits of its pages and no others. *)
LEMMA GrantLowestRow ==
  ASSUME NEW count \in Requests, NEW level \in Levels, LevelFor(count, level), NEW index \in Nat,
         NEW p \in 0 .. MAX_BLOCKS_PER_LEVEL - 1
  PROVE  p \in GrantBits(count, level, index)
           <=> p \in GrantedPages(index * BlockPages(level), count)
<1>1. count \in Nat \ {0} /\ count <= BlockPages(level)
  BY RequestFits
<1>2. p \notin Parents(level, index)
  <2>1. \A i \in level + 1 .. NUM_LEVELS - 1 :
          Bit(i, indexToLevel(level, i, index)) >= MAX_BLOCKS_PER_LEVEL
    <3> SUFFICES ASSUME NEW i \in level + 1 .. NUM_LEVELS - 1
                 PROVE  Bit(i, indexToLevel(level, i, index)) >= MAX_BLOCKS_PER_LEVEL
      OBVIOUS
    <3>1. i \in Levels /\ i # 0
      BY LevelCases DEF NUM_LEVELS
    <3> QED BY <3>1, IndexNat, LowestRow
  <2> QED BY <2>1, RowAssumption DEF Parents
<1>3. CASE level = 0
  <2>1. Bit(level, index) = index /\ count = 1 /\ index * BlockPages(level) = index
    BY <1>1, <1>3, LowestRow, LevelCases
  <2>2. Children(level, index, count) = {}
    BY <1>3 DEF Children
  <2>3. GrantedPages(index, 1) = {index}
    BY DEF GrantedPages
  <2> QED BY <1>2, <2>1, <2>2, <2>3 DEF GrantBits
<1>4. CASE level # 0
  <2>1. p # Bit(level, index)
    BY <1>4, LowestRow, RowAssumption
  <2>2. p \in Children(level, index, count)
          <=> \E j \in 0 .. ChildCount(0, count) - 1 : p = indexToLevel(level, 0, index) + j
    <3>1. ASSUME NEW i \in 0 .. level - 1, i # 0, NEW j \in 0 .. ChildCount(i, count) - 1
          PROVE  p # Bit(i, indexToLevel(level, i, index) + j)
      <4>1. i \in Levels
        BY LevelCases
      <4>2. indexToLevel(level, i, index) + j \in Nat
        BY <4>1, IndexNat
      <4> QED BY <3>1, <4>1, <4>2, LowestRow, RowAssumption
    <3>2. ASSUME NEW j \in 0 .. ChildCount(0, count) - 1
          PROVE  Bit(0, indexToLevel(level, 0, index) + j) = indexToLevel(level, 0, index) + j
      <4>1. 0 \in Levels /\ indexToLevel(level, 0, index) \in Nat
        BY IndexNat, LevelCases
      <4>2. j \in Nat
        BY <1>1 DEF ChildCount
      <4> QED BY <4>1, <4>2, LowestRow
    <3>3. 0 \in 0 .. level - 1
      BY <1>4, LevelCases
    <3> QED BY <3>1, <3>2, <3>3 DEF Children
  <2>3. ChildCount(0, count) = count
    BY <1>1 DEF ChildCount
  <2>4. indexToLevel(level, 0, index) = index * BlockPages(level) /\ index * BlockPages(level) \in Nat
    BY <1>4, LevelCases DEF indexToLevel
  <2>5. (\E j \in 0 .. count - 1 : p = index * BlockPages(level) + j)
          <=> p \in GrantedPages(index * BlockPages(level), count)
    <3> DEFINE first == index * BlockPages(level)
    <3>1. first \in Nat
      BY <2>4
    <3> HIDE DEF first
    <3>2. p \in first .. first + count - 1 <=> p - first \in 0 .. count - 1
      BY <1>1, <3>1
    <3>3. (\E j \in 0 .. count - 1 : p = first + j) <=> p - first \in 0 .. count - 1
      BY <1>1, <3>1
    <3> QED BY <3>2, <3>3 DEF first, GrantedPages
  <2> QED BY <1>2, <2>1, <2>2, <2>3, <2>4, <2>5 DEF GrantBits
<1> QED BY <1>3, <1>4

(* Marking a reserved page sets its own bit of the lowest bitmap only. *)
LEMMA ReservedLowestRow ==
  ASSUME NEW q \in Nat, NEW p \in 0 .. MAX_BLOCKS_PER_LEVEL - 1
  PROVE  p \in {Bit(0, q)} \cup Parents(0, q) <=> p = q
<1>1. Bit(0, q) = q
  BY LowestRow, LevelCases
<1>2. \A i \in 1 .. NUM_LEVELS - 1 : Bit(i, indexToLevel(0, i, q)) >= MAX_BLOCKS_PER_LEVEL
  <2> SUFFICES ASSUME NEW i \in 1 .. NUM_LEVELS - 1
               PROVE  Bit(i, indexToLevel(0, i, q)) >= MAX_BLOCKS_PER_LEVEL
    OBVIOUS
  <2>1. i \in Levels /\ i # 0 /\ 0 \in Levels
    BY LevelCases DEF NUM_LEVELS
  <2> QED BY <2>1, IndexNat, LowestRow
<1> QED BY <1>1, <1>2, RowAssumption DEF Parents

(* The last bit a block, its parents or its children can have. *)
LEMMA GrantInStorage ==
  ASSUME NEW count \in Nat \ {0}, NEW level \in Levels, count <= BlockPages(level), NEW index \in Nat,
         (index + 1) * BlockPages(level) <= MAX_BLOCKS_PER_LEVEL
  PROVE  \A b \in GrantBits(count, level, index) : b < NUM_LEVELS * MAX_BLOCKS_PER_LEVEL
<1>1. count \in Nat \ {0} /\ count <= BlockPages(level)
  OBVIOUS
<1>2. ASSUME NEW l \in Levels, NEW i \in Nat, i < MAX_BLOCKS_PER_LEVEL
      PROVE  Bit(l, i) < NUM_LEVELS * MAX_BLOCKS_PER_LEVEL
  <2>1. MAX_BLOCKS_PER_LEVEL \in Nat
    BY RowAssumption
  <2> USE <1>2, <2>1 DEF Bit, NUM_LEVELS
  <2>2. CASE l = 0  BY <2>2
  <2>3. CASE l = 1  BY <2>3
  <2>4. CASE l = 2  BY <2>4
  <2>5. CASE l = 3  BY <2>5
  <2>6. CASE l = 4  BY <2>6
  <2> QED BY <2>2, <2>3, <2>4, <2>5, <2>6, LevelCases
<1>3. index < MAX_BLOCKS_PER_LEVEL
  BY LevelCases, RowAssumption
<1>4. ASSUME NEW i \in level + 1 .. NUM_LEVELS - 1
      PROVE  i \in Levels /\ indexToLevel(level, i, index) < MAX_BLOCKS_PER_LEVEL
  <2> USE LevelCases, RowAssumption DEF indexToLevel, NUM_LEVELS
  <2>0. CASE level = 0  BY <1>3, <2>0
  <2>1. CASE level = 1  BY <1>3, <2>1
  <2>2. CASE level = 2  BY <1>3, <2>2
  <2>3. CASE level = 3  BY <1>3, <2>3
  <2>4. CASE level = 4  BY <1>3, <2>4
  <2> QED BY <2>0, <2>1, <2>2, <2>3, <2>4
<1>5. ASSUME NEW i \in 0 .. level - 1, NEW j \in 0 .. ChildCount(i, count) - 1
      PROVE  /\ i \in Levels
             /\ indexToLevel(level, i, index) + j \in Nat
             /\ indexToLevel(level, i, index) + j < MAX_BLOCKS_PER_LEVEL
  <2> USE <1>1, LevelCases, RowAssumption DEF indexToLevel, ChildCount
  <2>1. CASE level = 1  BY <2>1
  <2>2. CASE level = 2
    <3>0. CASE i = 0  BY <2>2, <3>0
    <3>1. CASE i = 1  BY <2>2, <3>1
    <3> QED BY <2>2, <3>0, <3>1
  <2>3. CASE level = 3
    <3>0. CASE i = 0  BY <2>3, <3>0
    <3>1. CASE i = 1  BY <2>3, <3>1
    <3>2. CASE i = 2  BY <2>3, <3>2
    <3> QED BY <2>3, <3>0, <3>1, <3>2
  <2>4. CASE level = 4
    <3>0. CASE i = 0  BY <2>4, <3>0
    <3>1. CASE i = 1  BY <2>4, <3>1
    <3>2. CASE i = 2  BY <2>4, <3>2
    <3>3. CASE i = 3  BY <2>4, <3>3
    <3> QED BY <2>4, <3>0, <3>1, <3>2, <3>3
  <2> QED BY <2>1, <2>2, <2>3, <2>4
<1>6. Bit(level, index) < NUM_LEVELS * MAX_BLOCKS_PER_LEVEL
  BY <1>2, <1>3
<1>7. \A b \in Parents(level, index) : b < NUM_LEVELS * MAX_BLOCKS_PER_LEVEL
  BY <1>2, <1>4, IndexNat DEF Parents
<1>8. \A b \in Children(level, index, count) : b < NUM_LEVELS * MAX_BLOCKS_PER_LEVEL
  BY <1>2, <1>5 DEF Children
<1> QED BY <1>6, <1>7, <1>8 DEF GrantBits

(* A refusal of a single page says that the lowest bitmap is full. *)
RefusalFull == result = [count |-> 1, page |-> NoBlock] => NoneFree(0)

ExactInv ==
  /\ RowsFit => BitsArePages /\ StorageInBounds
  /\ RefusalFull

LEMMA InitExact == Init => ExactInv
<1> SUFFICES ASSUME Init PROVE ExactInv
  OBVIOUS
<1>1. ReservedPages = {}
  BY DEF Init, MarkedRegions, ReservedPages
<1>2. result # [count |-> 1, page |-> NoBlock]
  BY DEF Init
<1> QED BY <1>1, <1>2 DEF Init, ExactInv, BitsArePages, StorageInBounds, RefusalFull

LEMMA MarkEntryExact == Inv /\ ExactInv /\ MarkEntry => ExactInv'
<1> SUFFICES ASSUME Inv, ExactInv, MarkEntry PROVE ExactInv'
  OBVIOUS
<1> DEFINE entry == memoryMap[marked + 1]
           marks == UNION {{Bit(0, q)} \cup Parents(0, q) : q \in RegionPages(entry)}
<1>1. /\ marked < Len(memoryMap)
      /\ marked' = marked + 1
      /\ bits' = IF entry.available THEN bits ELSE bits \cup marks
      /\ UNCHANGED <<totalMemory, memoryMap, result, held, shared>>
  BY DEF MarkEntry
<1>2. memoryMap \in Seq(MemoryMapEntry) /\ marked \in 0 .. Len(memoryMap) /\ entry \in MemoryMapEntry
  BY <1>1, MachineAssumption DEF Inv, TypeOK
<1>3. ReservedPages' = ReservedPages \cup (IF entry.available THEN {} ELSE RegionPages(entry))
  <2>1. MarkedRegions' = MarkedRegions \cup (IF entry.available THEN {} ELSE {entry})
    BY <1>1, <1>2, Z3 DEF MarkedRegions
  <2> QED BY <2>1 DEF ReservedPages
<1>4. RefusalFull'
  <2>1. NoneFree(0) => NoneFree(0)'
    BY <1>1 DEF NoneFree, SearchLimit, NumBlocks
  <2> QED BY <1>1, <2>1 DEF ExactInv, RefusalFull
<1>5. ASSUME RowsFit' PROVE (BitsArePages /\ StorageInBounds)'
  <2>1. BitsArePages /\ StorageInBounds
    BY <1>1, <1>5 DEF RowsFit, SearchLimit, NumBlocks, ExactInv
  <2>2. CASE entry.available
    BY <1>1, <1>3, <2>1, <2>2 DEF BitsArePages, StorageInBounds
  <2>3. CASE ~ entry.available
    <3>1. RegionPages(entry) \subseteq 0 .. MAX_BLOCKS_PER_LEVEL - 1
      BY <1>1, <1>2, <1>5, <2>3 DEF RowsFit
    <3>2. RegionPages(entry) \subseteq Nat
      BY <1>2, RegionPagesNat
    <3>3. \A p \in 0 .. MAX_BLOCKS_PER_LEVEL - 1 : p \in marks <=> p \in RegionPages(entry)
      BY <3>2, ReservedLowestRow
    <3>4. \A p \in 0 .. MAX_BLOCKS_PER_LEVEL - 1 : Bit(0, p) = p
      BY LowestRow, LevelCases
    <3>5. \A b \in marks : b < NUM_LEVELS * MAX_BLOCKS_PER_LEVEL
      <4> SUFFICES ASSUME NEW q \in RegionPages(entry), NEW b \in {Bit(0, q)} \cup Parents(0, q)
                   PROVE  b < NUM_LEVELS * MAX_BLOCKS_PER_LEVEL
        OBVIOUS
      <4>1. q \in Nat /\ (q + 1) * BlockPages(0) <= MAX_BLOCKS_PER_LEVEL
        BY <3>1, LevelCases, RowAssumption
      <4>2. b \in GrantBits(1, 0, q)
        BY DEF GrantBits
      <4> QED BY <4>1, <4>2, GrantInStorage, LevelCases
    <3>6. BitsArePages'
      BY <1>1, <1>3, <2>1, <2>3, <3>1, <3>3, <3>4 DEF BitsArePages
    <3>7. StorageInBounds'
      BY <1>1, <2>1, <2>3, <3>5 DEF StorageInBounds
    <3> QED BY <3>6, <3>7
  <2> QED BY <2>2, <2>3
<1> QED BY <1>4, <1>5 DEF ExactInv

LEMMA GrantExact ==
  ASSUME Inv, ExactInv, NEW count \in Requests, NEW level \in Levels, LevelFor(count, level),
         NEW index \in 0 .. SearchLimit(level) - 1, Grant(count, level, index),
         UNCHANGED <<totalMemory, memoryMap, marked>>
  PROVE  ExactInv'
<1> DEFINE first == index * BlockPages(level)
           pages == GrantedPages(first, count)
<1>1. /\ bits' = bits \cup GrantBits(count, level, index)
      /\ result' = [count |-> count, page |-> first]
      /\ first \in Nat
      /\ held' = held \cup pages
      /\ pages \subseteq Nat
      /\ ReservedPages' = ReservedPages
  BY GrantFacts
<1>2. index \in Nat /\ count \in Nat \ {0} /\ count <= BlockPages(level)
  BY RequestFits
<1>3. RefusalFull'
  BY <1>1, NoBlockAssumption DEF RefusalFull
<1>4. ASSUME RowsFit' PROVE (BitsArePages /\ StorageInBounds)'
  <2>1. RowsFit
    BY <1>4 DEF RowsFit, SearchLimit, NumBlocks
  <2>2. BitsArePages /\ StorageInBounds
    BY <2>1 DEF ExactInv
  <2>3. (index + 1) * BlockPages(level) <= MAX_BLOCKS_PER_LEVEL
    <3>1. SearchLimit(level) * BlockPages(level) <= MAX_BLOCKS_PER_LEVEL
      BY <2>1 DEF RowsFit
    <3>2. SearchLimit(level) \in Int /\ index < SearchLimit(level)
      <4>1. totalMemory \in Nat
        BY MachineAssumption DEF Inv, TypeOK
      <4> QED BY <4>1, LevelCases DEF SearchLimit, NumBlocks
    <3> QED BY <1>2, <3>1, <3>2, LevelCases, RowAssumption
  <2>4. pages \subseteq 0 .. MAX_BLOCKS_PER_LEVEL - 1
    BY <1>1, <1>2, <2>3, LevelCases, RowAssumption, GrantInBlock
  <2>5. \A p \in 0 .. MAX_BLOCKS_PER_LEVEL - 1 : p \in GrantBits(count, level, index) <=> p \in pages
    BY <1>2, GrantLowestRow
  <2>6. \A p \in 0 .. MAX_BLOCKS_PER_LEVEL - 1 : Bit(0, p) = p
    BY LowestRow, LevelCases
  <2>7. BitsArePages'
    BY <1>1, <2>2, <2>4, <2>5, <2>6 DEF BitsArePages
  <2>8. StorageInBounds'
    <3>1. \A b \in GrantBits(count, level, index) : b < NUM_LEVELS * MAX_BLOCKS_PER_LEVEL
      BY <1>2, <2>3, GrantInStorage
    <3> QED BY <1>1, <2>2, <3>1 DEF StorageInBounds
  <2> QED BY <2>7, <2>8
<1> QED BY <1>3, <1>4 DEF ExactInv

LEMMA RefuseExact ==
  ASSUME Inv, ExactInv, NEW count \in Requests, NEW level \in Levels, LevelFor(count, level),
         Refuse(count, level), UNCHANGED <<totalMemory, memoryMap, marked>>
  PROVE  ExactInv'
<1>1. RefusalFull'
  <2> SUFFICES ASSUME count = 1 PROVE NoneFree(0)'
    BY DEF RefusalFull, Refuse
  <2>1. level = 0
    BY LevelCases DEF LevelFor
  <2> QED BY <2>1 DEF Refuse, NoneFree, SearchLimit, NumBlocks
<1>2. RowsFit' => RowsFit
  BY DEF RowsFit, SearchLimit, NumBlocks
<1>3. ReservedPages' = ReservedPages
  BY DEF ReservedPages, MarkedRegions
<1> QED BY <1>1, <1>2, <1>3 DEF ExactInv, Refuse, BitsArePages, StorageInBounds

LEMMA NextExact == Inv /\ ExactInv /\ [Next]_vars => ExactInv'
<1> SUFFICES ASSUME Inv, ExactInv, [Next]_vars PROVE ExactInv'
  OBVIOUS
<1>1. CASE MarkEntry
  BY <1>1, MarkEntryExact
<1>2. ASSUME NEW count \in Requests, AllocBlock(count) PROVE ExactInv'
  <2>1. PICK level \in Levels :
          /\ LevelFor(count, level)
          /\ \/ \E index \in 0 .. SearchLimit(level) - 1 : Grant(count, level, index)
             \/ Refuse(count, level)
    BY <1>2 DEF AllocBlock
  <2>2. UNCHANGED <<totalMemory, memoryMap, marked>>
    BY <1>2 DEF AllocBlock
  <2> QED BY <2>1, <2>2, GrantExact, RefuseExact
<1>3. CASE UNCHANGED vars
  BY <1>3 DEF vars, ExactInv, RowsFit, SearchLimit, NumBlocks, RefusalFull, NoneFree,
              BitsArePages, StorageInBounds, ReservedPages, MarkedRegions
<1> QED BY <1>1, <1>2, <1>3 DEF Next

LEMMA ExactInvariance == Spec => []ExactInv
BY InitExact, NextExact, Invariance, PTL DEF Spec

(* On a machine whose bitmaps fit their rows the lowest bitmap is exact:   *)
(* it shows a page as taken if and only if the page is held or reserved.   *)
THEOREM NoPageLost == Spec => []PageBitsExact
<1>1. ExactInv => PageBitsExact
  BY DEF ExactInv, PageBitsExact
<1> QED BY <1>1, ExactInvariance, PTL

(* On such a machine no bit is set outside bitmapAddress.                  *)
THEOREM InStorage == Spec => [](RowsFit => StorageInBounds)
<1>1. ExactInv => (RowsFit => StorageInBounds)
  BY DEF ExactInv
<1> QED BY <1>1, ExactInvariance, PTL

(* On such a machine a request for one page is refused only when every     *)
(* page of memory is taken.                                                *)
THEOREM RefusalMeansFull == Spec => []RefusedOnlyWhenFull
<1>1. Inv /\ ExactInv => RefusedOnlyWhenFull
  <2> SUFFICES ASSUME Inv, BitsArePages, RowsFit, NoneFree(0),
                      NEW p \in 0 .. totalMemory \div 4 - 1
               PROVE  p \in held \cup ReservedPages
    BY DEF ExactInv, RefusalFull, RefusedOnlyWhenFull
  <2>1. totalMemory \in Nat
    BY MachineAssumption DEF Inv, TypeOK
  <2>2. totalMemory \div 4 <= SearchLimit(0) /\ SearchLimit(0) \in Nat
    BY <2>1, LevelCases DEF SearchLimit, NumBlocks
  <2>3. SearchLimit(0) <= MAX_BLOCKS_PER_LEVEL
    BY <2>2, LevelCases DEF RowsFit
  <2>4. p \in 0 .. SearchLimit(0) - 1 /\ p \in 0 .. MAX_BLOCKS_PER_LEVEL - 1
    BY <2>1, <2>2, <2>3, RowAssumption
  <2> QED BY <2>4 DEF NoneFree, BitsArePages
<1> QED BY <1>1, Invariance, ExactInvariance, PTL

=============================================================================
