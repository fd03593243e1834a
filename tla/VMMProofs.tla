------------------------------ MODULE VMMProofs ------------------------------
(* Theorems about VMM: its types, that the page tables implement the       *)
(* address space, can be reached and are private, and that every frame     *)
(* that is taken has one use - for tables of every size, every place of    *)
(* the window, every heap, framebuffer, memory and memory map.             *)
EXTENDS VMM, PMMProofs, FiniteSetTheorems

-----------------------------------------------------------------------------
(* Arithmetic of pages. *)

LEMMA DivMod ==
  ASSUME NEW n \in Nat \ {0}, NEW a \in Nat
  PROVE  /\ a \div n \in Nat /\ a % n \in 0 .. n - 1
         /\ a = n * (a \div n) + (a % n)
OBVIOUS

LEMMA DivModUnique ==
  ASSUME NEW n \in Nat \ {0}, NEW x \in Nat, NEW r \in 0 .. n - 1
  PROVE  (n * x + r) \div n = x /\ (n * x + r) % n = r
OBVIOUS

LEMMA TimesLess ==
  ASSUME NEW n \in Nat \ {0}, NEW x \in Nat, NEW y \in Nat, x < y
  PROVE  n * x \in Nat /\ n * y \in Nat /\ n * x + n <= n * y
OBVIOUS

LEMMA SmallMod ==
  ASSUME NEW a \in Nat, NEW n \in Nat, n > 0, a < 2 * n
  PROVE  a % n = IF a < n THEN a ELSE a - n
OBVIOUS

EntryOf(p) == p \div TableEntries
IndexOf(p) == p % TableEntries

PageLimit   == TableEntries * TableEntries
WindowLimit == TableEntries * KernelEntry

LEMMA Numbers ==
  /\ TableEntries \in Nat \ {0} /\ KernelEntry \in Nat /\ KernelEntry < TableEntries
  /\ HeapPages \in Nat /\ HeapPages > 0
  /\ PageLimit \in Nat /\ TableEntries <= PageLimit
  /\ WindowLimit \in Nat /\ WindowLimit + TableEntries <= PageLimit
<1>1. /\ TableEntries \in Nat \ {0} /\ KernelEntry \in Nat /\ KernelEntry < TableEntries
      /\ HeapPages \in Nat /\ HeapPages > 0
  BY LayoutAssumption DEF Entries
<1>2. /\ TableEntries * KernelEntry \in Nat /\ TableEntries * TableEntries \in Nat
      /\ TableEntries * KernelEntry + TableEntries <= TableEntries * TableEntries
  BY <1>1, TimesLess
<1>3. TableEntries * KernelEntry >= 0
  BY <1>2
<1> QED
  BY <1>1, <1>2, <1>3 DEF PageLimit, WindowLimit

LEMMA Layout ==
  /\ WindowStart = WindowLimit
  /\ HeapFirst = WindowStart + TableEntries /\ HeapFirst \in Nat
  /\ FramebufferFirst = HeapFirst + HeapPages /\ FramebufferFirst \in Nat
  /\ FramebufferFrame \in Nat
  /\ \A n \in FramebufferSizes :
       n \in Nat /\ FramebufferFirst + n <= PageLimit /\ FramebufferFrame + n <= PageLimit
<1>1. WindowStart = WindowLimit
  BY Numbers DEF WindowStart, WindowLimit
<1>2. FramebufferFrame \in Nat
  BY LayoutAssumption, Numbers DEF Frames, Pages, PageLimit
<1>3. \A n \in FramebufferSizes :
        n \in Nat /\ FramebufferFirst + n <= PageLimit /\ FramebufferFrame + n <= PageLimit
  BY LayoutAssumption DEF PageLimit
<1>4. HeapFirst = WindowStart + TableEntries /\ HeapFirst \in Nat
  BY <1>1, Numbers DEF HeapFirst
<1>5. FramebufferFirst = HeapFirst + HeapPages /\ FramebufferFirst \in Nat
  BY <1>4, Numbers DEF FramebufferFirst
<1> QED
  BY <1>1, <1>2, <1>3, <1>4, <1>5

LEMMA FramesAre ==
  /\ \A f : f \in Frames <=> f \in Nat /\ f < PageLimit
  /\ Pages = Frames
  /\ \A f : f \in Entries <=> f \in Nat /\ f < TableEntries
  /\ Entries \subseteq Frames
  /\ NotPresent \notin Frames /\ NotPresent \notin Entries
<1>1. Pages = 0 .. PageLimit - 1 /\ Frames = Pages
  BY DEF Frames, Pages, PageLimit
<1>2. Entries = 0 .. TableEntries - 1
  BY DEF Entries
<1>3. NotPresent \notin Frames
  BY LayoutAssumption
<1> HIDE DEF Pages, Frames
<1> QED
  BY <1>1, <1>2, <1>3, Numbers

LEMMA PageParts ==
  ASSUME NEW p \in Pages
  PROVE  /\ EntryOf(p) \in Entries /\ IndexOf(p) \in Entries
         /\ p = TableEntries * EntryOf(p) + IndexOf(p)
<1>1. p \in Nat /\ p < PageLimit /\ TableEntries \in Nat \ {0}
  BY FramesAre, Numbers
<1>2. /\ EntryOf(p) \in Nat /\ IndexOf(p) \in 0 .. TableEntries - 1
      /\ p = TableEntries * EntryOf(p) + IndexOf(p)
  BY <1>1, DivMod DEF EntryOf, IndexOf
<1>3. EntryOf(p) < TableEntries
  <2> SUFFICES ASSUME ~ (EntryOf(p) < TableEntries)
               PROVE  FALSE
    OBVIOUS
  <2>1. PageLimit <= TableEntries * EntryOf(p) /\ TableEntries * EntryOf(p) \in Int
    BY <1>1, <1>2, TimesLess DEF PageLimit
  <2> DEFINE product == TableEntries * EntryOf(p)
  <2>2. product \in Int /\ PageLimit <= product /\ p = product + IndexOf(p)
    BY <1>2, <2>1
  <2> HIDE DEF product
  <2> QED
    BY <1>1, <1>2, <2>2, Numbers
<1> QED
  BY <1>2, <1>3, FramesAre, Numbers

LEMMA SamePage ==
  ASSUME NEW p \in Pages, NEW q \in Pages, EntryOf(p) = EntryOf(q), IndexOf(p) = IndexOf(q)
  PROVE  p = q
BY PageParts

(* The pages of the window are those of one directory entry. *)
LEMMA WindowPages ==
  ASSUME NEW p \in Pages
  PROVE  /\ p \in WindowStart .. WindowStart + TableEntries - 1 <=> EntryOf(p) = KernelEntry
         /\ EntryOf(p) = KernelEntry => p - WindowStart = IndexOf(p)
<1> DEFINE base == TableEntries * EntryOf(p)
<1>1. /\ EntryOf(p) \in Nat /\ IndexOf(p) \in 0 .. TableEntries - 1 /\ p = base + IndexOf(p)
  BY PageParts DEF Entries
<1>2. base \in Nat
  BY <1>1, Numbers, TimesLess
<1>3. /\ EntryOf(p) = KernelEntry => base = WindowLimit
      /\ EntryOf(p) < KernelEntry => base + TableEntries <= WindowLimit
      /\ EntryOf(p) > KernelEntry => WindowLimit + TableEntries <= base
  BY <1>1, Numbers, TimesLess DEF WindowLimit
<1> HIDE DEF base
<1> QED
  BY <1>1, <1>2, <1>3, Numbers, Layout

(* The window shows the first frames, and nothing else is shown by the     *)
(* boot directory.                                                         *)
LEMMA WindowShows ==
  ASSUME NEW f \in Entries
  PROVE  /\ PHYS_TO_VIRT(f) = WindowStart + f /\ PHYS_TO_VIRT(f) \in Pages
         /\ EntryOf(PHYS_TO_VIRT(f)) = KernelEntry /\ IndexOf(PHYS_TO_VIRT(f)) = f
<1>1. f \in Nat /\ f < TableEntries /\ f \in 0 .. TableEntries - 1
  BY FramesAre, Numbers
<1>2. WindowStart + f \in Nat /\ WindowStart + f < PageLimit
  BY <1>1, Numbers, Layout
<1>3. \A a, n \in Nat : a < n => a % n = a
  OBVIOUS
<1>4. PHYS_TO_VIRT(f) = WindowStart + f
  BY <1>2, <1>3, Numbers DEF PHYS_TO_VIRT, PageLimit
<1>5. EntryOf(WindowStart + f) = KernelEntry /\ IndexOf(WindowStart + f) = f
  BY <1>1, Numbers, Layout, DivModUnique DEF EntryOf, IndexOf, WindowLimit
<1> QED
  BY <1>2, <1>4, <1>5, FramesAre

LEMMA BeyondWindow ==
  ASSUME NEW f \in Frames, PHYS_TO_VIRT(f) \in WindowStart .. WindowStart + TableEntries - 1
  PROVE  f \in Entries
<1>1. f \in Nat /\ f < PageLimit
  BY FramesAre
<1>3. WindowStart + f \in Nat /\ WindowStart + f < 2 * PageLimit /\ PageLimit > 0
  BY <1>1, Numbers, Layout
<1>4. PHYS_TO_VIRT(f) = (WindowStart + f) % PageLimit
  BY DEF PHYS_TO_VIRT, PageLimit
<1>5. PHYS_TO_VIRT(f) = IF WindowStart + f < PageLimit THEN WindowStart + f ELSE WindowStart + f - PageLimit
  <2>1. PICK a \in Nat, n \in Nat : a = WindowStart + f /\ n = PageLimit
    BY <1>3, Numbers
  <2>2. a % n = IF a < n THEN a ELSE a - n
    BY <1>3, <2>1, SmallMod
  <2>3. PHYS_TO_VIRT(f) = a % n
    BY <1>4, <2>1, Zenon
  <2> QED
    BY <1>1, <2>1, <2>2, <2>3, Layout, Numbers
<1> HIDE DEF PageLimit
<1>6. f < TableEntries
  BY <1>1, <1>5, Numbers, Layout
<1> QED
  BY <1>1, <1>6, FramesAre

-----------------------------------------------------------------------------
(* Tables that lie in the window, and what they map. *)

TableContents == [Entries -> Frames \cup {NotPresent}]

(* The directory dir, whose entry for the window is the table win, and the *)
(* tables in it, which are the frames ts.                                  *)
Linked(m, dir, win, ts) ==
  /\ dir \in Entries /\ win \in Entries /\ win # dir
  /\ {dir, win} \subseteq DOMAIN m
  /\ \A f \in DOMAIN m : m[f] \in TableContents
  /\ m[win] = WindowEntries
  /\ m[dir][KernelEntry] = win
  /\ \A i \in Entries : m[dir][i] # NotPresent =>
       m[dir][i] \in DOMAIN m /\ m[dir][i] \in Entries /\ m[dir][i] # dir
  /\ \A i, k \in Entries : m[dir][i] = m[dir][k] /\ m[dir][i] # NotPresent => i = k
  /\ ts = {dir} \cup ({m[dir][i] : i \in Entries} \ {NotPresent})

MapsTo(m, dir, p) ==
  IF m[dir][EntryOf(p)] = NotPresent THEN NotPresent ELSE m[m[dir][EntryOf(p)]][IndexOf(p)]

LEMMA LinkedWalk ==
  ASSUME NEW m, NEW dir, NEW win, NEW ts, Linked(m, dir, win, ts), NEW p \in Pages
  PROVE  Walk(m, dir, p) = MapsTo(m, dir, p)
<1>1. dir # NotPresent /\ dir \in DOMAIN m /\ EntryOf(p) \in Entries
  BY FramesAre, PageParts DEF Linked
<1>2. m[dir][EntryOf(p)] # NotPresent => m[dir][EntryOf(p)] \in DOMAIN m
  BY <1>1 DEF Linked
<1> QED
  BY <1>1, <1>2 DEF Walk, Contents, MapsTo, EntryOf, IndexOf

LEMMA LinkedWindow ==
  ASSUME NEW m, NEW dir, NEW win, NEW ts, Linked(m, dir, win, ts), NEW p \in Pages,
         EntryOf(p) = KernelEntry
  PROVE  MapsTo(m, dir, p) = IndexOf(p)
<1>1. win # NotPresent /\ IndexOf(p) \in Entries
  BY FramesAre, PageParts DEF Linked
<1> QED
  BY <1>1 DEF Linked, MapsTo, WindowEntries

LEMMA LinkedType ==
  ASSUME NEW m, NEW dir, NEW win, NEW ts, Linked(m, dir, win, ts), NEW p \in Pages
  PROVE  MapsTo(m, dir, p) \in Frames \cup {NotPresent}
<1>1. EntryOf(p) \in Entries /\ IndexOf(p) \in Entries
  BY PageParts
<1> QED
  BY <1>1 DEF Linked, MapsTo, TableContents

(* Writing an entry into a table of the directory ... *)
LEMMA StoreEntry ==
  ASSUME NEW m, NEW dir, NEW win, NEW ts, Linked(m, dir, win, ts),
         NEW page \in Pages, EntryOf(page) # KernelEntry, NEW frame \in Frames,
         NEW entry, entry = m[dir][EntryOf(page)], entry # NotPresent,
         NEW m1, m1 = Store(m, entry, IndexOf(page), frame)
  PROVE  /\ Linked(m1, dir, win, ts)
         /\ \A p \in Pages : MapsTo(m1, dir, p) = IF p = page THEN frame ELSE MapsTo(m, dir, p)
<1>1. /\ EntryOf(page) \in Entries /\ IndexOf(page) \in Entries /\ KernelEntry \in Entries
      /\ entry \in DOMAIN m /\ entry \in Entries /\ entry # dir /\ entry # win
      /\ dir \in DOMAIN m /\ win \in DOMAIN m /\ win # NotPresent
  BY PageParts, FramesAre, LayoutAssumption DEF Linked
<1>2. m[entry] \in TableContents
  BY <1>1 DEF Linked
<1>3. /\ DOMAIN m1 = DOMAIN m
      /\ m1[entry] = [m[entry] EXCEPT ![IndexOf(page)] = frame]
      /\ \A f \in DOMAIN m : f # entry => m1[f] = m[f]
  BY <1>1 DEF Store, Contents
<1>4. m1[entry] \in TableContents
  BY <1>2, <1>3 DEF TableContents
<1>5. \A f \in DOMAIN m1 : m1[f] \in TableContents
  BY <1>3, <1>4 DEF Linked
<1>6. m1[dir] = m[dir] /\ m1[win] = m[win]
  BY <1>1, <1>3
<1>7. Linked(m1, dir, win, ts)
  BY <1>1, <1>3, <1>5, <1>6 DEF Linked
<1>8. ASSUME NEW p \in Pages
      PROVE  MapsTo(m1, dir, p) = IF p = page THEN frame ELSE MapsTo(m, dir, p)
  <2>1. EntryOf(p) \in Entries /\ IndexOf(p) \in Entries
    BY PageParts
  <2>2. CASE p = page
    BY <1>1, <1>2, <1>3, <1>6, <2>2 DEF MapsTo, TableContents
  <2>3. CASE p # page /\ EntryOf(p) = EntryOf(page)
    <3>1. IndexOf(p) # IndexOf(page)
      BY <2>3, SamePage
    <3>2. m1[entry][IndexOf(p)] = m[entry][IndexOf(p)]
      BY <1>2, <1>3, <2>1, <3>1 DEF TableContents
    <3> QED
      BY <1>1, <1>6, <2>3, <3>2 DEF MapsTo
  <2>4. CASE p # page /\ EntryOf(p) # EntryOf(page)
    <3>1. m[dir][EntryOf(p)] # NotPresent => m[dir][EntryOf(p)] \in DOMAIN m /\ m[dir][EntryOf(p)] # entry
      BY <1>1, <2>1, <2>4 DEF Linked
    <3> QED
      BY <1>3, <1>6, <2>4, <3>1 DEF MapsTo
  <2> QED
    BY <2>2, <2>3, <2>4
<1> QED
  BY <1>7, <1>8

(* ... and making a frame a table of the directory, with one entry. *)
LEMMA StoreTable ==
  ASSUME NEW m, NEW dir, NEW win, NEW ts, Linked(m, dir, win, ts),
         NEW page \in Pages, EntryOf(page) # KernelEntry, NEW frame \in Frames,
         m[dir][EntryOf(page)] = NotPresent,
         NEW new \in Entries, new \notin ts,
         NEW m1, m1 = Store(Store(Cleared(m, new), new, IndexOf(page), frame), dir, EntryOf(page), new)
  PROVE  /\ Linked(m1, dir, win, ts \cup {new})
         /\ \A p \in Pages : MapsTo(m1, dir, p) = IF p = page THEN frame ELSE MapsTo(m, dir, p)
<1> DEFINE entry == EntryOf(page)
           index == IndexOf(page)
           empty == [i \in Entries |-> NotPresent]
           m2    == Cleared(m, new)
           m3    == Store(m2, new, index, frame)
<1>1. /\ entry \in Entries /\ index \in Entries /\ KernelEntry \in Entries /\ entry # KernelEntry
      /\ dir \in DOMAIN m /\ win \in DOMAIN m /\ win # NotPresent /\ win # dir
      /\ new # dir /\ new # NotPresent /\ new \in Frames
      /\ \A i \in Entries : m[dir][i] # new
      /\ m[dir] \in TableContents
  BY PageParts, FramesAre, LayoutAssumption DEF Linked
<1>2. new # win
  BY <1>1 DEF Linked
<1> HIDE DEF entry, index
<1>3. DOMAIN m2 = DOMAIN m \cup {new} /\ m2[new] = empty /\ \A f \in DOMAIN m : f # new => m2[f] = m[f]
  BY DEF Cleared
<1> HIDE DEF m2
<1>4. /\ DOMAIN m3 = DOMAIN m \cup {new} /\ m3[new] = [empty EXCEPT ![index] = frame]
      /\ \A f \in DOMAIN m : f # new => m3[f] = m[f]
  BY <1>3 DEF Store, Contents
<1>5. m1 = Store(m3, dir, entry, new)
  BY DEF m2, m3, entry, index
<1> HIDE DEF m3
<1>6. /\ DOMAIN m1 = DOMAIN m \cup {new} /\ m1[dir] = [m[dir] EXCEPT ![entry] = new]
      /\ m1[new] = [empty EXCEPT ![index] = frame]
      /\ \A f \in DOMAIN m : f # new /\ f # dir => m1[f] = m[f]
  <2>1. dir \in DOMAIN m3 /\ new \in DOMAIN m3 /\ m3[dir] = m[dir]
    BY <1>1, <1>4
  <2>2. m1 = [f \in DOMAIN m3 \cup {dir} |-> IF f = dir THEN [m3[dir] EXCEPT ![entry] = new] ELSE m3[f]]
    BY <1>5, <2>1 DEF Store, Contents
  <2>3. DOMAIN m1 = DOMAIN m3 /\ m1[dir] = [m3[dir] EXCEPT ![entry] = new]
    BY <2>1, <2>2
  <2>4. \A f \in DOMAIN m3 : f # dir => m1[f] = m3[f]
    BY <2>2
  <2> QED
    BY <1>1, <1>4, <2>1, <2>3, <2>4
<1>7. m1[new] \in TableContents /\ m1[dir] \in TableContents
  BY <1>1, <1>6 DEF TableContents
<1>8. \A f \in DOMAIN m1 : m1[f] \in TableContents
  BY <1>6, <1>7 DEF Linked
<1>9. \A i \in Entries : m1[dir][i] = IF i = entry THEN new ELSE m[dir][i]
  BY <1>1, <1>6 DEF TableContents
<1>10. m1[win] = WindowEntries /\ m1[dir][KernelEntry] = win
  BY <1>1, <1>2, <1>6, <1>9 DEF Linked
<1>11. \A i \in Entries : m1[dir][i] # NotPresent =>
         m1[dir][i] \in DOMAIN m1 /\ m1[dir][i] \in Entries /\ m1[dir][i] # dir
  BY <1>1, <1>6, <1>9 DEF Linked
<1>12. \A i, k \in Entries : m1[dir][i] = m1[dir][k] /\ m1[dir][i] # NotPresent => i = k
  BY <1>1, <1>9 DEF Linked
<1>13. ts \cup {new} = {dir} \cup ({m1[dir][i] : i \in Entries} \ {NotPresent})
  <2>1. m[dir][entry] = NotPresent
    BY DEF entry
  <2>2. {m1[dir][i] : i \in Entries} \ {NotPresent} = ({m[dir][i] : i \in Entries} \ {NotPresent}) \cup {new}
    BY <1>1, <1>9, <2>1
  <2> QED
    BY <2>2 DEF Linked
<1>14. Linked(m1, dir, win, ts \cup {new})
  <2>1. dir \in Entries /\ win \in Entries /\ {dir, win} \subseteq DOMAIN m1
    BY <1>1, <1>6 DEF Linked
  <2> QED
    BY <1>1, <1>8, <1>10, <1>11, <1>12, <1>13, <2>1 DEF Linked
<1>15. ASSUME NEW p \in Pages
       PROVE  MapsTo(m1, dir, p) = IF p = page THEN frame ELSE MapsTo(m, dir, p)
  <2>1. EntryOf(p) \in Entries /\ IndexOf(p) \in Entries
    BY PageParts
  <2>2. CASE EntryOf(p) = entry
    <3>1. MapsTo(m1, dir, p) = m1[new][IndexOf(p)] /\ MapsTo(m, dir, p) = NotPresent
      BY <1>1, <1>9, <2>2 DEF MapsTo, entry
    <3>2. m1[new][IndexOf(p)] = IF IndexOf(p) = index THEN frame ELSE NotPresent
      BY <1>1, <1>6, <2>1
    <3>3. IndexOf(p) = index <=> p = page
      BY <2>2, SamePage DEF entry, index
    <3> QED
      BY <3>1, <3>2, <3>3
  <2>3. CASE EntryOf(p) # entry
    <3>1. m1[dir][EntryOf(p)] = m[dir][EntryOf(p)]
      BY <1>9, <2>1, <2>3
    <3>2. m[dir][EntryOf(p)] # NotPresent =>
            m[dir][EntryOf(p)] \in DOMAIN m /\ m[dir][EntryOf(p)] # new /\ m[dir][EntryOf(p)] # dir
      BY <1>1, <2>1 DEF Linked
    <3>3. p # page
      BY <2>3 DEF entry
    <3> QED
      BY <1>6, <3>1, <3>2, <3>3 DEF MapsTo
  <2> QED
    BY <2>2, <2>3
<1> QED
  BY <1>14, <1>15

-----------------------------------------------------------------------------
(* What the boot gets from the allocator. *)

(* The frames of the framebuffer are no memory that is handed out, and     *)
(* memory ends within the address space.                                   *)
MachineFits ==
  /\ fbPages \in FramebufferSizes
  /\ LowPages + totalMemory \div 4 <= PageLimit
  /\ \A f \in FramebufferFrame .. FramebufferFrame + fbPages - 1 :
       f < LowPages + totalMemory \div 4 =>
         \E i \in 1 .. Len(memoryMap) : ~ memoryMap[i].available /\ f \in RegionPages(memoryMap[i])

(* All frames below the end of the window are taken, so that no frame      *)
(* handed out from now on can be reached through it.                       *)
WindowUsedUp  == \A i \in 0 .. SearchLimit(0) - 1 : i < TableEntries => Bit(0, i) \in bits
NoWindowFrame == result.page = NoBlock \/ result.page >= TableEntries

LEMMA AllocOne ==
  ASSUME Inv, AllocBlock(1)
  PROVE  /\ marked = Len(memoryMap) /\ UNCHANGED <<totalMemory, memoryMap, marked>>
         /\ \/ /\ result'.page \in 0 .. SearchLimit(0) - 1 /\ result'.page \in Nat
               /\ result'.page < LowPages + totalMemory \div 4
               /\ result'.page \notin held /\ held' = held \cup {result'.page}
               /\ Bit(0, result'.page) \notin bits
               /\ \A i \in 0 .. result'.page - 1 : Bit(0, i) \in bits
               /\ bits \subseteq bits'
            \/ result'.page = NoBlock /\ NoneFree(0) /\ held' = held /\ bits' = bits
<1>1. PICK level \in Levels :
        /\ LevelFor(1, level)
        /\ \/ \E index \in 0 .. SearchLimit(level) - 1 : Grant(1, level, index)
           \/ Refuse(1, level)
  BY DEF AllocBlock
<1>2. level = 0 /\ 1 \in Requests
  BY <1>1, LevelCases, LayoutAssumption DEF LevelFor
<1>3. marked = Len(memoryMap) /\ UNCHANGED <<totalMemory, memoryMap, marked>>
  BY DEF AllocBlock
<1>4. ASSUME NEW index \in 0 .. SearchLimit(0) - 1, Grant(1, 0, index)
      PROVE  /\ result'.page = index /\ index \in Nat /\ index < LowPages + totalMemory \div 4
             /\ index \notin held /\ held' = held \cup {index}
             /\ Bit(0, index) \notin bits
             /\ \A i \in 0 .. index - 1 : Bit(0, i) \in bits
             /\ bits \subseteq bits'
  <2> DEFINE first == index * BlockPages(0)
             pages == GrantedPages(first, 1)
  <2>1. /\ bits \subseteq bits' /\ result' = [count |-> 1, page |-> first]
        /\ first \in Nat /\ held' = held \cup pages /\ (held \cup ReservedPages) \cap pages = {}
        /\ \A p \in pages : p < LowPages + totalMemory \div 4
    BY <1>1, <1>2, <1>3, <1>4, LevelCases, GrantFacts
  <2>2. index \in Nat /\ first = index
    BY LevelCases
  <2>3. pages = {index}
    BY <2>2 DEF GrantedPages
  <2>4. Bit(0, index) \notin bits /\ \A i \in 0 .. index - 1 : Bit(0, i) \in bits
    BY <1>4 DEF Grant, NearestFree
  <2> HIDE DEF first, pages
  <2> QED
    BY <2>1, <2>2, <2>3, <2>4
<1>5. ASSUME Refuse(1, 0)
      PROVE  result'.page = NoBlock /\ NoneFree(0) /\ held' = held /\ bits' = bits
  BY <1>5 DEF Refuse
<1>6. CASE Refuse(1, 0)
  BY <1>3, <1>5, <1>6
<1>7. CASE \E index \in 0 .. SearchLimit(0) - 1 : Grant(1, 0, index)
  BY <1>3, <1>4, <1>7
<1> QED
  BY <1>1, <1>2, <1>6, <1>7

LEMMA AllocKeepsInv == ASSUME Inv, AllocBlock(1) PROVE Inv'
<1>1. 1 \in Requests
  BY LayoutAssumption
<1> QED
  BY <1>1, NextInv DEF Next

(* The frame of a failed allocBlock is none the window shows. *)
LEMMA LastFrame ==
  ASSUME FramebufferSizes # {}
  PROVE  PageLimit - 1 \in Frames /\ PageLimit - 1 >= TableEntries
<1>1. PICK n \in FramebufferSizes : TRUE
  OBVIOUS
<1>2. n \in Nat /\ WindowLimit + TableEntries + HeapPages + n <= PageLimit
  BY Layout, Numbers
<1> QED
  BY <1>2, FramesAre, Numbers

LEMMA AllocFrame ==
  ASSUME Inv, MachineFits, AllocBlock(1), NEW frame, frame = FrameOf(result'.page)
  PROVE  /\ frame \in Frames
         /\ frame \in Entries => /\ frame \notin held /\ held' = held \cup {frame}
                                 /\ result'.page # NoBlock
         /\ frame \notin Entries => NoWindowFrame' /\ WindowUsedUp'
         /\ WindowUsedUp => frame \notin Entries
         /\ result'.page # NoBlock => frame \notin held /\ held' = held \cup {frame}
         /\ result'.page = NoBlock => held' = held /\ frame = PageLimit - 1 /\ NoneFree(0)'
         /\ NoneFree(0) => result'.page = NoBlock
<1>1. FramebufferSizes # {}
  BY DEF MachineFits
<1>2. PageLimit - 1 \in Frames /\ PageLimit - 1 >= TableEntries /\ PageLimit - 1 \notin Entries
  BY <1>1, LastFrame, FramesAre, Numbers
<1>3. SearchLimit(0)' = SearchLimit(0)
  BY AllocOne DEF SearchLimit, NumBlocks
<1>4. CASE result'.page = NoBlock
  <2>1. NoneFree(0) /\ held' = held /\ bits' = bits
    BY <1>4, AllocOne, NoBlockAssumption
  <2>2. frame = PageLimit - 1
    BY <1>4 DEF FrameOf, PageLimit
  <2>3. NoneFree(0)' /\ WindowUsedUp'
    BY <1>3, <2>1 DEF NoneFree, WindowUsedUp
  <2>4. NoWindowFrame'
    BY <1>4 DEF NoWindowFrame
  <2> QED
    BY <1>2, <1>4, <2>1, <2>2, <2>3, <2>4
<1>5. CASE result'.page # NoBlock
  <2>1. /\ frame = result'.page /\ frame \in 0 .. SearchLimit(0) - 1 /\ frame \in Nat
        /\ frame < LowPages + totalMemory \div 4
        /\ frame \notin held /\ held' = held \cup {frame}
        /\ Bit(0, frame) \notin bits
        /\ \A i \in 0 .. frame - 1 : Bit(0, i) \in bits
        /\ bits \subseteq bits'
    BY <1>5, AllocOne DEF FrameOf
  <2>2. frame \in Frames
    <3>1. LowPages + totalMemory \div 4 \in Nat
      BY LowAssumption DEF Inv, TypeOK
    <3> QED
      BY <2>1, <3>1, FramesAre, Numbers DEF MachineFits
  <2>3. ASSUME frame \notin Entries PROVE NoWindowFrame' /\ WindowUsedUp'
    <3>1. frame >= TableEntries
      BY <2>1, <2>3, FramesAre, Numbers
    <3>2. \A i \in 0 .. SearchLimit(0) - 1 : i < TableEntries => Bit(0, i) \in bits'
      BY <2>1, <3>1, Numbers
    <3> QED
      BY <1>3, <2>1, <3>1, <3>2 DEF NoWindowFrame, WindowUsedUp
  <2>4. WindowUsedUp => frame \notin Entries
    BY <2>1, FramesAre DEF WindowUsedUp
  <2>5. ~ NoneFree(0)
    BY <2>1 DEF NoneFree
  <2> QED
    BY <1>5, <2>1, <2>2, <2>3, <2>4, <2>5
<1> QED
  BY <1>4, <1>5

(* What is given out is neither reserved nor a frame of the framebuffer. *)
LEMMA NotFramebuffer ==
  ASSUME Inv, MachineFits, marked = Len(memoryMap), NEW f \in held
  PROVE  f \notin FramebufferFrame .. FramebufferFrame + fbPages - 1
<1>1. f < LowPages + totalMemory \div 4 /\ f \notin ReservedPages
  BY DEF Inv, GrantsInsideMemory
<1>2. \A i \in 1 .. Len(memoryMap) : ~ memoryMap[i].available => f \notin RegionPages(memoryMap[i])
  BY <1>1 DEF ReservedPages, MarkedRegions
<1> QED
  BY <1>1, <1>2 DEF MachineFits

-----------------------------------------------------------------------------
(* The inductive invariant. *)

(* Where the boot is, and what has been done by then.                      *)
Control ==
  /\ pc \in {"initPMM", "table"} =>
       cr3 = NotPresent /\ DOMAIN mem = {} /\ held = {} /\ tables = {} /\ mapped = 0
         /\ result.page = NoBlock
  /\ pc = "directory" =>
       /\ cr3 = NotPresent /\ table \in Entries /\ held = {table} /\ tables = {table} /\ mapped = 0
       /\ DOMAIN mem = {table} /\ mem[table] = [i \in Entries |-> NotPresent]
  /\ cr3 = NotPresent => pc \in {"initPMM", "table", "directory", "fault"} /\ tables \subseteq Entries
  /\ pc = "first" => mapped = 0
  /\ pc = "map" => mapped < HeapPages
  /\ pc = "alloc" => mapped <= HeapPages
  /\ pc \in {"framebuffer", "done"} => mapped >= HeapPages
  /\ pc = "done" => mapped = HeapPages + fbPages
  /\ pc # "initPMM" => marked = Len(memoryMap)
  /\ pc \in {"map", "framebuffer", "done"} => phys \in Frames

(* Types are not enough for the type invariant: the boot stays within its  *)
(* bounds because of where it is.                                          *)
TypeInv == Inv /\ MachineFits /\ BootTypeOK /\ Control

(* A frame beyond the window is handed out only when none is left below.   *)
Beyond ==
  /\ ~ TablesInWindow => WindowUsedUp /\ NoWindowFrame
  /\ pc = "fault" => NoWindowFrame
  /\ result.page = NoBlock /\ pc \notin {"initPMM", "table"} => NoneFree(0)

(* What may back a page of the heap: a frame that was handed out and holds *)
(* no table, or what a failed allocBlock stands for.                       *)
HeapOwn == (held \ tables) \cup {PageLimit - 1}

(* The tables form a tree that maps the window, the pages the loops have   *)
(* mapped so far, and nothing else.                                        *)
LinkInv ==
  OnKernelTables /\ TablesInWindow =>
    /\ Linked(mem, cr3, table, tables)
    /\ \A p \in Pages : EntryOf(p) # KernelEntry =>
         (MapsTo(mem, cr3, p) # NotPresent <=> p \in HeapFirst .. HeapFirst + mapped - 1)
    /\ \A i \in 0 .. fbPages - 1 : HeapPages + i < mapped =>
         MapsTo(mem, cr3, FramebufferFirst + i) = FramebufferFrame + i
    /\ tables \subseteq held
    /\ \A p \in HeapRange : MapsTo(mem, cr3, p) \in HeapOwn \cup {NotPresent}
    /\ pc \in {"map", "framebuffer", "done"} => phys \in HeapOwn

InHand == IF pc \in {"map", "framebuffer", "done"} THEN {phys} ELSE {}

(* Every frame that was handed out has one use.                            *)
OneUse ==
  OnKernelTables /\ TablesInWindow /\ result.page # NoBlock /\ pc # "fault" =>
    /\ \A f \in held : \/ f \in tables \cup InHand
                       \/ \E p \in HeapRange : f = MapsTo(mem, cr3, p)
    /\ InHand \subseteq held
    /\ \A p \in HeapRange : MapsTo(mem, cr3, p) # NotPresent =>
         MapsTo(mem, cr3, p) \in held /\ MapsTo(mem, cr3, p) \notin InHand
    /\ \A p, q \in HeapRange : MapsTo(mem, cr3, p) = MapsTo(mem, cr3, q)
                                 /\ MapsTo(mem, cr3, p) # NotPresent => p = q

BootInv == TypeInv /\ Beyond /\ LinkInv /\ OneUse

-----------------------------------------------------------------------------
(* The type invariant. *)

LEMMA VirtualPage == ASSUME NEW f \in Frames PROVE PHYS_TO_VIRT(f) \in Pages
<1>1. f \in Nat /\ WindowStart + f \in Nat
  BY FramesAre, Layout, Numbers
<1>2. \A a \in Nat, n \in Nat \ {0} : a % n \in 0 .. n - 1
  OBVIOUS
<1>3. PageLimit \in Nat \ {0}
  BY Numbers
<1>4. (WindowStart + f) % PageLimit \in 0 .. PageLimit - 1
  BY <1>1, <1>2, <1>3
<1>5. PHYS_TO_VIRT(f) = (WindowStart + f) % PageLimit
  BY DEF PHYS_TO_VIRT, PageLimit
<1> HIDE DEF PageLimit
<1> QED
  BY <1>3, <1>4, <1>5, FramesAre

TypedMemory(m) == DOMAIN m \subseteq Frames /\ \A f \in DOMAIN m : m[f] \in TableContents

LEMMA ContentsType ==
  ASSUME NEW m, TypedMemory(m), stale \in Frames \cup {NotPresent}, NEW f
  PROVE  Contents(m, f) \in TableContents
BY DEF TypedMemory, Contents, TableContents

LEMMA ReachedType ==
  ASSUME TypedMemory(mem), stale \in Frames \cup {NotPresent}, cr3 \in Frames \cup {NotPresent},
         NEW f \in Frames
  PROVE  Reached(f) \in Frames \cup {NotPresent}
<1> DEFINE p == PHYS_TO_VIRT(f)
<1>1. p \in Pages
  BY VirtualPage
<1> HIDE DEF p
<1>2. EntryOf(p) \in Entries /\ IndexOf(p) \in Entries
  BY <1>1, PageParts
<1>3. CASE cr3 = NotPresent
  <2>1. p \in WindowStart .. WindowStart + TableEntries - 1 => p - WindowStart = IndexOf(p)
    BY <1>1, WindowPages
  <2>2. Walk(mem, cr3, p) \in Frames \cup {NotPresent}
    BY <1>2, <1>3, <2>1, FramesAre DEF Walk
  <2> QED
    BY <2>2 DEF Reached, Translate, p
<1>4. CASE cr3 # NotPresent
  <2> DEFINE entry == Contents(mem, cr3)[EntryOf(p)]
  <2>1. entry \in Frames \cup {NotPresent} /\ Contents(mem, entry)[IndexOf(p)] \in Frames \cup {NotPresent}
    BY <1>2, ContentsType DEF TableContents
  <2>2. Walk(mem, cr3, p) = IF entry = NotPresent THEN NotPresent ELSE Contents(mem, entry)[IndexOf(p)]
    BY <1>4 DEF Walk, EntryOf, IndexOf
  <2> QED
    BY <2>1, <2>2 DEF Reached, Translate, p
<1> QED
  BY <1>3, <1>4

(* On the boot tables the window shows its frames, and only those. *)
LEMMA BootWindow ==
  ASSUME cr3 = NotPresent, NEW f \in Frames
  PROVE  /\ f \in Entries => Reached(f) = f
         /\ f \notin Entries => Reached(f) = NotPresent
<1> DEFINE p == PHYS_TO_VIRT(f)
<1>1. p \in Pages
  BY VirtualPage
<1>2. Reached(f) = IF p \in WindowStart .. WindowStart + TableEntries - 1 THEN p - WindowStart ELSE NotPresent
  BY DEF Reached, Translate, Walk
<1>3. CASE f \in Entries
  BY <1>1, <1>2, <1>3, WindowShows, WindowPages, FramesAre
<1>4. CASE f \notin Entries
  BY <1>2, <1>4, BeyondWindow
<1> QED
  BY <1>3, <1>4

LEMMA StoreType ==
  ASSUME NEW m, TypedMemory(m), stale \in Frames \cup {NotPresent}, NEW frame \in Frames,
         NEW index \in Entries, NEW entry \in Frames \cup {NotPresent}
  PROVE  TypedMemory(Store(m, frame, index, entry))
<1>1. [Contents(m, frame) EXCEPT ![index] = entry] \in TableContents
  BY ContentsType DEF TableContents
<1> QED
  BY <1>1 DEF Store, TypedMemory

LEMMA ClearedType ==
  ASSUME NEW m, TypedMemory(m), NEW frame \in Frames
  PROVE  TypedMemory(Cleared(m, frame))
BY DEF Cleared, TypedMemory, TableContents

LEMMA TypeParts ==
  BootTypeOK <=> /\ TypeOK /\ TypedMemory(mem)
                 /\ cr3 \in Frames \cup {NotPresent} /\ table \in Frames \cup {NotPresent}
                 /\ phys \in Frames \cup {NotPresent} /\ stale \in Frames \cup {NotPresent}
                 /\ tables \subseteq Frames
                 /\ mapped \in 0 .. HeapPages + fbPages
                 /\ pc \in {"initPMM", "table", "directory", "first", "map", "alloc",
                            "framebuffer", "done", "fault"}
BY DEF BootTypeOK, TypedMemory, TableContents

(* mapPage either stops at a page fault or goes on; in both cases it       *)
(* leaves tables, whatever the frames are that it takes for them.          *)
LEMMA MapPageType ==
  ASSUME Inv, MachineFits, BootTypeOK, cr3 # NotPresent,
         NEW frame \in Frames, NEW page \in Pages, NEW next, MapPage(frame, page, next)
  PROVE  /\ Inv' /\ UNCHANGED <<totalMemory, memoryMap, marked, stale, cr3, table, phys, fbPages>>
         /\ TypedMemory(mem)' /\ tables' \subseteq Frames
         /\ \/ pc' = "fault" /\ mapped' = mapped
            \/ pc' = next /\ mapped' = mapped + 1
<1> DEFINE dir   == Reached(cr3)
           index == page % TableEntries
           slot  == page \div TableEntries
           entry == Contents(mem, dir)[slot]
<1>1. index \in Entries /\ slot \in Entries
  BY PageParts DEF EntryOf, IndexOf
<1>2. /\ TypedMemory(mem) /\ stale \in Frames \cup {NotPresent} /\ cr3 \in Frames /\ tables \subseteq Frames
      /\ cr3 \in Frames \cup {NotPresent}
  BY TypeParts
<1>3. dir \in Frames \cup {NotPresent}
  BY <1>2, ReachedType
<1>4. entry \in Frames \cup {NotPresent}
  BY <1>1, <1>2, ContentsType DEF TableContents
<1>5. ASSUME UNCHANGED vars PROVE Inv' /\ UNCHANGED <<totalMemory, memoryMap, marked>>
  BY <1>5, NextInv DEF vars
<1>6. ASSUME AllocBlock(1)
      PROVE  Inv' /\ UNCHANGED <<totalMemory, memoryMap, marked>> /\ FrameOf(result'.page) \in Frames
  BY <1>6, AllocKeepsInv, AllocOne, AllocFrame
<1>7. ASSUME PageFault
      PROVE  /\ UNCHANGED <<stale, cr3, table, phys, fbPages>>
             /\ TypedMemory(mem)' /\ tables' \subseteq Frames
             /\ pc' = "fault" /\ mapped' = mapped
  BY <1>2, <1>7 DEF PageFault, vmmVars, TypedMemory
<1>8. CASE (dir = NotPresent \/ (entry # NotPresent /\ Reached(entry) = NotPresent)) /\ PageFault /\ UNCHANGED vars
  BY <1>5, <1>7, <1>8
<1>9. CASE /\ dir # NotPresent /\ entry # NotPresent /\ Reached(entry) # NotPresent
           /\ mem' = Store(mem, Reached(entry), index, frame)
           /\ Advance(next)
           /\ UNCHANGED <<vars, tables>>
  <2>1. Reached(entry) \in Frames
    BY <1>2, <1>4, <1>9, ReachedType
  <2>2. TypedMemory(mem')
    BY <1>1, <1>2, <1>9, <2>1, StoreType
  <2> QED
    BY <1>2, <1>5, <1>9, <2>2 DEF Advance, TypedMemory
<1>10. CASE /\ dir # NotPresent /\ entry = NotPresent
            /\ AllocBlock(1)
            /\ LET new == FrameOf(result'.page)
               IN  \/ Reached(new) = NotPresent /\ PageFault
                   \/ /\ Reached(new) # NotPresent
                      /\ mem' = Store(Store(Cleared(mem, Reached(new)),
                                            Reached(new), index, frame),
                                      dir, slot, new)
                      /\ tables' = tables \cup {new}
                      /\ Advance(next)
  <2> DEFINE new == FrameOf(result'.page)
             m1  == Cleared(mem, Reached(new))
             m2  == Store(m1, Reached(new), index, frame)
  <2>1. new \in Frames
    BY <1>6, <1>10
  <2> HIDE DEF new
  <2>2. CASE Reached(new) = NotPresent /\ PageFault
    BY <1>6, <1>7, <1>10, <2>2
  <2>3. CASE /\ Reached(new) # NotPresent
             /\ mem' = Store(m2, dir, slot, new)
             /\ tables' = tables \cup {new}
             /\ Advance(next)
    <3>1. Reached(new) \in Frames /\ dir \in Frames
      BY <1>2, <1>3, <1>10, <2>1, <2>3, ReachedType
    <3> HIDE DEF dir, entry, index, slot
    <3>2. TypedMemory(m1)
      BY <1>2, <3>1, ClearedType
    <3>3. TypedMemory(m2)
      BY <1>1, <1>2, <3>1, <3>2, StoreType
    <3>4. TypedMemory(mem')
      BY <1>1, <1>2, <2>1, <2>3, <3>1, <3>3, StoreType
    <3>5. tables' \subseteq Frames
      BY <1>2, <2>1, <2>3
    <3>6. /\ UNCHANGED <<stale, cr3, table, phys, fbPages>>
          /\ pc' = next /\ mapped' = mapped + 1
      BY <2>3 DEF Advance
    <3> QED
      BY <1>6, <1>10, <3>4, <3>5, <3>6 DEF TypedMemory
  <2> QED
    BY <1>10, <2>2, <2>3 DEF new
<1> QED
  BY <1>8, <1>9, <1>10 DEF MapPage

LEMMA KeptFits ==
  ASSUME MachineFits, UNCHANGED <<totalMemory, memoryMap, fbPages>>
  PROVE  MachineFits'
BY DEF MachineFits, RegionPages

LEMMA TypeInvInit == BootInit => TypeInv
<1> SUFFICES ASSUME BootInit PROVE TypeInv
  OBVIOUS
<1>1. Inv
  BY InitInv DEF BootInit
<1>2. PICK m \in Machines : totalMemory = m.mem_upper /\ memoryMap = m.map
  BY DEF BootInit, Init
<1>3. MachineFits
  <2>1. fbPages \in FramebufferSizes
    BY DEF BootInit
  <2>2. /\ LowPages + m.mem_upper \div 4 <= PageLimit
        /\ \A n \in FramebufferSizes : \A f \in FramebufferFrame .. FramebufferFrame + n - 1 :
             f < LowPages + m.mem_upper \div 4 =>
               \E i \in 1 .. Len(m.map) : ~ m.map[i].available /\ f \in RegionPages(m.map[i])
    BY MemoryAssumption DEF PageLimit
  <2> QED
    BY <1>2, <2>1, <2>2 DEF MachineFits
<1>4. DOMAIN mem = {}
  BY DEF BootInit
<1>5. BootTypeOK
  <2>1. TypeOK /\ TypedMemory(mem) /\ fbPages \in Nat
    BY <1>1, <1>3, <1>4, Layout DEF Inv, TypedMemory, MachineFits
  <2>2. stale \in Frames \cup {NotPresent}
    BY LayoutAssumption DEF BootInit
  <2>3. cr3 = NotPresent /\ table = NotPresent /\ phys = NotPresent /\ mapped = 0 /\ tables = {} /\ pc = "initPMM"
    BY DEF BootInit
  <2>4. mapped \in 0 .. HeapPages + fbPages
    BY <2>1, <2>3, Numbers
  <2> QED
    BY <2>1, <2>2, <2>3, <2>4, TypeParts
<1>6. Control
  BY <1>4 DEF BootInit, Init, Control
<1> QED
  BY <1>1, <1>3, <1>5, <1>6 DEF TypeInv

(* What a step that takes a frame leaves as it is. *)
LEMMA AllocKeeps ==
  ASSUME Inv, MachineFits, AllocBlock(1), UNCHANGED fbPages
  PROVE  Inv' /\ MachineFits' /\ TypeOK' /\ marked' = Len(memoryMap') /\ marked' = marked
<1>1. Inv' /\ marked = Len(memoryMap) /\ UNCHANGED <<totalMemory, memoryMap, marked>>
  BY AllocKeepsInv, AllocOne
<1> QED
  BY <1>1, KeptFits DEF Inv

LEMMA InitPMMType == TypeInv /\ InitPMM => TypeInv'
<1> SUFFICES ASSUME TypeInv, InitPMM PROVE TypeInv'
  OBVIOUS
<1>1. Inv /\ MachineFits /\ BootTypeOK /\ Control /\ pc = "initPMM" /\ UNCHANGED vmmVars
  BY DEF TypeInv, InitPMM
<1>2. /\ UNCHANGED <<totalMemory, memoryMap, result, held>>
      /\ Inv'
      /\ pc' = pc \/ (pc' = "table" /\ marked' = Len(memoryMap'))
  <2>1. CASE MarkEntry /\ UNCHANGED pc
    BY <1>1, <2>1, MarkEntryInv DEF MarkEntry
  <2>2. CASE marked = Len(memoryMap) /\ pc' = "table" /\ UNCHANGED vars
    BY <1>1, <2>2, NextInv DEF vars
  <2> QED
    BY <2>1, <2>2 DEF InitPMM
<1>3. MachineFits'
  BY <1>1, <1>2, KeptFits DEF vmmVars
<1>4. BootTypeOK'
  BY <1>1, <1>2 DEF BootTypeOK, vmmVars, Inv
<1>5. Control'
  BY <1>1, <1>2 DEF Control, vmmVars
<1> QED
  BY <1>2, <1>3, <1>4, <1>5 DEF TypeInv

LEMMA AllocTableStep ==
  ASSUME Inv, MachineFits, Control, AllocTable
  PROVE  \/ /\ pc' = "fault" /\ UNCHANGED vmmVars
            /\ FrameOf(result'.page) \notin Entries
         \/ /\ pc' = "directory" /\ UNCHANGED <<stale, cr3, phys, mapped, fbPages>>
            /\ table' \in Entries /\ tables' = {table'} /\ table' = FrameOf(result'.page)
            /\ DOMAIN mem' = {table'} /\ mem'[table'] = [i \in Entries |-> NotPresent]
            /\ held' = {table'} /\ result'.page # NoBlock
<1> DEFINE frame == FrameOf(result'.page)
<1>1. AllocBlock(1) /\ pc = "table"
  BY DEF AllocTable
<1>2. frame \in Frames /\ (frame \in Entries => held' = held \cup {frame} /\ result'.page # NoBlock)
  BY <1>1, AllocFrame
<1>3. cr3 = NotPresent /\ DOMAIN mem = {} /\ held = {}
  BY <1>1 DEF Control
<1>4. CASE Reached(frame) = NotPresent /\ PageFault
  BY <1>2, <1>3, <1>4, BootWindow, FramesAre DEF PageFault
<1>5. CASE /\ Reached(frame) # NotPresent
           /\ mem' = Cleared(mem, Reached(frame))
           /\ table' = frame
           /\ tables' = {frame}
           /\ pc' = "directory"
           /\ UNCHANGED <<stale, cr3, phys, mapped, fbPages>>
  <2>1. frame \in Entries /\ Reached(frame) = frame
    BY <1>2, <1>3, <1>5, BootWindow
  <2>2. DOMAIN mem' = {frame} /\ mem'[frame] = [i \in Entries |-> NotPresent]
    BY <1>3, <1>5, <2>1 DEF Cleared
  <2> QED
    BY <1>2, <1>3, <1>5, <2>1, <2>2
<1> QED
  BY <1>4, <1>5 DEF AllocTable

LEMMA AllocTableType == TypeInv /\ AllocTable => TypeInv'
<1> SUFFICES ASSUME TypeInv, AllocTable PROVE TypeInv'
  OBVIOUS
<1>1. Inv /\ MachineFits /\ BootTypeOK /\ Control /\ pc = "table" /\ AllocBlock(1)
  BY DEF TypeInv, AllocTable
<1>2. fbPages' = fbPages
  BY DEF AllocTable, PageFault, vmmVars
<1>3. Inv' /\ MachineFits' /\ TypeOK' /\ marked' = Len(memoryMap')
  BY <1>1, <1>2, AllocKeeps
<1>4. CASE pc' = "fault" /\ UNCHANGED vmmVars
  <2>1. BootTypeOK'
    BY <1>1, <1>3, <1>4 DEF BootTypeOK, vmmVars
  <2>2. Control'
    BY <1>1, <1>3, <1>4 DEF Control, vmmVars
  <2> QED
    BY <1>3, <2>1, <2>2 DEF TypeInv
<1>5. CASE /\ pc' = "directory" /\ UNCHANGED <<stale, cr3, phys, mapped, fbPages>>
           /\ table' \in Entries /\ tables' = {table'}
           /\ DOMAIN mem' = {table'} /\ mem'[table'] = [i \in Entries |-> NotPresent]
           /\ held' = {table'}
  <2>1. BootTypeOK'
    <3>1. TypedMemory(mem)' /\ table' \in Frames /\ tables' \subseteq Frames
      BY <1>5, FramesAre DEF TypedMemory, TableContents
    <3>2. mapped' \in 0 .. HeapPages + fbPages'
      BY <1>1, <1>5, TypeParts
    <3> QED
      BY <1>1, <1>3, <1>5, <3>1, <3>2 DEF BootTypeOK, TypedMemory, TableContents
  <2>2. Control'
    BY <1>1, <1>3, <1>5 DEF Control
  <2> QED
    BY <1>3, <2>1, <2>2 DEF TypeInv
<1> QED
  BY <1>1, <1>4, <1>5, AllocTableStep

LEMMA AllocDirectoryStep ==
  ASSUME TypeInv, AllocDirectory
  PROVE  /\ FrameOf(result'.page) \in Frames /\ FrameOf(result'.page) # table
         /\ \/ /\ pc' = "fault" /\ UNCHANGED vmmVars
               /\ FrameOf(result'.page) \notin Entries
            \/ /\ pc' = "first" /\ UNCHANGED <<stale, table, phys, mapped, fbPages>>
               /\ cr3' = FrameOf(result'.page) /\ cr3' \in Entries /\ tables' = tables \cup {cr3'}
               /\ held' = held \cup {cr3'} /\ result'.page # NoBlock
               /\ DOMAIN mem' = {table, cr3'}
               /\ mem'[table] = WindowEntries
               /\ mem'[cr3'] = [i \in Entries |-> IF i = KernelEntry THEN table ELSE NotPresent]
<1> DEFINE dir == FrameOf(result'.page)
<1>1. AllocBlock(1) /\ pc = "directory" /\ Inv /\ MachineFits /\ Control
  BY DEF AllocDirectory, TypeInv
<1>2. /\ dir \in Frames
      /\ (dir \in Entries => dir \notin held /\ held' = held \cup {dir} /\ result'.page # NoBlock)
  BY <1>1, AllocFrame
<1>3. cr3 = NotPresent /\ table \in Entries /\ held = {table} /\ DOMAIN mem = {table}
  BY <1>1 DEF Control
<1>4. dir # table
  BY <1>2, <1>3
<1>5. CASE Reached(dir) = NotPresent /\ PageFault
  BY <1>2, <1>3, <1>4, <1>5, BootWindow, FramesAre DEF PageFault
<1>6. CASE /\ Reached(dir) # NotPresent
           /\ mem' = Store([Cleared(mem, Reached(dir)) EXCEPT ![Reached(table)] = WindowEntries],
                           Reached(dir), KernelEntry, table)
           /\ cr3' = dir
           /\ tables' = tables \cup {dir}
           /\ pc' = "first"
           /\ UNCHANGED <<stale, table, phys, mapped, fbPages>>
  <2> DEFINE empty == [i \in Entries |-> NotPresent]
             m1 == Cleared(mem, dir)
             m2 == [m1 EXCEPT ![table] = WindowEntries]
  <2>1. dir \in Entries /\ Reached(dir) = dir /\ Reached(table) = table
    BY <1>2, <1>3, <1>6, BootWindow, FramesAre
  <2>2. DOMAIN m1 = {table, dir} /\ m1[dir] = empty
    BY <1>3 DEF Cleared
  <2>3. mem' = Store(m2, dir, KernelEntry, table)
    BY <1>6, <2>1
  <2> HIDE DEF m1, dir
  <2>4. DOMAIN m2 = {table, dir} /\ m2[dir] = empty /\ m2[table] = WindowEntries
    BY <1>4, <2>2
  <2> HIDE DEF m2
  <2>5. /\ DOMAIN mem' = {table, dir} /\ mem'[table] = WindowEntries
        /\ mem'[dir] = [empty EXCEPT ![KernelEntry] = table]
    BY <1>4, <2>3, <2>4 DEF Store, Contents
  <2>6. mem'[dir] = [i \in Entries |-> IF i = KernelEntry THEN table ELSE NotPresent]
    BY <2>5, LayoutAssumption
  <2> QED
    BY <1>2, <1>4, <1>6, <2>1, <2>5, <2>6 DEF dir
<1> QED
  BY <1>2, <1>4, <1>5, <1>6 DEF AllocDirectory

LEMMA WindowContents == WindowEntries \in TableContents
BY FramesAre DEF WindowEntries, TableContents

LEMMA AllocDirectoryType == TypeInv /\ AllocDirectory => TypeInv'
<1> SUFFICES ASSUME TypeInv, AllocDirectory PROVE TypeInv'
  OBVIOUS
<1>1. Inv /\ MachineFits /\ BootTypeOK /\ Control /\ pc = "directory" /\ AllocBlock(1)
  BY DEF TypeInv, AllocDirectory
<1>2. fbPages' = fbPages
  BY DEF AllocDirectory, PageFault, vmmVars
<1>3. Inv' /\ MachineFits' /\ TypeOK' /\ marked' = Len(memoryMap')
  BY <1>1, <1>2, AllocKeeps
<1>4. CASE pc' = "fault" /\ UNCHANGED vmmVars
  <2>1. BootTypeOK'
    BY <1>1, <1>3, <1>4 DEF BootTypeOK, vmmVars
  <2>2. Control'
    BY <1>1, <1>3, <1>4 DEF Control, vmmVars
  <2> QED
    BY <1>3, <2>1, <2>2 DEF TypeInv
<1>5. CASE /\ pc' = "first" /\ UNCHANGED <<stale, table, phys, mapped, fbPages>>
           /\ cr3' \in Entries /\ tables' = tables \cup {cr3'}
           /\ DOMAIN mem' = {table, cr3'}
           /\ mem'[table] = WindowEntries
           /\ mem'[cr3'] = [i \in Entries |-> IF i = KernelEntry THEN table ELSE NotPresent]
  <2>1. mapped = 0 /\ table \in Entries
    BY <1>1 DEF Control
  <2>2. BootTypeOK'
    <3>1. mem'[table] \in TableContents /\ mem'[cr3'] \in TableContents
      BY <1>5, <2>1, WindowContents, FramesAre DEF TableContents
    <3>2. TypedMemory(mem)' /\ cr3' \in Frames /\ tables' \subseteq Frames
      BY <1>1, <1>5, <2>1, <3>1, FramesAre, TypeParts DEF TypedMemory
    <3> QED
      BY <1>1, <1>3, <1>5, <3>2 DEF BootTypeOK, TypedMemory, TableContents
  <2>3. Control'
    BY <1>1, <1>3, <1>5, <2>1, FramesAre DEF Control
  <2> QED
    BY <1>3, <2>2, <2>3 DEF TypeInv
<1> QED
  BY <1>4, <1>5, AllocDirectoryStep

LEMMA AllocFirstType == TypeInv /\ AllocFirst => TypeInv'
<1> SUFFICES ASSUME TypeInv, AllocFirst PROVE TypeInv'
  OBVIOUS
<1>1. Inv /\ MachineFits /\ BootTypeOK /\ Control /\ AllocBlock(1)
  BY DEF TypeInv, AllocFirst
<1>2. /\ pc = "first" /\ pc' = "map" /\ phys' = FrameOf(result'.page)
      /\ UNCHANGED <<mem, stale, cr3, table, mapped, fbPages, tables>>
  BY DEF AllocFirst
<1>3. Inv' /\ MachineFits' /\ TypeOK' /\ marked' = Len(memoryMap') /\ phys' \in Frames
  BY <1>1, <1>2, AllocKeeps, AllocFrame
<1>4. BootTypeOK'
  BY <1>1, <1>2, <1>3 DEF BootTypeOK
<1>5. Control'
  BY <1>1, <1>2, <1>3, Numbers DEF Control
<1> QED
  BY <1>3, <1>4, <1>5 DEF TypeInv

LEMMA AllocNextType == TypeInv /\ AllocNext => TypeInv'
<1> SUFFICES ASSUME TypeInv, AllocNext PROVE TypeInv'
  OBVIOUS
<1>1. Inv /\ MachineFits /\ BootTypeOK /\ Control /\ AllocBlock(1)
  BY DEF TypeInv, AllocNext
<1>2. /\ pc = "alloc" /\ pc' = IF mapped < HeapPages THEN "map" ELSE "framebuffer"
      /\ phys' = FrameOf(result'.page)
      /\ UNCHANGED <<mem, stale, cr3, table, mapped, fbPages, tables>>
  BY DEF AllocNext
<1>3. Inv' /\ MachineFits' /\ TypeOK' /\ marked' = Len(memoryMap') /\ phys' \in Frames
  BY <1>1, <1>2, AllocKeeps, AllocFrame
<1>4. BootTypeOK'
  BY <1>1, <1>2, <1>3 DEF BootTypeOK
<1>5. Control'
  <2>1. mapped <= HeapPages /\ mapped \in Int /\ cr3 # NotPresent
    BY <1>1, <1>2, TypeParts, Layout DEF Control, MachineFits
  <2> QED
    BY <1>1, <1>2, <1>3, <2>1, Numbers DEF Control
<1> QED
  BY <1>3, <1>4, <1>5 DEF TypeInv

(* The pages the two loops map. *)
LEMMA LoopPage ==
  ASSUME fbPages \in FramebufferSizes, NEW k \in Nat, k < HeapPages + fbPages
  PROVE  HeapFirst + k \in Pages /\ EntryOf(HeapFirst + k) # KernelEntry
<1>1. fbPages \in Nat /\ HeapFirst + k \in Nat /\ HeapFirst + k < PageLimit
  BY Layout, Numbers
<1>2. HeapFirst + k \in Pages
  BY <1>1, FramesAre
<1>3. HeapFirst + k \notin WindowStart .. WindowStart + TableEntries - 1
  BY Layout, Numbers
<1> QED
  BY <1>2, <1>3, WindowPages

LEMMA MapHeapPageType == TypeInv /\ MapHeapPage => TypeInv'
<1> SUFFICES ASSUME TypeInv, MapHeapPage PROVE TypeInv'
  OBVIOUS
<1>1. Inv /\ MachineFits /\ BootTypeOK /\ Control
  BY DEF TypeInv
<1>2. pc = "map" /\ MapPage(phys, HeapFirst + mapped, "alloc")
  BY DEF MapHeapPage
<1>3. /\ cr3 # NotPresent /\ phys \in Frames /\ mapped < HeapPages /\ mapped \in Nat /\ fbPages \in Nat
      /\ marked = Len(memoryMap) /\ fbPages \in FramebufferSizes
  BY <1>1, <1>2, TypeParts, Layout, Numbers DEF Control, MachineFits
<1>4. HeapFirst + mapped \in Pages
  BY <1>3, LoopPage, Numbers
<1>5. /\ Inv' /\ UNCHANGED <<totalMemory, memoryMap, marked, stale, cr3, table, phys, fbPages>>
      /\ TypedMemory(mem)' /\ tables' \subseteq Frames
      /\ \/ pc' = "fault" /\ mapped' = mapped
         \/ pc' = "alloc" /\ mapped' = mapped + 1
  BY <1>1, <1>2, <1>3, <1>4, MapPageType
<1>6. MachineFits' /\ TypeOK'
  BY <1>1, <1>5, KeptFits DEF Inv
<1>7. BootTypeOK'
  <2>1. mapped' \in 0 .. HeapPages + fbPages'
    BY <1>3, <1>5, Numbers
  <2> QED
    BY <1>1, <1>5, <1>6, <2>1 DEF BootTypeOK, TypedMemory, TableContents
<1>8. Control'
  BY <1>3, <1>5, Numbers DEF Control
<1> QED
  BY <1>5, <1>6, <1>7, <1>8 DEF TypeInv

LEMMA MapFramebufferType == TypeInv /\ MapFramebuffer => TypeInv'
<1> SUFFICES ASSUME TypeInv, MapFramebuffer PROVE TypeInv'
  OBVIOUS
<1>1. Inv /\ MachineFits /\ BootTypeOK /\ Control
  BY DEF TypeInv
<1>2. /\ pc = "framebuffer" /\ mapped < HeapPages + fbPages
      /\ MapPage(FramebufferFrame + (mapped - HeapPages), HeapFirst + mapped, "framebuffer")
  BY DEF MapFramebuffer
<1>3. /\ cr3 # NotPresent /\ phys \in Frames /\ mapped >= HeapPages /\ mapped \in Nat /\ fbPages \in Nat
      /\ marked = Len(memoryMap) /\ fbPages \in FramebufferSizes
  BY <1>1, <1>2, TypeParts, Layout, Numbers DEF Control, MachineFits
<1>4. HeapFirst + mapped \in Pages
  BY <1>2, <1>3, LoopPage, Numbers
<1>5. FramebufferFrame + (mapped - HeapPages) \in Frames
  BY <1>2, <1>3, Layout, Numbers, FramesAre
<1>6. /\ Inv' /\ UNCHANGED <<totalMemory, memoryMap, marked, stale, cr3, table, phys, fbPages>>
      /\ TypedMemory(mem)' /\ tables' \subseteq Frames
      /\ \/ pc' = "fault" /\ mapped' = mapped
         \/ pc' = "framebuffer" /\ mapped' = mapped + 1
  BY <1>1, <1>2, <1>3, <1>4, <1>5, MapPageType
<1>7. MachineFits' /\ TypeOK'
  BY <1>1, <1>6, KeptFits DEF Inv
<1>8. BootTypeOK'
  <2>1. mapped' \in 0 .. HeapPages + fbPages'
    BY <1>2, <1>3, <1>6, Numbers
  <2> QED
    BY <1>1, <1>6, <1>7, <2>1 DEF BootTypeOK, TypedMemory, TableContents
<1>9. Control'
  BY <1>3, <1>6, Numbers DEF Control
<1> QED
  BY <1>6, <1>7, <1>8, <1>9 DEF TypeInv

LEMMA RestType == TypeInv /\ (FramebufferDone \/ Halt \/ UNCHANGED allVars) => TypeInv'
<1> SUFFICES ASSUME TypeInv, FramebufferDone \/ Halt \/ UNCHANGED allVars PROVE TypeInv'
  OBVIOUS
<1>1. Inv /\ MachineFits /\ BootTypeOK /\ Control
  BY DEF TypeInv
<1>2. /\ UNCHANGED vars /\ UNCHANGED vmmVars
      /\ pc' = pc \/ (pc' = "done" /\ pc = "framebuffer" /\ mapped = HeapPages + fbPages)
  BY DEF FramebufferDone, Halt, allVars
<1>3. Inv' /\ MachineFits'
  BY <1>1, <1>2, NextInv, KeptFits DEF vars, vmmVars
<1>4. BootTypeOK'
  BY <1>1, <1>2, <1>3 DEF BootTypeOK, vmmVars, Inv
<1>5. Control'
  BY <1>1, <1>2 DEF Control, vars, vmmVars
<1> QED
  BY <1>3, <1>4, <1>5 DEF TypeInv

LEMMA TypeInvNext == TypeInv /\ [BootNext]_allVars => TypeInv'
BY InitPMMType, AllocTableType, AllocDirectoryType, AllocFirstType, AllocNextType,
   MapHeapPageType, MapFramebufferType, RestType DEF BootNext

LEMMA TypeInvariance == BootSpec => []TypeInv
BY TypeInvInit, TypeInvNext, PTL DEF BootSpec

(* The variables of the boot keep their types: the loops map no page too   *)
(* many, and what the tables hold are frames, whatever was in them.        *)
THEOREM BootTypeCorrect == BootSpec => []BootTypeOK
<1>1. TypeInv => BootTypeOK
  BY DEF TypeInv
<1> QED
  BY <1>1, TypeInvariance, PTL

-----------------------------------------------------------------------------
(* The page tables as the boot builds them. *)

LEMMA LinkedReach ==
  ASSUME Linked(mem, cr3, table, tables), NEW f \in Entries
  PROVE  Reached(f) = f
<1>1. /\ PHYS_TO_VIRT(f) \in Pages /\ EntryOf(PHYS_TO_VIRT(f)) = KernelEntry
      /\ IndexOf(PHYS_TO_VIRT(f)) = f
  BY WindowShows
<1>2. Translate(PHYS_TO_VIRT(f)) = MapsTo(mem, cr3, PHYS_TO_VIRT(f))
  BY <1>1, LinkedWalk DEF Translate
<1>3. MapsTo(mem, cr3, PHYS_TO_VIRT(f)) = f
  BY <1>1, LinkedWindow
<1> QED
  BY <1>2, <1>3 DEF Reached

LEMMA LinkedTranslate ==
  ASSUME Linked(mem, cr3, table, tables), NEW p \in Pages
  PROVE  Translate(p) = MapsTo(mem, cr3, p)
BY LinkedWalk DEF Translate

OnlyMaps(new, old, dir, page, frame) ==
  \A p \in Pages : MapsTo(new, dir, p) = IF p = page THEN frame ELSE MapsTo(old, dir, p)

(* What mapPage does to linked tables. *)
LEMMA MapPageLinked ==
  ASSUME TypeInv, Linked(mem, cr3, table, tables), tables \subseteq held, cr3 # NotPresent,
         NEW frame \in Frames, NEW page \in Pages, EntryOf(page) # KernelEntry,
         NEW next, MapPage(frame, page, next)
  PROVE  \/ /\ pc' = "fault" /\ UNCHANGED vmmVars /\ AllocBlock(1)
            /\ FrameOf(result'.page) \notin Entries
         \/ /\ pc' = next /\ mapped' = mapped + 1 /\ UNCHANGED <<stale, cr3, table, phys, fbPages>>
            /\ \/ /\ UNCHANGED <<vars, tables>>
                  /\ Linked(mem', cr3, table, tables) /\ OnlyMaps(mem', mem, cr3, page, frame)
               \/ /\ AllocBlock(1) /\ tables' = tables \cup {FrameOf(result'.page)}
                  /\ FrameOf(result'.page) \in Entries =>
                       /\ Linked(mem', cr3, table, tables \cup {FrameOf(result'.page)})
                       /\ OnlyMaps(mem', mem, cr3, page, frame)
<1> DEFINE dir   == Reached(cr3)
           entry == Contents(mem, dir)[page \div TableEntries]
<1>1. /\ cr3 \in Entries /\ cr3 \in DOMAIN mem
      /\ EntryOf(page) \in Entries
  BY PageParts DEF Linked
<1>2. dir = cr3
  BY <1>1, LinkedReach
<1>3. entry = mem[cr3][EntryOf(page)]
  BY <1>1, <1>2 DEF Contents, EntryOf
<1>4. entry # NotPresent => entry \in Entries /\ Reached(entry) = entry
  BY <1>1, <1>3, LinkedReach DEF Linked
<1> HIDE DEF entry, dir
<1>5. ASSUME dir = NotPresent \/ (entry # NotPresent /\ Reached(entry) = NotPresent)
      PROVE  FALSE
  BY <1>2, <1>4, <1>5
<1>6. CASE /\ entry # NotPresent
           /\ mem' = Store(mem, Reached(entry), page % TableEntries, frame)
           /\ Advance(next)
           /\ UNCHANGED <<vars, tables>>
  <2>1. mem' = Store(mem, entry, IndexOf(page), frame)
    BY <1>4, <1>6 DEF IndexOf
  <2>2. Linked(mem', cr3, table, tables) /\ OnlyMaps(mem', mem, cr3, page, frame)
    BY <1>3, <1>6, <2>1, StoreEntry DEF OnlyMaps
  <2> QED
    BY <1>6, <2>2 DEF Advance
<1>7. CASE /\ entry = NotPresent
           /\ AllocBlock(1)
           /\ LET new == FrameOf(result'.page)
              IN  \/ Reached(new) = NotPresent /\ PageFault
                  \/ /\ Reached(new) # NotPresent
                     /\ mem' = Store(Store(Cleared(mem, Reached(new)),
                                           Reached(new), page % TableEntries, frame),
                                     dir, page \div TableEntries, new)
                     /\ tables' = tables \cup {new}
                     /\ Advance(next)
  <2> DEFINE new == FrameOf(result'.page)
  <2>1. new \in Frames /\ (new \in Entries => new \notin held)
    BY <1>7, AllocFrame DEF TypeInv
  <2>2. new \in Entries => Reached(new) = new /\ Reached(new) # NotPresent
    BY LinkedReach, FramesAre
  <2> HIDE DEF new
  <2>3. CASE Reached(new) = NotPresent /\ PageFault
    BY <1>7, <2>2, <2>3 DEF PageFault, new
  <2>4. CASE /\ mem' = Store(Store(Cleared(mem, Reached(new)),
                                   Reached(new), page % TableEntries, frame),
                             dir, page \div TableEntries, new)
             /\ tables' = tables \cup {new}
             /\ Advance(next)
    <3>1. ASSUME new \in Entries
          PROVE  /\ Linked(mem', cr3, table, tables \cup {new})
                 /\ OnlyMaps(mem', mem, cr3, page, frame)
      <4>1. mem' = Store(Store(Cleared(mem, new), new, IndexOf(page), frame), cr3, EntryOf(page), new)
        BY <1>2, <2>2, <2>4, <3>1 DEF IndexOf, EntryOf
      <4>2. new \notin tables
        BY <2>1, <3>1
      <4>3. mem[cr3][EntryOf(page)] = NotPresent
        BY <1>3, <1>7
      <4>4. /\ Linked(mem', cr3, table, tables \cup {new})
            /\ \A p \in Pages : MapsTo(mem', cr3, p) = IF p = page THEN frame ELSE MapsTo(mem, cr3, p)
        BY <3>1, <4>1, <4>2, <4>3, StoreTable
      <4> QED
        BY <4>4 DEF OnlyMaps
    <3>2. /\ pc' = next /\ mapped' = mapped + 1 /\ UNCHANGED <<stale, cr3, table, phys, fbPages>>
          /\ tables' = tables \cup {new}
      BY <2>4 DEF Advance
    <3>3. AllocBlock(1)
      BY <1>7
    <3>4. /\ tables' = tables \cup {FrameOf(result'.page)}
          /\ FrameOf(result'.page) \in Entries =>
               /\ Linked(mem', cr3, table, tables \cup {FrameOf(result'.page)})
               /\ OnlyMaps(mem', mem, cr3, page, frame)
      BY <3>1, <3>2 DEF new
    <3> QED
      BY <3>2, <3>3, <3>4
  <2> QED
    BY <1>7, <2>3, <2>4 DEF new
<1> QED
  BY <1>5, <1>6, <1>7 DEF MapPage, entry, dir

-----------------------------------------------------------------------------
(* Frames beyond the window. *)

LEMMA SoundTables ==
  /\ TypeInv => (TablesInWindow <=> tables \subseteq Entries)
  /\ (TypeInv => (TablesInWindow <=> tables \subseteq Entries))'
<1>1. TypeInv => (TablesInWindow <=> tables \subseteq Entries)
  BY FramesAre, TypeParts DEF TypeInv, TablesInWindow
<1> QED
  BY <1>1, PTL

(* A step that takes a frame, for a table or not ... *)
LEMMA AllocBeyond ==
  ASSUME TypeInv, Beyond, TypeInv', AllocBlock(1), tables' \subseteq tables \cup {FrameOf(result'.page)},
         pc' = "fault" => ~ TablesInWindow \/ FrameOf(result'.page) \notin Entries
  PROVE  Beyond'
<1> DEFINE frame == FrameOf(result'.page)
<1>1. /\ frame \notin Entries => NoWindowFrame' /\ WindowUsedUp'
      /\ WindowUsedUp => frame \notin Entries
      /\ result'.page = NoBlock => NoneFree(0)'
  BY AllocFrame DEF TypeInv
<1>2. ~ TablesInWindow => frame \notin Entries
  BY <1>1 DEF Beyond
<1> HIDE DEF frame
<1>3. ~ TablesInWindow' => ~ TablesInWindow \/ frame \notin Entries
  BY SoundTables DEF frame
<1> QED
  BY <1>1, <1>2, <1>3 DEF Beyond, frame

(* ... and one that takes none. *)
LEMMA KeptBeyond ==
  ASSUME Beyond, UNCHANGED <<totalMemory, bits, result, tables>>, pc # "initPMM", pc # "table",
         pc' = "fault" => ~ TablesInWindow \/ pc = "fault"
  PROVE  Beyond'
BY DEF Beyond, TablesInWindow, WindowUsedUp, NoWindowFrame, NoneFree, SearchLimit, NumBlocks

LEMMA MapPageFrames ==
  ASSUME NEW frame, NEW page, NEW next, MapPage(frame, page, next)
  PROVE  /\ \/ UNCHANGED <<vars, tables>>
            \/ /\ AllocBlock(1)
               /\ tables' = tables \/ tables' = tables \cup {FrameOf(result'.page)}
         /\ pc' \in {"fault", next}
<1>1. PageFault => pc' = "fault" /\ tables' = tables
  BY DEF PageFault, vmmVars
<1>2. Advance(next) => pc' = next
  BY DEF Advance
<1> HIDE DEF PageFault, Advance
<1> QED
  BY <1>1, <1>2 DEF MapPage

LEMMA BeyondInit == BootInit => Beyond
BY DEF BootInit, Init, Beyond, TablesInWindow

(* mapPage faults only without a frame that the window reaches. *)
LEMMA MapPageBeyond ==
  ASSUME TypeInv, Beyond, LinkInv, TypeInv', cr3 # NotPresent, pc \in {"map", "framebuffer"},
         NEW frame \in Frames, NEW page \in Pages, EntryOf(page) # KernelEntry,
         NEW next, next # "fault", MapPage(frame, page, next)
  PROVE  Beyond'
<1>1. ASSUME TablesInWindow
      PROVE  pc' = "fault" => AllocBlock(1) /\ tables' = tables /\ FrameOf(result'.page) \notin Entries
  <2>1. Linked(mem, cr3, table, tables) /\ tables \subseteq held
    BY <1>1 DEF LinkInv, OnKernelTables
  <2> QED
    BY <2>1, MapPageLinked DEF vmmVars
<1>2. CASE UNCHANGED <<vars, tables>> /\ ~ (pc' = "fault" /\ TablesInWindow)
  BY <1>2, KeptBeyond DEF vars
<1>3. CASE AllocBlock(1) /\ tables' \subseteq tables \cup {FrameOf(result'.page)}
  BY <1>1, <1>3, AllocBeyond
<1> QED
  BY <1>1, <1>2, <1>3, MapPageFrames

(* Where the two loops are when they call mapPage. *)
LEMMA LoopFacts ==
  ASSUME TypeInv, pc = "map" \/ (pc = "framebuffer" /\ mapped < HeapPages + fbPages)
  PROVE  /\ cr3 # NotPresent /\ mapped \in Nat /\ mapped < HeapPages + fbPages
         /\ fbPages \in Nat /\ fbPages \in FramebufferSizes
         /\ HeapFirst + mapped \in Pages /\ EntryOf(HeapFirst + mapped) # KernelEntry
         /\ pc = "map" => phys \in Frames /\ mapped < HeapPages
         /\ pc = "framebuffer" => mapped >= HeapPages
                                    /\ FramebufferFrame + (mapped - HeapPages) \in Frames
<1>1. /\ cr3 # NotPresent /\ mapped \in Nat /\ fbPages \in Nat /\ fbPages \in FramebufferSizes
      /\ pc = "map" => phys \in Frames /\ mapped < HeapPages
      /\ pc = "framebuffer" => mapped >= HeapPages
  BY TypeParts, Layout, Numbers DEF TypeInv, Control, MachineFits
<1>2. mapped < HeapPages + fbPages
  BY <1>1, Numbers
<1>3. HeapFirst + mapped \in Pages /\ EntryOf(HeapFirst + mapped) # KernelEntry
  BY <1>1, <1>2, LoopPage
<1>4. pc = "framebuffer" => FramebufferFrame + (mapped - HeapPages) \in Frames
  BY <1>1, <1>2, Layout, Numbers, FramesAre
<1> QED
  BY <1>1, <1>2, <1>3, <1>4

LEMMA BeyondNext == TypeInv /\ Beyond /\ LinkInv /\ [BootNext]_allVars => Beyond'
<1> SUFFICES ASSUME TypeInv, Beyond, LinkInv, [BootNext]_allVars PROVE Beyond'
  OBVIOUS
<1>0. TypeInv'
  BY TypeInvNext
<1>1. CASE InitPMM
  <2>1. pc' \in {"initPMM", "table"} /\ tables' = tables /\ tables = {}
    BY <1>1 DEF InitPMM, vmmVars, TypeInv, Control
  <2> QED
    BY <2>1 DEF Beyond, TablesInWindow
<1>2. CASE AllocTable
  <2>1. AllocBlock(1) /\ tables = {} /\ Inv /\ MachineFits /\ Control
    BY <1>2 DEF AllocTable, TypeInv, Control
  <2>2. /\ tables' \subseteq tables \cup {FrameOf(result'.page)}
        /\ pc' = "fault" => FrameOf(result'.page) \notin Entries
    BY <1>2, <2>1, AllocTableStep DEF vmmVars
  <2> QED
    BY <1>0, <2>1, <2>2, AllocBeyond
<1>3. CASE AllocDirectory
  <2>1. AllocBlock(1)
    BY <1>3 DEF AllocDirectory
  <2>2. /\ tables' \subseteq tables \cup {FrameOf(result'.page)}
        /\ pc' = "fault" => FrameOf(result'.page) \notin Entries
    BY <1>3, AllocDirectoryStep DEF vmmVars
  <2> QED
    BY <1>0, <2>1, <2>2, AllocBeyond
<1>4. CASE AllocFirst \/ AllocNext
  <2>1. AllocBlock(1) /\ tables' = tables /\ pc' # "fault"
    BY <1>4 DEF AllocFirst, AllocNext
  <2> QED
    BY <1>0, <2>1, AllocBeyond
<1>5. CASE MapHeapPage
  <2>1. pc = "map" /\ MapPage(phys, HeapFirst + mapped, "alloc")
    BY <1>5 DEF MapHeapPage
  <2> QED
    BY <1>0, <2>1, LoopFacts, MapPageBeyond
<1>6. CASE MapFramebuffer
  <2>1. /\ pc = "framebuffer" /\ mapped < HeapPages + fbPages
        /\ MapPage(FramebufferFrame + (mapped - HeapPages), HeapFirst + mapped, "framebuffer")
    BY <1>6 DEF MapFramebuffer
  <2> QED
    BY <1>0, <2>1, LoopFacts, MapPageBeyond
<1>7. CASE FramebufferDone
  <2>1. pc = "framebuffer" /\ pc' = "done" /\ UNCHANGED <<totalMemory, bits, result, tables>>
    BY <1>7 DEF FramebufferDone, vars, vmmVars
  <2> QED
    BY <2>1, KeptBeyond
<1>8. CASE Halt \/ UNCHANGED allVars
  <2>1. UNCHANGED <<totalMemory, bits, result, tables, pc>>
    BY <1>8 DEF Halt, allVars, vars, vmmVars
  <2> QED
    BY <2>1 DEF Beyond, TablesInWindow, WindowUsedUp, NoWindowFrame, NoneFree, SearchLimit, NumBlocks
<1> QED
  BY <1>1, <1>2, <1>3, <1>4, <1>5, <1>6, <1>7, <1>8 DEF BootNext

-----------------------------------------------------------------------------
(* The tree of tables, and what it maps. *)

LEMMA HeapRangePages ==
  ASSUME fbPages \in FramebufferSizes, NEW p \in HeapRange
  PROVE  /\ p \in Pages /\ EntryOf(p) # KernelEntry
         /\ p - HeapFirst \in Nat /\ p - HeapFirst < HeapPages /\ p = HeapFirst + (p - HeapFirst)
<1>1. fbPages \in Nat
  BY Layout
<1>2. p - HeapFirst \in Nat /\ p - HeapFirst < HeapPages /\ p = HeapFirst + (p - HeapFirst)
  BY Layout, Numbers DEF HeapRange
<1>3. p - HeapFirst < HeapPages + fbPages
  BY <1>1, <1>2, Numbers
<1> QED
  BY <1>2, <1>3, LoopPage

LEMMA FramebufferPages ==
  ASSUME fbPages \in FramebufferSizes, NEW i \in 0 .. fbPages - 1
  PROVE  /\ FramebufferFirst + i \in Pages /\ FramebufferFirst + i \notin HeapRange
         /\ HeapPages + i \in Nat /\ FramebufferFirst + i = HeapFirst + (HeapPages + i)
<1>1. fbPages \in Nat /\ i \in Nat /\ HeapPages + i \in Nat /\ HeapPages + i < HeapPages + fbPages
  BY Layout, Numbers
<1>2. FramebufferFirst + i = HeapFirst + (HeapPages + i) /\ FramebufferFirst + i \notin HeapRange
  BY <1>1, Layout, Numbers DEF HeapRange
<1> QED
  BY <1>1, <1>2, LoopPage

LEMMA LinkInit == BootInit => LinkInv /\ OneUse
BY DEF BootInit, LinkInv, OneUse, OnKernelTables

(* initVMM links its table into the directory. *)
LEMMA AllocDirectoryLink ==
  ASSUME TypeInv, AllocDirectory, pc' # "fault"
  PROVE  /\ Linked(mem', cr3', table', tables')
         /\ \A p \in Pages : EntryOf(p) # KernelEntry => MapsTo(mem', cr3', p) = NotPresent
         /\ held' = tables' /\ mapped' = 0 /\ pc' = "first"
<1>1. /\ table \in Entries /\ held = {table} /\ tables = {table} /\ mapped = 0
  BY DEF TypeInv, Control, AllocDirectory
<1>2. /\ pc' = "first" /\ UNCHANGED <<table, mapped>> /\ cr3' # table
      /\ cr3' \in Entries /\ tables' = tables \cup {cr3'} /\ held' = held \cup {cr3'}
      /\ DOMAIN mem' = {table, cr3'}
      /\ mem'[table] = WindowEntries
      /\ mem'[cr3'] = [i \in Entries |-> IF i = KernelEntry THEN table ELSE NotPresent]
  BY AllocDirectoryStep
<1>3. /\ \A i \in Entries : mem'[cr3'][i] = IF i = KernelEntry THEN table ELSE NotPresent
      /\ mem'[cr3'][KernelEntry] = table /\ KernelEntry \in Entries
  BY <1>2, LayoutAssumption
<1>4. \A f \in DOMAIN mem' : mem'[f] \in TableContents
  <2>1. mem'[table] \in TableContents
    BY <1>2, WindowContents
  <2>2. mem'[cr3'] \in TableContents
    BY <1>1, <1>2, FramesAre DEF TableContents
  <2> QED
    BY <1>2, <2>1, <2>2
<1>5. tables' = {cr3'} \cup ({mem'[cr3'][i] : i \in Entries} \ {NotPresent})
  <2>1. {mem'[cr3'][i] : i \in Entries} \ {NotPresent} = {table}
    BY <1>1, <1>3, FramesAre
  <2> QED
    BY <1>1, <1>2, <2>1
<1>6. Linked(mem', cr3', table', tables')
  BY <1>1, <1>2, <1>3, <1>4, <1>5 DEF Linked
<1>7. ASSUME NEW p \in Pages, EntryOf(p) # KernelEntry
      PROVE  MapsTo(mem', cr3', p) = NotPresent
  BY <1>3, <1>7, PageParts DEF MapsTo
<1> QED
  BY <1>1, <1>2, <1>6, <1>7

LEMMA AllocDirectoryLinkInv == TypeInv /\ TypeInv' /\ AllocDirectory => LinkInv' /\ OneUse'
<1> SUFFICES ASSUME TypeInv, TypeInv', AllocDirectory PROVE LinkInv' /\ OneUse'
  OBVIOUS
<1>1. CASE pc' = "fault"
  <2>1. cr3' = NotPresent
    <3>1. cr3 = NotPresent /\ UNCHANGED vmmVars
      BY <1>1, AllocDirectoryStep DEF TypeInv, Control, AllocDirectory
    <3> QED
      BY <3>1 DEF vmmVars
  <2> QED
    BY <2>1 DEF LinkInv, OneUse, OnKernelTables
<1>2. CASE pc' # "fault"
  <2>1. /\ Linked(mem', cr3', table', tables')
        /\ \A p \in Pages : EntryOf(p) # KernelEntry => MapsTo(mem', cr3', p) = NotPresent
        /\ held' = tables' /\ mapped' = 0 /\ pc' = "first"
    BY <1>2, AllocDirectoryLink
  <2>2. fbPages' \in FramebufferSizes /\ fbPages' \in Nat
    BY Layout DEF TypeInv, MachineFits
  <2>3. \A p \in HeapRange : MapsTo(mem', cr3', p) = NotPresent
    <3>1. fbPages \in FramebufferSizes
      BY DEF TypeInv, MachineFits
    <3> QED
      BY <2>1, <3>1, HeapRangePages
  <2>4. \A p \in Pages : p \notin HeapFirst .. HeapFirst + mapped' - 1
    BY <2>1, Layout
  <2>5. \A i \in 0 .. fbPages' - 1 : ~ (HeapPages + i < mapped')
    BY <2>1, <2>2, Numbers
  <2>6. LinkInv'
    BY <2>1, <2>3, <2>4, <2>5 DEF LinkInv
  <2>7. OneUse'
    BY <2>1, <2>3 DEF OneUse, InHand
  <2> QED
    BY <2>6, <2>7
<1> QED
  BY <1>1, <1>2

(* A step of the loops that only takes a frame for the heap. *)
LEMMA TakenFrameLink ==
  ASSUME TypeInv, LinkInv, OneUse, Beyond, AllocBlock(1), pc \in {"first", "alloc"},
         phys' = FrameOf(result'.page), pc' \in {"map", "framebuffer"},
         UNCHANGED <<mem, stale, cr3, table, mapped, fbPages, tables>>
  PROVE  LinkInv' /\ OneUse'
<1>1. /\ result'.page # NoBlock => phys' \notin held /\ held' = held \cup {phys'}
      /\ result'.page = NoBlock => held' = held /\ phys' = PageLimit - 1
      /\ NoneFree(0) => result'.page = NoBlock
  BY AllocFrame DEF TypeInv
<1>2. TablesInWindow' = TablesInWindow /\ OnKernelTables' = OnKernelTables
  BY DEF TablesInWindow, OnKernelTables
<1>3. HeapOwn \subseteq HeapOwn'
  BY <1>1 DEF HeapOwn
<1>4. ASSUME OnKernelTables, TablesInWindow
      PROVE  phys' \in HeapOwn'
  <2>1. tables \subseteq held
    BY <1>4 DEF LinkInv
  <2> QED
    BY <1>1, <2>1 DEF HeapOwn
<1>5. LinkInv'
  BY <1>1, <1>2, <1>3, <1>4 DEF LinkInv
<1>6. ASSUME OnKernelTables, TablesInWindow, result'.page # NoBlock
      PROVE  result.page # NoBlock /\ pc # "fault"
  BY <1>1, <1>6 DEF Beyond
<1>7. OneUse'
  <2> SUFFICES ASSUME OnKernelTables, TablesInWindow, result'.page # NoBlock
               PROVE  OneUse'
    BY <1>2 DEF OneUse
  <2>1. /\ \A f \in held : f \in tables \cup InHand \/ \E p \in HeapRange : f = MapsTo(mem, cr3, p)
        /\ \A p \in HeapRange : MapsTo(mem, cr3, p) # NotPresent => MapsTo(mem, cr3, p) \in held
        /\ \A p, q \in HeapRange : MapsTo(mem, cr3, p) = MapsTo(mem, cr3, q)
                                     /\ MapsTo(mem, cr3, p) # NotPresent => p = q
    BY <1>6 DEF OneUse
  <2>2. InHand = {} /\ InHand' = {phys'}
    BY DEF InHand
  <2>3. held' = held \cup {phys'} /\ phys' \notin held
    BY <1>1
  <2> QED
    BY <2>1, <2>2, <2>3 DEF OneUse
<1> QED
  BY <1>5, <1>7

LEMMA HeldFrames == TypeInv => held \subseteq Frames
<1> SUFFICES ASSUME TypeInv, NEW f \in held PROVE f \in Frames
  OBVIOUS
<1>1. f \in Nat /\ f < LowPages + totalMemory \div 4 /\ totalMemory \in Nat
  BY DEF TypeInv, Inv, TypeOK, GrantsInsideMemory
<1>2. LowPages + totalMemory \div 4 <= PageLimit
  BY DEF TypeInv, MachineFits
<1>3. LowPages + totalMemory \div 4 \in Nat /\ PageLimit \in Nat
  BY <1>1, LowAssumption, Numbers
<1>4. f < PageLimit
  BY <1>1, <1>2, <1>3
<1> QED
  BY <1>1, <1>4, FramesAre

(* A page the loops map: of the heap, with the frame stage1 has in hand,   *)
(* or of the framebuffer.                                                  *)
LoopStep(frame, next) ==
  \/ pc = "map" /\ next = "alloc" /\ frame = phys
  \/ /\ pc = "framebuffer" /\ next = "framebuffer" /\ mapped < HeapPages + fbPages
     /\ frame = FramebufferFrame + (mapped - HeapPages)

LEMMA LoopSteps ==
  ASSUME MapHeapPage \/ MapFramebuffer
  PROVE  \E frame, next : LoopStep(frame, next) /\ MapPage(frame, HeapFirst + mapped, next)
BY DEF MapHeapPage, MapFramebuffer, LoopStep

LEMMA LoopStepFacts ==
  ASSUME TypeInv, NEW frame, NEW next, LoopStep(frame, next)
  PROVE  /\ cr3 # NotPresent /\ mapped \in Nat /\ frame \in Frames /\ next # "fault"
         /\ fbPages \in Nat /\ fbPages \in FramebufferSizes
         /\ HeapFirst + mapped \in Pages /\ EntryOf(HeapFirst + mapped) # KernelEntry
         /\ pc \in {"map", "framebuffer"} /\ next \in {"alloc", "framebuffer"}
         /\ mapped < HeapPages => pc = "map" /\ frame = phys /\ next = "alloc"
         /\ mapped >= HeapPages => /\ pc = "framebuffer" /\ next = "framebuffer"
                                   /\ frame = FramebufferFrame + (mapped - HeapPages)
<1>1. pc = "map" \/ (pc = "framebuffer" /\ mapped < HeapPages + fbPages)
  BY DEF LoopStep
<1>2. /\ cr3 # NotPresent /\ mapped \in Nat
      /\ fbPages \in Nat /\ fbPages \in FramebufferSizes
      /\ HeapFirst + mapped \in Pages /\ EntryOf(HeapFirst + mapped) # KernelEntry
      /\ pc = "map" => phys \in Frames /\ mapped < HeapPages
      /\ pc = "framebuffer" => mapped >= HeapPages
                                 /\ FramebufferFrame + (mapped - HeapPages) \in Frames
  BY <1>1, LoopFacts
<1>3. mapped < HeapPages <=> ~ (mapped >= HeapPages)
  BY <1>2, Numbers
<1> QED
  BY <1>2, <1>3 DEF LoopStep

(* What a step of the loops does while the tables lie in the window: it    *)
(* maps its page and nothing else, and if that takes a table, a new one.   *)
LEMMA LoopLinked ==
  ASSUME TypeInv, LinkInv, TypeInv', TablesInWindow', OnKernelTables,
         NEW frame, NEW next, LoopStep(frame, next), MapPage(frame, HeapFirst + mapped, next)
  PROVE  /\ TablesInWindow /\ Linked(mem, cr3, table, tables) /\ tables \subseteq held
         /\ UNCHANGED <<stale, cr3, table, phys, fbPages>>
         /\ \/ /\ pc' = "fault" /\ UNCHANGED <<mem, tables, mapped>> /\ held \subseteq held'
               /\ HeapOwn \subseteq HeapOwn'
            \/ /\ pc' = next /\ mapped' = mapped + 1
               /\ Linked(mem', cr3, table, tables') /\ OnlyMaps(mem', mem, cr3, HeapFirst + mapped, frame)
               /\ HeapOwn \subseteq HeapOwn' /\ tables' \subseteq held'
               /\ \/ UNCHANGED <<held, tables, result>>
                  \/ /\ AllocBlock(1) /\ result'.page # NoBlock
                     /\ \E new \in Entries : new \notin held /\ held' = held \cup {new} /\ tables' = tables \cup {new}
<1> DEFINE new == FrameOf(result'.page)
<1>1. /\ frame \in Frames /\ HeapFirst + mapped \in Pages /\ EntryOf(HeapFirst + mapped) # KernelEntry
      /\ cr3 # NotPresent
  BY LoopStepFacts
<1>2. tables \subseteq tables'
  <2>1. UNCHANGED <<vars, tables>> \/ tables' = tables \/ tables' = tables \cup {FrameOf(result'.page)}
    BY MapPageFrames
  <2> QED
    BY <2>1
<1>3. TablesInWindow
  BY <1>2 DEF TablesInWindow
<1>4. Linked(mem, cr3, table, tables) /\ tables \subseteq held
  BY <1>3 DEF LinkInv
<1>5. ASSUME AllocBlock(1)
      PROVE  /\ new \in Entries => new \notin held /\ held' = held \cup {new} /\ result'.page # NoBlock
             /\ held \subseteq held' /\ (tables' = tables => HeapOwn \subseteq HeapOwn')
  <2>1. /\ new \in Entries => new \notin held /\ held' = held \cup {new} /\ result'.page # NoBlock
        /\ held \subseteq held'
    BY <1>5, AllocFrame DEF TypeInv
  <2> QED
    BY <2>1 DEF HeapOwn
<1>6. CASE /\ pc' = "fault" /\ UNCHANGED vmmVars /\ AllocBlock(1)
  <2>1. UNCHANGED <<mem, stale, cr3, table, phys, mapped, fbPages, tables>>
    BY <1>6 DEF vmmVars
  <2> QED
    BY <1>3, <1>4, <1>5, <1>6, <2>1
<1>7. CASE /\ pc' = next /\ mapped' = mapped + 1 /\ UNCHANGED <<stale, cr3, table, phys, fbPages>>
           /\ UNCHANGED <<vars, tables>>
           /\ Linked(mem', cr3, table, tables) /\ OnlyMaps(mem', mem, cr3, HeapFirst + mapped, frame)
  <2>1. UNCHANGED <<held, tables, result>> /\ HeapOwn' = HeapOwn
    BY <1>7 DEF vars, HeapOwn
  <2> QED
    BY <1>3, <1>4, <1>7, <2>1
<1>8. CASE /\ pc' = next /\ mapped' = mapped + 1 /\ UNCHANGED <<stale, cr3, table, phys, fbPages>>
           /\ AllocBlock(1) /\ tables' = tables \cup {new}
           /\ new \in Entries =>
                /\ Linked(mem', cr3, table, tables \cup {new})
                /\ OnlyMaps(mem', mem, cr3, HeapFirst + mapped, frame)
  <2>1. new \in Entries
    BY <1>8, SoundTables
  <2>2. new \notin held /\ held' = held \cup {new} /\ result'.page # NoBlock
    BY <1>5, <1>8, <2>1
  <2> HIDE DEF new
  <2>3. HeapOwn \subseteq HeapOwn' /\ tables' \subseteq held'
    BY <1>4, <1>8, <2>2 DEF HeapOwn
  <2>4. Linked(mem', cr3, table, tables') /\ OnlyMaps(mem', mem, cr3, HeapFirst + mapped, frame)
    BY <1>8, <2>1
  <2>5. /\ AllocBlock(1) /\ result'.page # NoBlock
        /\ \E n \in Entries : n \notin held /\ held' = held \cup {n} /\ tables' = tables \cup {n}
    BY <1>8, <2>1, <2>2
  <2>6. pc' = next /\ mapped' = mapped + 1 /\ UNCHANGED <<stale, cr3, table, phys, fbPages>>
    BY <1>8
  <2> QED
    BY <1>3, <1>4, <2>3, <2>4, <2>5, <2>6
<1> QED
  BY <1>1, <1>4, <1>6, <1>7, <1>8, MapPageLinked

LEMMA LoopLinkInv ==
  ASSUME TypeInv, LinkInv, TypeInv',
         NEW frame, NEW next, LoopStep(frame, next), MapPage(frame, HeapFirst + mapped, next)
  PROVE  LinkInv'
<1> SUFFICES ASSUME OnKernelTables', TablesInWindow'
             PROVE  LinkInv'
  BY DEF LinkInv
<1> DEFINE page == HeapFirst + mapped
<1>1. /\ cr3 # NotPresent /\ OnKernelTables /\ mapped \in Nat /\ fbPages \in FramebufferSizes /\ page \in Pages
      /\ EntryOf(page) # KernelEntry /\ frame \in Frames /\ NotPresent \notin Frames
      /\ pc \in {"map", "framebuffer"} /\ next \in {"alloc", "framebuffer"}
      /\ mapped < HeapPages => pc = "map" /\ frame = phys
      /\ mapped >= HeapPages => frame = FramebufferFrame + (mapped - HeapPages)
  BY LoopStepFacts, FramesAre DEF OnKernelTables
<1>2. /\ TablesInWindow /\ Linked(mem, cr3, table, tables) /\ tables \subseteq held
      /\ UNCHANGED <<cr3, table, phys, fbPages>>
  BY <1>1, LoopLinked
<1>3. /\ \A p \in Pages : EntryOf(p) # KernelEntry =>
           (MapsTo(mem, cr3, p) # NotPresent <=> p \in HeapFirst .. HeapFirst + mapped - 1)
      /\ \A i \in 0 .. fbPages - 1 : HeapPages + i < mapped =>
           MapsTo(mem, cr3, FramebufferFirst + i) = FramebufferFrame + i
      /\ \A p \in HeapRange : MapsTo(mem, cr3, p) \in HeapOwn \cup {NotPresent}
      /\ phys \in HeapOwn
  BY <1>1, <1>2 DEF LinkInv
<1>4. CASE /\ pc' = "fault" /\ UNCHANGED <<mem, tables, mapped>> /\ held \subseteq held'
           /\ HeapOwn \subseteq HeapOwn'
  BY <1>2, <1>3, <1>4 DEF LinkInv
<1>5. CASE /\ pc' = next /\ mapped' = mapped + 1
           /\ Linked(mem', cr3, table, tables') /\ OnlyMaps(mem', mem, cr3, page, frame)
           /\ HeapOwn \subseteq HeapOwn' /\ tables' \subseteq held'
  <2>1. \A p \in Pages : MapsTo(mem', cr3, p) = IF p = page THEN frame ELSE MapsTo(mem, cr3, p)
    BY <1>5 DEF OnlyMaps
  <2>2. ASSUME NEW p \in Pages, EntryOf(p) # KernelEntry
        PROVE  MapsTo(mem', cr3', p) # NotPresent <=> p \in HeapFirst .. HeapFirst + mapped' - 1
    <3>1. p \in HeapFirst .. HeapFirst + mapped' - 1 <=> p = page \/ p \in HeapFirst .. HeapFirst + mapped - 1
      BY <1>1, <1>5, FramesAre, Layout
    <3> QED
      BY <1>1, <1>2, <1>3, <2>1, <2>2, <3>1
  <2>3. ASSUME NEW i \in 0 .. fbPages' - 1, HeapPages + i < mapped'
        PROVE  MapsTo(mem', cr3', FramebufferFirst + i) = FramebufferFrame + i
    <3>1. /\ i \in Nat /\ HeapPages + i \in Nat /\ i \in 0 .. fbPages - 1
          /\ FramebufferFirst + i \in Pages /\ FramebufferFirst + i = HeapFirst + (HeapPages + i)
      BY <1>1, <1>2, FramebufferPages, Layout
    <3>2. CASE HeapPages + i < mapped
      <4>1. FramebufferFirst + i # page
        BY <1>1, <3>1, <3>2, Layout
      <4> QED
        BY <1>2, <1>3, <2>1, <3>1, <3>2, <4>1
    <3>3. CASE HeapPages + i = mapped
      <4>1. FramebufferFirst + i = page /\ mapped >= HeapPages /\ mapped - HeapPages = i
        BY <1>1, <3>1, <3>3, Numbers
      <4>2. frame = FramebufferFrame + i
        BY <1>1, <4>1
      <4> QED
        BY <1>2, <2>1, <3>1, <4>1, <4>2
    <3> QED
      BY <1>1, <1>5, <2>3, <3>1, <3>2, <3>3
  <2>4. ASSUME NEW p \in HeapRange
        PROVE  MapsTo(mem', cr3', p) \in HeapOwn' \cup {NotPresent}
    <3>1. p \in Pages /\ (p = page => mapped < HeapPages)
      BY <1>1, HeapRangePages, Layout, Numbers DEF HeapRange
    <3> QED
      BY <1>1, <1>2, <1>3, <1>5, <2>1, <3>1
  <2>5. phys' \in HeapOwn'
    BY <1>2, <1>3, <1>5
  <2> HIDE DEF page
  <2> QED
    BY <1>2, <1>5, <2>2, <2>3, <2>4, <2>5 DEF LinkInv
<1> QED
  BY <1>1, <1>4, <1>5, LoopLinked

LEMMA LoopOneUse ==
  ASSUME TypeInv, LinkInv, TypeInv', OneUse, Beyond,
         NEW frame, NEW next, LoopStep(frame, next), MapPage(frame, HeapFirst + mapped, next)
  PROVE  OneUse'
<1> SUFFICES ASSUME OnKernelTables', TablesInWindow', result'.page # NoBlock, pc' # "fault"
             PROVE  OneUse'
  BY DEF OneUse
<1> DEFINE page == HeapFirst + mapped
<1>1. /\ cr3 # NotPresent /\ OnKernelTables /\ mapped \in Nat /\ fbPages \in FramebufferSizes /\ page \in Pages
      /\ frame \in Frames /\ NotPresent \notin Frames
      /\ pc \in {"map", "framebuffer"}
      /\ mapped < HeapPages => pc = "map" /\ frame = phys /\ next = "alloc"
      /\ mapped >= HeapPages => pc = "framebuffer" /\ next = "framebuffer"
  BY LoopStepFacts, FramesAre DEF OnKernelTables
<1>2. /\ TablesInWindow /\ UNCHANGED <<cr3, phys>>
      /\ pc' = next /\ OnlyMaps(mem', mem, cr3, page, frame)
      /\ \/ UNCHANGED <<held, tables, result>>
         \/ /\ AllocBlock(1) /\ result'.page # NoBlock
            /\ \E new \in Entries : new \notin held /\ held' = held \cup {new} /\ tables' = tables \cup {new}
  BY <1>1, LoopLinked
<1>3. result.page # NoBlock
  <2>1. ASSUME AllocBlock(1), result.page = NoBlock PROVE FALSE
    <3>1. NoneFree(0)
      BY <1>1, <2>1 DEF Beyond
    <3>2. result'.page = NoBlock
      BY <2>1, <3>1, AllocFrame DEF TypeInv
    <3> QED
      BY <3>2
  <2> QED
    BY <1>2, <2>1
<1>4. /\ \A f \in held : f \in tables \cup {phys} \/ \E p \in HeapRange : f = MapsTo(mem, cr3, p)
      /\ phys \in held
      /\ \A p \in HeapRange : MapsTo(mem, cr3, p) # NotPresent =>
           MapsTo(mem, cr3, p) \in held /\ MapsTo(mem, cr3, p) # phys
      /\ \A p, q \in HeapRange : MapsTo(mem, cr3, p) = MapsTo(mem, cr3, q)
                                   /\ MapsTo(mem, cr3, p) # NotPresent => p = q
  BY <1>1, <1>2, <1>3 DEF OneUse, InHand
<1>5. /\ \A f \in held' : f \in held \/ f \in tables'
      /\ held \subseteq held' /\ tables \subseteq tables'
  BY <1>2
<1>6. \A p \in HeapRange : MapsTo(mem', cr3', p) = IF p = page THEN frame ELSE MapsTo(mem, cr3, p)
  BY <1>1, <1>2, HeapRangePages DEF OnlyMaps
<1>7. mapped < HeapPages <=> page \in HeapRange
  BY <1>1, Layout, Numbers DEF HeapRange
<1>8. CASE mapped < HeapPages
  <2>1. InHand' = {} /\ frame = phys /\ page \in HeapRange
    BY <1>1, <1>2, <1>7, <1>8 DEF InHand
  <2>2. MapsTo(mem, cr3, page) = NotPresent
    <3>1. \A p \in Pages : EntryOf(p) # KernelEntry =>
            (MapsTo(mem, cr3, p) # NotPresent <=> p \in HeapFirst .. HeapFirst + mapped - 1)
      BY <1>1, <1>2 DEF LinkInv
    <3>2. page \notin HeapFirst .. HeapFirst + mapped - 1
      BY <1>1, Layout
    <3> QED
      BY <1>1, <2>1, <3>1, <3>2, HeapRangePages
  <2> HIDE DEF page
  <2>3. \A f \in held' : f \in tables' \/ \E p \in HeapRange : f = MapsTo(mem', cr3', p)
    <3> SUFFICES ASSUME NEW f \in held', f \notin tables'
                 PROVE  \E p \in HeapRange : f = MapsTo(mem', cr3', p)
      OBVIOUS
    <3>1. f \in held /\ f \notin tables
      BY <1>5
    <3>2. CASE f = phys
      BY <1>6, <2>1, <3>2
    <3>3. CASE f # phys
      <4>1. PICK p \in HeapRange : f = MapsTo(mem, cr3, p)
        BY <1>4, <3>1, <3>3
      <4>2. f # NotPresent
        BY <3>1, HeldFrames, FramesAre
      <4> QED
        BY <1>6, <2>2, <4>1, <4>2
    <3> QED
      BY <3>2, <3>3
  <2>4. \A p \in HeapRange : MapsTo(mem', cr3', p) # NotPresent => MapsTo(mem', cr3', p) \in held'
    BY <1>4, <1>5, <1>6, <2>1
  <2>5. \A p, q \in HeapRange : MapsTo(mem', cr3', p) = MapsTo(mem', cr3', q)
                                  /\ MapsTo(mem', cr3', p) # NotPresent => p = q
    BY <1>4, <1>6, <2>1
  <2> QED
    BY <2>1, <2>3, <2>4, <2>5 DEF OneUse
<1>9. CASE mapped >= HeapPages
  <2>1. InHand' = {phys'} /\ phys' = phys /\ page \notin HeapRange
    <3>1. ~ (mapped < HeapPages)
      BY <1>1, <1>9, Numbers
    <3> QED
      BY <1>1, <1>2, <1>7, <1>9, <3>1 DEF InHand
  <2>2. \A p \in HeapRange : MapsTo(mem', cr3', p) = MapsTo(mem, cr3, p)
    BY <1>6, <2>1
  <2> HIDE DEF page
  <2>3. /\ \A f \in held' : f \in tables' \cup InHand' \/ \E p \in HeapRange : f = MapsTo(mem', cr3', p)
        /\ InHand' \subseteq held'
        /\ \A p \in HeapRange : MapsTo(mem', cr3', p) # NotPresent =>
             MapsTo(mem', cr3', p) \in held' /\ MapsTo(mem', cr3', p) \notin InHand'
    BY <1>4, <1>5, <2>1, <2>2
  <2>4. \A p, q \in HeapRange : MapsTo(mem', cr3', p) = MapsTo(mem', cr3', q)
                                  /\ MapsTo(mem', cr3', p) # NotPresent => p = q
    BY <1>4, <2>2
  <2> QED
    BY <2>3, <2>4 DEF OneUse
<1>10. mapped < HeapPages \/ mapped >= HeapPages
  BY <1>1, Numbers
<1> QED
  BY <1>8, <1>9, <1>10

(* Nothing else changes the tables or takes a frame. *)
LEMMA KeptLink ==
  ASSUME LinkInv, OneUse, UNCHANGED vmmVars, UNCHANGED <<held, result>>,
         pc' = pc \/ (pc = "framebuffer" /\ pc' = "done")
  PROVE  LinkInv' /\ OneUse'
BY DEF LinkInv, OneUse, OnKernelTables, TablesInWindow, HeapOwn, InHand, vmmVars

LEMMA LinkNext == BootInv /\ TypeInv' /\ [BootNext]_allVars => LinkInv' /\ OneUse'
<1> SUFFICES ASSUME TypeInv, Beyond, LinkInv, OneUse, TypeInv', [BootNext]_allVars
             PROVE  LinkInv' /\ OneUse'
  BY DEF BootInv
<1>1. CASE InitPMM \/ AllocTable
  <2>1. cr3' = NotPresent
    <3>1. cr3 = NotPresent
      BY <1>1 DEF InitPMM, AllocTable, TypeInv, Control
    <3>2. cr3' = cr3
      BY <1>1 DEF InitPMM, AllocTable, PageFault, vmmVars
    <3> QED
      BY <3>1, <3>2
  <2> QED
    BY <2>1 DEF LinkInv, OneUse, OnKernelTables
<1>2. CASE AllocDirectory
  BY <1>2, AllocDirectoryLinkInv
<1>3. CASE AllocFirst \/ AllocNext
  <2>1. /\ AllocBlock(1) /\ pc \in {"first", "alloc"} /\ phys' = FrameOf(result'.page)
        /\ pc' \in {"map", "framebuffer"}
        /\ UNCHANGED <<mem, stale, cr3, table, mapped, fbPages, tables>>
    BY <1>3 DEF AllocFirst, AllocNext
  <2> QED
    BY <2>1, TakenFrameLink
<1>4. CASE MapHeapPage \/ MapFramebuffer
  BY <1>4, LoopSteps, LoopLinkInv, LoopOneUse
<1>5. CASE FramebufferDone
  <2>1. UNCHANGED vmmVars /\ UNCHANGED <<held, result>> /\ pc = "framebuffer" /\ pc' = "done"
    BY <1>5 DEF FramebufferDone, vars
  <2> QED
    BY <2>1, KeptLink
<1>6. CASE Halt \/ UNCHANGED allVars
  <2>1. UNCHANGED vmmVars /\ UNCHANGED <<held, result, pc>>
    BY <1>6 DEF Halt, allVars, vars
  <2> QED
    BY <2>1, KeptLink
<1> QED
  BY <1>1, <1>2, <1>3, <1>4, <1>5, <1>6 DEF BootNext

LEMMA BootInvariance == BootSpec => []BootInv
<1>1. BootInit => BootInv
  BY TypeInvInit, BeyondInit, LinkInit DEF BootInv
<1>2. BootInv /\ [BootNext]_allVars => BootInv'
  BY TypeInvNext, BeyondNext, LinkNext DEF BootInv
<1> QED
  BY <1>1, <1>2, PTL DEF BootSpec

-----------------------------------------------------------------------------
(* While the tables lie in the window ... *)
LEMMA SoundFacts ==
  ASSUME BootInv, OnKernelTables, TablesInWindow
  PROVE  /\ Linked(mem, cr3, table, tables) /\ TableFrames = tables /\ tables \subseteq Entries
         /\ \A p \in Pages : Translate(p) = MapsTo(mem, cr3, p)
<1>1. TypeInv /\ Linked(mem, cr3, table, tables)
  BY DEF BootInv, LinkInv
<1>2. tables \subseteq Entries
  BY <1>1, SoundTables
<1>3. TableFrames = tables
  <2>1. cr3 \in DOMAIN mem /\ cr3 # NotPresent
    BY <1>1, FramesAre DEF Linked
  <2>2. TableFrames = ({cr3} \cup {mem[cr3][i] : i \in Entries}) \ {NotPresent}
    BY <2>1 DEF TableFrames, OnKernelTables, Contents
  <2> QED
    BY <1>1, <2>1, <2>2 DEF Linked
<1> QED
  BY <1>1, <1>2, <1>3, LinkedTranslate

(* ... no page of the heap or of the framebuffer shows a page table: the   *)
(* frames of the heap were handed out for it, and those of the framebuffer *)
(* are never handed out.                                                   *)
THEOREM TablesArePrivate == BootSpec => []TablesPrivate
<1>1. BootInv => TablesPrivate
  <2> SUFFICES ASSUME BootInv, OnKernelTables, TablesInWindow,
                      NEW p \in HeapFirst .. FramebufferFirst + fbPages - 1
               PROVE  Translate(p) \notin TableFrames
    BY DEF TablesPrivate
  <2>1. /\ TypeInv /\ TableFrames = tables /\ tables \subseteq Entries
        /\ \A q \in Pages : Translate(q) = MapsTo(mem, cr3, q)
    BY SoundFacts DEF BootInv
  <2>2. fbPages \in FramebufferSizes /\ fbPages \in Nat /\ mapped \in Nat /\ cr3 # NotPresent
    BY <2>1, TypeParts, Layout, Numbers DEF TypeInv, MachineFits, OnKernelTables
  <2>3. /\ \A q \in Pages : EntryOf(q) # KernelEntry =>
             (MapsTo(mem, cr3, q) # NotPresent <=> q \in HeapFirst .. HeapFirst + mapped - 1)
        /\ \A i \in 0 .. fbPages - 1 : HeapPages + i < mapped =>
             MapsTo(mem, cr3, FramebufferFirst + i) = FramebufferFrame + i
        /\ \A q \in HeapRange : MapsTo(mem, cr3, q) \in HeapOwn \cup {NotPresent}
        /\ tables \subseteq held
    BY DEF BootInv, LinkInv
  <2>4. NotPresent \notin tables /\ PageLimit - 1 \notin tables
    BY <2>1, <2>2, FramesAre, LastFrame, Numbers
  <2>5. CASE p \in HeapRange
    BY <2>1, <2>2, <2>3, <2>4, <2>5, HeapRangePages DEF HeapOwn
  <2>6. CASE p \notin HeapRange
    <3> DEFINE i == p - FramebufferFirst
    <3>1. i \in 0 .. fbPages - 1 /\ p = FramebufferFirst + i /\ i \in Nat
      BY <2>2, <2>6, Layout, Numbers DEF HeapRange
    <3> HIDE DEF i
    <3>2. p \in Pages /\ HeapPages + i \in Nat /\ p = HeapFirst + (HeapPages + i)
      BY <2>2, <3>1, FramebufferPages
    <3>3. EntryOf(p) # KernelEntry
      BY <2>2, <3>1, <3>2, LoopPage, Numbers
    <3>4. CASE HeapPages + i < mapped
      <4>1. Translate(p) = FramebufferFrame + i
        BY <2>1, <2>3, <3>1, <3>2, <3>4
      <4>2. Translate(p) \in FramebufferFrame .. FramebufferFrame + fbPages - 1
        BY <2>2, <3>1, <4>1, Layout
      <4>3. marked = Len(memoryMap)
        BY <2>1, <2>2 DEF TypeInv, Control
      <4> QED
        BY <2>1, <2>3, <4>2, <4>3, NotFramebuffer DEF TypeInv
    <3>5. CASE ~ (HeapPages + i < mapped)
      <4>1. p \notin HeapFirst .. HeapFirst + mapped - 1
        BY <2>2, <3>2, <3>5, Layout
      <4> QED
        BY <2>1, <2>3, <2>4, <3>2, <3>3, <4>1
    <3> QED
      BY <3>4, <3>5
  <2> QED
    BY <2>5, <2>6
<1> QED
  BY <1>1, BootInvariance, PTL

(* ... the window shows every table where mapPage writes it.               *)
THEOREM TablesAreReachable == BootSpec => []TablesReachable
<1>1. BootInv => TablesReachable
  BY SoundFacts, LinkedReach DEF TablesReachable
<1> QED
  BY <1>1, BootInvariance, PTL

(* The boot faults only after allocBlock has failed or has given a frame   *)
(* beyond the window for a table: in no order of steps because a table in  *)
(* the window cannot be reached.                                           *)
THEOREM FaultsOnlyWithoutFrame == BootSpec => []FaultOnlyWithoutFrame
<1>1. BootInv => FaultOnlyWithoutFrame
  BY DEF BootInv, Beyond, NoWindowFrame, FaultOnlyWithoutFrame
<1> QED
  BY <1>1, BootInvariance, PTL

(* When the boot is done and no frame was refused, every page of the heap  *)
(* has a frame of its own, and the framebuffer is mapped in order.         *)
THEOREM HeapIsBacked == BootSpec => []HeapBacked
<1>1. BootInv => HeapBacked
  <2> SUFFICES ASSUME BootInv, pc = "done", TablesInWindow, result.page # NoBlock
               PROVE  /\ \A p \in HeapRange : Translate(p) \in held
                      /\ \A p, q \in HeapRange : p # q => Translate(p) # Translate(q)
                      /\ \A i \in 0 .. fbPages - 1 : Translate(FramebufferFirst + i) = FramebufferFrame + i
    BY DEF HeapBacked
  <2>1. TypeInv /\ OnKernelTables /\ mapped = HeapPages + fbPages /\ fbPages \in FramebufferSizes
    BY DEF BootInv, TypeInv, Control, MachineFits, OnKernelTables
  <2>2. fbPages \in Nat
    BY <2>1, Layout
  <2>3. \A q \in Pages : Translate(q) = MapsTo(mem, cr3, q)
    BY <2>1, SoundFacts
  <2>4. \A p \in HeapRange : p \in Pages /\ EntryOf(p) # KernelEntry /\ p \in HeapFirst .. HeapFirst + mapped - 1
    <3> SUFFICES ASSUME NEW p \in HeapRange
                 PROVE  p \in Pages /\ EntryOf(p) # KernelEntry /\ p \in HeapFirst .. HeapFirst + mapped - 1
      OBVIOUS
    <3>1. p \in Pages /\ EntryOf(p) # KernelEntry
      BY <2>1, HeapRangePages
    <3>2. p \in HeapFirst .. HeapFirst + mapped - 1
      BY <2>1, <2>2, Layout, Numbers DEF HeapRange
    <3> QED
      BY <3>1, <3>2
  <2>5. \A p \in HeapRange : MapsTo(mem, cr3, p) # NotPresent
    BY <2>1, <2>4 DEF BootInv, LinkInv
  <2>6. /\ \A p \in HeapRange : MapsTo(mem, cr3, p) \in held
        /\ \A p, q \in HeapRange : MapsTo(mem, cr3, p) = MapsTo(mem, cr3, q) => p = q
    BY <2>1, <2>5 DEF BootInv, OneUse
  <2>7. ASSUME NEW i \in 0 .. fbPages - 1
        PROVE  Translate(FramebufferFirst + i) = FramebufferFrame + i
    <3>1. FramebufferFirst + i \in Pages /\ HeapPages + i < mapped
      BY <2>1, <2>2, FramebufferPages, Numbers
    <3> QED
      BY <2>1, <2>3, <3>1 DEF BootInv, LinkInv
  <2> QED
    BY <2>3, <2>4, <2>6, <2>7
<1> QED
  BY <1>1, BootInvariance, PTL

-----------------------------------------------------------------------------
(* Counting the frames. *)

LEMMA DisjointUnion ==
  ASSUME NEW S, NEW T, IsFiniteSet(S), IsFiniteSet(T), S \cap T = {}
  PROVE  IsFiniteSet(S \cup T) /\ Cardinality(S \cup T) = Cardinality(S) + Cardinality(T)
<1>1. Cardinality(S \cap T) = 0
  BY FS_EmptySet, Zenon
<1>2. Cardinality(S) \in Nat /\ Cardinality(T) \in Nat
  BY FS_CardinalityType
<1>3. /\ IsFiniteSet(S \cup T)
      /\ Cardinality(S \cup T) = Cardinality(S) + Cardinality(T) - Cardinality(S \cap T)
  BY FS_Union
<1> QED
  BY <1>1, <1>2, <1>3

LEMMA OneToOneImage ==
  ASSUME NEW S, IsFiniteSet(S), NEW g, DOMAIN g = S,
         \A a, b \in S : g[a] = g[b] => a = b
  PROVE  /\ IsFiniteSet({g[a] : a \in S})
         /\ Cardinality({g[a] : a \in S}) = Cardinality(S)
<1> DEFINE T == {g[a] : a \in S}
           h == [a \in S |-> g[a]]
<1>1. h \in Bijection(S, T)
  <2>1. h \in [S -> T] /\ \A a, b \in S : h[a] = h[b] => a = b
    OBVIOUS
  <2>2. \A t \in T : \E s \in S : h[s] = t
    OBVIOUS
  <2> HIDE DEF h, T
  <2> QED
    BY <2>1, <2>2 DEF Bijection, Injection, IsInjective, Surjection
<1>2. ExistsBijection(S, T)
  BY <1>1 DEF ExistsBijection
<1> QED
  BY <1>2, FS_Bijection

(* Every frame that was handed out has one use, and the counts add up: no  *)
(* frame is lost but the one stage1 keeps, and none is used twice.         *)
THEOREM FramesAreAccounted == BootSpec => []FramesAccounted
<1> DEFINE backing == {p \in HeapRange : OnKernelTables /\ Translate(p) # NotPresent}
           inHand  == IF pc \in {"map", "framebuffer", "done"} THEN {phys} ELSE {}
           images  == {Translate(p) : p \in backing}
<1>1. ASSUME BootInv, TablesInWindow, result.page # NoBlock, pc # "fault", OnKernelTables
      PROVE  /\ held = TableFrames \cup images \cup inHand
             /\ Cardinality(held) = Cardinality(TableFrames) + Cardinality(backing) + Cardinality(inHand)
  <2>1. /\ TypeInv /\ TableFrames = tables /\ tables \subseteq Entries
        /\ \A q \in Pages : Translate(q) = MapsTo(mem, cr3, q)
        /\ fbPages \in FramebufferSizes
    BY <1>1, SoundFacts DEF BootInv, TypeInv, MachineFits
  <2>2. /\ \A f \in held : f \in tables \cup InHand \/ \E p \in HeapRange : f = MapsTo(mem, cr3, p)
        /\ InHand \subseteq held
        /\ \A p \in HeapRange : MapsTo(mem, cr3, p) # NotPresent =>
             MapsTo(mem, cr3, p) \in held /\ MapsTo(mem, cr3, p) \notin InHand
        /\ \A p, q \in HeapRange : MapsTo(mem, cr3, p) = MapsTo(mem, cr3, q)
                                     /\ MapsTo(mem, cr3, p) # NotPresent => p = q
    BY <1>1 DEF BootInv, OneUse
  <2>3. /\ tables \subseteq held
        /\ \A p \in HeapRange : MapsTo(mem, cr3, p) \in HeapOwn \cup {NotPresent}
        /\ InHand \subseteq HeapOwn
    BY <1>1 DEF BootInv, LinkInv, InHand
  <2>4. PageLimit - 1 \notin tables
    BY <2>1, FramesAre, LastFrame, Numbers
  <2>5. \A p \in HeapRange : Translate(p) = MapsTo(mem, cr3, p)
    BY <2>1, HeapRangePages
  <2>6. backing = {p \in HeapRange : MapsTo(mem, cr3, p) # NotPresent} /\ inHand = InHand
    BY <1>1, <2>5 DEF InHand
  <2>7. images = {MapsTo(mem, cr3, p) : p \in backing}
    BY <2>5
  <2> HIDE DEF backing, inHand, images
  <2>8. held = tables \cup images \cup inHand
    <3>1. \A f \in held : f # NotPresent
      BY <2>1, HeldFrames, FramesAre
    <3> QED
      BY <2>2, <2>3, <2>6, <2>7, <3>1
  <2>9. /\ tables \cap images = {} /\ (tables \cup images) \cap inHand = {}
    BY <2>2, <2>3, <2>4, <2>6, <2>7 DEF HeapOwn
  <2>10. IsFiniteSet(tables)
    <3>1. IsFiniteSet(0 .. TableEntries - 1)
      BY Numbers, FS_Interval
    <3> QED
      BY <2>1, <3>1, FS_Subset DEF Entries
  <2>11. IsFiniteSet(backing)
    <3>1. IsFiniteSet(HeapFirst .. HeapFirst + HeapPages - 1)
      BY Layout, Numbers, FS_Interval
    <3> QED
      BY <2>6, <3>1, FS_Subset DEF HeapRange
  <2>12. IsFiniteSet(images) /\ Cardinality(images) = Cardinality(backing)
    <3> DEFINE g == [p \in backing |-> MapsTo(mem, cr3, p)]
    <3>1. DOMAIN g = backing /\ \A a, b \in backing : g[a] = g[b] => a = b
      BY <2>2, <2>6
    <3>2. images = {g[a] : a \in backing}
      BY <2>7
    <3> HIDE DEF g
    <3> QED
      BY <2>11, <3>1, <3>2, OneToOneImage
  <2>13. IsFiniteSet(inHand)
    BY FS_EmptySet, FS_Singleton DEF inHand
  <2>14. /\ IsFiniteSet(tables \cup images)
         /\ Cardinality(tables \cup images) = Cardinality(tables) + Cardinality(images)
    BY <2>9, <2>10, <2>12, DisjointUnion
  <2>15. Cardinality(held) = Cardinality(tables \cup images) + Cardinality(inHand)
    BY <2>8, <2>9, <2>13, <2>14, DisjointUnion
  <2> QED
    BY <2>1, <2>8, <2>12, <2>14, <2>15
<1>2. ASSUME BootInv, TablesInWindow, result.page # NoBlock, pc # "fault", ~ OnKernelTables
      PROVE  /\ held = TableFrames \cup images \cup inHand
             /\ Cardinality(held) = Cardinality(TableFrames) + Cardinality(backing) + Cardinality(inHand)
  <2>1. pc = "directory" /\ table \in Entries /\ held = {table}
    BY <1>2 DEF BootInv, TypeInv, Control, OnKernelTables
  <2>2. TableFrames = {table}
    BY <1>2, <2>1, FramesAre DEF TableFrames
  <2>3. backing = {} /\ images = {} /\ inHand = {}
    BY <1>2, <2>1
  <2>4. Cardinality({table}) = 1 /\ Cardinality({}) = 0
    BY FS_Singleton, FS_EmptySet
  <2> QED
    BY <2>1, <2>2, <2>3, <2>4
<1>3. BootInv => FramesAccounted
  BY <1>1, <1>2 DEF FramesAccounted
<1> QED
  BY <1>3, BootInvariance, PTL

-----------------------------------------------------------------------------
(* The page tables implement the address space. *)

LEMMA BootSpace ==
  ASSUME cr3 = NotPresent, NEW p \in Pages
  PROVE  Translate(p) = IF p \in WindowStart .. WindowStart + TableEntries - 1
                          THEN p - WindowStart ELSE NotPresent
BY DEF Translate, Walk

LEMMA KeptSpace ==
  ASSUME UNCHANGED <<mem, stale, cr3, tables>>
  PROVE  UNCHANGED Space!spaceVars
<1>1. \A p : Translate(p)' = Translate(p)
  BY DEF Translate, Walk, Contents
<1>2. TablesInWindow' = TablesInWindow
  BY DEF TablesInWindow
<1> QED
  BY <1>1, <1>2 DEF Space!spaceVars

(* What linked tables map, now and after a step. *)
TranslateNow ==
  Linked(mem, cr3, table, tables) => \A p \in Pages : Translate(p) = MapsTo(mem, cr3, p)

LEMMA TranslateNext == TranslateNow /\ TranslateNow'
<1>1. TranslateNow
  BY LinkedTranslate DEF TranslateNow
<1> QED
  BY <1>1, PTL

(* The switch from the boot loader's tables to the kernel's keeps every    *)
(* mapping.                                                                *)
LEMMA SwitchSpace ==
  ASSUME TypeInv, TypeInv', AllocDirectory, pc' # "fault", TablesInWindow'
  PROVE  UNCHANGED Space!spaceVars
<1>1. cr3 = NotPresent /\ tables \subseteq Entries
  BY DEF AllocDirectory, TypeInv, Control
<1>2. /\ Linked(mem', cr3', table', tables')
      /\ \A p \in Pages : EntryOf(p) # KernelEntry => MapsTo(mem', cr3', p) = NotPresent
  BY AllocDirectoryLink
<1>3. \A p \in Pages : Translate(p)' = MapsTo(mem', cr3', p)
  BY <1>2, TranslateNext DEF TranslateNow
<1>4. ASSUME NEW p \in Pages PROVE Translate(p)' = Translate(p)
  <2>1. Translate(p) = IF EntryOf(p) = KernelEntry THEN IndexOf(p) ELSE NotPresent
    BY <1>1, BootSpace, WindowPages
  <2>2. EntryOf(p) = KernelEntry => MapsTo(mem', cr3', p) = IndexOf(p)
    BY <1>2, LinkedWindow
  <2> QED
    BY <1>2, <1>3, <2>1, <2>2
<1>5. TablesInWindow' = TablesInWindow
  BY <1>1, SoundTables DEF TablesInWindow
<1> QED
  BY <1>4, <1>5 DEF Space!spaceVars

(* A step of the loops maps one page that was not mapped. *)
LEMMA LoopSpace ==
  ASSUME BootInv, TypeInv', TablesInWindow',
         NEW frame, NEW next, LoopStep(frame, next), MapPage(frame, HeapFirst + mapped, next)
  PROVE  Space!Map \/ UNCHANGED Space!spaceVars
<1> DEFINE page == HeapFirst + mapped
<1>1. /\ TypeInv /\ LinkInv /\ OnKernelTables /\ page \in Pages /\ EntryOf(page) # KernelEntry
      /\ frame \in Frames /\ mapped \in Nat
  BY LoopStepFacts DEF BootInv, OnKernelTables
<1>2. /\ TablesInWindow /\ Linked(mem, cr3, table, tables)
      /\ UNCHANGED <<stale, cr3, table, phys, fbPages>>
      /\ \/ pc' = "fault" /\ UNCHANGED <<mem, tables, mapped>>
         \/ Linked(mem', cr3, table, tables') /\ OnlyMaps(mem', mem, cr3, page, frame)
  BY <1>1, LoopLinked
<1>3. CASE pc' = "fault" /\ UNCHANGED <<mem, tables, mapped>>
  BY <1>2, <1>3, KeptSpace
<1>4. CASE Linked(mem', cr3, table, tables') /\ OnlyMaps(mem', mem, cr3, page, frame)
  <2>1. MapsTo(mem, cr3, page) = NotPresent
    <3>1. page \notin HeapFirst .. HeapFirst + mapped - 1
      BY <1>1, Layout
    <3> QED
      BY <1>1, <1>2, <3>1 DEF LinkInv
  <2>2. \A p \in Pages : Translate(p) = MapsTo(mem, cr3, p)
    BY <1>2, TranslateNext DEF TranslateNow
  <2>3. \A p \in Pages : Translate(p)' = MapsTo(mem', cr3', p)
    BY <1>2, <1>4, TranslateNext DEF TranslateNow
  <2>4. \A p \in Pages : Translate(p)' = IF p = page THEN frame ELSE Translate(p)
    BY <1>2, <1>4, <2>2, <2>3 DEF OnlyMaps
  <2> HIDE DEF page
  <2>5. PICK q \in Pages : q = page
    BY <1>1
  <2>6. \A p \in Pages : Translate(p)' = IF p = q THEN frame ELSE Translate(p)
    BY <2>4, <2>5
  <2>7. Translate(q) = NotPresent /\ Translate(q)' = frame
    BY <2>1, <2>2, <2>5, <2>6
  <2> DEFINE now  == [p \in Pages |-> Translate(p)]
             then == [p \in Pages |-> Translate(p)']
  <2>8. then = [now EXCEPT ![q] = then[q]] /\ now[q] = NotPresent /\ then[q] = frame
    BY <2>6, <2>7
  <2> QED
    BY <1>1, <1>2, <2>8 DEF Space!Map
<1> QED
  BY <1>2, <1>3, <1>4

LEMMA InitSpace == BootInit => Space!Init
<1> SUFFICES ASSUME BootInit PROVE Space!Init
  OBVIOUS
<1>1. cr3 = NotPresent /\ TablesInWindow
  BY DEF BootInit, TablesInWindow
<1> DEFINE range  == WindowStart .. WindowStart + TableEntries - 1
           window == [p \in range |-> p - WindowStart]
<1>2. ASSUME NEW p \in Pages
      PROVE  Translate(p) = IF p \in DOMAIN window THEN window[p] ELSE NotPresent
  BY <1>1, BootSpace
<1> QED
  BY <1>1, <1>2 DEF Space!Init, TablesInWindow

LEMMA NextSpace ==
  BootInv /\ BootInv' /\ [BootNext]_allVars => [Space!Map \/ Space!Unsound]_(Space!spaceVars)
<1> SUFFICES ASSUME BootInv, BootInv', [BootNext]_allVars, TablesInWindow'
             PROVE  Space!Map \/ UNCHANGED Space!spaceVars
  BY DEF Space!Unsound
<1>1. TypeInv /\ TypeInv'
  BY DEF BootInv
<1>2. CASE AllocTable /\ pc' # "fault"
  <2>1. cr3 = NotPresent /\ cr3' = NotPresent /\ tables = {}
    BY <1>1, <1>2, AllocTableStep DEF AllocTable, TypeInv, Control
  <2>2. \A p \in Pages : Translate(p)' = Translate(p)
    BY <2>1 DEF Translate, Walk
  <2>3. TablesInWindow' = TablesInWindow
    BY <2>1 DEF TablesInWindow
  <2> QED
    BY <2>2, <2>3 DEF Space!spaceVars
<1>3. CASE AllocDirectory /\ pc' # "fault"
  BY <1>1, <1>3, SwitchSpace
<1>4. CASE MapHeapPage \/ MapFramebuffer
  BY <1>1, <1>4, LoopSteps, LoopSpace
<1>5. ASSUME \/ InitPMM \/ AllocFirst \/ AllocNext \/ FramebufferDone \/ Halt \/ UNCHANGED allVars
             \/ (AllocTable /\ pc' = "fault") \/ (AllocDirectory /\ pc' = "fault")
      PROVE  UNCHANGED <<mem, stale, cr3, tables>>
  BY <1>5, <1>1, AllocTableStep, AllocDirectoryStep
     DEF InitPMM, AllocFirst, AllocNext, FramebufferDone, Halt, allVars, vmmVars, TypeInv
<1> QED
  BY <1>2, <1>3, <1>4, <1>5, KeptSpace DEF BootNext

(* While the tables lie in the window, the boot - with its page tables in  *)
(* frames of memory, found through the window, whatever was in them -      *)
(* implements a function from pages to frames that starts as the window    *)
(* and only ever maps a page that was not mapped.                          *)
THEOREM ImplementsAddressSpace == BootSpec => AddressSpaceSpec
<1>1. BootInit => Space!Init
  BY InitSpace
<1>2. BootInv /\ BootInv' /\ [BootNext]_allVars => [Space!Map \/ Space!Unsound]_(Space!spaceVars)
  BY NextSpace
<1> QED
  BY <1>1, <1>2, BootInvariance, PTL DEF BootSpec, AddressSpaceSpec, Space!Spec
=============================================================================
