# A verification development of the pros5 kernel

pros5 is a small 32-bit x86 kernel in C++ (`src/Kernel`): it is loaded by a
multiboot2 boot loader, sets up descriptor tables, interrupts, physical and
virtual memory and a heap (`stage1`), then a framebuffer console, an ATA driver
and a virtual file system (`stage2`), and halts. Everything runs on one
processor, in one thread; what is concurrent is outside it: the drives it
polls, the timer, and the interrupts they raise, which a handler acknowledges at
two interrupt controllers without touching the kernel's own state.

This directory holds TLA+ modules that model parts of it, TLC configurations
that check them on small instances, and proofs that the TLA+ proof system
checks for all values of the constants. `PROJECT.json` lists the components,
the runs, a mutant for every property checked, the source lines behind every
definition, the disagreements found, and the hazards that the properties are for.

## Inventory

| Component | State | Operations | Interacts with | What makes it correct |
|---|---|---|---|---|
| Physical pages (`MM/PMM.cpp`, `Bitmap`) | five bitmaps in one array, `totalMemory` | `initPMM` marks reserved regions; `allocBlock` takes pages; none is ever returned | boot loader's memory map; `stage1`, VMM | no page given twice, none reserved, none outside memory; none refused while free; bits stay in their array |
| Virtual memory (`MM/VMM.cpp`, loops of `main.cpp`) | page tables in frames, `currentPageDirectory` | `initVMM`, `switchPageDirectory`, `mapPage` | takes frames; writes tables through the window at 3 GB | mappings never change, tables are reachable and private, each heap page has a frame of its own |
| Heap (`MM/Heap.cpp`, `KernelHeap`) | doubly linked chunks in the memory managed, `usedMemory` | `malloc`, `free`, `new`, `delete` | lives in the pages mapped by `stage1` | blocks disjoint and inside the heap, list tiles the heap, memory comes back |
| Vector (`Lib/Vector.hpp`) | size, space, elements on the heap | `push_back`, `erase`, `resize`, copy, assignment | heap; VFS and DevFS keep tables in it | contents kept by growth and erase; copies equal |
| VFS (`FS/VFS.cpp`) | vector of mount points; open files point into it | `mount`, `unmount`, `open`, `read`, `write`, `close` | DevFS below, `stage2` above | a path reaches the longest mount point; a file stays with the file system it was opened in |
| DevFS (`FS/DevFS.cpp`) | vector of devices | `registerDevice`, `unregisterDevice`, file operations | VFS, ATA | names unique, files reach their device |
| ATA (`Drivers/ATA.cpp`) | the drives' registers | `identify`, `read` by polling | DevFS, the drives | reads the sectors asked for, of the right drive; ends for every drive |
| Interrupts (`Hardware/IDT.*`) | the IDT, two interrupt controllers | constructor, `init`, `enable`, `handleInterrupt` | the processor, the devices' lines | each interrupt acknowledged where it came from, none taken for an exception |
| Framebuffer and console (`Drivers/Framebuffer*`) | cursor, pixels | `putPixel`, `fillRect`, `clear`, `putChar`, `print`, `println` | mapped framebuffer | never draws outside it, nor over text |
| Log (`Lib/Log.cpp`) | - | `printf`, `log`, `warn`, ..., `debug`, `panic` | console, serial line, every component | each message complete and in the words of its caller |
| Strings (`Lib/String.cpp`) | - | `itos`, `utos`, `strcmp`, `strncmp`, `strlen`, `strncpy` | log, VFS, DevFS | numbers right up to the limits; strings compared to their end |
| Boot (`boot.asm`, `linker.ld`, `main.cpp`) | boot page directory | `_loader`, `kmain` | all | the kernel image stays intact |
| C++ runtime (`icxxabi.cpp`) | table of destructors | `__cxa_atexit` | compiler | - |

What is hard here is mostly *long sequences of legal calls*
(the allocator's and the heap's invariants), *limits* (bitmap rows, 4 MB
window, heap end, table sizes, the one byte of the sector count), *failures
nobody looks at* (`allocBlock` in `mapPage` and `stage1`, the read in `stage2`),
*stale state* (frames that are not clean, pointers into a vector that moves, what
`identify` leaves in a drive) and *devices that go on by themselves*
(a drive between two polls, an interrupt or a panic between any two
instructions). `PROJECT.json` lists each with its line.

## Modules

| Module | What it is |
|---|---|
| `PMM` | the page allocator |
| `PagePool` | what its callers rely on; `PMM` implements it |
| `PMMProofs` | theorems about `PMM` |
| `VMM` | the boot's use of memory: `initPMM`, `initVMM`, `mapPage`, the loops of `stage1` and `stage2`; extends `PMM` |
| `AddressSpace` | what the kernel relies on of its page tables; `VMM` implements it |
| `VMMProofs` | theorems about the boot's memory |
| `Heap` | the kernel heap, word by word |
| `HeapProofs` | theorems about it |
| `Arena` | what users of `new` and `delete` rely on; `Heap` implements it for two kinds of callers |
| `Vector` | the vector of the library, as far as pointers into it can tell |
| `VFS` | the virtual file system over instances of `DevFS`; extends `Vector` |
| `MountTable` | what users of the VFS rely on; `VFS` implements it |
| `VectorProofs`, `VFSProofs` | theorems about them |
| `ATA` | the disk driver, poll by poll, and the two drives |
| `Interrupts` | `InterruptManager`, `handleInterrupt`, the processor and the two controllers |
| `Stage2` | from `enable` in `stage1` to the end of `stage2`: composes `VFS`, `ATA` and `Interrupts` |
| `Stage2Proofs` | theorems about it |
| `Strings` | numbers to text, comparing and copying |
| `StringProofs` | theorems about them |
| `Console` | framebuffer and console, and the case of `stage2` that sets them up |
| `Log` | the messages; composes `Strings` and `Console` |
| `LogProofs` | theorems about the two |
| `MCPMM`, `MCVMM`, `MCHeap`, `MCVFS`, `MCStage2`, `MCLog` | values of the constants for TLC |

Operators named `X_Something` and commented "Faulty" stand before the
definition `X` that they vary; no specification uses them. `PROJECT.json` says
which property notices each.

### PMM

`bitmapAddress` is an array of five rows and `bitmaps[l]` starts at row `l`, so
`bits` is a set of positions in the array and `Bit(level, index)` a position.
Nothing keeps an index within its row, in the code or in the model. `MarkEntry`
is one turn of the loop of `initPMM`; `AllocBlock` is `allocBlock` with its
search (`NearestFree`, `NoneFree`), marking up (`Parents`) and down
(`Children`, with the code's own number of children) and its refusal. `held`
and `shared` are history: which pages were handed out, and which more than once.
An address is a page number; 0xFFFFFFFF is `NoBlock`.

Assumptions: callers ask for 1 to 16 pages (all callers ask for 1; longer
requests are silently cut to 16 pages); regions lie below 4 GB; and the bitmaps
lie in the array (`ArrayAssumption`). A bitmap may run into the rows behind its
own, but not past the last: of more than 320 MB, `PMM.cpp:78` would clear what
follows `bitmapAddress`, which is the table `bitmaps` with the lengths and
pointers the loop goes on with, and nothing could be said. So no search reads a
bit outside the array. Bits that `markRegionAllocated` sets there (a region far
above memory, `pmm_firmware`) are kept in `bits`, but what they damage is not
modelled.

`NoDoubleGrant` and `ReservedNeverGranted` are the promises, `TakenIsMarked`
what they rest on. `ReservedNeverGranted` is about regions that start or end on
a page boundary: of one that does neither, the length is rounded up but the
start rounded down, and the last page it touches can stay unmarked. PC memory
maps keep to it. `PageBitsExact` and `RefusedOnlyWhenFull` need `RowsFit`.

### VMM

Page tables are the contents (`mem`) of physical frames; a frame that was never
written as a table holds an arbitrary entry (`stale`). `Translate` walks the
tables in force, and every access of the kernel to a table goes through
`Reached`, that is, through the window and these tables: where the window shows
another frame, that one is written; where nothing is mapped, the processor
faults and `handleInterrupt` halts it. Before the switch the boot page
directory is in force; its identity mapping of the first 4 MB, which the code
in question does not use, is left out. Entries are frame numbers; flags other
than `present` are the same everywhere. The size of the framebuffer is its
number of whole pages (`size / PAGE_SIZE`). `tables` is history: the frames
taken for page tables.

`TablesInWindow` is the one thing the code relies on without seeing to it: page
tables have to lie in the first 4 MB. Where they do not, `PHYS_TO_VIRT` makes
an address in the heap: either nothing is mapped there and `mapPage` faults, or
the table is written into heap memory, and what was in the frame is taken for
the table. The run includes such memories, and the promises end there, that of
`TablesPrivate` too: an entry in such a frame can be anything, the frame of
another table among them.

`MemoryAssumption` says of the boot loader's map what every PC's says: memory
ends within the address space, and where the framebuffer's frames are below its
end, a reserved region holds them. `mapPage` maps the framebuffer at whatever
address the boot loader gives; nothing in the kernel compares it with the
allocator's memory.

### Heap

Memory is a function from word addresses to words, and the chunk headers are
in it, as in the code: five words with `allocated` in one of them. So damage is
modelled by what it overwrites. `Chain` follows `next` from the first chunk;
`Grant`, `RefuseSize`, `RefuseSearch`, `FaultInMalloc` and `Endless` are the
ways `malloc` can end (or not), `Free` is `free` with its two joins. Sizes
count words of four bytes; `HEAP_MAGIC` is scaled accordingly. What callers
write into their blocks is not modelled, and blocks of sizes that are no
multiple of four are not. Arithmetic is that of 32 bits: `WordLimit` is 2^32 bytes in words,
sums and sizes wrap there, `allocated` is the low byte of its word (`Allocated`, `Marked`).
Only requests within 40 bytes of 2^32, for which the header of the rest would lie over the one
it is cut from, are left out. What is promised to callers needs `RequestsFit`: no request is
so long that the sum of `Heap.cpp:27` wraps. `HeapStart` is where the heap begins (1000 in the runs,
so that no size looks like an address; 0xC0400000 in the kernel), and
`WordsBehind` are the words mapped behind it, which in the kernel are the
framebuffer's.

Three kinds of callers: `SpecAllocOnly` (the kernel today, nearly),
`SpecLifo` (the newest block is freed first) and `Spec` (any). `free` joins a
chunk with the one before it when that one is *allocated*, which then is longer
than it was promised to be and gives both back when it is freed; and it sets a
wrong back pointer when it joins a chunk with the next. To the first two kinds
of callers neither matters, and they get what `Arena` promises. To others, a wrong back pointer
is followed in the end by a chunk that reaches across a block in use (`heap_overlap`). `Heap.cpp:51` does not
check that the rest of a chunk has room for its own header: the last header can
lie across the end of the heap or behind it (`heap_end`). Callers that free the
newest block first never notice: such a chunk is not given out, and is joined
away before the one in front of it is.

### Vector and VFS

A vector is the array in use (they are numbered), what has been written to it,
and its two counts; growth is a new array, `erase` moves elements and leaves the last
one where it was. A pointer is an array and a position, so a pointer kept over
growth dangles and one kept over `erase` points to another element or to
garbage. `mountPoints` is such a vector and `files[h].mountPoint` such a
pointer, as in `VFSManager::open`. `safe` is history: neither happened to the
file. Of a dangling pointer the model only says that it leads to some file
system. The devices of a `DevFS` are a sequence, because pointers to them never
leave a call. `resize`, erasing a range, the copy constructor and `operator=` are
modelled, too (`Copy`, `Assigned`: `unset` is what the memory holds), but nothing in the kernel calls
them: they are not steps of a run, and `VectorProofs` says what they do.

A path is a sequence of "/" and runs of other characters. That keeps what
matters: string prefixes (`/dev` begins `/deva`), trailing and double
slashes. `findMountPoint(path, i)` is what the loop of the code ends with: `i` is the
first of the longest mount points that begin the path. `LookupIsDeepest` compares it with the meaning of directories;
it has to except paths that another mount point begins only as a string, for
which the code does take that mount point. Assumed: paths and names shorter than the 255
characters that fit (longer ones are cut, and could then be mounted twice),
memory for each descriptor, and reads of at least a sector. `DevFS::write` has
no body; nothing calls it.

### ATA, Interrupts and Stage2

An action of the driver ends at each read of the status register, because that
is where the drive's own steps and interrupts come in between. A drive is
a phase (busy, data, error, idle, and *taken*: told something and not yet showing
that it is busy, for up to 400 ns; the code does not wait for that) with
the command, sector and number of blocks it still has to deliver. Data are
[drive, sector], or `Junk` when the port is read while no data are offered: so
what the code reads too early, too often or from the wrong drive can be told from
what it should read. `CountLimit` is what the sector count register counts to
(256), so 0 stands for that many. `drives`, `prompt` and `floating` start in
every combination: absent or present, failing, slow to show busy, an empty bus
that reads as zeros or as ones. Sectors are not cut to 24 bits: the kernel
reads from sector 0 only.

`Interrupts` has the constructor's ten writes one by one, the gates of `init`
and the handler with its two acknowledgements; the controllers and the processor are
external, with edges, masks, priorities, the cascade, and requests that vanish
before they are acknowledged (spurious interrupts).

`Stage2` runs the two next to `stage2`, whose steps follow `pc`; a drive raises
line 14 only while it is selected, the timer's line 0 changes at any time, a
non-maskable interrupt can come at any time. What a handler does
is never visible to `stage2`, and the model does not assume it: the promises
about files and data are checked with the interrupts interleaved.

### Strings, Console and Log

A string is the sequence of its characters up to the null; characters are TLA+
strings of length one. `utos` is the code's repeated division, `itos` its
negation within `Width` bits. Comparisons are the positions where the loops end.

Sizes and offsets are `u32` (`U32`): `putPixel`, `fillRect`, `clear` and the number of pages
mapped wrap as in the code, but for the cursor, which takes 2^32 pixels of text.
`LogAssumption` says where nothing does: screens fit the address space (`FitsAddressSpace`) and
rectangles have far edges that do not wrap; `fillRect` does not cut off one that does, and has no
caller in the kernel. `SetUpScreen` can come again, with another tag: then the screen is
cleared and `written` and `lastGlyph` begin anew, while what was mapped stays mapped.

Of the picture `Console` only keeps how far into the buffer was written, and
where the last visible glyph is; `putChar`, `print` and `println` move the
cursor as in the code, which has no scrolling: text leaves the screen below.
Every glyph is taken to fill its 8 by 8 pixels. The image and the font are not modelled.

A call of `Log` puts its characters in `pending`, and they go out one by one,
because `panic` can come from an exception between any two of them.
The format is what the formatter sees, a sequence of characters with
its arguments apart; `PrintedAsFormatted` compares the result with the pieces it
was composed of. A prefix such as "[LOG] " counts as one character. `Characters` are
those that texts are made of; `LogAssumption` says which the code itself needs among
them, and that arguments fit the type their conversion takes them for. The exception's number,
which the handler prints before `panic` prints the registers, is left out; of `panic`'s two
`printf`s each has a `va_list` of its own, a copy of a pointer. `Printf` is a
recursive function on the places of the format and of the arguments, and
`PrintedFrom` one turn of the loop. An unknown conversion is modelled (the rest of
the format is printed as it is), but no message has one.

## Runs

| Run | Shows | Bounds |
|---|---|---|
| `pmm` | type and storage bounds, no double grant, nothing reserved or outside memory granted, exactness, refinement of `PagePool` | rows of 128 bits; 21.5 and 24 pages of memory, so that bitmaps end inside a byte and at its end, with three memory maps (none; regions with one end on a page boundary; at the top, empty, inside a page); and 132 pages, mostly reserved, so that a bitmap runs into the next row; requests served from levels 0, 2, 3 and 4; run to exhaustion of memory |
| `pmm_legend` | *violation*: blocks shown as allocated that are free | 24 pages, no map |
| `pmm_firmware` | *violation*: bits written outside the array | one region far above memory |
| `heap_lifo` | tiling, blocks clear of headers, allocated chunks are the callers' blocks, all freed is whole, refinement of `Arena` | 58 words with 6 mapped behind, blocks of 1, 7 and 13 words (6, 12 and 18 with header): all ways to fill the heap, with a last header that lies across its end |
| `heap_any` | types, lifetime bound on memory given out | 44 words, sizes 1, 9, 10: reaches faults and endless searches |
| `heap_overlap` | *violation*: two live blocks overlap | 66 words, sizes 1 and 13, so that no size of a rest wraps on the way: the difference is more than a header |
| `heap_end` | *violation*: a header beyond the heap | 40 words, 6 mapped behind |
| `vmm` | address space refinement, tables reachable and private, each frame one use, heap backed, faults only for want of a frame, the boot ends | tables of 16 entries, heap of 4 pages, framebuffers that end in the heap's table, at its end, one and two tables further; memory from none to beyond the window; six memory maps, of which two leave little or nothing free in the window; clean and stale frames, of which a stale entry can be the number of a table |
| `vfs` | mount points are a table that keeps its root; the deepest mount point is found; files nothing moved under read their own device | 2 interchangeable file systems and disks, one file, four mount points of which one is a prefix of another as a string only, and two invalid paths; the first array has room for 2, so that the third mount moves it |
| `stage2` | interrupts are acknowledged where they came from; the timer is served; only failures panic; what is read are the sectors asked for; the boot record is the second drive's first sector; `stage2` ends | all combinations of drives and of the masks at power-on; lines 0 and 14, non-maskable interrupts; reads of 0 to 3 sectors with a register that counts to 2, so that the limit and one beyond it happen |
| `log` | messages are printed piece by piece as meant; nothing is drawn outside the screen or the mapping; text is in reading order | integers of 5 bits, an address space of 4096 bytes, with the least, zero and the greatest; all messages of up to two pieces of twelve, and of three of those that can be mistaken for each other; screens with rows that follow each other, with gaps, and that end inside a page; the cursor up to 20 in both directions when a message begins, where a line, then a screen of 26 by 32 pixels is left |
| `vmm_qemu` | *violation*: a frame of the kernel image is handed out | the kernel's own constants and QEMU's map for 8 MB |

Small bounds are enough because the code treats levels, pages and chunks
uniformly: each run lets every level, every branch and every limit be reached,
and memory be exhausted. No run disables deadlock checking: where the kernel
halts (`Halt`, `Halted`) the model says so, and memory that is exhausted goes on
refusing.

Fairness. `BootSpec`: weak fairness of the boot as a whole. The
kernel is one thread that is never descheduled, so it goes on as long as it
can; nothing is assumed about which action is taken. `BootCompletes` also says
where it ends: with enough free frames in the window it ends in `done`.
`Stage2Spec`: weak fairness of `Interrupt` (the processor does not stop in a handler) and of each
`Disk(s)` (a drive finishes what it was told; without that polling cannot end,
and the code has no timeout), and strong fairness of `KernelStep`: an interrupt
disables the kernel's steps again and again, but the timer ticks 18 times a second and leaves it time
between two ticks. Nothing is assumed of the timer or of failures.

## What disagrees with the code's own words

* `PMM.cpp:144`: the number of children is divided by `i + 1` instead of `2^i`
  (`pmm_legend`).
* `PMM.cpp:174`: regions above memory are marked outside `bitmapAddress`
  (`pmm_firmware`).
* `Heap.cpp:96`: a chunk joined with the next leaves a wrong back pointer in the one
  behind; when that one is freed, it is joined (line 80) with a chunk further down, across a block
  in use, whose memory is then given out again (`heap_overlap`). With the back
  pointer set right the same search finds no overlap: the missing negation of
  line 80 alone only makes live chunks longer. Related: `usedMemory` (line 68)
  never goes down, so that an emptied heap still refuses.
* `Heap.cpp:51`: headers beyond the end of the heap (`heap_end`).
* `main.cpp:30`: the boot takes 260 frames, QEMU's map has 239 below 1 MB, and
  the kernel image is not reserved: its first pages become heap memory
  (`vmm_qemu`). The 80 pages of 0xA0000 to 0xEFFFF, which the map does not
  mention, are handed out before.

Not contradicted by a word in the repository, so no run of their own, but worth
knowing (the properties except them by name):

* The sum that `malloc` compares with the size of the heap (`Heap.cpp:27`) wraps for
  requests near 4 GB; one is granted once the size of the last chunk has wrapped
  (line 57), too. No caller in the kernel asks for so much (`RequestsFit` in `UsageBounds`).
* A framebuffer that does not end with a page has its last page unmapped
  (`main.cpp:101`): `clear` faults there (`DrawsInside`).
* A drive that is absent, or slow to show that it is busy, and a read of more
  than 256 sectors, make `ATA::read` return success and junk; a bus that reads as
  all ones makes it wait for ever (`ReadsItsSectors`, `Stage2Ends`).
* Between power-on and the constructor the timer's vector is that of a double
  fault; interrupts are off then (`PanicsOfFailureOnly`).
* There is no scrolling, and `warn`, `error` and `fatal` do not end their line.

## Proofs

Eight modules hold proofs; all obligations are checked by SMT, Zenon and LS4. Assumed are the
ASSUMEs of the modules, which TLC evaluates in every run.

**`PMMProofs`**, for every number of bits in a row, every memory size, every
memory map and every set of requests of 1 to 16 pages:

* `TypeCorrect`, `TakenMarked`, `DisjointGrants`, `ReservedSafe`, `InsideMemory`:
  the invariants of the same names as in the run, `ImplementsPool`: the
  refinement. The inductive invariant is `Inv`: `TypeOK`, `TakenIsMarked`,
  `NoDoubleGrant`, `GrantsInsideMemory`, no page both held and reserved, and no
  page held before all regions are marked.
  `NoDoubleGrant` is not inductive by itself: a page that is held must be marked at the
  level of the *next* request, whatever that is. The step: the block found has a
  clear bit at its level, so none of its pages is held or reserved
  (`TakenIsMarked`, read backwards); afterwards its pages are marked at lower
  levels by `Children`, which marks *at least* enough blocks - the lemma behind
  it is that dividing by `i + 1` never rounds below dividing by `2^i` - and at
  higher ones by `Parents`.
* `NoPageLost`, `InStorage`, `RefusalMeansFull`: with `RowsFit`, by the second
  invariant `ExactInv`. It needs that the children marked at level 0 are exactly
  the pages asked for.

`LowPages` is the first megabyte, which `mem_upper` does not count; it must cover the 7
blocks of the largest size that rounding to whole bytes can add.

**`VectorProofs`**, for vectors of anything, of any first size: `push_back`
appends through growth (`PushBackAppends`), erasing takes out what it was asked to
and nothing else (`EraseRemoves`, `EraseRangeRemoves`), `ResizeFills`, `CopyEqual`, and
`AssignmentCopies`, which states the two cases of `operator=` as they are.
They rest on one fact, kept by every operation: a vector has never more elements
than it has written, nor written more than there is room for.

**`VMMProofs`**, for tables of any size, any memory map and memory, any
framebuffer and whatever is in the frames: `BootTypeCorrect`,
`TablesArePrivate`, `TablesAreReachable`, `FramesAreAccounted`, `HeapIsBacked`,
`FaultsOnlyWithoutFrame` and `ImplementsAddressSpace` (the refinement
`AddressSpaceSpec`). The promises describe what `Translate` finds by walking tables
that the walk itself is used to write, so none is inductive. `BootInv` has four parts:

* `TypeInv`: the types, where in the boot which variables are set, and `Inv` of
  `PMMProofs`: this is where that no frame is given out twice comes from.
* `Beyond`: the allocator gives out a frame beyond the window only when none is
  left below, so that from then on the boot takes no table in the window.
* `LinkInv`: while all tables lie in the window, they form a tree (`Linked`): the
  directory and the tables below it are different frames, one of them is the window's, and
  together they map the window, the pages mapped so far, each to the frame it was
  given, and nothing else. The heap's frames are in `held` and are no tables.
* `OneUse`: each frame handed out is a table, backs one page, or is in hand.

The lemma the others hang on is `MapPageLinked`: in a linked tree `Reached` of a
table is the table, so `mapPage` changes the entry it means, in the table
that it means, and the tree stays linked, with a new table or without. Its
arithmetic, that a page is its table's number and its index there and no two pages have
the same, is a lemma of its own (`DivMod`). `FramesAreAccounted` counts, with the
library's theorems on cardinalities. The refinement goes step by step: the switch to the
new tables shows the same window, and every other step adds one page or none.

**`HeapProofs`**, for heaps of any size, whatever is mapped behind them, and
blocks of any size. For any caller: `HeapTypeCorrect`, that words stay words of 32 bits and that
blocks are of sizes asked for and lie behind headers that are mapped; and `UsageBounded`, where no
sum wraps (`RequestsFit`). The second compares `usedMemory` with the sum of what the callers' blocks take up, headers
included, by how that sum changes when a block is added and when any one is taken away.
For callers that free the newest block first, of sizes in `RequestsFit`: `ListIsTiled`, `BlocksAreClear`, `ListShowsBlocks`,
`HeapIsWholeAgain` and `HeapIsArena` (the refinement `ArenaSpec`).
`free` joins a chunk with the allocated one before it, so that "the list is a tiling" survives
only because of the order in which blocks come back. `LifoInv` says what this order makes of
the list: the headers of the blocks lie in memory in the order of the blocks' ages, each
where the one before it ends, with nothing free between them, and behind the newest
block there is either one free chunk to the end of the heap (`Open`) or nothing (`Closed`),
where the last header may lie across the end or be one that was joined away. All words
the code reads are then known, so a step of `malloc` or `free` can be followed
write by write. The chain of chunks is a recursive function; what it returns is proved
by induction over the natural numbers, in the form of the lemma `Induction`, whose property is a set.

**`VFSProofs`**, for all paths, file systems, devices and handles:
`VFSTypeCorrect`, `LookupsAreDeepest`, `SafeFilesReadTheirDevice` (the action property
`ReadsOwnDevice`) and `ImplementsTable` (the refinement `TableSpec`).
`LookupsAreDeepest` holds because two mount points that both begin a path begin each
other, so that the longest of them is the deepest directory. The
inductive invariant is `Inv`: the types; names are unique in each DevFS and paths in
the vector; the root is the first mount point and the only one so marked; and `SafePointers`:
the pointer of a safe file is to an element of the array in use, which is of the
file system it was opened in. The last is what unmounting and growth have to
keep: elements before the erased one stay, others lose `safe`. The refinement
needs `PathsUnique` - `erase` of one element takes out one entry - and
`RootFirst`, so that only an empty vector's first entry becomes the root.

**`Stage2Proofs`**, for a count register of any size and reads of any length:
`ReadReturnsItsSectors`, `BootRecordIsFirstSector`, `DriverTypeCorrect`. Neither
property is inductive: the blocks read say nothing about the next one. `InStep`
relates driver and drive between two blocks - while blocks are left
of those the drive was told to deliver (`Told`, which is not the count when it does
not fit), it is at the sector the driver is at, has as many left, and is not at
rest; `command` is only reached when the drive is not busy, so that it does
not miss it; `RightBlocks` says that the first `Told` blocks are right, which
for the boot record is enough even when the read is too long. `FilesInv` follows
the file system exactly, since `stage2` is one sequence of calls.

For every state of the masks at power-on and any timer: `HandlerEndsService`
(`InServiceIsHandled`), `OnlyFailuresPanic` (`PanicsOfFailureOnly`) and
`Stage2TypeCorrect`. The invariant is `InterruptsInv`. `Programming` says how far each
controller is through its initialisation, by which of its ten writes it has had
(`Programmed`); after the last, masks and vectors are what the handler relies on.
`Vectors` says that the gates are set before interrupts are
enabled, that a vector is that of the controller that sent it (`Sent`; a spurious one has
nothing in service behind it), and so never one of an exception. That
`InServiceIsHandled` survives an interrupt rests on the order of the two
acknowledgements, and on nested interrupts being impossible until the handler has
returned. `Stage2TypeCorrect` needs `Inv` of `VFSProofs`, which every step of `stage2`
keeps as it is a step of the VFS or leaves it alone.

**`StringProofs`**, for all strings: `StrcmpIsEquality`, `StrncmpIsPrefix` and
`StrncpyHolds`. They justify the abstractions of `VFS`: names compared as values,
mount points matched by `IsPrefix`, and paths kept as they were given. And for all word
widths: `UtosIsNumeral` and `ItosIsNumeral`. The code divides and writes remainders
backwards; `Numeral` says of each place which digit of the number belongs
there. Between the two stands that dividing n times by the base is dividing by its
n-th power (`QuotientOfQuotient`), and that powers outgrow the number, so that the
numeral has the length it should (`LengthLemma`). The least integer is its own case:
its negative, cut to the width, is the same word, and taken as unsigned it is right.

**`LogProofs`**, for screens of any size and pitch that fit the address space, rectangles whose far
edges do not wrap, and any messages and texts:

* `DrawingStaysInside` (`DrawsInside`) and `TextIsInReadingOrder` (`InReadingOrder`),
  from `ConsoleInv`: the types, how much is mapped of the screen in use, and that
  everything written lies in the rows (`Inside`). The last pixel of the
  screen has the highest address only where rows do not overlap, which is why
  the property asks for a pitch of at least the width. `startX`, the column in which
  `print` goes on after a newline, is the one value of the log it needs.
* `PrintfSaysItAll`: `printf` prints each format as what its pieces mean. The format
  and the arguments are each a flattening of the pieces' parts, so a piece stands where
  those before it end (`FlattenedAt`); from there `printf` prints the piece's meaning
  and goes on where the next begins (`PieceIsPrinted`), for which the digits are those of
  `StringProofs`. The code's literal is as long as it can be and spans pieces;
  `LiteralSettled` shows that it could as well be printed character by character - for
  "%%" too, where the search for its end has to skip the second "%".
* `LogTypeCorrect` (`LogTypeOK`) and `PrintsAsFormatted` (`PrintedAsFormatted`), from
  `Delivery`: what is printed already, followed by what is on its way there, is what the
  call says, on the screen and on the serial line each. `PrintedAsFormatted` alone says
  nothing of a message before its end. `panic` begins a message of its own at any step.

Recursive functions (the heap's chain and sums, powers, remainders, flattening, `Printf`)
are reasoned about with two lemmas: `Induction`, over the natural numbers with a set for
the property, and `Recursion`, that a function whose value at each place rests on one of lower
rank exists. `printf`'s loop can go on at any later place, so `PrintfDefined` builds
its function from the end of the format instead.

Model-checked only: liveness (`BootCompletes`, `TimerServed`, `Stage2Ends`), which with
its fairness and ENABLED is beyond the prover. Every invariant and action property
and every refinement of a passing run is a theorem as well.

## Not modelled, and the plan

Not modelled, and why:

* `write` of the VFS and DevFS: it has no body below. `InterruptManager::disable`,
  `strcpy`, `memcpy`, `setColor`, `printCentered` and the accessors of `Vector`: no
  caller, or no state. `memset` is part of the actions that call it.
* Output that only reads: `printBuddyVisualization`, `dump`, `printUsage`, the tags that `stage2` prints,
  the partition table, a packed layout whose entries are printed.
* Tables written once before anything else (`GDT`), `boot.asm` but for its page
  directory, port instructions.
* `icxxabi.cpp` and the stack protector: destructors are registered, but nothing ever runs them.
* The vendored multiboot header and the picture data.

Of what is modelled, all safety is proved. What could be added is a model of `printBuddyVisualization`
and `dump`, should a property ever be about what they show.
