-------------------------------- MODULE Heap ---------------------------------
(***************************************************************************)
(* The kernel heap (Kernel/src/MM/Heap.cpp): chunks in a doubly linked     *)
(* list that lives in the memory it manages.                               *)
(*                                                                         *)
(* Memory is a function from word addresses to words, chunk headers        *)
(* included, so that a header written over another one is modelled by what *)
(* it overwrites.  Addresses and sizes count words of four bytes, and all  *)
(* arithmetic on them is that of 32 bits.                                  *)
(***************************************************************************)
EXTENDS Integers, Sequences, SequencesExt

CONSTANTS
  HeapStart,    \* memoryStart
  MemoryWords,  \* memorySize
  WordsBehind,  \* words behind the heap that are mapped (the framebuffer's)
  Sizes         \* the sizes callers ask for

(* The fields of a MemoryChunk. *)
NEXT      == 0
PREV      == 1
MAGIC     == 2
ALLOCATED == 3
SIZE      == 4
HEADER    == 5

HEAP_MAGIC == 139327403   \* 0x2137DEAD \div 4: no address of the heap
WordLimit  == 1073741824  \* 2^32 bytes, which are 2^30 words
ByteValues == 64          \* 2^8, counted like all words

Null      == 0
HeapEnd   == HeapStart + MemoryWords
HeapWords == HeapStart .. HeapEnd - 1
Mapped    == HeapStart .. HeapEnd + WordsBehind - 1

(* Of requests within 40 bytes of 2^32, the rest's header would lie over   *)
(* the one it is cut from; those are left out.                             *)
ASSUME HeapAssumption ==
  /\ HeapStart \in Nat /\ HeapStart > Null
  /\ MemoryWords \in Nat /\ MemoryWords > HEADER
  /\ WordsBehind \in Nat /\ HeapEnd + WordsBehind <= WordLimit
  /\ Sizes \subseteq 1 .. WordLimit - 2 * HEADER

VARIABLES
  mem,         \* the mapped words
  usedMemory,  \* the heap's own account of the memory in use
  live,        \* the callers' blocks, oldest first: [ptr, size]
  outcome      \* how the last call ended

vars == <<mem, usedMemory, live, outcome>>

-----------------------------------------------------------------------------
(* The chunk list. *)

IsChunk(address) == address .. address + HEADER - 1 \subseteq Mapped

(* allocated is the low byte of its word: the others are what they were. *)
Allocated(m, chunk) == m[chunk + ALLOCATED] % ByteValues # 0
Marked(word, flag)  == (word - (word % ByteValues)) + flag

(* The chunks of the list, in order, up to ChainBound of them.  Null, or   *)
(* an address where no chunk can be, ends the list.                        *)
ChainBound == 2 * (MemoryWords \div HEADER)

Chain ==
  LET upTo[n \in 0 .. ChainBound] ==
        IF n = 0 THEN <<HeapStart>>
        ELSE LET chain == upTo[n - 1]
             IN  IF IsChunk(Last(chain)) THEN Append(chain, mem[Last(chain) + NEXT]) ELSE chain
  IN  upTo[ChainBound]

(* Faulty: a chunk taken although it is allocated. *)
Fits_AnyChunk(chunk, size) == mem[chunk + SIZE] > size

Fits(chunk, size) == mem[chunk + SIZE] > size /\ ~ Allocated(mem, chunk)

(* A search along the list goes past chunks that will not do and stops at  *)
(* the n-th: one that fits, Null, or an address where no chunk can be.     *)
StopsAt(chain, n, size) ==
  /\ \A k \in 1 .. n - 1 : IsChunk(chain[k]) /\ ~ Fits(chain[k], size)
  /\ IsChunk(chain[n]) => Fits(chain[n], size)

-----------------------------------------------------------------------------
(* KernelHeap makes one free chunk of the whole heap. *)
Init ==
  /\ mem = [[a \in Mapped |-> 0] EXCEPT ![HeapStart + MAGIC] = HEAP_MAGIC,
                                        ![HeapStart + SIZE]  = MemoryWords - HEADER]
  /\ usedMemory = 0
  /\ live = <<>>
  /\ outcome = "none"

(* Faulty: the header not counted. *)
OutOfMemory_NoHeader(size) == (usedMemory + size) % WordLimit >= MemoryWords

OutOfMemory(size) == (usedMemory + size + HEADER) % WordLimit >= MemoryWords

(* malloc refuses without a search. *)
RefuseSize(size) ==
  /\ OutOfMemory(size)
  /\ outcome' = "out of memory"
  /\ UNCHANGED <<mem, usedMemory, live>>

(* malloc comes to the end of the list. *)
RefuseSearch(size) ==
  /\ ~ OutOfMemory(size)
  /\ LET chain == Chain
     IN  \E n \in 1 .. Len(chain) :
           /\ StopsAt(chain, n, size)
           /\ chain[n] = Null
  /\ outcome' = "no free chunk"
  /\ UNCHANGED <<mem, usedMemory, live>>

(* Faulty: the rest placed as if the block began at its header. *)
Rest_InBlock(chunk, size) == (chunk + size) % WordLimit

(* The header of the rest of chunk, and the chunk that follows it. *)
Rest(chunk, size) == (chunk + HEADER + size) % WordLimit
Splittable(chunk, size) ==
  /\ IsChunk(Rest(chunk, size))
  /\ mem[chunk + NEXT] = Null \/ IsChunk(mem[chunk + NEXT])

(* Faulty: the header of the rest not taken from its size. *)
RestSize_NoHeader(chunk, size) == (mem[chunk + SIZE] - size) % WordLimit

(* Faulty: the size of the rest not a 32-bit number. *)
RestSize_Signed(chunk, size) == mem[chunk + SIZE] - HEADER - size

RestSize(chunk, size) == (mem[chunk + SIZE] - HEADER - size) % WordLimit

(* Faulty: the chunk given out not marked as allocated. *)
Take_StillFree(m, chunk, next, size) == [m EXCEPT ![chunk + NEXT] = next, ![chunk + SIZE] = size]

(* Memory after the header of chunk, now given out, has been written. *)
Take(m, chunk, next, size) ==
  [m EXCEPT ![chunk + NEXT]      = next,
            ![chunk + ALLOCATED] = Marked(m[chunk + ALLOCATED], 1),
            ![chunk + SIZE]      = size]

(* Memory after chunk is cut to size: first the header of the rest is      *)
(* written, then prev of the chunk behind it, then chunk's own header.     *)
Split(chunk, size) ==
  LET temp     == Rest(chunk, size)
      next     == mem[chunk + NEXT]
      withRest == [mem EXCEPT ![temp + NEXT]      = next,
                              ![temp + PREV]      = chunk,
                              ![temp + MAGIC]     = HEAP_MAGIC,
                              ![temp + ALLOCATED] = 0,
                              ![temp + SIZE]      = RestSize(chunk, size)]
      withPrev == IF next = Null THEN withRest ELSE [withRest EXCEPT ![next + PREV] = temp]
  IN  Take(withPrev, chunk, temp, size)

(* malloc splits the first free chunk that is larger than the request. *)
Grant(size) ==
  /\ ~ OutOfMemory(size)
  /\ LET chain == Chain
     IN  \E n \in 1 .. Len(chain) :
           /\ StopsAt(chain, n, size)
           /\ IsChunk(chain[n])
           /\ Splittable(chain[n], size)
           /\ mem' = Split(chain[n], size)
           /\ live' = Append(live, [ptr |-> chain[n] + HEADER, size |-> size])
  /\ usedMemory' = (usedMemory + size + HEADER) % WordLimit
  /\ outcome' = "granted"

(* The list leads back into itself before a chunk fits: malloc never ends. *)
Endless(size) ==
  /\ ~ OutOfMemory(size)
  /\ LET chain == Chain
     IN  /\ \A k \in 1 .. Len(chain) : IsChunk(chain[k]) /\ ~ Fits(chain[k], size)
         /\ \E i, j \in 1 .. Len(chain) : i # j /\ chain[i] = chain[j]
  /\ outcome' = "endless search"
  /\ UNCHANGED <<mem, usedMemory, live>>

(* malloc follows a pointer to memory that is not mapped: the page fault   *)
(* halts the kernel.                                                       *)
FaultInMalloc(size) ==
  /\ ~ OutOfMemory(size)
  /\ LET chain == Chain
     IN  \E n \in 1 .. Len(chain) :
           /\ StopsAt(chain, n, size)
           /\ chain[n] # Null
           /\ IsChunk(chain[n]) => ~ Splittable(chain[n], size)
  /\ outcome' = "page fault"
  /\ UNCHANGED <<mem, usedMemory, live>>

(* The last call never returned. *)
Stuck == outcome \in {"page fault", "endless search"}

Malloc(size) ==
  /\ ~ Stuck
  /\ \/ RefuseSize(size)
     \/ RefuseSearch(size)
     \/ Grant(size)
     \/ FaultInMalloc(size)
     \/ Endless(size)

-----------------------------------------------------------------------------
Reachable(pointer) == pointer = Null \/ IsChunk(pointer)

(* free joins a chunk with the one before it when that one is allocated. *)
JoinsPrev(m, chunk) == m[chunk + PREV] # Null /\ Allocated(m, m[chunk + PREV])

(* Memory after chunk has become part of the chunk before it. *)
JoinPrev(m, chunk) ==
  LET prev == m[chunk + PREV]
      next == m[chunk + NEXT]
      grown == [m EXCEPT ![prev + NEXT] = next,
                         ![prev + SIZE] = (@ + m[chunk + SIZE] + HEADER) % WordLimit]
  IN  IF next = Null THEN grown ELSE [grown EXCEPT ![next + PREV] = prev]

(* Faulty: an allocated neighbour taken for a free one. *)
JoinsNext_Allocated(m, chunk) == m[chunk + NEXT] # Null /\ Allocated(m, m[chunk + NEXT])

JoinsNext(m, chunk) == m[chunk + NEXT] # Null /\ ~ Allocated(m, m[chunk + NEXT])

(* Faulty: the header of the chunk taken in not counted. *)
JoinNext_NoHeader(m, chunk) ==
  LET next  == m[chunk + NEXT]
      after == m[next + NEXT]
      grown == [m EXCEPT ![chunk + SIZE] = (@ + m[next + SIZE]) % WordLimit,
                         ![chunk + NEXT] = after]
  IN  IF after = Null THEN grown ELSE [grown EXCEPT ![after + PREV] = m[chunk + PREV]]

(* Memory after chunk has taken in the chunk behind it.  The prev of the   *)
(* one after that is set to chunk's prev.                                  *)
JoinNext(m, chunk) ==
  LET next  == m[chunk + NEXT]
      after == m[next + NEXT]
      grown == [m EXCEPT ![chunk + SIZE] = (@ + m[next + SIZE] + HEADER) % WordLimit,
                         ![chunk + NEXT] = after]
  IN  IF after = Null THEN grown ELSE [grown EXCEPT ![after + PREV] = m[chunk + PREV]]

(* free marks the chunk free and joins it with its neighbours, unless a    *)
(* pointer it follows on the way leads to memory that is not mapped.       *)
Free(i) ==
  LET chunk  == live[i].ptr - HEADER
      marked == [mem EXCEPT ![chunk + ALLOCATED] = Marked(@, 0)]
      joined == IF JoinsPrev(marked, chunk) THEN JoinPrev(marked, chunk) ELSE marked
      whole  == IF JoinsPrev(marked, chunk) THEN marked[chunk + PREV] ELSE chunk
      follows == /\ Reachable(marked[chunk + PREV])
                 /\ JoinsPrev(marked, chunk) => Reachable(marked[chunk + NEXT])
                 /\ Reachable(joined[whole + NEXT])
                 /\ JoinsNext(joined, whole) => Reachable(joined[joined[whole + NEXT] + NEXT])
  IN  /\ ~ Stuck
      /\ \/ /\ follows
            /\ mem' = IF JoinsNext(joined, whole) THEN JoinNext(joined, whole) ELSE joined
            /\ live' = RemoveAt(live, i)
            /\ outcome' = "freed"
         \/ /\ ~ follows
            /\ outcome' = "page fault"
            /\ UNCHANGED <<mem, live>>
      /\ UNCHANGED usedMemory

Halted == Stuck /\ UNCHANGED vars

-----------------------------------------------------------------------------
(* Callers that never free, that free the newest block first, and that     *)
(* free any block.                                                         *)
NextAllocOnly == Halted \/ \E size \in Sizes : Malloc(size)
NextLifo == NextAllocOnly \/ (live # <<>> /\ Free(Len(live)))
Next     == NextAllocOnly \/ \E i \in 1 .. Len(live) : Free(i)

SpecAllocOnly == Init /\ [][NextAllocOnly]_vars
SpecLifo      == Init /\ [][NextLifo]_vars
Spec          == Init /\ [][Next]_vars

-----------------------------------------------------------------------------
(* Properties. *)

Extent(block) == block.ptr .. block.ptr + block.size - 1

LiveBlocks == Range(live)

Chunks == Range(Chain) \ {Null}

Outcomes == {"none", "granted", "out of memory", "no free chunk", "freed", "page fault", "endless search"}

(* What malloc gives out lies behind a header that is mapped.              *)
Blocks == [ptr : HeapStart + HEADER .. HeapEnd + WordsBehind, size : Sizes]

TypeOK ==
  /\ mem \in [Mapped -> 0 .. WordLimit - 1]
  /\ usedMemory \in 0 .. WordLimit - 1
  /\ live \in Seq(Blocks)
  /\ outcome \in Outcomes

(* The chunks of the list lie end to end from the start of the heap to its *)
(* end, each linked to its neighbours in both directions, and every header *)
(* carries the magic number.  (A header that lies across the end has no    *)
(* memory: HeadersInside.)                                                 *)
Tiled ==
  \A c \in {d \in Chunks : d + HEADER <= HeapEnd} :
    LET behind == c + HEADER + mem[c + SIZE]
    IN  /\ behind \in c + HEADER .. HeapEnd
        /\ mem[c + NEXT] = IF behind = HeapEnd THEN Null ELSE behind
        /\ mem[c + NEXT] # Null => mem[behind + PREV] = c
        /\ mem[c + MAGIC] = HEAP_MAGIC

(* The callers' blocks lie inside the heap, and no header of the list lies *)
(* in a block.                                                             *)
BlocksClearOfHeaders ==
  \A block \in LiveBlocks :
    /\ Extent(block) \subseteq HeapWords
    /\ \A c \in Chunks : Extent(block) \cap c .. c + HEADER - 1 = {}

(* The chunks the list shows as allocated are the callers' blocks, each at *)
(* least as large as was promised.  (free makes the chunk before the freed *)
(* one larger when that one is allocated.)                                 *)
AllocatedAreLive ==
  /\ {block.ptr : block \in LiveBlocks} = {c + HEADER : c \in {d \in Chunks : Allocated(mem, d)}}
  /\ \A block \in LiveBlocks : block.size <= mem[block.ptr - HEADER + SIZE]

(* When every block has been freed in the reverse of the order they were   *)
(* asked for, the heap is one free chunk again.                            *)
AllFreedIsWhole ==
  live = <<>> => /\ mem[HeapStart + NEXT] = Null
                 /\ mem[HeapStart + SIZE] = MemoryWords - HEADER
                 /\ ~ Allocated(mem, HeapStart)

(* No request is so long that the sum in malloc's first check wraps. *)
RequestsFit == \A size \in Sizes : MemoryWords + size + HEADER <= WordLimit

(* The words that blocks take, headers included. *)
Taken(blocks) ==
  LET upTo[n \in 0 .. Len(blocks)] == IF n = 0 THEN 0 ELSE upTo[n - 1] + blocks[n].size + HEADER
  IN  upTo[Len(blocks)]

(* Unless a request is so long that a sum wraps: whatever callers do, and  *)
(* however damaged the list is, the account is never less than what the    *)
(* callers hold and stays below memorySize: the heap gives out no more     *)
(* than that in its whole life, as free never reduces it.                  *)
UsageBounds == RequestsFit => Taken(live) <= usedMemory /\ usedMemory < MemoryWords

(* The heap is an arena to callers that free in reverse order or never.    *)
ArenaOf == INSTANCE Arena WITH Words <- HeapWords, live <- LiveBlocks

ArenaSpec == ArenaOf!Spec

(* No two live blocks overlap: what malloc gives out is, in the words of   *)
(* its error message, a "free memory chunk".                               *)
LiveDisjoint ==
  \A i, j \in 1 .. Len(live) : i # j => Extent(live[i]) \cap Extent(live[j]) = {}

(* Every header lies in the memory the heap was given.                     *)
HeadersInside == \A c \in Chunks : c .. c + HEADER - 1 \subseteq HeapWords

=============================================================================
