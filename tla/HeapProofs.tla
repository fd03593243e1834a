----------------------------- MODULE HeapProofs ------------------------------
(***************************************************************************)
(* What the heap promises for every size of its memory and every mix of    *)
(* sizes, as long as no request is so long that the sum in malloc's first  *)
(* check wraps (RequestsFit): to callers that free in any order, that it   *)
(* never gives out more than it has; to callers that free the newest block *)
(* first, that it is an arena.                                             *)
(***************************************************************************)
EXTENDS Heap, SequenceTheorems, WellFoundedInduction, TLAPS

Words == 0 .. WordLimit - 1

(* What the proofs need to know of the two large numbers of the module. *)
LEMMA LargeNumbers ==
  /\ WordLimit \in Nat /\ WordLimit > 1000
  /\ HEAP_MAGIC \in Nat /\ HEAP_MAGIC < WordLimit
  /\ HeapStart \in Nat /\ HeapStart > 0 /\ HeapStart < WordLimit
<1>1. WordLimit \in Nat /\ WordLimit > 1000 /\ HEAP_MAGIC \in Nat /\ HEAP_MAGIC < WordLimit
  BY SMT DEF WordLimit, HEAP_MAGIC
<1> HIDE DEF WordLimit
<1> QED
  BY <1>1, HeapAssumption DEF HeapEnd, HEADER, Null

LEMMA ModWords ==
  ASSUME NEW a \in Int
  PROVE  /\ a % WordLimit \in Words
         /\ a \in Words => a % WordLimit = a
         /\ \A b \in Int : ((a % WordLimit) + b) % WordLimit = (a + b) % WordLimit
<1>1. /\ a % 1073741824 \in Int /\ 0 <= a % 1073741824 /\ a % 1073741824 <= 1073741823
      /\ a >= 0 /\ a < 1073741824 => a % 1073741824 = a
      /\ \A b \in Int : ((a % 1073741824) + b) % 1073741824 = (a + b) % 1073741824
  BY SMT
<1>2. /\ a % WordLimit \in Int /\ 0 <= a % WordLimit /\ a % WordLimit <= WordLimit - 1
      /\ a >= 0 /\ a < WordLimit => a % WordLimit = a
      /\ \A b \in Int : ((a % WordLimit) + b) % WordLimit = (a + b) % WordLimit
  BY <1>1, SMT DEF WordLimit
<1> QED
  BY <1>2, LargeNumbers, SMT DEF Words

(* The flag of a word, the low byte, is what it was last marked with. *)
LEMMA Flags ==
  ASSUME NEW flag \in {0, 1}
  PROVE  /\ flag % ByteValues = flag
         /\ \A word \in Words : Marked(word, flag) \in Words
         /\ \A word \in {0, 1} : Marked(word, flag) = flag
<1>1. \A bit \in Int : bit = 0 \/ bit = 1 => bit % 64 = bit
  BY SMT
<1>2. \A word, bit \in Int :
        word >= 0 /\ word <= 1073741823 /\ bit >= 0 /\ bit <= 63 =>
          /\ word - (word % 64) + bit \in Int
          /\ word - (word % 64) + bit >= 0 /\ word - (word % 64) + bit <= 1073741823
  BY SMT
<1>3. /\ \A bit \in Int : bit = 0 \/ bit = 1 => bit % ByteValues = bit
      /\ \A word, bit \in Int :
           word >= 0 /\ word <= WordLimit - 1 /\ bit >= 0 /\ bit <= 63 =>
             /\ Marked(word, bit) \in Int
             /\ Marked(word, bit) >= 0 /\ Marked(word, bit) <= WordLimit - 1
  BY <1>1, <1>2, SMT DEF Marked, ByteValues, WordLimit
<1>4. flag \in Int /\ (flag = 0 \/ flag = 1) /\ flag >= 0 /\ flag <= 63
  OBVIOUS
<1>5. \A word \in Words : Marked(word, flag) \in Words
  BY <1>3, <1>4, LargeNumbers DEF Words
<1>6. ASSUME NEW word \in {0, 1}
      PROVE  Marked(word, flag) = flag
  <2>1. word % ByteValues = word /\ word \in Int
    BY <1>3
  <2> QED
    BY <1>4, <2>1 DEF Marked
<1> QED
  BY <1>3, <1>4, <1>5, <1>6

LEMMA BlockTypes ==
  ASSUME NEW block \in Blocks
  PROVE  block.ptr \in Int /\ block.size \in Words /\ block.size \in Nat /\ block.size > 0
<1>1. block.ptr \in HeapStart + HEADER .. HeapEnd + WordsBehind /\ block.size \in Sizes
  BY DEF Blocks
<1>2. Sizes \subseteq 1 .. WordLimit - 2 * 5 /\ HEADER = 5
  BY HeapAssumption DEF HEADER
<1>3. block.size \in Int /\ block.size >= 1 /\ block.size < WordLimit
  <2>1. block.size \in 1 .. WordLimit - 2 * 5
    BY <1>1, <1>2
  <2> QED
    BY <2>1, LargeNumbers
<1>4. HeapStart + HEADER \in Int /\ HeapEnd + WordsBehind \in Int
  BY <1>2, HeapAssumption DEF HeapEnd
<1> QED
  BY <1>1, <1>3, <1>4, LargeNumbers DEF Words

(* What the flag says of a word that is 0 or 1. *)
LEMMA FlagSet == 1 % ByteValues = 1 /\ 0 % ByteValues = 0
BY Flags

-----------------------------------------------------------------------------
(* Induction over the natural numbers, with a set for the property. *)
LEMMA Induction ==
  ASSUME NEW T \in SUBSET Nat, 0 \in T, \A n \in T : n + 1 \in T
  PROVE  T = Nat
<1> DEFINE Out == Nat \ T
<1> SUFFICES ASSUME Out # {}
             PROVE  FALSE
  OBVIOUS
<1>1. PICK n \in Out : \A m \in Out : ~ (<<m, n>> \in OpToRel(<, Nat))
  <2>1. Out \subseteq Nat
    OBVIOUS
  <2> HIDE DEF Out
  <2> QED
    BY <2>1, NatLessThanWellFounded, WFMin
<1>2. n \in Nat /\ n # 0 /\ n - 1 \in Nat
  OBVIOUS
<1>3. n - 1 \in Out
  <2>1. CASE n - 1 \in T
    <3>1. (n - 1) + 1 \in T
      BY <2>1
    <3> QED
      BY <1>2, <3>1
  <2> QED
    BY <1>2, <2>1
<1>4. <<n - 1, n>> \in OpToRel(<, Nat)
  BY <1>2 DEF OpToRel
<1> QED
  BY <1>1, <1>3, <1>4

(* The words of a header are mapped where a chunk can be. *)
LEMMA HeaderMapped ==
  ASSUME NEW c \in Int
  PROVE  IsChunk(c) <=> /\ HeapStart <= c
                        /\ c + HEADER <= HeapEnd + WordsBehind
BY HeapAssumption DEF IsChunk, Mapped, HeapEnd, HEADER

(* Where the words of a header lie, and what they can hold. *)
LEMMA HeaderWords ==
  ASSUME NEW m \in [Mapped -> Words], NEW c \in Int, IsChunk(c)
  PROVE  /\ c \in Mapped /\ c \in Words
         /\ \A f \in {NEXT, PREV, MAGIC, ALLOCATED, SIZE} : c + f \in Mapped /\ m[c + f] \in Words
<1>1. HeapStart <= c /\ c + HEADER <= HeapEnd + WordsBehind
  BY HeaderMapped
<1>2. HEADER = 5 /\ \A f \in {NEXT, PREV, MAGIC, ALLOCATED, SIZE} : f \in 0 .. 4
  BY DEF HEADER, NEXT, PREV, MAGIC, ALLOCATED, SIZE
<1>3. HeapEnd \in Nat /\ WordsBehind \in Nat /\ HeapEnd + WordsBehind <= WordLimit
  BY HeapAssumption, LargeNumbers DEF HeapEnd, HEADER
<1>4. ASSUME NEW f \in 0 .. 4
      PROVE  c + f \in Mapped
  <2>1. HEADER = 5
    BY <1>2
  <2>2. HeapStart <= c + f /\ c + f <= HeapEnd + WordsBehind - 1 /\ c + f \in Int
    BY <1>1, <1>3, <2>1, LargeNumbers
  <2> QED
    BY <1>3, <2>2, LargeNumbers DEF Mapped
<1>5. c \in Words
  BY <1>1, <1>2, <1>3, LargeNumbers DEF Words
<1>6. c \in Mapped
  BY <1>4
<1> QED
  BY <1>2, <1>4, <1>5, <1>6

-----------------------------------------------------------------------------
(* The list. *)

Longer(chain) == IF IsChunk(Last(chain)) THEN Append(chain, mem[Last(chain) + NEXT]) ELSE chain

(* The recursion that defines Chain has a solution. *)
LEMMA ChainDefined ==
  \E upTo : /\ Chain = upTo[ChainBound]
            /\ upTo = [n \in 0 .. ChainBound |-> IF n = 0 THEN <<HeapStart>> ELSE Longer(upTo[n - 1])]
<1> DEFINE Defines(f, k) == f = [n \in 0 .. k |-> IF n = 0 THEN <<HeapStart>> ELSE Longer(f[n - 1])]
           T == {k \in Nat : \E f : Defines(f, k)}
<1>1. T = Nat
  <2>1. 0 \in T
    <3>1. Defines([n \in 0 .. 0 |-> <<HeapStart>>], 0)
      OBVIOUS
    <3> QED
      BY <3>1
  <2>2. ASSUME NEW k \in T
        PROVE  k + 1 \in T
    <3>1. PICK f : Defines(f, k)
      OBVIOUS
    <3> DEFINE g == [n \in 0 .. k + 1 |-> IF n <= k THEN f[n] ELSE Longer(f[k])]
    <3>2. Defines(g, k + 1)
      BY <3>1
    <3>3. k + 1 \in Nat
      OBVIOUS
    <3>4. \E h : Defines(h, k + 1)
      BY <3>2
    <3> HIDE DEF Defines
    <3> QED
      BY <3>3, <3>4
  <2>3. T \in SUBSET Nat
    OBVIOUS
  <2> HIDE DEF T
  <2> QED
    BY <2>1, <2>2, <2>3, Induction
<1>2. ChainBound \in Nat
  BY HeapAssumption DEF ChainBound, HEADER
<1>3. \E f : Defines(f, ChainBound)
  BY <1>1, <1>2
<1> DEFINE f == CHOOSE f : Defines(f, ChainBound)
<1>4. Defines(f, ChainBound)
  BY <1>3
<1>5. Chain = f[ChainBound]
  BY DEF Chain, Longer
<1> QED
  BY <1>4, <1>5

(* Chain follows the next pointers from the start of the heap, until one   *)
(* leads to where no chunk can be, or for ChainBound steps.                *)
LEMMA ChainLemma ==
  ASSUME mem \in [Mapped -> Words]
  PROVE  /\ Chain \in Seq(Words)
         /\ Len(Chain) \in 1 .. ChainBound + 1
         /\ Chain[1] = HeapStart
         /\ \A k \in 1 .. Len(Chain) - 1 : IsChunk(Chain[k]) /\ Chain[k + 1] = mem[Chain[k] + NEXT]
         /\ Len(Chain) = ChainBound + 1 \/ ~ IsChunk(Chain[Len(Chain)])
<1> DEFINE Follows(c, n) ==
             /\ c \in Seq(Words)
             /\ Len(c) \in 1 .. n + 1
             /\ c[1] = HeapStart
             /\ \A k \in 1 .. Len(c) - 1 : IsChunk(c[k]) /\ c[k + 1] = mem[c[k] + NEXT]
             /\ Len(c) = n + 1 \/ ~ IsChunk(c[Len(c)])
<1>1. PICK upTo : /\ Chain = upTo[ChainBound]
                  /\ upTo = [n \in 0 .. ChainBound |-> IF n = 0 THEN <<HeapStart>> ELSE Longer(upTo[n - 1])]
  BY ChainDefined
<1> DEFINE T == {n \in Nat : n <= ChainBound => Follows(upTo[n], n)}
<1>2. ChainBound \in Nat
  BY HeapAssumption DEF ChainBound, HEADER
<1>3. T = Nat
  <2>1. 0 \in T
    <3>1. upTo[0] = <<HeapStart>>
      BY <1>1, <1>2
    <3>2. HeapStart \in Words
      BY LargeNumbers DEF Words
    <3> DEFINE c == <<HeapStart>>
    <3>3. c \in Seq(Words) /\ Len(c) = 1 /\ c[1] = HeapStart
      BY <3>2, SMT
    <3> HIDE DEF c
    <3>4. Follows(c, 0)
      BY <3>3
    <3> HIDE DEF Follows
    <3> QED
      BY <3>1, <3>4 DEF c
  <2>2. ASSUME NEW n \in T
        PROVE  n + 1 \in T
    <3> SUFFICES ASSUME n + 1 <= ChainBound
                 PROVE  Follows(upTo[n + 1], n + 1)
      OBVIOUS
    <3>1. Follows(upTo[n], n)
      BY <1>2
    <3>2. upTo[n + 1] = Longer(upTo[n])
      BY <1>1, <1>2
    <3> DEFINE c == upTo[n]
               last == c[Len(c)]
    <3>3. last \in Words /\ last \in Int
      <4>1. c \in Seq(Words) /\ Len(c) \in Nat /\ Len(c) >= 1
        BY <1>2, <3>1
      <4> HIDE DEF c
      <4>2. last \in Words
        BY <4>1
      <4> QED
        BY <4>2, LargeNumbers DEF Words
    <3>4. CASE IsChunk(last)
      <4>1. mem[last + NEXT] \in Words
        BY <3>3, <3>4, HeaderWords
      <4>2. upTo[n + 1] = Append(c, mem[last + NEXT]) /\ Len(c) = n + 1
        BY <3>1, <3>2, <3>4 DEF Longer, Last
      <4> DEFINE d == Append(c, mem[last + NEXT])
      <4>3. /\ d \in Seq(Words)
            /\ Len(d) = Len(c) + 1
            /\ \A k \in 1 .. Len(c) : d[k] = c[k]
            /\ d[Len(c) + 1] = mem[last + NEXT]
        BY <3>1, <4>1
      <4>4. ASSUME NEW k \in 1 .. Len(d) - 1
            PROVE  IsChunk(d[k]) /\ d[k + 1] = mem[d[k] + NEXT]
        <5>1. CASE k < Len(c)
          BY <3>1, <4>3, <5>1
        <5>2. CASE k = Len(c)
          BY <3>1, <3>4, <4>3, <5>2
        <5> QED
          BY <3>1, <4>3, <5>1, <5>2
      <4> HIDE DEF d
      <4>5. Follows(d, n + 1)
        BY <3>1, <4>2, <4>3, <4>4
      <4> QED
        BY <4>2, <4>5 DEF d
    <3>5. CASE ~ IsChunk(last)
      <4>1. upTo[n + 1] = c
        BY <3>2, <3>5 DEF Longer, Last
      <4>2. Follows(c, n + 1)
        BY <3>1, <3>5
      <4> QED
        BY <4>1, <4>2
    <3> QED
      BY <3>4, <3>5
  <2>3. T \in SUBSET Nat
    OBVIOUS
  <2> HIDE DEF T
  <2> QED
    BY <2>1, <2>2, <2>3, Induction
<1>4. Follows(Chain, ChainBound)
  <2>1. ChainBound \in T
    BY <1>2, <1>3
  <2> HIDE DEF Follows
  <2> QED
    BY <1>1, <1>2, <2>1
<1> QED
  BY <1>4

-----------------------------------------------------------------------------
(* The state stays one of the heap's, whatever callers free. *)

(* Every block lies behind a header that is mapped. *)
BehindHeaders == \A i \in 1 .. Len(live) : IsChunk(live[i].ptr - HEADER)

HeapInv == TypeOK /\ BehindHeaders

LEMMA StoreType ==
  ASSUME NEW m \in [Mapped -> Words], NEW a, NEW w \in Words
  PROVE  [m EXCEPT ![a] = w] \in [Mapped -> Words]
OBVIOUS

LEMMA SplitType ==
  ASSUME mem \in [Mapped -> Words], NEW chunk \in Int, IsChunk(chunk),
         NEW size \in Words, IsChunk(Rest(chunk, size))
  PROVE  Split(chunk, size) \in [Mapped -> Words]
<1> DEFINE temp == Rest(chunk, size)
           next == mem[chunk + NEXT]
           withRest == [mem EXCEPT ![temp + NEXT]      = next,
                                   ![temp + PREV]      = chunk,
                                   ![temp + MAGIC]     = HEAP_MAGIC,
                                   ![temp + ALLOCATED] = 0,
                                   ![temp + SIZE]      = RestSize(chunk, size)]
           withPrev == IF next = Null THEN withRest ELSE [withRest EXCEPT ![next + PREV] = temp]
<1>1. chunk \in Words /\ next \in Words /\ mem[chunk + SIZE] \in Words
  BY HeaderWords
<1>2. temp \in Int
  <2>1. chunk + HEADER + size \in Int
    BY LargeNumbers DEF HEADER, Words
  <2> QED
    BY <2>1, ModWords, LargeNumbers DEF Rest, Words
<1>3. temp \in Words
  BY <1>2, HeaderWords
<1>4. RestSize(chunk, size) \in Words
  <2>1. mem[chunk + SIZE] - HEADER - size \in Int
    BY <1>1, LargeNumbers DEF HEADER, Words
  <2> QED
    BY <2>1, ModWords DEF RestSize
<1>5. HEAP_MAGIC \in Words /\ 0 \in Words /\ 1 \in Words
  BY LargeNumbers DEF Words
<1> HIDE DEF temp, next
<1>6. withRest \in [Mapped -> Words]
  BY <1>1, <1>3, <1>4, <1>5
<1> HIDE DEF withRest
<1>7. withPrev \in [Mapped -> Words]
  BY <1>3, <1>6
<1> HIDE DEF withPrev
<1>8. Take(withPrev, chunk, temp, size) \in [Mapped -> Words]
  <2> DEFINE flag == Marked(withPrev[chunk + ALLOCATED], 1)
  <2>1. chunk + ALLOCATED \in Mapped
    BY HeaderWords
  <2>2. flag \in Words
    BY <1>7, <2>1, Flags
  <2>3. Take(withPrev, chunk, temp, size) = [withPrev EXCEPT ![chunk + NEXT] = temp, ![chunk + ALLOCATED] = flag, ![chunk + SIZE] = size]
    BY DEF Take
  <2> HIDE DEF flag
  <2> QED
    BY <1>3, <1>7, <2>2, <2>3
<1> QED
  BY <1>8 DEF Split, temp, next, withRest, withPrev

LEMMA MarkType ==
  ASSUME NEW m \in [Mapped -> Words], NEW chunk \in Int, IsChunk(chunk)
  PROVE  [m EXCEPT ![chunk + ALLOCATED] = Marked(@, 0)] \in [Mapped -> Words]
<1>1. m[chunk + ALLOCATED] \in Words
  BY HeaderWords
<1>2. Marked(m[chunk + ALLOCATED], 0) \in Words
  BY <1>1, Flags
<1> QED
  BY <1>2, StoreType

LEMMA JoinPrevType ==
  ASSUME NEW m \in [Mapped -> Words], NEW chunk \in Int, IsChunk(chunk), IsChunk(m[chunk + PREV])
  PROVE  JoinPrev(m, chunk) \in [Mapped -> Words]
<1> DEFINE prev == m[chunk + PREV]
           next == m[chunk + NEXT]
           size == (m[prev + SIZE] + m[chunk + SIZE] + HEADER) % WordLimit
           grown == [m EXCEPT ![prev + NEXT] = next, ![prev + SIZE] = size]
<1>1. prev \in Words /\ next \in Words /\ m[chunk + SIZE] \in Words
  BY HeaderWords
<1>2. m[prev + SIZE] \in Words
  BY <1>1, HeaderWords, LargeNumbers DEF Words
<1>3. size \in Words
  <2>1. m[prev + SIZE] + m[chunk + SIZE] + HEADER \in Int
    BY <1>1, <1>2, LargeNumbers DEF HEADER, Words
  <2> QED
    BY <2>1, ModWords
<1>4. JoinPrev(m, chunk) = IF next = Null THEN grown ELSE [grown EXCEPT ![next + PREV] = prev]
  BY DEF JoinPrev, NEXT, SIZE
<1> HIDE DEF prev, next, size
<1>5. grown \in [Mapped -> Words]
  BY <1>1, <1>3
<1> HIDE DEF grown
<1> QED
  BY <1>1, <1>4, <1>5

LEMMA JoinNextType ==
  ASSUME NEW m \in [Mapped -> Words], NEW chunk \in Int, IsChunk(chunk), IsChunk(m[chunk + NEXT])
  PROVE  JoinNext(m, chunk) \in [Mapped -> Words]
<1> DEFINE next == m[chunk + NEXT]
           after == m[next + NEXT]
           size == (m[chunk + SIZE] + m[next + SIZE] + HEADER) % WordLimit
           grown == [m EXCEPT ![chunk + SIZE] = size, ![chunk + NEXT] = after]
<1>1. next \in Words /\ next \in Int /\ m[chunk + SIZE] \in Words /\ m[chunk + PREV] \in Words
  BY HeaderWords, LargeNumbers DEF Words
<1>2. m[next + SIZE] \in Words /\ after \in Words
  BY <1>1, HeaderWords
<1>3. size \in Words
  <2>1. m[chunk + SIZE] + m[next + SIZE] + HEADER \in Int
    BY <1>1, <1>2, LargeNumbers DEF HEADER, Words
  <2> QED
    BY <2>1, ModWords
<1>4. JoinNext(m, chunk) = IF after = Null THEN grown ELSE [grown EXCEPT ![after + PREV] = m[chunk + PREV]]
  BY DEF JoinNext, NEXT, SIZE
<1> HIDE DEF next, after, size
<1>5. grown \in [Mapped -> Words]
  BY <1>2, <1>3
<1> HIDE DEF grown
<1> QED
  BY <1>1, <1>4, <1>5

LEMMA RemoveAtLemma ==
  ASSUME NEW S, NEW s \in Seq(S), NEW i \in 1 .. Len(s)
  PROVE  /\ RemoveAt(s, i) \in Seq(S)
         /\ Len(RemoveAt(s, i)) = Len(s) - 1
         /\ \A k \in 1 .. Len(s) - 1 : RemoveAt(s, i)[k] = IF k < i THEN s[k] ELSE s[k + 1]
<1> DEFINE before == SubSeq(s, 1, i - 1)
           behind == SubSeq(s, i + 1, Len(s))
<1>1. before \in Seq(S) /\ Len(before) = i - 1 /\ \A k \in 1 .. i - 1 : before[k] = s[k]
  OBVIOUS
<1>2. behind \in Seq(S) /\ Len(behind) = Len(s) - i /\ \A k \in 1 .. Len(s) - i : behind[k] = s[k + i]
  OBVIOUS
<1>3. RemoveAt(s, i) = before \o behind
  BY DEF RemoveAt
<1> HIDE DEF before, behind
<1>4. /\ before \o behind \in Seq(S)
      /\ Len(before \o behind) = Len(s) - 1
      /\ \A k \in 1 .. Len(s) - 1 :
           (before \o behind)[k] = IF k <= i - 1 THEN before[k] ELSE behind[k - (i - 1)]
  <2>1. /\ before \o behind \in Seq(S)
        /\ Len(before \o behind) = Len(before) + Len(behind)
        /\ \A k \in 1 .. Len(before) + Len(behind) :
             (before \o behind)[k] = IF k <= Len(before) THEN before[k] ELSE behind[k - Len(before)]
    BY <1>1, <1>2, ConcatProperties
  <2>2. Len(before) = i - 1 /\ Len(before) + Len(behind) = Len(s) - 1
    BY <1>1, <1>2
  <2> QED
    BY <2>1, <2>2
<1>5. ASSUME NEW k \in 1 .. Len(s) - 1
      PROVE  (before \o behind)[k] = IF k < i THEN s[k] ELSE s[k + 1]
  <2>1. CASE k < i
    BY <1>1, <1>4, <2>1
  <2>2. CASE ~ (k < i)
    <3>1. k - (i - 1) \in 1 .. Len(s) - i /\ k - (i - 1) + i = k + 1
      BY <2>2
    <3> QED
      BY <1>2, <1>4, <2>2, <3>1
  <2> QED
    BY <2>1, <2>2
<1> QED
  BY <1>3, <1>4, <1>5

LEMMA HeapInit == Init => HeapInv /\ live = <<>> /\ usedMemory = 0
<1> SUFFICES ASSUME Init
             PROVE  HeapInv /\ live = <<>> /\ usedMemory = 0
  OBVIOUS
<1>1. MemoryWords - HEADER \in Words /\ HEAP_MAGIC \in Words /\ 0 \in Words
  BY HeapAssumption, LargeNumbers DEF Words, HEADER, HeapEnd
<1>2. mem \in [Mapped -> Words]
  BY <1>1 DEF Init
<1> QED
  BY <1>1, <1>2 DEF Init, HeapInv, TypeOK, BehindHeaders, Outcomes, Words

LEMMA MallocInv ==
  ASSUME HeapInv, NEW size \in Sizes, Malloc(size)
  PROVE  HeapInv'
<1>1. mem \in [Mapped -> Words] /\ usedMemory \in Words /\ live \in Seq(Blocks)
  BY DEF HeapInv, TypeOK, Words
<1>2. CASE UNCHANGED <<mem, usedMemory, live>> /\ outcome' \in Outcomes
  BY <1>2 DEF HeapInv, TypeOK, BehindHeaders, IsChunk
<1>3. CASE Grant(size)
  <2>1. PICK chunk \in Range(Chain) :
          /\ IsChunk(chunk) /\ Splittable(chunk, size)
          /\ mem' = Split(chunk, size)
          /\ live' = Append(live, [ptr |-> chunk + HEADER, size |-> size])
    <3>1. DOMAIN Chain = 1 .. Len(Chain)
      BY <1>1, ChainLemma
    <3> QED
      BY <1>3, <3>1 DEF Grant, Range
  <2>2. chunk \in Words /\ chunk \in Int
    <3>1. DOMAIN Chain = 1 .. Len(Chain) /\ \A k \in 1 .. Len(Chain) : Chain[k] \in Words
      BY <1>1, ChainLemma
    <3> QED
      BY <2>1, <3>1, LargeNumbers DEF Range, Words
  <2>3. size \in Words /\ usedMemory' \in Words /\ outcome' \in Outcomes
    <3>1. usedMemory' = (usedMemory + size + HEADER) % WordLimit /\ outcome' = "granted"
      BY <1>3 DEF Grant
    <3>2. HEADER = 5 /\ Sizes \subseteq 1 .. WordLimit - 2 * HEADER
      BY HeapAssumption DEF HEADER
    <3>3. size \in 1 .. WordLimit - 10
      BY <3>2
    <3>4. usedMemory + size + HEADER \in Int
      BY <1>1, <3>2, <3>3, LargeNumbers DEF Words
    <3> QED
      BY <3>1, <3>3, <3>4, ModWords, LargeNumbers DEF Words, Outcomes
  <2>4. mem' \in [Mapped -> Words]
    BY <1>1, <2>1, <2>2, <2>3, SplitType DEF Splittable
  <2>5. chunk + HEADER \in HeapStart + HEADER .. HeapEnd + WordsBehind
    <3>1. HeapStart <= chunk /\ chunk + HEADER <= HeapEnd + WordsBehind
      BY <2>1, <2>2, HeaderMapped
    <3>2. HeapStart \in Int /\ HEADER = 5 /\ HeapEnd + WordsBehind \in Int
      BY HeapAssumption DEF HEADER, HeapEnd
    <3> QED
      BY <2>2, <3>1, <3>2
  <2> DEFINE block == [ptr |-> chunk + HEADER, size |-> size]
  <2>6. /\ live' \in Seq(Blocks)
        /\ Len(live') = Len(live) + 1
        /\ \A i \in 1 .. Len(live) : live'[i] = live[i]
        /\ live'[Len(live) + 1] = block
    <3>1. block \in Blocks
      BY <2>5 DEF Blocks
    <3> HIDE DEF block
    <3>2. live' = Append(live, block)
      BY <2>1 DEF block
    <3> QED
      BY <1>1, <3>1, <3>2
  <2>7. ASSUME NEW i \in 1 .. Len(live')
        PROVE  IsChunk(live'[i].ptr - HEADER)
    <3>1. CASE i \in 1 .. Len(live)
      BY <2>6, <3>1 DEF HeapInv, BehindHeaders
    <3>2. CASE i = Len(live) + 1
      <4>1. live'[i].ptr - HEADER = chunk
        BY <2>2, <2>6, <3>2 DEF HEADER
      <4> QED
        BY <2>1, <4>1
    <3> QED
      BY <1>1, <2>6, <3>1, <3>2
  <2>8. BehindHeaders'
    BY <2>7 DEF BehindHeaders, IsChunk
  <2> QED
    BY <2>3, <2>4, <2>6, <2>8 DEF HeapInv, TypeOK, Words, Blocks, Mapped, HeapEnd, HEADER, Outcomes
<1> QED
  BY <1>2, <1>3 DEF Malloc, RefuseSize, RefuseSearch, FaultInMalloc, Endless, Outcomes

LEMMA FreeInv ==
  ASSUME HeapInv, NEW i \in 1 .. Len(live), Free(i)
  PROVE  HeapInv'
<1> DEFINE chunk == live[i].ptr - HEADER
           marked == [mem EXCEPT ![chunk + ALLOCATED] = Marked(@, 0)]
           joins == JoinsPrev(marked, chunk)
           joined == IF joins THEN JoinPrev(marked, chunk) ELSE marked
           whole  == IF joins THEN marked[chunk + PREV] ELSE chunk
           follows == /\ Reachable(marked[chunk + PREV])
                      /\ joins => Reachable(marked[chunk + NEXT])
                      /\ Reachable(joined[whole + NEXT])
                      /\ JoinsNext(joined, whole) => Reachable(joined[joined[whole + NEXT] + NEXT])
<1>1. mem \in [Mapped -> Words] /\ usedMemory \in Words /\ live \in Seq(Blocks)
  BY DEF HeapInv, TypeOK, Words
<1>2. chunk \in Int /\ IsChunk(chunk)
  <2>1. live[i] \in Blocks
    BY <1>1, ElementOfSeq
  <2>2. live[i].ptr \in Int
    BY <2>1, BlockTypes
  <2> QED
    BY <2>2 DEF HeapInv, BehindHeaders, HEADER
<1>3. marked \in [Mapped -> Words]
  BY <1>1, <1>2, MarkType
<1>4. \/ /\ follows
         /\ mem' = IF JoinsNext(joined, whole) THEN JoinNext(joined, whole) ELSE joined
         /\ live' = RemoveAt(live, i)
         /\ outcome' = "freed"
      \/ UNCHANGED <<mem, live>> /\ outcome' = "page fault"
  BY DEF Free
<1>5. UNCHANGED usedMemory
  BY DEF Free
<1> HIDE DEF marked, chunk
<1>6. ASSUME follows
      PROVE  (IF JoinsNext(joined, whole) THEN JoinNext(joined, whole) ELSE joined) \in [Mapped -> Words]
  <2>1. joined \in [Mapped -> Words] /\ whole \in Int /\ IsChunk(whole)
    <3>1. CASE joins
      <4>1. IsChunk(marked[chunk + PREV])
        BY <1>6, <3>1 DEF JoinsPrev, Reachable
      <4>2. marked[chunk + PREV] \in Int
        BY <1>2, <1>3, HeaderWords, LargeNumbers DEF Words
      <4> QED
        BY <1>2, <1>3, <3>1, <4>1, <4>2, JoinPrevType
    <3>2. CASE ~ joins
      BY <1>2, <1>3, <3>2
    <3> QED
      BY <3>1, <3>2
  <2>2. JoinsNext(joined, whole) => IsChunk(joined[whole + NEXT])
    BY <1>6 DEF JoinsNext, Reachable
  <2> HIDE DEF joined, whole
  <2> QED
    BY <2>1, <2>2, JoinNextType
<1>7. mem' \in [Mapped -> Words]
  <2> HIDE DEF follows, joined, whole
  <2> QED
    BY <1>1, <1>4, <1>6
<1> HIDE DEF follows, joined, whole
<1>8. live' \in Seq(Blocks) /\ \A k \in 1 .. Len(live') : IsChunk(live'[k].ptr - HEADER)
  <2>1. CASE UNCHANGED live
    BY <1>1, <2>1 DEF HeapInv, BehindHeaders
  <2>2. CASE live' = RemoveAt(live, i)
    <3>1. /\ live' \in Seq(Blocks)
          /\ Len(live') = Len(live) - 1
          /\ \A k \in 1 .. Len(live) - 1 : live'[k] = IF k < i THEN live[k] ELSE live[k + 1]
      BY <1>1, <2>2, RemoveAtLemma
    <3>2. ASSUME NEW k \in 1 .. Len(live')
          PROVE  IsChunk(live'[k].ptr - HEADER)
      <4>1. PICK l \in 1 .. Len(live) : live'[k] = live[l]
        BY <1>1, <3>1
      <4> QED
        BY <4>1 DEF HeapInv, BehindHeaders
    <3> QED
      BY <3>1, <3>2
  <2> QED
    BY <1>4, <2>1, <2>2
<1> QED
  BY <1>1, <1>4, <1>5, <1>7, <1>8 DEF HeapInv, TypeOK, BehindHeaders, IsChunk, Outcomes, Words, Blocks, Mapped, HeapEnd, HEADER

LEMMA HeapStep == HeapInv /\ [Next]_vars => HeapInv'
<1> SUFFICES ASSUME HeapInv, [Next]_vars
             PROVE  HeapInv'
  OBVIOUS
<1>1. CASE UNCHANGED vars
  BY <1>1 DEF vars, HeapInv, TypeOK, BehindHeaders, IsChunk
<1>2. CASE Halted
  BY <1>1, <1>2 DEF Halted
<1>3. ASSUME NEW size \in Sizes, Malloc(size)
      PROVE  HeapInv'
  BY <1>3, MallocInv
<1>4. ASSUME NEW i \in 1 .. Len(live), Free(i)
      PROVE  HeapInv'
  BY <1>4, FreeInv
<1> QED
  BY <1>1, <1>2, <1>3, <1>4 DEF Next, NextAllocOnly

(* Whatever callers ask for and free, and whatever that does to the list,  *)
(* what malloc and free write and account for stays a word of 32 bits, and *)
(* what malloc gives out is of a size that was asked for and lies behind a *)
(* header that is mapped.  (That the rest of it is mapped is not promised: *)
(* in a damaged list the chunk may be shorter than its header says.)       *)
THEOREM HeapTypeCorrect == Spec => []TypeOK
<1>1. Init => HeapInv
  BY HeapInit
<1>2. HeapInv => TypeOK
  BY DEF HeapInv
<1> QED
  BY <1>1, <1>2, HeapStep, PTL DEF Spec

-----------------------------------------------------------------------------
(* The account. *)

(* What the first n blocks take, for every n. *)
IsTaken(f, blocks) ==
  /\ f \in [0 .. Len(blocks) -> Nat]
  /\ f[0] = 0
  /\ \A n \in 1 .. Len(blocks) : f[n] = f[n - 1] + blocks[n].size + HEADER

LEMMA BlockSizes ==
  ASSUME NEW blocks \in Seq(Blocks)
  PROVE  Len(blocks) \in Nat /\ \A n \in 1 .. Len(blocks) : blocks[n].size \in Nat
<1>1. \A n \in 1 .. Len(blocks) : blocks[n] \in Blocks
  BY ElementOfSeq
<1>2. \A b \in Blocks : b.size \in Nat
  BY BlockTypes
<1> QED
  BY <1>1, <1>2

(* The recursion that defines Taken has a solution. *)
LEMMA TakenDefined ==
  ASSUME NEW blocks \in Seq(Blocks)
  PROVE  \E f : IsTaken(f, blocks) /\ Taken(blocks) = f[Len(blocks)]
<1> DEFINE Defines(f, k) ==
             f = [n \in 0 .. k |-> IF n = 0 THEN 0 ELSE f[n - 1] + blocks[n].size + HEADER]
           T == {k \in Nat : \E f : Defines(f, k)}
           U(f) == {n \in Nat : n <= Len(blocks) => f[n] \in Nat}
<1>0. Len(blocks) \in Nat /\ \A n \in 1 .. Len(blocks) : blocks[n].size \in Nat
  BY BlockSizes
<1>1. T = Nat
  <2>1. 0 \in T
    <3>1. Defines([n \in 0 .. 0 |-> 0], 0)
      OBVIOUS
    <3> QED
      BY <3>1
  <2>2. ASSUME NEW k \in T
        PROVE  k + 1 \in T
    <3>1. PICK f : Defines(f, k)
      OBVIOUS
    <3> DEFINE g == [n \in 0 .. k + 1 |-> IF n <= k THEN f[n] ELSE f[k] + blocks[k + 1].size + HEADER]
    <3>2. Defines(g, k + 1)
      BY <3>1
    <3>3. k + 1 \in Nat
      OBVIOUS
    <3>4. \E h : Defines(h, k + 1)
      BY <3>2
    <3> HIDE DEF Defines
    <3> QED
      BY <3>3, <3>4
  <2>3. T \in SUBSET Nat
    OBVIOUS
  <2> HIDE DEF T
  <2> QED
    BY <2>1, <2>2, <2>3, Induction
<1> DEFINE f == CHOOSE f : Defines(f, Len(blocks))
<1>2. Defines(f, Len(blocks))
  BY <1>0, <1>1
<1>3. Taken(blocks) = f[Len(blocks)]
  BY DEF Taken
<1> HIDE DEF f
<1>4. f[0] = 0 /\ \A n \in 1 .. Len(blocks) : f[n] = f[n - 1] + blocks[n].size + HEADER
  BY <1>0, <1>2
<1>5. U(f) = Nat
  <2>1. 0 \in U(f)
    BY <1>4
  <2>2. ASSUME NEW n \in U(f)
        PROVE  n + 1 \in U(f)
    BY <1>0, <1>4 DEF HEADER
  <2>3. U(f) \in SUBSET Nat
    OBVIOUS
  <2> HIDE DEF U
  <2> QED
    BY <2>1, <2>2, <2>3, Induction
<1>6. f \in [0 .. Len(blocks) -> Nat]
  <2>1. \A n \in 0 .. Len(blocks) : f[n] \in Nat
    BY <1>0, <1>5
  <2>2. f = [n \in 0 .. Len(blocks) |-> f[n]]
    BY <1>2
  <2> QED
    BY <2>1, <2>2
<1> QED
  BY <1>3, <1>4, <1>6 DEF IsTaken

LEMMA TakenNat ==
  ASSUME NEW blocks \in Seq(Blocks)
  PROVE  Taken(blocks) \in Nat
<1>1. PICK f : IsTaken(f, blocks) /\ Taken(blocks) = f[Len(blocks)]
  BY TakenDefined
<1>2. Len(blocks) \in 0 .. Len(blocks)
  OBVIOUS
<1> QED
  BY <1>1, <1>2 DEF IsTaken

(* Two lists of blocks with the same sizes up to n take the same up to n. *)
LEMMA TakenSame ==
  ASSUME NEW blocks \in Seq(Blocks), NEW others \in Seq(Blocks),
         NEW f, IsTaken(f, blocks), NEW g, IsTaken(g, others),
         NEW n \in Nat, n <= Len(blocks), n <= Len(others),
         \A i \in 1 .. n : blocks[i] = others[i]
  PROVE  f[n] = g[n]
<1> DEFINE T == {k \in Nat : k <= n => f[k] = g[k]}
<1>1. 0 \in T
  BY DEF IsTaken
<1>2. ASSUME NEW k \in T
      PROVE  k + 1 \in T
  <2> SUFFICES ASSUME k + 1 <= n
               PROVE  f[k + 1] = g[k + 1]
    OBVIOUS
  <2>1. f[k] = g[k] /\ k + 1 \in 1 .. Len(blocks) /\ k + 1 \in 1 .. Len(others) /\ k + 1 \in 1 .. n
    OBVIOUS
  <2>2. f[k + 1] = f[(k + 1) - 1] + blocks[k + 1].size + HEADER
    BY <2>1 DEF IsTaken
  <2>3. g[k + 1] = g[(k + 1) - 1] + others[k + 1].size + HEADER
    BY <2>1 DEF IsTaken
  <2> QED
    BY <2>1, <2>2, <2>3
<1>3. T \in SUBSET Nat
  OBVIOUS
<1>4. n \in T
  <2> HIDE DEF T
  <2> QED
    BY <1>1, <1>2, <1>3, Induction
<1> QED
  BY <1>4

(* A block given out adds itself and its header. *)
LEMMA TakenAppend ==
  ASSUME NEW blocks \in Seq(Blocks), NEW block \in Blocks
  PROVE  Taken(Append(blocks, block)) = Taken(blocks) + block.size + HEADER
<1> DEFINE more == Append(blocks, block)
<1>1. /\ more \in Seq(Blocks)
      /\ Len(blocks) \in Nat /\ Len(more) = Len(blocks) + 1
      /\ \A i \in 1 .. Len(blocks) : more[i] = blocks[i]
      /\ more[Len(blocks) + 1] = block
  OBVIOUS
<1> HIDE DEF more
<1>2. PICK f : IsTaken(f, blocks) /\ Taken(blocks) = f[Len(blocks)]
  BY TakenDefined
<1>3. PICK g : IsTaken(g, more) /\ Taken(more) = g[Len(more)]
  BY <1>1, TakenDefined
<1>4. f[Len(blocks)] = g[Len(blocks)]
  BY <1>1, <1>2, <1>3, TakenSame
<1>5. g[Len(more)] = g[Len(blocks)] + block.size + HEADER
  BY <1>1, <1>3 DEF IsTaken
<1> QED
  BY <1>2, <1>3, <1>4, <1>5 DEF more

(* A block taken back takes nothing any more. *)
LEMMA TakenRemove ==
  ASSUME NEW blocks \in Seq(Blocks), NEW i \in 1 .. Len(blocks)
  PROVE  Taken(blocks) = Taken(RemoveAt(blocks, i)) + blocks[i].size + HEADER
<1> DEFINE less == RemoveAt(blocks, i)
<1>1. /\ less \in Seq(Blocks)
      /\ Len(blocks) \in Nat /\ Len(less) = Len(blocks) - 1
      /\ \A k \in 1 .. Len(blocks) - 1 : less[k] = IF k < i THEN blocks[k] ELSE blocks[k + 1]
  BY RemoveAtLemma
<1> HIDE DEF less
<1>2. PICK f : IsTaken(f, blocks) /\ Taken(blocks) = f[Len(blocks)]
  BY TakenDefined
<1>3. PICK g : IsTaken(g, less) /\ Taken(less) = g[Len(less)]
  BY <1>1, TakenDefined
<1>4. \A n \in 1 .. Len(blocks) : blocks[n].size \in Nat
  BY BlockSizes
<1>5. f[i - 1] = g[i - 1]
  <2>1. i - 1 \in Nat /\ i - 1 <= Len(less) /\ i - 1 <= Len(blocks)
    BY <1>1
  <2>2. \A k \in 1 .. i - 1 : blocks[k] = less[k]
    BY <1>1
  <2> QED
    BY <1>1, <1>2, <1>3, <2>1, <2>2, TakenSame
<1>6. f[i] = f[i - 1] + blocks[i].size + HEADER
  BY <1>2 DEF IsTaken
<1> DEFINE T == {k \in Nat : i + k <= Len(blocks) => f[i + k] = g[i + k - 1] + blocks[i].size + HEADER}
<1>7. T = Nat
  <2>1. 0 \in T
    BY <1>5, <1>6
  <2>2. ASSUME NEW k \in T
        PROVE  k + 1 \in T
    <3> SUFFICES ASSUME i + k + 1 <= Len(blocks)
                 PROVE  f[i + k + 1] = g[i + k] + blocks[i].size + HEADER
      <4>1. i + (k + 1) = i + k + 1 /\ i + (k + 1) - 1 = i + k
        OBVIOUS
      <4> QED
        BY <4>1
    <3>1. f[i + k] = g[i + k - 1] + blocks[i].size + HEADER
      BY <1>1
    <3>2. i + k + 1 \in 1 .. Len(blocks) /\ (i + k + 1) - 1 = i + k
      BY <1>1
    <3>3. f[i + k + 1] = f[i + k] + blocks[i + k + 1].size + HEADER
      BY <1>2, <3>2 DEF IsTaken
    <3>4. i + k \in 1 .. Len(less) /\ less[i + k] = blocks[i + k + 1]
      BY <1>1
    <3>5. g[i + k] = g[i + k - 1] + blocks[i + k + 1].size + HEADER
      BY <1>3, <3>4 DEF IsTaken
    <3>6. g[i + k - 1] \in Nat /\ blocks[i].size \in Nat /\ blocks[i + k + 1].size \in Nat
      <4>1. i + k - 1 \in 0 .. Len(less)
        BY <1>1
      <4> QED
        BY <1>3, <1>4, <3>2, <4>1 DEF IsTaken
    <3>7. HEADER \in Int /\ f[i + k + 1] = (g[i + k - 1] + blocks[i].size + HEADER) + blocks[i + k + 1].size + HEADER
      BY <3>1, <3>3 DEF HEADER
    <3>8. f[i + k + 1] = (g[i + k - 1] + blocks[i + k + 1].size + HEADER) + blocks[i].size + HEADER
      BY <3>6, <3>7, SMTT(30)
    <3> QED
      BY <3>5, <3>8, Zenon
  <2>3. T \in SUBSET Nat
    OBVIOUS
  <2> HIDE DEF T
  <2> QED
    BY <2>1, <2>2, <2>3, Induction
<1>8. f[Len(blocks)] = g[Len(less)] + blocks[i].size + HEADER
  <2>1. Len(blocks) - i \in Nat /\ i + (Len(blocks) - i) = Len(blocks)
    BY <1>1
  <2>2. Len(blocks) - i \in T
    BY <1>7, <2>1
  <2>3. f[i + (Len(blocks) - i)] = g[i + (Len(blocks) - i) - 1] + blocks[i].size + HEADER
    BY <1>1, <2>1, <2>2
  <2> QED
    BY <1>1, <2>1, <2>3
<1> QED
  BY <1>2, <1>3, <1>8 DEF less

AccountInv == HeapInv /\ UsageBounds

(* While the account is below memorySize, sums with a request that fits *)
(* do not wrap.                                                         *)
LEMMA NoWrap ==
  ASSUME NEW used \in Nat, used < MemoryWords, NEW size \in Nat, MemoryWords + size + HEADER <= WordLimit
  PROVE  (used + size + HEADER) % WordLimit = used + size + HEADER
<1>1. used + size + HEADER \in Int /\ 0 <= used + size + HEADER /\ used + size + HEADER < WordLimit
  BY HeapAssumption, LargeNumbers DEF HEADER
<1>2. used + size + HEADER \in Words
  BY <1>1, LargeNumbers DEF Words
<1> QED
  BY <1>1, <1>2, ModWords

LEMMA AccountStep == AccountInv /\ [Next]_vars => AccountInv'
<1> SUFFICES ASSUME HeapInv, UsageBounds, [Next]_vars
             PROVE  UsageBounds'
  BY HeapStep DEF AccountInv
<1>1. live \in Seq(Blocks) /\ usedMemory \in Words
  BY DEF HeapInv, TypeOK, Words
<1>2. Taken(live) \in Nat
  BY <1>1, TakenNat
<1>3. CASE UNCHANGED <<usedMemory, live>>
  BY <1>3 DEF UsageBounds, RequestsFit
<1>4. ASSUME NEW size \in Sizes, Grant(size)
      PROVE  UsageBounds'
  <2>1. PICK block \in Blocks : block.size = size /\ live' = Append(live, block)
    <3>1. PICK chunk : live' = Append(live, [ptr |-> chunk + HEADER, size |-> size])
      BY <1>4 DEF Grant
    <3> DEFINE block == [ptr |-> chunk + HEADER, size |-> size]
    <3>2. HeapInv'
      BY <1>4, HeapStep DEF Next, NextAllocOnly, Malloc, vars, Grant
    <3>3. Len(live) + 1 \in 1 .. Len(live') /\ live'[Len(live) + 1] = block
      BY <1>1, <3>1
    <3>4. live' \in Seq(Blocks)
      BY <3>2 DEF HeapInv, TypeOK, Blocks, HeapEnd, HEADER
    <3>5. block \in Blocks
      BY <3>3, <3>4, ElementOfSeq
    <3> QED
      BY <3>1, <3>5
  <2>3. Taken(live') = Taken(live) + size + HEADER
    BY <1>1, <2>1, TakenAppend
  <2>4. size \in Nat /\ HEADER \in Nat /\ MemoryWords \in Nat /\ usedMemory \in Nat
    BY <1>1, <2>1, BlockTypes, HeapAssumption, LargeNumbers DEF HEADER, Words
  <2>5. ASSUME RequestsFit
        PROVE  /\ usedMemory' = usedMemory + size + HEADER
               /\ usedMemory + size + HEADER < MemoryWords /\ Taken(live) <= usedMemory
    <3>1. Taken(live) <= usedMemory /\ usedMemory < MemoryWords /\ MemoryWords + size + HEADER <= WordLimit
      BY <2>5 DEF UsageBounds, RequestsFit
    <3>2. (usedMemory + size + HEADER) % WordLimit = usedMemory + size + HEADER
      BY <2>4, <3>1, NoWrap
    <3> QED
      BY <1>4, <2>4, <3>1, <3>2 DEF Grant, OutOfMemory
  <2>6. ASSUME RequestsFit
        PROVE  Taken(live') <= usedMemory' /\ usedMemory' < MemoryWords
    BY <1>2, <2>3, <2>4, <2>5, <2>6
  <2> QED
    BY <2>6 DEF UsageBounds, RequestsFit
<1>5. ASSUME NEW i \in 1 .. Len(live), live' = RemoveAt(live, i), UNCHANGED usedMemory
      PROVE  UsageBounds'
  <2>1. RemoveAt(live, i) \in Seq(Blocks)
    BY <1>1, RemoveAtLemma
  <2>2. Taken(RemoveAt(live, i)) \in Nat
    BY <2>1, TakenNat
  <2>3. Taken(live) = Taken(live') + live[i].size + HEADER
    BY <1>1, <1>5, TakenRemove
  <2>4. live[i].size \in Nat /\ HEADER \in Nat
    BY <1>1, BlockSizes DEF HEADER
  <2>5. usedMemory \in Nat
    BY <1>1, LargeNumbers DEF Words
  <2>6. Taken(live') <= Taken(live) /\ Taken(live') \in Nat
    BY <1>2, <1>5, <2>2, <2>3, <2>4
  <2>7. ASSUME RequestsFit
        PROVE  Taken(live') <= usedMemory' /\ usedMemory' < MemoryWords
    BY <1>2, <1>5, <2>5, <2>6, <2>7 DEF UsageBounds
  <2> QED
    BY <2>7 DEF UsageBounds, RequestsFit
<1> QED
  BY <1>3, <1>4, <1>5 DEF Next, NextAllocOnly, Malloc, Free, Halted, vars,
                          RefuseSize, RefuseSearch, FaultInMalloc, Endless

(* Where no request is so long that a sum wraps: whatever callers free,    *)
(* and whatever that does to the list, what they hold, headers included,   *)
(* is never more than the account says, nor that more than the heap has.   *)
THEOREM UsageBounded == Spec => []UsageBounds
<1>1. Init => AccountInv
  <2> SUFFICES ASSUME Init
               PROVE  AccountInv
    OBVIOUS
  <2>1. HeapInv /\ live = <<>> /\ usedMemory = 0
    BY HeapInit
  <2>2. Taken(live) = 0
    <3>1. PICK f : IsTaken(f, live) /\ Taken(live) = f[Len(live)]
      BY <2>1, TakenDefined DEF HeapInv, TypeOK, Blocks
    <3> QED
      BY <2>1, <3>1 DEF IsTaken
  <2> QED
    BY <2>1, <2>2, HeapAssumption, LargeNumbers DEF AccountInv, UsageBounds, HEADER
<1>2. AccountInv => UsageBounds
  BY DEF AccountInv
<1> QED
  BY <1>1, <1>2, AccountStep, PTL DEF Spec

-----------------------------------------------------------------------------
(* Callers that free the newest block first: what calls do to headers. *)

(* A chunk of m has these words in its header. *)
Header(m, chunk, next, prev, allocated, size) ==
  /\ IsChunk(chunk)
  /\ m[chunk + NEXT] = next
  /\ m[chunk + PREV] = prev
  /\ m[chunk + MAGIC] = HEAP_MAGIC
  /\ m[chunk + ALLOCATED] = allocated
  /\ m[chunk + SIZE] = size

(* The headers of m that end before an address are those of m1. *)
Kept(m, m1, address) ==
  \A c \in Int : IsChunk(c) /\ c + HEADER <= address =>
    \A f \in {NEXT, PREV, MAGIC, ALLOCATED, SIZE} : m1[c + f] = m[c + f]

LEMMA KeptHeader ==
  ASSUME NEW m, NEW m1, NEW address \in Int, Kept(m, m1, address),
         NEW c \in Int, c + HEADER <= address,
         NEW next, NEW prev, NEW allocated, NEW size, Header(m, c, next, prev, allocated, size)
  PROVE  Header(m1, c, next, prev, allocated, size)
BY DEF Kept, Header

LEMMA SplitReads ==
  ASSUME mem \in [Mapped -> Words], NEW chunk \in Int, NEW prev, NEW allocated \in {0, 1}, NEW old,
         Header(mem, chunk, Null, prev, allocated, old),
         NEW size \in Words, IsChunk(Rest(chunk, size)), Rest(chunk, size) = chunk + HEADER + size
  PROVE  /\ Header(Split(chunk, size), chunk, Rest(chunk, size), prev, 1, size)
         /\ Header(Split(chunk, size), Rest(chunk, size), Null, chunk, 0, RestSize(chunk, size))
         /\ Kept(mem, Split(chunk, size), chunk)
<1> DEFINE temp == Rest(chunk, size)
           rest == RestSize(chunk, size)
           withRest == [mem EXCEPT ![temp + NEXT]      = Null,
                                   ![temp + PREV]      = chunk,
                                   ![temp + MAGIC]     = HEAP_MAGIC,
                                   ![temp + ALLOCATED] = 0,
                                   ![temp + SIZE]      = rest]
           flag  == Marked(withRest[chunk + ALLOCATED], 1)
           after == [withRest EXCEPT ![chunk + NEXT] = temp, ![chunk + ALLOCATED] = flag, ![chunk + SIZE] = size]
<1>1. Split(chunk, size) = after
  <2>1. Split(chunk, size) = Take(withRest, chunk, temp, size)
    BY DEF Split, Header
  <2> HIDE DEF withRest
  <2> QED
    BY <2>1 DEF Take
<1>2. temp \in Int /\ temp >= chunk + 5
  BY LargeNumbers DEF HEADER, Words
<1>3. /\ \A f \in 0 .. 4 : chunk + f \in Mapped
      /\ \A f \in 0 .. 4 : temp + f \in Mapped
  BY <1>2 DEF Header, IsChunk, HEADER
<1> USE DEF NEXT, PREV, MAGIC, ALLOCATED, SIZE, HEADER
<1>4. DOMAIN mem = Mapped
  OBVIOUS
<1> HIDE DEF temp, rest
<1>10. flag = 1
  <2>1. withRest[chunk + ALLOCATED] = allocated
    BY <1>2, <1>3, <1>4 DEF Header
  <2> QED
    BY <2>1, Flags
<1> HIDE DEF flag
<1>5. /\ after[chunk + NEXT] = temp /\ after[chunk + PREV] = mem[chunk + PREV]
      /\ after[chunk + MAGIC] = mem[chunk + MAGIC] /\ after[chunk + ALLOCATED] = 1
      /\ after[chunk + SIZE] = size
  BY <1>2, <1>3, <1>4, <1>10
<1>6. /\ after[temp + NEXT] = Null /\ after[temp + PREV] = chunk /\ after[temp + MAGIC] = HEAP_MAGIC
      /\ after[temp + ALLOCATED] = 0 /\ after[temp + SIZE] = rest
  BY <1>2, <1>3, <1>4
<1>7. ASSUME NEW c \in Int, IsChunk(c), c + HEADER <= chunk, NEW f \in 0 .. 4
      PROVE  after[c + f] = mem[c + f]
  <2>1. c + f \in Mapped /\ c + f < chunk /\ c + f \in Int
    BY <1>7 DEF IsChunk
  <2> QED
    BY <1>2, <1>4, <2>1
<1> HIDE DEF after
<1>8. Kept(mem, after, chunk)
  BY <1>7 DEF Kept
<1>9. Header(after, chunk, temp, prev, 1, size) /\ Header(after, temp, Null, chunk, 0, rest)
  BY <1>5, <1>6 DEF Header, temp
<1> QED
  BY <1>1, <1>8, <1>9 DEF temp, rest

LEMMA MarkReads ==
  ASSUME NEW m \in [Mapped -> Words], NEW chunk \in Int, NEW next, NEW prev, NEW allocated \in {0, 1}, NEW size,
         Header(m, chunk, next, prev, allocated, size)
  PROVE  LET marked == [m EXCEPT ![chunk + ALLOCATED] = Marked(@, 0)]
         IN  /\ Header(marked, chunk, next, prev, 0, size)
             /\ Kept(m, marked, chunk)
             /\ \A c \in Int : c >= chunk + HEADER =>
                  \A n, p, a, s : Header(m, c, n, p, a, s) => Header(marked, c, n, p, a, s)
<1> DEFINE marked == [m EXCEPT ![chunk + ALLOCATED] = Marked(@, 0)]
<1>6. Marked(m[chunk + ALLOCATED], 0) = 0
  BY Flags DEF Header
<1>7. marked = [m EXCEPT ![chunk + ALLOCATED] = 0]
  BY <1>6
<1> HIDE DEF marked
<1> USE DEF NEXT, PREV, MAGIC, ALLOCATED, SIZE, HEADER
<1>1. \A f \in 0 .. 4 : chunk + f \in Mapped
  BY DEF Header, IsChunk
<1>2. Header(marked, chunk, next, prev, 0, size)
  BY <1>1, <1>7 DEF Header
<1>3. ASSUME NEW c \in Int, IsChunk(c), c + HEADER <= chunk \/ c >= chunk + HEADER, NEW f \in 0 .. 4
      PROVE  marked[c + f] = m[c + f]
  <2>1. c + f \in Mapped /\ c + f # chunk + ALLOCATED
    BY <1>3 DEF IsChunk
  <2> QED
    BY <1>7, <2>1
<1>4. Kept(m, marked, chunk)
  BY <1>3 DEF Kept
<1>5. ASSUME NEW c \in Int, c >= chunk + HEADER, NEW n, NEW p, NEW a, NEW s, Header(m, c, n, p, a, s)
      PROVE  Header(marked, c, n, p, a, s)
  BY <1>3, <1>5 DEF Header
<1> QED
  BY <1>2, <1>4, <1>5 DEF marked

(* A chunk is joined with the one before it. *)
LEMMA JoinPrevReads ==
  ASSUME NEW m \in [Mapped -> Words],
         NEW chunk \in Int, NEW next \in Int, NEW prev \in Int, NEW allocated, NEW size,
         Header(m, chunk, next, prev, allocated, size),
         NEW link, NEW first, NEW held, NEW part, Header(m, prev, link, first, held, part),
         prev + HEADER <= chunk, next # Null => next >= chunk + HEADER /\ IsChunk(next)
  PROVE  /\ Header(JoinPrev(m, chunk), prev, next, first, held, (part + size + HEADER) % WordLimit)
         /\ next # Null => \A n, p, a, s : Header(m, next, n, p, a, s) =>
                                           Header(JoinPrev(m, chunk), next, n, prev, a, s)
         /\ Kept(m, JoinPrev(m, chunk), prev)
<1> DEFINE total == (part + size + HEADER) % WordLimit
           grown == [m EXCEPT ![prev + NEXT] = next, ![prev + SIZE] = total]
           after == IF next = Null THEN grown ELSE [grown EXCEPT ![next + PREV] = prev]
<1>1. JoinPrev(m, chunk) = after
  BY DEF JoinPrev, Header, NEXT, SIZE
<1> HIDE DEF total
<1> USE DEF NEXT, PREV, MAGIC, ALLOCATED, SIZE, HEADER
<1>2. \A f \in 0 .. 4 : prev + f \in Mapped /\ (next # Null => next + f \in Mapped)
  BY DEF Header, IsChunk
<1>3. Header(grown, prev, next, first, held, total)
  BY <1>2 DEF Header
<1>4. ASSUME NEW c \in Int, IsChunk(c), c + HEADER <= prev \/ c >= prev + HEADER, NEW f \in 0 .. 4
      PROVE  grown[c + f] = m[c + f]
  <2>1. c + f \in Mapped /\ c + f # prev + NEXT /\ c + f # prev + SIZE
    BY <1>4 DEF IsChunk
  <2> QED
    BY <2>1
<1>5. grown \in [Mapped -> UNION {Words, {next}, {total}}]
  OBVIOUS
<1> HIDE DEF grown
<1>6. ASSUME NEW c \in Int, IsChunk(c), next # Null => c + HEADER <= next, NEW f \in 0 .. 4
      PROVE  after[c + f] = grown[c + f]
  <2>1. c + f \in Mapped /\ (next # Null => c + f # next + PREV)
    BY <1>6 DEF IsChunk
  <2> QED
    BY <1>5, <2>1
<1>7. IsChunk(prev) /\ (next # Null => prev + HEADER <= next)
  BY DEF Header
<1>8. Header(after, prev, next, first, held, total)
  BY <1>3, <1>6, <1>7 DEF Header
<1>9. Kept(m, after, prev)
  BY <1>4, <1>6, <1>7 DEF Kept
<1>10. ASSUME next # Null, NEW n, NEW p, NEW a, NEW s, Header(m, next, n, p, a, s)
       PROVE  Header(after, next, n, prev, a, s)
  <2>1. \A f \in 0 .. 4 : grown[next + f] = m[next + f]
    BY <1>4, <1>7, <1>10
  <2>2. after = [grown EXCEPT ![next + PREV] = prev]
    BY <1>10
  <2>3. after[next + PREV] = prev /\ \A f \in {0, 2, 3, 4} : after[next + f] = grown[next + f]
    BY <1>2, <1>5, <1>10, <2>2
  <2> QED
    BY <1>10, <2>1, <2>3 DEF Header
<1> HIDE DEF after
<1>11. next # Null => \A n, p, a, s : Header(m, next, n, p, a, s) => Header(after, next, n, prev, a, s)
  BY <1>10
<1> QED
  BY <1>1, <1>8, <1>9, <1>11 DEF total

(* A chunk is joined with the one behind it, the last of the list. *)
LEMMA JoinNextReads ==
  ASSUME NEW m \in [Mapped -> Words],
         NEW chunk \in Int, NEW next \in Int, NEW prev, NEW allocated, NEW size,
         Header(m, chunk, next, prev, allocated, size),
         NEW last, NEW held, NEW part, Header(m, next, Null, last, held, part)
  PROVE  /\ Header(JoinNext(m, chunk), chunk, Null, prev, allocated, (size + part + HEADER) % WordLimit)
         /\ Kept(m, JoinNext(m, chunk), chunk)
<1> DEFINE total == (size + part + HEADER) % WordLimit
           after == [m EXCEPT ![chunk + SIZE] = total, ![chunk + NEXT] = Null]
<1>1. JoinNext(m, chunk) = after
  BY DEF JoinNext, Header, NEXT, SIZE
<1> HIDE DEF total
<1> USE DEF NEXT, PREV, MAGIC, ALLOCATED, SIZE, HEADER
<1>2. \A f \in 0 .. 4 : chunk + f \in Mapped
  BY DEF Header, IsChunk
<1>3. Header(after, chunk, Null, prev, allocated, total)
  BY <1>2 DEF Header
<1>4. ASSUME NEW c \in Int, IsChunk(c), c + HEADER <= chunk, NEW f \in 0 .. 4
      PROVE  after[c + f] = m[c + f]
  <2>1. c + f \in Mapped /\ c + f # chunk + NEXT /\ c + f # chunk + SIZE
    BY <1>4 DEF IsChunk
  <2> QED
    BY <2>1
<1> HIDE DEF after
<1>5. Kept(m, after, chunk)
  BY <1>4 DEF Kept
<1> QED
  BY <1>1, <1>3, <1>5 DEF total

-----------------------------------------------------------------------------
(* Callers that free the newest block first: the shape of the heap. *)

Chunk(l, i)  == l[i].ptr - HEADER
Behind(l, i) == l[i].ptr + l[i].size

(* The end of the newest block of l. *)
Top(l) == IF l = <<>> THEN HeapStart ELSE Behind(l, Len(l))

(* The chunk before that of block i, and before the free one. *)
Before(l, i) == IF i = 1 THEN Null ELSE Chunk(l, i - 1)

(* The blocks lie in the order of their age, end to end. *)
Stacked(l, used) ==
  /\ l # <<>> => Chunk(l, 1) = HeapStart
  /\ \A i \in 2 .. Len(l) : Chunk(l, i) = Behind(l, i - 1)
  /\ \A i, j \in 1 .. Len(l) : i < j => Behind(l, i) <= Chunk(l, j)
  /\ \A i \in 1 .. Len(l) : Behind(l, i) >= HeapStart + i * (HEADER + 1)
  /\ Top(l) - HeapStart <= used /\ used < MemoryWords

(* Every block but the newest has a chunk of its own. *)
Inner(m, l) ==
  \A i \in 1 .. Len(l) - 1 : Header(m, Chunk(l, i), Chunk(l, i + 1), Before(l, i), 1, l[i].size)

(* Before the first call of free, and after the last: the newest block has *)
(* a chunk of its own as well, and what is behind it is free.              *)
Open(m, l) ==
  /\ l # <<>> => Header(m, Chunk(l, Len(l)), Top(l), Before(l, Len(l)), 1, l[Len(l)].size)
  /\ Header(m, Top(l), Null, Before(l, Len(l) + 1), 0, (HeapEnd - Top(l) - HEADER) % WordLimit)

(* In between: free has joined all that was free to the newest block.      *)
Closed(m, l) ==
  l # <<>> /\ Header(m, Chunk(l, Len(l)), Null, Before(l, Len(l)), 1, HeapEnd - l[Len(l)].ptr)

LifoInv ==
  /\ HeapInv
  /\ Stacked(live, usedMemory)
  /\ Inner(mem, live)
  /\ Open(mem, live) \/ Closed(mem, live)

(* The list as the invariant shows it. *)
Links   == IF Open(mem, live) THEN Len(live) + 1 ELSE Len(live)
Link(k) == IF k <= Len(live) THEN Chunk(live, k) ELSE IF k <= Links THEN Top(live) ELSE Null

LEMMA LifoInit == Init => LifoInv
<1> SUFFICES ASSUME Init
             PROVE  LifoInv
  OBVIOUS
<1>1. HeapInv /\ live = <<>> /\ usedMemory = 0
  BY HeapInit
<1>2. Len(live) = 0
  BY <1>1
<1>3. Stacked(live, usedMemory)
  BY <1>1, <1>2, HeapAssumption, LargeNumbers DEF Stacked, Top, HEADER
<1>4. Inner(mem, live)
  BY <1>2 DEF Inner
<1>5. IsChunk(HeapStart) /\ HeapEnd - HeapStart - HEADER = MemoryWords - HEADER /\ MemoryWords - HEADER \in Words
  <2>1. HeapStart + HEADER <= HeapEnd + WordsBehind
    BY HeapAssumption, LargeNumbers DEF HeapEnd, HEADER
  <2>2. IsChunk(HeapStart)
    BY <2>1, HeaderMapped, LargeNumbers
  <2> QED
    BY <2>2, HeapAssumption, LargeNumbers DEF HeapEnd, HEADER, Words
<1>6. Header(mem, HeapStart, Null, Null, 0, MemoryWords - HEADER)
  <2>1. mem = [[a \in Mapped |-> 0] EXCEPT ![HeapStart + MAGIC] = HEAP_MAGIC, ![HeapStart + SIZE] = MemoryWords - HEADER]
    BY DEF Init
  <2>2. \A f \in 0 .. 4 : HeapStart + f \in Mapped
    BY <1>5, LargeNumbers DEF IsChunk, HEADER
  <2> QED
    BY <1>5, <2>1, <2>2, LargeNumbers DEF Header, Null, NEXT, PREV, MAGIC, ALLOCATED, SIZE
<1>7. Open(mem, live)
  <2>1. (HeapEnd - HeapStart - HEADER) % WordLimit = MemoryWords - HEADER
    <3>1. MemoryWords - HEADER \in Int
      BY HeapAssumption DEF HEADER
    <3> QED
      BY <1>5, <3>1, ModWords
  <2> QED
    BY <1>1, <1>2, <1>6, <2>1 DEF Open, Top, Before
<1> QED
  BY <1>1, <1>3, <1>4, <1>7 DEF LifoInv

(* What the invariant says of the numbers in it. *)
LEMMA LifoNumbers ==
  ASSUME LifoInv
  PROVE  /\ live \in Seq(Blocks) /\ Len(live) \in Nat
         /\ mem \in [Mapped -> Words] /\ usedMemory \in Nat
         /\ \A i \in 1 .. Len(live) : /\ live[i].ptr \in Int /\ live[i].size \in Nat /\ live[i].size > 0
                                      /\ Chunk(live, i) \in Int /\ Chunk(live, i) >= HeapStart
                                      /\ live[i].ptr = Chunk(live, i) + HEADER
                                      /\ Behind(live, i) \in Int /\ Behind(live, i) = Chunk(live, i) + HEADER + live[i].size
                                      /\ Behind(live, i) <= Top(live)
         /\ Top(live) \in Int /\ HeapStart <= Top(live) /\ Top(live) < HeapEnd
         /\ live = <<>> <=> Len(live) = 0
         /\ HeapStart \in Int /\ HeapEnd \in Int /\ HeapEnd <= WordLimit
<1>1. live \in Seq(Blocks) /\ mem \in [Mapped -> Words] /\ usedMemory \in Nat /\ Len(live) \in Nat
  BY LargeNumbers DEF LifoInv, HeapInv, TypeOK, Words
<1>2. HeapStart \in Int /\ HeapStart > 0 /\ HeapEnd \in Int /\ HeapEnd \in Nat /\ HeapEnd <= WordLimit
      /\ HEADER = 5 /\ WordsBehind \in Nat /\ HeapEnd = HeapStart + MemoryWords /\ MemoryWords \in Nat
  <2>1. HEADER = 5 /\ WordsBehind \in Nat /\ HeapEnd = HeapStart + MemoryWords /\ MemoryWords \in Nat
        /\ HeapStart \in Nat /\ HeapStart > 0 /\ MemoryWords > HEADER /\ HeapEnd + WordsBehind <= WordLimit
    BY HeapAssumption, LargeNumbers DEF HEADER, HeapEnd
  <2>2. WordLimit \in Nat
    BY LargeNumbers
  <2> QED
    BY <2>1, <2>2 DEF Words
<1>3. ASSUME NEW i \in 1 .. Len(live)
      PROVE  /\ live[i].ptr \in Int /\ live[i].size \in Nat /\ live[i].size > 0
             /\ Chunk(live, i) \in Int /\ Chunk(live, i) >= HeapStart
             /\ live[i].ptr = Chunk(live, i) + HEADER
             /\ Behind(live, i) \in Int /\ Behind(live, i) = Chunk(live, i) + HEADER + live[i].size
  <2>1. live[i] \in Blocks
    BY <1>1, ElementOfSeq
  <2>2. live[i].ptr \in Int /\ live[i].size \in Nat /\ live[i].size > 0
    BY <2>1, BlockTypes
  <2>3. Chunk(live, i) \in Int /\ IsChunk(Chunk(live, i))
    BY <1>2, <2>2 DEF Chunk, LifoInv, HeapInv, BehindHeaders
  <2>4. Chunk(live, i) >= HeapStart
    BY <1>2, <2>3, HeaderMapped
  <2> QED
    BY <1>2, <2>2, <2>3, <2>4 DEF Chunk, Behind
<1>4. \A i \in 1 .. Len(live) : /\ Chunk(live, i) \in Int /\ Behind(live, i) \in Int
                                 /\ HeapStart <= Behind(live, i) /\ Chunk(live, i) <= Behind(live, i)
  <2> SUFFICES ASSUME NEW i \in 1 .. Len(live)
               PROVE  /\ Chunk(live, i) \in Int /\ Behind(live, i) \in Int
                      /\ HeapStart <= Behind(live, i) /\ Chunk(live, i) <= Behind(live, i)
    OBVIOUS
  <2>1. Chunk(live, i) \in Int /\ Chunk(live, i) >= HeapStart /\ live[i].size \in Nat /\ Behind(live, i) = Chunk(live, i) + 5 + live[i].size
    BY <1>2, <1>3
  <2> QED
    BY <1>2, <2>1
<1>5. live = <<>> <=> Len(live) = 0
  BY <1>1
<1>6. ASSUME NEW i \in 1 .. Len(live)
      PROVE  Behind(live, i) <= Top(live)
  <2>1. Top(live) = Behind(live, Len(live)) /\ Len(live) \in 1 .. Len(live)
    BY <1>1, <1>5 DEF Top
  <2>2. CASE i = Len(live)
    BY <1>3, <2>1, <2>2
  <2>3. CASE i < Len(live)
    <3>1. Behind(live, i) <= Chunk(live, Len(live))
      BY <2>1, <2>3 DEF LifoInv, Stacked
    <3>2. Chunk(live, Len(live)) \in Int /\ Chunk(live, Len(live)) <= Behind(live, Len(live)) /\ Behind(live, Len(live)) \in Int
      BY <1>4, <2>1
    <3>3. Behind(live, i) \in Int
      BY <1>4
    <3> QED
      BY <2>1, <3>1, <3>2, <3>3
  <2> QED
    BY <1>1, <2>2, <2>3
<1>7. Top(live) \in Int /\ HeapStart <= Top(live)
  <2>1. CASE live = <<>>
    BY <1>2, <2>1 DEF Top
  <2>2. CASE live # <<>>
    <3>1. Len(live) \in 1 .. Len(live) /\ Top(live) = Behind(live, Len(live))
      BY <1>1, <1>5, <2>2 DEF Top
    <3>2. Behind(live, Len(live)) \in Int /\ HeapStart <= Behind(live, Len(live))
      BY <1>4, <3>1
    <3> QED
      BY <3>1, <3>2
  <2> QED
    BY <2>1, <2>2
<1>8. Top(live) < HeapEnd
  BY <1>1, <1>2, <1>7 DEF LifoInv, Stacked
<1> QED
  BY <1>1, <1>2, <1>3, <1>5, <1>6, <1>7, <1>8

(* The chunks of the list are those of the blocks, and the free one. *)
LEMMA LinkLemma ==
  ASSUME LifoInv
  PROVE  /\ Links \in Nat /\ Links >= 1 /\ Links <= ChainBound + 1
         /\ Link(1) = HeapStart
         /\ \A k \in 1 .. Links : /\ IsChunk(Link(k)) /\ Link(k) \in Int /\ mem[Link(k) + NEXT] = Link(k + 1)
                                  /\ IF k <= Len(live) THEN mem[Link(k) + ALLOCATED] = 1
                                                       ELSE mem[Link(k) + ALLOCATED] = 0
         /\ Link(Links + 1) = Null /\ ~ IsChunk(Null)
<1> DEFINE n == Len(live)
<1>1. n \in Nat /\ (live = <<>> <=> n = 0) /\ (\A i \in 1 .. n : Chunk(live, i) \in Int) /\ Top(live) \in Int
  BY LifoNumbers
<1>2. Links \in Nat /\ Links >= 1 /\ Links \in {n, n + 1} /\ (Links = n + 1 <=> Open(mem, live))
  BY <1>1 DEF Links, LifoInv, Closed
<1>3. Links <= ChainBound + 1
  <2>1. CASE n = 0
    BY <1>1, <1>2, <2>1, HeapAssumption DEF ChainBound, HEADER
  <2>2. CASE n # 0
    <3>1. n \in 1 .. n /\ Top(live) = Behind(live, n)
      BY <1>1, <2>2 DEF Top
    <3>2. Top(live) >= HeapStart + n * (HEADER + 1) /\ Top(live) - HeapStart < MemoryWords
      <4>1. Behind(live, n) >= HeapStart + n * (HEADER + 1)
        BY <3>1 DEF LifoInv, Stacked
      <4>2. Top(live) < HeapStart + MemoryWords /\ MemoryWords \in Nat /\ HeapStart \in Int
        BY LifoNumbers, HeapAssumption, LargeNumbers DEF HeapEnd, HEADER
      <4> QED
        BY <1>1, <3>1, <4>1, <4>2
    <3>3. MemoryWords \in Nat /\ n * 6 < MemoryWords
      BY <1>1, <3>2, HeapAssumption DEF HEADER
    <3>4. n <= 2 * (MemoryWords \div 5)
      BY <1>1, <3>3
    <3> QED
      BY <1>1, <1>2, <3>3, <3>4 DEF ChainBound, HEADER
  <2> QED
    BY <2>1, <2>2
<1>4. Link(1) = HeapStart
  BY <1>1, <1>2 DEF Link, LifoInv, Stacked, Top
<1>5. ASSUME NEW k \in 1 .. Links
      PROVE  /\ IsChunk(Link(k)) /\ Link(k) \in Int /\ mem[Link(k) + NEXT] = Link(k + 1)
             /\ IF k <= n THEN mem[Link(k) + ALLOCATED] = 1 ELSE mem[Link(k) + ALLOCATED] = 0
  <2>1. CASE k < n
    <3>1. Link(k) = Chunk(live, k) /\ Link(k + 1) = Chunk(live, k + 1) /\ k \in 1 .. n - 1
      BY <1>1, <1>2, <2>1 DEF Link
    <3> QED
      BY <1>1, <2>1, <3>1 DEF LifoInv, Inner, Header
  <2>2. CASE k = n
    <3>1. Link(k) = Chunk(live, n) /\ Link(k + 1) = IF Open(mem, live) THEN Top(live) ELSE Null
      BY <1>1, <1>2, <2>2 DEF Link
    <3>2. CASE Open(mem, live)
      BY <1>1, <2>2, <3>1, <3>2 DEF Open, Header
    <3>3. CASE ~ Open(mem, live)
      BY <1>1, <2>2, <3>1, <3>3 DEF LifoInv, Closed, Header
    <3> QED
      BY <3>2, <3>3
  <2>3. CASE k = n + 1
    <3>1. Open(mem, live) /\ Link(k) = Top(live) /\ Link(k + 1) = Null
      BY <1>1, <1>2, <2>3 DEF Link
    <3> QED
      BY <1>1, <2>3, <3>1 DEF Open, Header
  <2> QED
    BY <1>1, <1>2, <2>1, <2>2, <2>3
<1>6. Link(Links + 1) = Null
  BY <1>1, <1>2 DEF Link
<1>7. ~ IsChunk(Null)
  BY HeaderMapped, LargeNumbers DEF Null
<1> QED
  BY <1>2, <1>3, <1>4, <1>5, <1>6, <1>7

LEMMA ChainLifo ==
  ASSUME LifoInv
  PROVE  /\ Len(Chain) \in Nat /\ Len(Chain) >= Links /\ Len(Chain) <= Links + 1
         /\ DOMAIN Chain = 1 .. Len(Chain)
         /\ \A k \in 1 .. Len(Chain) : Chain[k] = Link(k)
<1>1. /\ Chain \in Seq(Words)
      /\ Len(Chain) \in 1 .. ChainBound + 1
      /\ Chain[1] = HeapStart
      /\ \A k \in 1 .. Len(Chain) - 1 : IsChunk(Chain[k]) /\ Chain[k + 1] = mem[Chain[k] + NEXT]
      /\ Len(Chain) = ChainBound + 1 \/ ~ IsChunk(Chain[Len(Chain)])
  BY LifoNumbers, ChainLemma
<1>2. /\ Links \in Nat /\ Links >= 1 /\ Links <= ChainBound + 1
      /\ Link(1) = HeapStart
      /\ \A k \in 1 .. Links : IsChunk(Link(k)) /\ mem[Link(k) + NEXT] = Link(k + 1)
      /\ Link(Links + 1) = Null /\ ~ IsChunk(Null)
  BY LinkLemma
<1>3. Len(Chain) \in Nat /\ DOMAIN Chain = 1 .. Len(Chain) /\ Len(Chain) >= 1
  BY <1>1
<1> DEFINE T == {k \in Nat : k < Len(Chain) => k <= Links /\ Chain[k + 1] = Link(k + 1)}
<1>4. T = Nat
  <2>1. 0 \in T
    BY <1>1, <1>2, <1>3
  <2>2. ASSUME NEW k \in T
        PROVE  k + 1 \in T
    <3> SUFFICES ASSUME k + 1 < Len(Chain)
                 PROVE  k + 1 <= Links /\ Chain[k + 2] = Link(k + 2)
      OBVIOUS
    <3>1. k <= Links /\ Chain[k + 1] = Link(k + 1)
      BY <1>3
    <3>2. k + 1 \in 1 .. Len(Chain) - 1 /\ (k + 1) + 1 = k + 2
      BY <1>3
    <3>3. IsChunk(Link(k + 1)) /\ Chain[k + 2] = mem[Link(k + 1) + NEXT]
      BY <1>1, <3>1, <3>2
    <3>4. k # Links
      BY <1>2, <3>3
    <3>5. k + 1 \in 1 .. Links
      BY <1>2, <3>1, <3>4
    <3> QED
      BY <1>2, <3>2, <3>3, <3>5
  <2>3. T \in SUBSET Nat
    OBVIOUS
  <2> HIDE DEF T
  <2> QED
    BY <2>1, <2>2, <2>3, Induction
<1>5. ASSUME NEW k \in 1 .. Len(Chain)
      PROVE  Chain[k] = Link(k) /\ k <= Links + 1
  <2>1. k - 1 \in T
    BY <1>3, <1>4
  <2> QED
    BY <1>2, <1>3, <2>1
<1>6. Len(Chain) <= Links + 1
  BY <1>3, <1>5
<1>7. Len(Chain) >= Links
  <2> SUFFICES ASSUME Len(Chain) < Links
               PROVE  FALSE
    BY <1>2, <1>3
  <2>1. Len(Chain) \in 1 .. Links /\ Len(Chain) # ChainBound + 1
    BY <1>1, <1>2, <1>3 DEF ChainBound
  <2>2. IsChunk(Chain[Len(Chain)])
    BY <1>2, <1>3, <1>5, <2>1
  <2> QED
    BY <1>1, <2>1, <2>2
<1> QED
  BY <1>3, <1>5, <1>6, <1>7

LEMMA ChunksLifo ==
  ASSUME LifoInv
  PROVE  Chunks = {Link(k) : k \in 1 .. Links}
<1>1. /\ Len(Chain) \in Nat /\ Len(Chain) >= Links /\ Len(Chain) <= Links + 1
      /\ DOMAIN Chain = 1 .. Len(Chain)
      /\ \A k \in 1 .. Len(Chain) : Chain[k] = Link(k)
  BY ChainLifo
<1>2. /\ Links \in Nat /\ Link(Links + 1) = Null
      /\ \A k \in 1 .. Links : Link(k) # Null
  BY LinkLemma
<1>3. Range(Chain) = {Link(k) : k \in 1 .. Len(Chain)}
  BY <1>1 DEF Range
<1> QED
  BY <1>1, <1>2, <1>3 DEF Chunks

(* malloc puts the new block where the free memory began. *)
LEMMA LifoGrant ==
  ASSUME RequestsFit, LifoInv, HeapInv', NEW size \in Sizes, Grant(size)
  PROVE  LifoInv'
<1> DEFINE n == Len(live)
           temp == Rest(Top(live), size)
           block == [ptr |-> Top(live) + HEADER, size |-> size]
<1>1. Links \in Nat /\ (Links = n + 1 => Open(mem, live)) /\ Links \in {n, n + 1} /\ n \in Nat
  BY LinkLemma, LifoNumbers DEF Links
<1>2. Open(mem, live) /\ IsChunk(temp) /\ mem' = Split(Top(live), size) /\ live' = Append(live, block)
  <2>1. PICK k \in 1 .. Len(Chain) :
          /\ StopsAt(Chain, k, size) /\ IsChunk(Chain[k]) /\ Splittable(Chain[k], size)
          /\ mem' = Split(Chain[k], size)
          /\ live' = Append(live, [ptr |-> Chain[k] + HEADER, size |-> size])
    BY DEF Grant
  <2>2. Chain[k] = Link(k) /\ ~ Allocated(mem, Chain[k]) /\ k <= Links + 1 /\ k \in Nat
    BY <1>1, <2>1, ChainLifo DEF StopsAt, Fits
  <2>3. k \in 1 .. Links
    BY <1>1, <2>1, <2>2, LinkLemma
  <2>4. ~ (k <= n)
    BY <2>2, <2>3, LinkLemma, FlagSet DEF Allocated
  <2>5. Links = n + 1 /\ k = n + 1
    BY <1>1, <2>2, <2>3, <2>4
  <2>6. Link(k) = Top(live)
    BY <1>1, <2>5 DEF Link
  <2> QED
    BY <1>1, <2>1, <2>2, <2>5, <2>6 DEF Splittable
<1>3. /\ usedMemory' = usedMemory + size + HEADER /\ usedMemory' < MemoryWords
      /\ usedMemory \in Nat /\ MemoryWords \in Nat /\ size \in Nat /\ size > 0 /\ size \in Words
  <2>1. /\ usedMemory' = (usedMemory + size + HEADER) % WordLimit
        /\ ~ ((usedMemory + size + HEADER) % WordLimit >= MemoryWords)
    BY DEF Grant, OutOfMemory
  <2>2. usedMemory \in Nat /\ MemoryWords \in Nat /\ HEADER = 5 /\ MemoryWords < WordLimit
    BY LifoNumbers, HeapAssumption, LargeNumbers DEF HEADER, HeapEnd
  <2>3. size \in Nat /\ size > 0 /\ MemoryWords + size + HEADER <= WordLimit
    <3>1. Sizes \subseteq 1 .. WordLimit - 2 * HEADER
      BY HeapAssumption
    <3> QED
      BY <2>2, <3>1, LargeNumbers DEF RequestsFit
  <2>4. usedMemory < MemoryWords
    BY DEF LifoInv, Stacked
  <2>5. (usedMemory + size + HEADER) % WordLimit = usedMemory + size + HEADER
    BY <2>2, <2>3, <2>4, NoWrap
  <2> QED
    BY <2>1, <2>2, <2>3, <2>5, LargeNumbers DEF Words
<1>4. /\ Top(live) \in Int /\ HeapStart <= Top(live) /\ temp = Top(live) + HEADER + size /\ temp \in Int /\ HEADER = 5
      /\ HeapStart \in Int /\ HeapEnd \in Int
  <2>1. /\ Top(live) \in Int /\ HeapStart <= Top(live) /\ HEADER = 5 /\ HeapStart \in Nat
        /\ HeapEnd = HeapStart + MemoryWords /\ HeapEnd \in Int /\ HeapEnd <= WordLimit
    BY LifoNumbers, LargeNumbers DEF HEADER, HeapEnd
  <2>2. Top(live) - HeapStart <= usedMemory
    BY DEF LifoInv, Stacked
  <2>3. Top(live) + HEADER + size \in Int /\ 0 <= Top(live) + HEADER + size /\ Top(live) + HEADER + size < HeapEnd
    BY <1>3, <2>1, <2>2
  <2>4. Top(live) + HEADER + size \in Words
    BY <2>1, <2>3, LargeNumbers DEF Words
  <2> QED
    BY <2>1, <2>3, <2>4, ModWords DEF Rest
<1>5. /\ Len(live') = n + 1 /\ live' # <<>>
      /\ \A i \in 1 .. n : live'[i] = live[i]
      /\ live'[n + 1] = block
  <2>1. live \in Seq(Blocks)
    BY LifoNumbers
  <2> HIDE DEF block
  <2> QED
    BY <1>2, <2>1
<1>6. /\ \A i \in 1 .. n : Chunk(live', i) = Chunk(live, i) /\ Behind(live', i) = Behind(live, i)
      /\ Chunk(live', n + 1) = Top(live) /\ Behind(live', n + 1) = temp /\ Top(live') = temp
  <2>1. \A i \in 1 .. n : Chunk(live', i) = Chunk(live, i) /\ Behind(live', i) = Behind(live, i)
    BY <1>5 DEF Chunk, Behind
  <2>2. Chunk(live', n + 1) = Top(live) /\ Behind(live', n + 1) = temp
    BY <1>3, <1>4, <1>5 DEF Chunk, Behind
  <2> QED
    BY <1>5, <2>1, <2>2 DEF Top, Behind
<1>7. Before(live, n + 1) = IF n = 0 THEN Null ELSE Chunk(live, n)
  BY <1>1 DEF Before
<1>8. \A i \in 1 .. n + 1 : Before(live', i) = Before(live, i)
  BY <1>1, <1>6 DEF Before
<1>9. Before(live', n + 2) = Top(live)
  BY <1>1, <1>6 DEF Before
<1> HIDE DEF temp, block
<1>10. Stacked(live', usedMemory')
  <2>1. Chunk(live', 1) = HeapStart
    <3>1. CASE n = 0
      BY <1>6, <3>1, LifoNumbers DEF Top
    <3>2. CASE n # 0
      BY <1>1, <1>6, <3>2, LifoNumbers DEF LifoInv, Stacked
    <3> QED
      BY <3>1, <3>2
  <2>2. ASSUME NEW i \in 2 .. n + 1
        PROVE  Chunk(live', i) = Behind(live', i - 1)
    <3>1. CASE i <= n
      <4>1. i \in 1 .. n /\ i - 1 \in 1 .. n /\ i \in 2 .. n
        BY <1>1, <3>1
      <4> QED
        BY <1>6, <4>1 DEF LifoInv, Stacked
    <3>2. CASE i = n + 1
      <4>1. i - 1 = n /\ n \in 1 .. n /\ live # <<>>
        BY <1>1, <3>2, LifoNumbers
      <4> QED
        BY <1>6, <3>2, <4>1 DEF Top
    <3> QED
      BY <1>1, <3>1, <3>2
  <2>3. ASSUME NEW i \in 1 .. n + 1, NEW j \in 1 .. n + 1, i < j
        PROVE  Behind(live', i) <= Chunk(live', j)
    <3>1. i \in 1 .. n
      BY <1>1, <2>3
    <3>2. CASE j <= n
      BY <1>1, <1>6, <2>3, <3>1, <3>2 DEF LifoInv, Stacked
    <3>3. CASE j = n + 1
      BY <1>6, <3>1, <3>3, LifoNumbers
    <3> QED
      BY <1>1, <3>2, <3>3
  <2>4. Top(live) >= HeapStart + n * (HEADER + 1)
    <3>1. CASE n = 0
      BY <1>4, <3>1
    <3>2. CASE n # 0
      <4>1. n \in 1 .. n /\ Top(live) = Behind(live, n)
        BY <1>1, <3>2, LifoNumbers DEF Top
      <4> QED
        BY <4>1 DEF LifoInv, Stacked
    <3> QED
      BY <3>1, <3>2
  <2>5. ASSUME NEW i \in 1 .. n + 1
        PROVE  Behind(live', i) >= HeapStart + i * (HEADER + 1)
    <3>1. CASE i <= n
      BY <1>1, <1>6, <3>1 DEF LifoInv, Stacked
    <3>2. CASE i = n + 1
      BY <1>1, <1>3, <1>4, <1>6, <2>4, <3>2
    <3> QED
      BY <1>1, <3>1, <3>2
  <2>6. (Top(live) - HeapStart <= usedMemory)' /\ (usedMemory < MemoryWords)'
    <3>1. Top(live) - HeapStart <= usedMemory
      BY DEF LifoInv, Stacked
    <3> QED
      BY <1>3, <1>4, <1>6, <3>1
  <2> QED
    BY <1>5, <2>1, <2>2, <2>3, <2>5, <2>6 DEF Stacked
<1>11. Header(mem, Top(live), Null, Before(live, n + 1), 0, (HeapEnd - Top(live) - HEADER) % WordLimit)
  BY <1>2 DEF Open
<1>12. /\ Header(mem', Top(live), temp, Before(live, n + 1), 1, size)
       /\ Header(mem', temp, Null, Top(live), 0, RestSize(Top(live), size))
       /\ Kept(mem, mem', Top(live))
  BY <1>2, <1>3, <1>4, <1>11, SplitReads, LifoNumbers DEF temp
<1>13. RestSize(Top(live), size) = (HeapEnd - temp - HEADER) % WordLimit
  <2>1. mem[Top(live) + SIZE] = (HeapEnd - Top(live) - HEADER) % WordLimit
    BY <1>11 DEF Header
  <2>2. RestSize(Top(live), size) = (mem[Top(live) + SIZE] + (0 - HEADER - size)) % WordLimit
    <3>1. mem[Top(live) + SIZE] \in Int
      <4>1. HeapEnd - Top(live) - HEADER \in Int
        BY <1>4
      <4> QED
        BY <2>1, <4>1, ModWords, LargeNumbers DEF Words
    <3>2. mem[Top(live) + SIZE] - HEADER - size = mem[Top(live) + SIZE] + (0 - HEADER - size)
      BY <1>3, <1>4, <3>1
    <3> QED
      BY <3>2 DEF RestSize
  <2>3. HeapEnd - Top(live) - HEADER \in Int /\ 0 - HEADER - size \in Int
    BY <1>3, <1>4
  <2>4. RestSize(Top(live), size) = ((HeapEnd - Top(live) - HEADER) + (0 - HEADER - size)) % WordLimit
    BY <2>1, <2>2, <2>3, ModWords
  <2>5. (HeapEnd - Top(live) - HEADER) + (0 - HEADER - size) = HeapEnd - temp - HEADER
    <3>1. Top(live) \in Int /\ temp = Top(live) + HEADER + size /\ HEADER \in Int /\ size \in Int /\ HeapEnd \in Int
      BY <1>3, <1>4
    <3> QED
      BY <3>1
  <2> QED
    BY <2>4, <2>5
<1>14. ASSUME NEW i \in 1 .. n
       PROVE  Header(mem, Chunk(live, i), IF i < n THEN Chunk(live, i + 1) ELSE Top(live), Before(live, i), 1, live[i].size)
  BY <1>1, <1>2 DEF LifoInv, Inner, Open
<1>15. ASSUME NEW i \in 1 .. n
       PROVE  Header(mem', Chunk(live, i), IF i < n THEN Chunk(live, i + 1) ELSE Top(live), Before(live, i), 1, live[i].size)
  <2>1. /\ Chunk(live, i) \in Int /\ live[i].size \in Int /\ live[i].size >= 0
        /\ Chunk(live, i) + HEADER + live[i].size <= Top(live)
    <3>1. i \in 1 .. Len(live)
      BY <1>4
    <3>2. Chunk(live, i) \in Int /\ live[i].size \in Nat
      BY <3>1, LifoNumbers
    <3>3. Behind(live, i) <= Top(live) /\ Behind(live, i) = Chunk(live, i) + HEADER + live[i].size
      BY <3>1, LifoNumbers DEF Behind
    <3> QED
      BY <3>2, <3>3
  <2>2. Top(live) \in Int /\ HEADER \in Int
    BY <1>4
  <2>3. Chunk(live, i) + HEADER <= Top(live)
    BY <2>1, <2>2
  <2> QED
    BY <1>12, <1>14, <2>1, <2>2, <2>3, KeptHeader
<1>16. Inner(mem', live')
  <2> SUFFICES ASSUME NEW i \in 1 .. n
               PROVE  Header(mem', Chunk(live', i), Chunk(live', i + 1), Before(live', i), 1, live'[i].size)
    BY <1>1, <1>5 DEF Inner, Header, IsChunk
  <2>1. Chunk(live', i + 1) = IF i < n THEN Chunk(live, i + 1) ELSE Top(live)
    BY <1>1, <1>6
  <2> QED
    BY <1>5, <1>6, <1>8, <1>15, <2>1
<1>17. Open(mem', live')
  <2>1. Header(mem', Chunk(live', n + 1), Top(live'), Before(live', n + 1), 1, live'[n + 1].size)
    <3>1. live'[n + 1].size = size
      BY <1>5 DEF block
    <3>2. Before(live', n + 1) = Before(live, n + 1)
      BY <1>1, <1>8
    <3> QED
      BY <1>6, <1>12, <3>1, <3>2
  <2>2. Header(mem', Top(live'), Null, Before(live', n + 2), 0, (HeapEnd - Top(live') - HEADER) % WordLimit)
    BY <1>6, <1>9, <1>12, <1>13
  <2> QED
    BY <1>1, <1>5, <2>1, <2>2 DEF Open, Header, IsChunk
<1> QED
  BY <1>10, <1>16, <1>17 DEF LifoInv

(* Sizes add up in words as they do in numbers. *)
LEMMA SumWords ==
  ASSUME NEW a \in Int, NEW b \in Int, NEW c \in Int
  PROVE  /\ (a + (b % WordLimit) + c) % WordLimit = (a + b + c) % WordLimit
         /\ ((a % WordLimit) + (b % WordLimit) + c) % WordLimit = (a + b + c) % WordLimit
         /\ ((a % WordLimit) + b + c) % WordLimit = (a + b + c) % WordLimit
<1>1. /\ (a + (b % 1073741824) + c) % 1073741824 = (a + b + c) % 1073741824
      /\ ((a % 1073741824) + (b % 1073741824) + c) % 1073741824 = (a + b + c) % 1073741824
      /\ ((a % 1073741824) + b + c) % 1073741824 = (a + b + c) % 1073741824
  BY SMT
<1> QED
  BY <1>1, SMT DEF WordLimit

(* The newest block and the end of the heap. *)
LEMMA Newest ==
  ASSUME LifoInv, live # <<>>
  PROVE  LET n == Len(live)
             chunk == Chunk(live, n)
         IN  /\ n \in Nat /\ n \in 1 .. n
             /\ chunk \in Int /\ HeapStart <= chunk /\ chunk # Null /\ chunk = live[n].ptr - HEADER
             /\ live[n].size \in Int /\ live[n].size >= 0 /\ live[n].ptr = chunk + HEADER
             /\ Top(live) = chunk + HEADER + live[n].size /\ Top(live) \in Int /\ Top(live) # Null
             /\ Top(live) < HeapEnd /\ HeapEnd \in Int
             /\ HeapEnd - live[n].ptr \in Words /\ HeapEnd - live[n].ptr \in Int
             /\ n = 1 => chunk = HeapStart
<1> DEFINE n == Len(live)
           chunk == Chunk(live, n)
<1>1. n \in Nat /\ n \in 1 .. n
  <2>1. n \in Nat /\ n # 0
    BY LifoNumbers
  <2> QED
    BY <2>1
<1>2. /\ live[n].ptr \in Int /\ live[n].size \in Nat
      /\ chunk \in Int /\ chunk >= HeapStart
      /\ live[n].ptr = chunk + HEADER
      /\ Behind(live, n) \in Int /\ Behind(live, n) = chunk + HEADER + live[n].size
  BY <1>1, LifoNumbers
<1>3. Top(live) = Behind(live, n) /\ Top(live) < HeapEnd /\ HeapEnd \in Int /\ HeapEnd <= WordLimit
  BY LifoNumbers DEF Top
<1>4. HeapStart \in Nat /\ HeapStart > 0 /\ Null = 0 /\ HEADER = 5 /\ WordLimit \in Int
  BY LargeNumbers DEF Null, HEADER
<1>5. n = 1 => chunk = HeapStart
  BY DEF LifoInv, Stacked
<1>6. chunk = live[n].ptr - HEADER
  BY DEF Chunk
<1> HIDE DEF chunk, n
<1>7. HeapEnd - live[n].ptr \in Words /\ HeapEnd - live[n].ptr \in Int
  <2>1. HeapEnd - live[n].ptr \in Int /\ HeapEnd - live[n].ptr >= 0 /\ HeapEnd - live[n].ptr < HeapEnd
    BY <1>2, <1>3, <1>4
  <2> QED
    BY <1>3, <1>4, <2>1 DEF Words
<1>8. Top(live) = chunk + HEADER + live[n].size /\ Top(live) \in Int /\ Top(live) # Null
      /\ chunk # Null /\ HeapStart <= chunk /\ live[n].size \in Int /\ live[n].size >= 0
  BY <1>2, <1>3, <1>4
<1> QED
  BY <1>1, <1>2, <1>3, <1>5, <1>6, <1>7, <1>8 DEF chunk, n

(* The headers of the newest block and of what is behind it, in the two    *)
(* shapes of the heap, before free and after it has marked the chunk.      *)
TopHeaders(m, n, allocated) ==
  \/ /\ Header(m, Chunk(live, n), Top(live), Before(live, n), allocated, live[n].size)
     /\ Header(m, Top(live), Null, Chunk(live, n), 0, (HeapEnd - Top(live) - HEADER) % WordLimit)
  \/ Header(m, Chunk(live, n), Null, Before(live, n), allocated, HeapEnd - live[n].ptr)

LEMMA MarkNewest ==
  ASSUME LifoInv, live # <<>>
  PROVE  LET n      == Len(live)
             marked == [mem EXCEPT ![Chunk(live, n) + ALLOCATED] = Marked(@, 0)]
         IN  /\ marked \in [Mapped -> Words]
             /\ TopHeaders(marked, n, 0)
             /\ Kept(mem, marked, Chunk(live, n))
<1> DEFINE n      == Len(live)
           chunk  == Chunk(live, n)
           marked == [mem EXCEPT ![chunk + ALLOCATED] = Marked(@, 0)]
<1>1. n \in Nat /\ chunk \in Int /\ Top(live) \in Int /\ Top(live) >= chunk + HEADER
  <2>1. HEADER \in Int
    BY DEF HEADER
  <2> QED
    BY <2>1, Newest
<1>2. mem \in [Mapped -> Words] /\ IsChunk(chunk)
  BY Newest, LifoNumbers DEF LifoInv, HeapInv, BehindHeaders
<1>3. marked \in [Mapped -> Words]
  BY <1>1, <1>2, MarkType
<1>4. TopHeaders(mem, n, 1)
  <2>1. CASE Open(mem, live)
    <3>1. Before(live, n + 1) = chunk
      <4>1. n + 1 # 1 /\ (n + 1) - 1 = n
        BY Newest
      <4> QED
        BY <4>1 DEF Before
    <3> QED
      BY <2>1, <3>1 DEF Open, TopHeaders
  <2>2. CASE Closed(mem, live)
    BY <2>2 DEF Closed, TopHeaders
  <2> QED
    BY <2>1, <2>2 DEF LifoInv
<1>5. ASSUME NEW next, NEW size, Header(mem, chunk, next, Before(live, n), 1, size)
      PROVE  /\ Header(marked, chunk, next, Before(live, n), 0, size)
             /\ Kept(mem, marked, chunk)
             /\ \A c \in Int : c >= chunk + HEADER =>
                  \A x, p, a, s : Header(mem, c, x, p, a, s) => Header(marked, c, x, p, a, s)
  <2> HIDE DEF chunk
  <2> QED
    BY <1>1, <1>2, <1>5, MarkReads
<1> HIDE DEF chunk, marked
<1> QED
  BY <1>1, <1>3, <1>4, <1>5 DEF TopHeaders, chunk, marked

(* free, when the newest block is the only one. *)
LEMMA FreeOnly ==
  ASSUME LifoInv, live # <<>>, NEW n \in Nat, n = Len(live), n = 1, Free(n), outcome' = "freed"
  PROVE  Header(mem', HeapStart, Null, Null, 0, (HeapEnd - HeapStart - HEADER) % WordLimit)
<1> DEFINE chunk  == live[n].ptr - HEADER
           marked == [mem EXCEPT ![chunk + ALLOCATED] = Marked(@, 0)]
           size   == live[n].size
           rest   == HeapEnd - Top(live) - HEADER
<1>1. /\ chunk = HeapStart /\ chunk = Chunk(live, n) /\ chunk \in Int /\ size \in Int /\ rest \in Int
      /\ Top(live) \in Int /\ Top(live) # Null /\ HEADER \in Int
      /\ HeapEnd - live[n].ptr = HeapEnd - HeapStart - HEADER /\ HeapEnd - live[n].ptr \in Words
      /\ HeapEnd - live[n].ptr \in Int
      /\ size + rest + HEADER = HeapEnd - HeapStart - HEADER
  <2>1. HEADER \in Int
    BY DEF HEADER
  <2>2. /\ Chunk(live, n) \in Int /\ Chunk(live, n) = HeapStart /\ Chunk(live, n) = live[n].ptr - HEADER
        /\ size \in Int /\ live[n].ptr = Chunk(live, n) + HEADER
        /\ Top(live) = Chunk(live, n) + HEADER + size /\ Top(live) \in Int /\ Top(live) # Null
        /\ HeapEnd \in Int /\ HeapEnd - live[n].ptr \in Words /\ HeapEnd - live[n].ptr \in Int
    BY Newest
  <2>3. chunk = Chunk(live, n)
    BY <2>2
  <2> HIDE DEF chunk, size, marked
  <2>4. rest \in Int
    BY <2>1, <2>2
  <2>5. HeapEnd - live[n].ptr = HeapEnd - HeapStart - HEADER
    BY <2>1, <2>2
  <2>6. size + rest + HEADER = HeapEnd - HeapStart - HEADER
    <3>1. \A e, s, h, z \in Int : z + (e - (s + h + z) - h) + h = e - s - h
      OBVIOUS
    <3>2. HeapStart \in Int /\ rest = HeapEnd - (HeapStart + HEADER + size) - HEADER
      BY <2>2
    <3>3. HeapStart \in Int /\ HeapEnd \in Int /\ size \in Int
      BY <2>2, <3>2
    <3>4. size + (HeapEnd - (HeapStart + HEADER + size) - HEADER) + HEADER = HeapEnd - HeapStart - HEADER
      BY <2>1, <3>1, <3>3
    <3> QED
      BY <3>2, <3>4, Zenon
  <2> HIDE DEF rest
  <2> QED
    BY <2>1, <2>2, <2>3, <2>4, <2>5, <2>6
<1>2. Before(live, n) = Null
  BY DEF Before
<1>3. marked \in [Mapped -> Words] /\ TopHeaders(marked, n, 0)
  BY <1>1, MarkNewest
<1>4. ~ JoinsPrev(marked, chunk) => mem' = IF JoinsNext(marked, chunk) THEN JoinNext(marked, chunk) ELSE marked
  BY DEF Free
<1> HIDE DEF chunk, marked, size, rest
<1>5. CASE /\ Header(marked, chunk, Top(live), Null, 0, size)
           /\ Header(marked, Top(live), Null, chunk, 0, rest % WordLimit)
  <2>1. ~ JoinsPrev(marked, chunk) /\ JoinsNext(marked, chunk)
    BY <1>1, <1>5, FlagSet DEF JoinsPrev, JoinsNext, Header, Allocated
  <2>2. Header(mem', chunk, Null, Null, 0, (size + (rest % WordLimit) + HEADER) % WordLimit)
    BY <1>1, <1>3, <1>4, <1>5, <2>1, JoinNextReads
  <2>3. (size + (rest % WordLimit) + HEADER) % WordLimit = (size + rest + HEADER) % WordLimit
    BY <1>1, SumWords
  <2> QED
    BY <1>1, <2>2, <2>3
<1>6. CASE Header(marked, chunk, Null, Null, 0, HeapEnd - live[n].ptr)
  <2>1. ~ JoinsPrev(marked, chunk) /\ ~ JoinsNext(marked, chunk)
    BY <1>6 DEF JoinsPrev, JoinsNext, Header
  <2> QED
    BY <1>1, <1>4, <1>6, <2>1, ModWords
<1> QED
  BY <1>1, <1>2, <1>3, <1>5, <1>6 DEF TopHeaders, size, rest

LEMMA KeptTwice ==
  ASSUME NEW m, NEW m1, NEW m2, NEW high \in Int, NEW low \in Int, low <= high,
         Kept(m, m1, high), Kept(m1, m2, low)
  PROVE  Kept(m, m2, low)
<1> SUFFICES ASSUME NEW c \in Int, IsChunk(c), c + HEADER <= low,
                    NEW f \in {NEXT, PREV, MAGIC, ALLOCATED, SIZE}
             PROVE  m2[c + f] = m[c + f]
  BY DEF Kept
<1>1. c + HEADER <= high
  BY DEF HEADER
<1> QED
  BY <1>1 DEF Kept

(* The block before the newest one. *)
LEMMA Below ==
  ASSUME LifoInv, NEW n \in Nat, n = Len(live), n > 1
  PROVE  /\ n - 1 \in 1 .. n /\ Chunk(live, n - 1) \in Int /\ Chunk(live, n - 1) # Null
         /\ live[n - 1].size \in Int /\ live[n - 1].ptr = Chunk(live, n - 1) + HEADER
         /\ Chunk(live, n) = Chunk(live, n - 1) + HEADER + live[n - 1].size
         /\ Chunk(live, n - 1) + HEADER <= Chunk(live, n) /\ Chunk(live, n - 1) <= Chunk(live, n)
         /\ HeapEnd - live[n - 1].ptr \in Words /\ HeapEnd - live[n - 1].ptr \in Int
         /\ Header(mem, Chunk(live, n - 1), Chunk(live, n), Before(live, n - 1), 1, live[n - 1].size)
         /\ Before(live, n) = Chunk(live, n - 1)
<1> DEFINE i == n - 1
<1>1. i \in 1 .. n /\ i \in 1 .. n - 1 /\ n \in 2 .. n /\ n # 1 /\ i + 1 = n /\ n \in 1 .. n
  OBVIOUS
<1>2. Before(live, n) = Chunk(live, i)
  BY <1>1 DEF Before
<1>3. Header(mem, Chunk(live, i), Chunk(live, n), Before(live, i), 1, live[i].size)
  BY <1>1 DEF LifoInv, Inner
<1> HIDE DEF i
<1>4. /\ live[i].ptr \in Int /\ live[i].size \in Nat
      /\ Chunk(live, i) \in Int /\ Chunk(live, i) >= HeapStart
      /\ live[i].ptr = Chunk(live, i) + HEADER
      /\ Behind(live, i) = Chunk(live, i) + HEADER + live[i].size
      /\ Behind(live, i) \in Int /\ Behind(live, i) <= Top(live)
  BY <1>1, LifoNumbers
<1>5. Chunk(live, n) = Behind(live, i)
  BY <1>1 DEF LifoInv, Stacked, i
<1>6. HeapStart \in Nat /\ HeapStart > 0 /\ Null = 0 /\ HEADER = 5 /\ WordLimit \in Int
  BY LargeNumbers DEF Null, HEADER
<1>7. Top(live) \in Int /\ Top(live) < HeapEnd /\ HeapEnd \in Int /\ HeapEnd <= WordLimit
  BY LifoNumbers
<1>8. HeapEnd - live[i].ptr \in Words /\ HeapEnd - live[i].ptr \in Int
  <2>1. live[i].ptr <= Behind(live, i) /\ live[i].ptr > 0
    BY <1>4, <1>6
  <2>2. HeapEnd - live[i].ptr \in Int /\ HeapEnd - live[i].ptr >= 0 /\ HeapEnd - live[i].ptr < HeapEnd
    BY <1>4, <1>7, <2>1
  <2> QED
    BY <1>6, <1>7, <2>2 DEF Words
<1>9. /\ Chunk(live, i) # Null /\ live[i].size \in Int
      /\ Chunk(live, i) + HEADER <= Chunk(live, n) /\ Chunk(live, i) <= Chunk(live, n)
  BY <1>4, <1>5, <1>6
<1> QED
  BY <1>1, <1>2, <1>3, <1>4, <1>5, <1>8, <1>9 DEF i

(* free, when there is a block before the newest: all that is behind that  *)
(* one's header becomes part of it.                                        *)
LEMMA FreeAbove ==
  ASSUME LifoInv, live # <<>>, NEW n \in Nat, n = Len(live), n > 1, Free(n), outcome' = "freed"
  PROVE  /\ Header(mem', Chunk(live, n - 1), Null, Before(live, n - 1), 1, HeapEnd - live[n - 1].ptr)
         /\ Kept(mem, mem', Chunk(live, n - 1))
<1> DEFINE chunk  == live[n].ptr - HEADER
           marked == [mem EXCEPT ![chunk + ALLOCATED] = Marked(@, 0)]
           prev   == Chunk(live, n - 1)
           first  == Before(live, n - 1)
           joined == JoinPrev(marked, chunk)
           size   == live[n].size
           part   == live[n - 1].size
           rest   == HeapEnd - Top(live) - HEADER
           end    == HeapEnd - live[n].ptr
           all    == HeapEnd - live[n - 1].ptr
<1>1. /\ chunk = Chunk(live, n) /\ chunk \in Int /\ size \in Int /\ Top(live) # Null
      /\ live[n].ptr = chunk + HEADER /\ Top(live) = chunk + HEADER + size /\ Top(live) \in Int
      /\ HeapEnd \in Int /\ Chunk(live, n) \in Int /\ end \in Int /\ size >= 0
  BY Newest DEF Chunk
<1>2. marked \in [Mapped -> Words] /\ TopHeaders(marked, n, 0) /\ Kept(mem, marked, chunk)
  BY <1>1, MarkNewest
<1>3. mem' = IF JoinsPrev(marked, chunk)
             THEN IF JoinsNext(joined, marked[chunk + PREV])
                  THEN JoinNext(joined, marked[chunk + PREV]) ELSE joined
             ELSE IF JoinsNext(marked, chunk) THEN JoinNext(marked, chunk) ELSE marked
  BY DEF Free
<1> HIDE DEF chunk, marked, joined
<1>4. /\ prev \in Int /\ prev # Null /\ prev + HEADER <= chunk /\ prev <= chunk
      /\ part \in Int /\ live[n - 1].ptr = prev + HEADER /\ chunk = prev + HEADER + part
      /\ all \in Int /\ all \in Words
      /\ Header(mem, prev, chunk, first, 1, part) /\ Before(live, n) = prev
  BY <1>1, Below
<1>5. HEADER \in Int /\ HEADER >= 0
  BY DEF HEADER
<1> HIDE DEF prev, first
<1>6. rest \in Int /\ (part + size + HEADER) + rest + HEADER = all /\ part + end + HEADER = all
      /\ Top(live) >= chunk + HEADER
  <2> HIDE DEF part, size
  <2>1. rest \in Int /\ rest = HeapEnd - (chunk + HEADER + size) - HEADER
    BY <1>1, <1>5
  <2>2. all = HeapEnd - (prev + HEADER) /\ end = HeapEnd - (chunk + HEADER)
    BY <1>1, <1>4
  <2> HIDE DEF rest, all, end
  <2>3. (part + size + HEADER) + rest + HEADER = all
    BY <1>1, <1>4, <1>5, <2>1, <2>2
  <2>4. part + end + HEADER = all
    <3>1. chunk \in Int /\ prev \in Int /\ part \in Int /\ HeapEnd \in Int /\ chunk = prev + HEADER + part
      BY <1>1, <1>4
    <3> QED
      BY <1>5, <2>2, <3>1
  <2>5. Top(live) >= chunk + HEADER
    BY <1>1, <1>5
  <2> QED
    BY <2>1, <2>3, <2>4, <2>5
<1> HIDE DEF size, part, rest, end, all
<1>7. Header(marked, prev, chunk, first, 1, part)
  BY <1>1, <1>2, <1>4, KeptHeader
<1>8. \/ /\ Header(marked, chunk, Top(live), prev, 0, size)
         /\ Header(marked, Top(live), Null, chunk, 0, rest % WordLimit)
      \/ Header(marked, chunk, Null, prev, 0, end)
  BY <1>1, <1>2, <1>4 DEF TopHeaders, size, rest, end
<1>9. joined \in [Mapped -> Words] /\ JoinsPrev(marked, chunk) /\ marked[chunk + PREV] = prev
  <2>1. marked[chunk + PREV] = prev /\ IsChunk(chunk) /\ IsChunk(prev) /\ marked[prev + ALLOCATED] = 1
    BY <1>7, <1>8 DEF Header
  <2>2. joined \in [Mapped -> Words]
    BY <1>1, <1>2, <2>1, JoinPrevType DEF joined
  <2> QED
    BY <1>4, <2>1, <2>2, FlagSet DEF JoinsPrev, Allocated
<1>10. mem' = IF JoinsNext(joined, prev) THEN JoinNext(joined, prev) ELSE joined
  BY <1>3, <1>9
<1>11. ASSUME Header(marked, chunk, Top(live), prev, 0, size), Header(marked, Top(live), Null, chunk, 0, rest % WordLimit)
       PROVE  Header(mem', prev, Null, first, 1, all) /\ Kept(mem, mem', prev)
  <2>1. IsChunk(Top(live))
    BY <1>11 DEF Header
  <2>2. /\ Header(joined, prev, Top(live), first, 1, (part + size + HEADER) % WordLimit)
        /\ Header(joined, Top(live), Null, prev, 0, rest % WordLimit)
        /\ Kept(marked, joined, prev)
    BY <1>1, <1>2, <1>4, <1>6, <1>7, <1>11, <2>1, JoinPrevReads DEF joined
  <2>3. mem' = JoinNext(joined, prev)
    BY <1>1, <1>10, <2>2, FlagSet DEF JoinsNext, Allocated, Header
  <2>4. /\ Header(mem', prev, Null, first, 1, (((part + size + HEADER) % WordLimit) + (rest % WordLimit) + HEADER) % WordLimit)
        /\ Kept(joined, mem', prev)
    BY <1>1, <1>4, <1>9, <2>2, <2>3, JoinNextReads
  <2>5. (((part + size + HEADER) % WordLimit) + (rest % WordLimit) + HEADER) % WordLimit = all
    <3>1. part + size + HEADER \in Int
      BY <1>1, <1>4, <1>5
    <3>2. (((part + size + HEADER) % WordLimit) + (rest % WordLimit) + HEADER) % WordLimit = ((part + size + HEADER) + rest + HEADER) % WordLimit
      BY <1>5, <1>6, <3>1, SumWords
    <3> QED
      BY <1>4, <1>6, <3>2, ModWords
  <2>6. Kept(mem, joined, prev)
    BY <1>1, <1>2, <1>4, <2>2, KeptTwice
  <2>7. Kept(mem, mem', prev)
    BY <1>4, <2>4, <2>6, KeptTwice
  <2> QED
    BY <2>4, <2>5, <2>7
<1>12. ASSUME Header(marked, chunk, Null, prev, 0, end)
       PROVE  Header(mem', prev, Null, first, 1, all) /\ Kept(mem, mem', prev)
  <2>1. Null \in Int
    BY DEF Null
  <2>2. /\ Header(joined, prev, Null, first, 1, (part + end + HEADER) % WordLimit)
        /\ Kept(marked, joined, prev)
    BY <1>1, <1>2, <1>4, <1>7, <1>12, <2>1, JoinPrevReads DEF joined
  <2>3. mem' = joined
    BY <1>10, <2>2 DEF JoinsNext, Header
  <2>4. (part + end + HEADER) % WordLimit = all
    BY <1>4, <1>6, ModWords
  <2>5. Kept(mem, joined, prev)
    BY <1>1, <1>2, <1>4, <2>2, KeptTwice
  <2> QED
    BY <2>2, <2>3, <2>4, <2>5
<1> QED
  BY <1>8, <1>11, <1>12 DEF prev, first, all

LEMMA LifoFree ==
  ASSUME LifoInv, HeapInv', live # <<>>, Free(Len(live))
  PROVE  LifoInv'
<1> DEFINE n == Len(live)
<1>1. n \in Nat /\ n \in 1 .. n /\ live \in Seq(Blocks) /\ usedMemory \in Nat
  BY LifoNumbers, Newest
<1>2. usedMemory' = usedMemory
  BY DEF Free
<1>3. CASE UNCHANGED <<mem, live>>
  <2>1. mem' = mem /\ live' = live
    BY <1>3
  <2> QED
    BY <1>2, <2>1 DEF LifoInv
<1>4. CASE live' = RemoveAt(live, n) /\ outcome' = "freed"
  <2>1. /\ live' \in Seq(Blocks)
        /\ Len(live') = n - 1
        /\ \A k \in 1 .. n - 1 : live'[k] = live[k]
    <3>1. \A k \in 1 .. n - 1 : k < n
      BY <1>1
    <3> QED
      BY <1>1, <1>4, <3>1, RemoveAtLemma
  <2>2. CASE n = 1
    <3>1. live' = <<>> /\ Len(live') = 0 /\ Top(live') = HeapStart
      BY <1>1, <2>1, <2>2 DEF Top
    <3>2. Header(mem', HeapStart, Null, Null, 0, (HeapEnd - HeapStart - HEADER) % WordLimit)
      BY <1>1, <1>4, <2>2, FreeOnly
    <3>3. Open(mem', live')
      <4>1. Before(live', Len(live') + 1) = Null
        BY <3>1 DEF Before
      <4> QED
        BY <3>1, <3>2, <4>1 DEF Open
    <3>4. usedMemory < MemoryWords
      BY DEF LifoInv, Stacked
    <3>5. Stacked(live', usedMemory')
      BY <1>1, <1>2, <3>1, <3>4, LargeNumbers DEF Stacked
    <3>6. Inner(mem', live')
      BY <3>1 DEF Inner
    <3> QED
      BY <3>3, <3>5, <3>6 DEF LifoInv
  <2>3. CASE n > 1
    <3>1. /\ Header(mem', Chunk(live, n - 1), Null, Before(live, n - 1), 1, HeapEnd - live[n - 1].ptr)
          /\ Kept(mem, mem', Chunk(live, n - 1))
      BY <1>1, <1>4, <2>3, FreeAbove
    <3>2. /\ n - 1 \in 1 .. n - 1 /\ n - 1 \in 1 .. n /\ live' # <<>> /\ n - 1 \in Nat
          /\ \A i \in 1 .. n - 1 : i \in 1 .. n
      BY <1>1, <2>1, <2>3
    <3>3. \A i \in 1 .. n - 1 : Chunk(live', i) = Chunk(live, i) /\ Behind(live', i) = Behind(live, i)
      BY <2>1 DEF Chunk, Behind
    <3>4. Top(live') = Behind(live, n - 1)
      BY <2>1, <3>2, <3>3 DEF Top
    <3>5. \A i \in 1 .. n - 1 : Before(live', i) = Before(live, i)
      <4> SUFFICES ASSUME NEW i \in 1 .. n - 1, i # 1
                   PROVE  Chunk(live', i - 1) = Chunk(live, i - 1)
        BY DEF Before
      <4>1. i - 1 \in 1 .. n - 1
        BY <1>1
      <4> QED
        BY <3>3, <4>1
    <3>6. Stacked(live', usedMemory')
      <4>1. Chunk(live', 1) = HeapStart
        <5>1. 1 \in 1 .. n - 1
          BY <1>1, <2>3
        <5> QED
          BY <3>3, <5>1 DEF LifoInv, Stacked
      <4>2. ASSUME NEW i \in 2 .. n - 1
            PROVE  Chunk(live', i) = Behind(live', i - 1)
        <5>1. i \in 1 .. n - 1 /\ i - 1 \in 1 .. n - 1 /\ i \in 2 .. n
          BY <1>1
        <5> QED
          BY <3>3, <5>1 DEF LifoInv, Stacked
      <4>3. \A i, j \in 1 .. n - 1 : i < j => Behind(live', i) <= Chunk(live', j)
        BY <3>2, <3>3 DEF LifoInv, Stacked
      <4>4. \A i \in 1 .. n - 1 : Behind(live', i) >= HeapStart + i * (HEADER + 1)
        BY <3>2, <3>3 DEF LifoInv, Stacked
      <4>5. Top(live') - HeapStart <= usedMemory' /\ usedMemory' < MemoryWords
        <5>1. Top(live) - HeapStart <= usedMemory /\ usedMemory < MemoryWords
          BY DEF LifoInv, Stacked
        <5>2. /\ Behind(live, n - 1) \in Int /\ Behind(live, n - 1) <= Top(live)
              /\ Top(live) \in Int /\ HeapStart \in Int
          BY <3>2, LifoNumbers
        <5> QED
          BY <1>1, <1>2, <3>4, <5>1, <5>2
      <4> QED
        BY <2>1, <4>1, <4>2, <4>3, <4>4, <4>5 DEF Stacked
    <3>7. Inner(mem', live')
      <4> SUFFICES ASSUME NEW i \in 1 .. (n - 1) - 1
                   PROVE  Header(mem', Chunk(live', i), Chunk(live', i + 1), Before(live', i), 1, live'[i].size)
        BY <2>1 DEF Inner
      <4>1. i \in 1 .. n - 1 /\ i + 1 \in 1 .. n - 1 /\ i \in 1 .. n /\ i < n - 1
        BY <1>1
      <4>2. Header(mem, Chunk(live, i), Chunk(live, i + 1), Before(live, i), 1, live[i].size)
        BY <4>1 DEF LifoInv, Inner
      <4>3. Chunk(live, i) \in Int /\ Chunk(live, i) + HEADER <= Chunk(live, n - 1) /\ Chunk(live, n - 1) \in Int
        <5>1. /\ Chunk(live, i) \in Int /\ live[i].size \in Nat
              /\ Behind(live, i) = Chunk(live, i) + HEADER + live[i].size /\ Chunk(live, n - 1) \in Int
          BY <3>2, <4>1, LifoNumbers
        <5>2. Behind(live, i) <= Chunk(live, n - 1)
          BY <3>2, <4>1 DEF LifoInv, Stacked
        <5> QED
          BY <5>1, <5>2 DEF HEADER
      <4>4. Header(mem', Chunk(live, i), Chunk(live, i + 1), Before(live, i), 1, live[i].size)
        BY <3>1, <4>2, <4>3, KeptHeader
      <4> QED
        BY <2>1, <3>3, <3>5, <4>1, <4>4
    <3>8. Closed(mem', live')
      BY <2>1, <3>1, <3>2, <3>3, <3>5 DEF Closed
    <3> QED
      BY <3>6, <3>7, <3>8 DEF LifoInv
  <2>4. n = 1 \/ n > 1
    <3>1. n \in Nat /\ n # 0
      BY LifoNumbers
    <3> HIDE DEF n
    <3> QED
      BY <3>1
  <2> QED
    BY <2>2, <2>3, <2>4
<1> QED
  BY <1>3, <1>4 DEF Free

LEMMA LifoStep == RequestsFit /\ LifoInv /\ [NextLifo]_vars => LifoInv'
<1> SUFFICES ASSUME RequestsFit, LifoInv, [NextLifo]_vars
             PROVE  LifoInv'
  OBVIOUS
<1>1. HeapInv
  BY DEF LifoInv
<1>2. CASE UNCHANGED <<mem, usedMemory, live, outcome>>
  BY <1>2 DEF LifoInv, HeapInv, TypeOK, BehindHeaders
<1>3. ASSUME NEW size \in Sizes, Malloc(size)
      PROVE  LifoInv'
  <2>1. HeapInv'
    BY <1>1, <1>3, MallocInv
  <2>2. CASE Grant(size)
    BY <2>1, <2>2, LifoGrant
  <2>3. CASE UNCHANGED <<mem, usedMemory, live>>
    <3>1. mem' = mem /\ live' = live /\ usedMemory' = usedMemory
      BY <2>3
    <3> QED
      BY <2>1, <3>1 DEF LifoInv
  <2> QED
    BY <1>3, <2>2, <2>3 DEF Malloc, RefuseSize, RefuseSearch, FaultInMalloc, Endless
<1>4. CASE live # <<>> /\ Free(Len(live))
  <2>1. Len(live) \in 1 .. Len(live)
    BY <1>4, Newest
  <2>2. HeapInv'
    BY <1>1, <1>4, <2>1, FreeInv
  <2> QED
    BY <1>4, <2>2, LifoFree
<1> QED
  BY <1>2, <1>3, <1>4 DEF NextLifo, NextAllocOnly, Halted, vars

LEMMA LifoAlways == ASSUME RequestsFit PROVE SpecLifo => []LifoInv
BY LifoInit, LifoStep, PTL DEF SpecLifo

-----------------------------------------------------------------------------
(* What callers that free the newest block first can rely on. *)

(* The header of each block's chunk, and of the free one. *)
LEMMA BlockHeader ==
  ASSUME LifoInv, NEW i \in 1 .. Len(live)
  PROVE  IF i < Len(live)
         THEN Header(mem, Chunk(live, i), Chunk(live, i + 1), Before(live, i), 1, live[i].size)
         ELSE \/ Header(mem, Chunk(live, i), Top(live), Before(live, i), 1, live[i].size) /\ Open(mem, live)
              \/ Header(mem, Chunk(live, i), Null, Before(live, i), 1, HeapEnd - live[i].ptr) /\ Closed(mem, live)
<1> DEFINE n == Len(live)
<1>1. n \in Nat /\ live # <<>>
  BY LifoNumbers
<1>2. CASE i < n
  <2>1. i \in 1 .. n - 1
    BY <1>1, <1>2
  <2> QED
    BY <1>2, <2>1 DEF LifoInv, Inner
<1>3. CASE ~ (i < n)
  <2>1. i = n
    BY <1>1, <1>3
  <2> QED
    BY <1>1, <1>3, <2>1 DEF LifoInv, Open, Closed
<1> QED
  BY <1>2, <1>3

LEMMA LifoTiled == LifoInv => Tiled
<1> SUFFICES ASSUME LifoInv, NEW c \in Chunks, c + HEADER <= HeapEnd
             PROVE  LET behind == c + HEADER + mem[c + SIZE]
                    IN  /\ behind \in c + HEADER .. HeapEnd
                        /\ mem[c + NEXT] = IF behind = HeapEnd THEN Null ELSE behind
                        /\ mem[c + NEXT] # Null => mem[behind + PREV] = c
                        /\ mem[c + MAGIC] = HEAP_MAGIC
  BY DEF Tiled
<1> DEFINE n == Len(live)
           behind == c + HEADER + mem[c + SIZE]
<1>1. PICK k \in 1 .. Links : c = Link(k)
  BY ChunksLifo
<1>2. /\ n \in Nat /\ Top(live) \in Int /\ Top(live) < HeapEnd /\ HeapEnd \in Int /\ Null = 0 /\ HeapStart \in Nat /\ HeapStart > 0
      /\ HeapStart <= Top(live) /\ HEADER = 5
  BY LifoNumbers, LargeNumbers DEF Null, HEADER
<1>3. Links \in Nat /\ Links \in {n, n + 1} /\ (Links = n + 1 => Open(mem, live))
  BY LinkLemma, <1>2 DEF Links
<1>4. CASE k < n
  <2>1. k \in 1 .. n /\ k + 1 \in 1 .. n /\ k + 1 # 1 /\ (k + 1) - 1 = k /\ k + 1 \in 2 .. n
    BY <1>2, <1>3, <1>4
  <2>2. Header(mem, c, Chunk(live, k + 1), Before(live, k), 1, live[k].size)
    BY <1>1, <1>4, <2>1, BlockHeader DEF Link
  <2>3. mem[Chunk(live, k + 1) + PREV] = Before(live, k + 1)
    BY <2>1, BlockHeader DEF Header
  <2>4. Before(live, k + 1) = c /\ c = Chunk(live, k)
    BY <1>1, <2>1 DEF Before, Link
  <2>5. /\ c \in Int /\ live[k].size \in Nat /\ Behind(live, k) = c + HEADER + live[k].size
        /\ Behind(live, k) \in Int /\ Behind(live, k) <= Top(live)
    BY <2>1, <2>4, LifoNumbers
  <2>6. Chunk(live, k + 1) = Behind(live, k)
    BY <2>1 DEF LifoInv, Stacked
  <2>7. behind = Chunk(live, k + 1) /\ behind # HeapEnd /\ behind \in c + HEADER .. HeapEnd
    BY <1>2, <2>2, <2>5, <2>6 DEF Header
  <2> HIDE DEF behind
  <2>8. mem[c + NEXT] = behind /\ mem[c + MAGIC] = HEAP_MAGIC
    BY <2>2, <2>7 DEF Header
  <2> QED
    BY <2>3, <2>4, <2>7, <2>8 DEF behind
<1>5. CASE k = n
  <2>1. k \in 1 .. n /\ c = Chunk(live, k) /\ ~ (k < n) /\ live # <<>>
    BY <1>1, <1>2, <1>5, LifoNumbers DEF Link
  <2>2. /\ c \in Int /\ live[k].size \in Nat /\ Top(live) = c + HEADER + live[k].size
        /\ live[k].ptr = c + HEADER
    BY <1>5, <2>1, Newest
  <2>3. CASE Header(mem, c, Top(live), Before(live, k), 1, live[k].size) /\ Open(mem, live)
    <3>1. behind = Top(live) /\ behind # HeapEnd /\ behind \in c + HEADER .. HeapEnd
      BY <1>2, <2>2, <2>3 DEF Header
    <3>2. mem[Top(live) + PREV] = c
      <4>1. Before(live, n + 1) = c
        BY <1>2, <1>5, <2>1 DEF Before
      <4> QED
        BY <2>3, <4>1 DEF Open, Header
    <3> HIDE DEF behind
    <3>3. mem[c + NEXT] = behind /\ mem[c + MAGIC] = HEAP_MAGIC
      BY <2>3, <3>1 DEF Header
    <3> QED
      BY <3>1, <3>2, <3>3 DEF behind
  <2>4. CASE Header(mem, c, Null, Before(live, k), 1, HeapEnd - live[k].ptr)
    <3>1. mem[c + SIZE] = HeapEnd - (c + HEADER) /\ mem[c + NEXT] = Null /\ mem[c + MAGIC] = HEAP_MAGIC
      BY <2>2, <2>4 DEF Header
    <3>2. behind = HeapEnd /\ behind \in c + HEADER .. HeapEnd
      BY <1>2, <2>2, <3>1
    <3> HIDE DEF behind
    <3> QED
      BY <3>1, <3>2 DEF behind
  <2> QED
    BY <2>1, <2>3, <2>4, BlockHeader
<1>6. CASE k = n + 1
  <2>1. Open(mem, live) /\ c = Top(live)
    BY <1>1, <1>2, <1>3, <1>6 DEF Link
  <2>2. HeapEnd - Top(live) - HEADER \in Words /\ HeapEnd - Top(live) - HEADER \in Int
    <3>1. HeapEnd <= WordLimit /\ WordLimit \in Int
      BY LifoNumbers, LargeNumbers
    <3> QED
      BY <1>2, <2>1, <3>1 DEF Words
  <2>3. mem[c + SIZE] = HeapEnd - Top(live) - HEADER /\ mem[c + NEXT] = Null /\ mem[c + MAGIC] = HEAP_MAGIC
    BY <2>1, <2>2, ModWords DEF Open, Header
  <2>4. behind = HeapEnd /\ behind \in c + HEADER .. HeapEnd
    BY <1>2, <2>1, <2>3
  <2> HIDE DEF behind
  <2> QED
    BY <2>3, <2>4 DEF behind
<1>7. k < n \/ k = n \/ k = n + 1
  BY <1>2, <1>3
<1> QED
  BY <1>4, <1>5, <1>6, <1>7

(* Every header of the list is before a block or behind it. *)
LEMMA LinkApart ==
  ASSUME LifoInv, NEW i \in 1 .. Len(live), NEW k \in 1 .. Links
  PROVE  Link(k) + HEADER <= live[i].ptr \/ Behind(live, i) <= Link(k)
<1> DEFINE n == Len(live)
<1>1. n \in Nat /\ HEADER = 5 /\ Links \in Nat /\ Links \in {n, n + 1}
  BY LifoNumbers, LinkLemma DEF HEADER, Links
<1>2. /\ live[i].ptr = Chunk(live, i) + HEADER /\ Chunk(live, i) \in Int
      /\ Behind(live, i) <= Top(live)
  BY LifoNumbers
<1>3. CASE k = n + 1
  BY <1>1, <1>2, <1>3 DEF Link
<1>4. CASE k <= n
  <2>1. k \in 1 .. n /\ Link(k) = Chunk(live, k)
    BY <1>1, <1>4 DEF Link
  <2>2. CASE k < i
    <3>1. Behind(live, k) <= Chunk(live, i)
      BY <2>1, <2>2 DEF LifoInv, Stacked
    <3>2. Chunk(live, k) \in Int /\ live[k].size \in Nat /\ Behind(live, k) = Chunk(live, k) + HEADER + live[k].size
      BY <2>1, LifoNumbers
    <3> QED
      BY <1>1, <1>2, <2>1, <3>1, <3>2
  <2>3. CASE k = i
    BY <1>1, <1>2, <2>1, <2>3
  <2>4. CASE k > i
    <3>1. Behind(live, i) <= Chunk(live, k)
      BY <2>1, <2>4 DEF LifoInv, Stacked
    <3> QED
      BY <2>1, <3>1
  <2> QED
    BY <1>1, <2>1, <2>2, <2>3, <2>4
<1> QED
  BY <1>1, <1>3, <1>4

LEMMA LifoClear == LifoInv => BlocksClearOfHeaders
<1> SUFFICES ASSUME LifoInv, NEW block \in LiveBlocks
             PROVE  /\ Extent(block) \subseteq HeapWords
                    /\ \A c \in Chunks : Extent(block) \cap c .. c + HEADER - 1 = {}
  BY DEF BlocksClearOfHeaders
<1>1. PICK i \in 1 .. Len(live) : block = live[i]
  BY LifoNumbers DEF LiveBlocks, Range
<1>2. /\ block.ptr \in Int /\ block.size \in Nat /\ block.ptr = Chunk(live, i) + HEADER
      /\ Chunk(live, i) \in Int /\ Chunk(live, i) >= HeapStart
      /\ Behind(live, i) = block.ptr + block.size /\ Behind(live, i) <= Top(live)
      /\ Top(live) \in Int /\ Top(live) < HeapEnd /\ HeapStart \in Int /\ HeapEnd \in Int /\ HEADER = 5
  BY <1>1, LifoNumbers DEF Behind, HEADER
<1>3. Extent(block) \subseteq HeapWords
  BY <1>2 DEF Extent, HeapWords
<1>4. ASSUME NEW c \in Chunks
      PROVE  Extent(block) \cap c .. c + HEADER - 1 = {}
  <2>1. PICK k \in 1 .. Links : c = Link(k)
    BY ChunksLifo
  <2>2. c \in Int
    BY <2>1, LinkLemma
  <2>3. c + HEADER <= block.ptr \/ block.ptr + block.size <= c
    BY <1>1, <1>2, <2>1, LinkApart
  <2>4. ASSUME NEW w \in Extent(block), w \in c .. c + HEADER - 1
        PROVE  FALSE
    <3>1. block.ptr \in Int /\ block.size \in Int /\ HEADER \in Int /\ c \in Int
      BY <1>2, <2>2 DEF HEADER
    <3>2. w \in Int /\ block.ptr <= w /\ w < block.ptr + block.size
      BY <2>4, <3>1 DEF Extent
    <3>3. c <= w /\ w < c + HEADER
      BY <2>4, <3>1
    <3> QED
      BY <2>3, <3>1, <3>2, <3>3
  <2> QED
    BY <2>4
<1> QED
  BY <1>3, <1>4

LEMMA LifoAllocated == LifoInv => AllocatedAreLive
<1> SUFFICES ASSUME LifoInv
             PROVE  AllocatedAreLive
  OBVIOUS
<1> DEFINE n == Len(live)
<1>1. n \in Nat /\ HEADER = 5 /\ Links \in Nat /\ Links \in {n, n + 1}
  BY LifoNumbers, LinkLemma DEF HEADER, Links
<1>2. LiveBlocks = {live[i] : i \in 1 .. n}
  BY LifoNumbers DEF LiveBlocks, Range
<1>3. ASSUME NEW i \in 1 .. n
      PROVE  live[i].ptr = Link(i) + HEADER /\ i \in 1 .. Links
  BY <1>1, LifoNumbers DEF Link
<1>4. ASSUME NEW k \in 1 .. Links
      PROVE  Allocated(mem, Link(k)) <=> k \in 1 .. n
  BY <1>1, LinkLemma, FlagSet DEF Allocated
<1>5. {block.ptr : block \in LiveBlocks} = {c + HEADER : c \in {d \in Chunks : Allocated(mem, d)}}
  BY <1>1, <1>2, <1>3, <1>4, ChunksLifo
<1>6. ASSUME NEW i \in 1 .. n
      PROVE  live[i].size <= mem[live[i].ptr - HEADER + SIZE]
  <2>1. mem[Chunk(live, i) + SIZE] = live[i].size \/ mem[Chunk(live, i) + SIZE] = HeapEnd - live[i].ptr
    BY BlockHeader DEF Header
  <2>2. /\ live[i].ptr \in Int /\ live[i].size \in Nat /\ HeapEnd \in Int /\ Top(live) < HeapEnd /\ Top(live) \in Int
        /\ live[i].ptr + live[i].size <= Top(live)
    BY LifoNumbers DEF Behind
  <2>3. Chunk(live, i) = live[i].ptr - HEADER
    BY DEF Chunk
  <2> QED
    BY <2>1, <2>2, <2>3
<1>7. \A block \in LiveBlocks : block.size <= mem[block.ptr - HEADER + SIZE]
  BY <1>2, <1>6
<1> QED
  BY <1>5, <1>7 DEF AllocatedAreLive

LEMMA LifoWhole == LifoInv => AllFreedIsWhole
<1> SUFFICES ASSUME LifoInv, live = <<>>
             PROVE  /\ mem[HeapStart + NEXT] = Null
                    /\ mem[HeapStart + SIZE] = MemoryWords - HEADER
                    /\ ~ Allocated(mem, HeapStart)
  BY DEF AllFreedIsWhole
<1>1. Open(mem, live) /\ Top(live) = HeapStart
  BY DEF LifoInv, Closed, Top
<1>2. HeapEnd - HeapStart - HEADER = MemoryWords - HEADER /\ MemoryWords - HEADER \in Words /\ MemoryWords - HEADER \in Int
  BY HeapAssumption, LargeNumbers DEF HeapEnd, HEADER, Words
<1> QED
  BY <1>1, <1>2, ModWords, FlagSet DEF Open, Header, Allocated

(* Callers that free the newest block first, and ask for nothing so long   *)
(* that a sum wraps, find the list as it should be: its chunks lie end to  *)
(* end over the whole heap and are linked to their neighbours both ways,   *)
(* however often malloc has split a chunk and free has joined it to the    *)
(* allocated one before it.                                                *)
THEOREM ListIsTiled == ASSUME RequestsFit PROVE SpecLifo => []Tiled
BY LifoAlways, LifoTiled, PTL

(* What malloc gives them lies inside the heap, and no header of the list  *)
(* is ever in it.                                                          *)
THEOREM BlocksAreClear == ASSUME RequestsFit PROVE SpecLifo => []BlocksClearOfHeaders
BY LifoAlways, LifoClear, PTL

(* The list shows as allocated the chunks of their blocks, no others, and  *)
(* each is as large as was asked for.                                      *)
THEOREM ListShowsBlocks == ASSUME RequestsFit PROVE SpecLifo => []AllocatedAreLive
BY LifoAlways, LifoAllocated, PTL

(* When they have freed everything, the heap is one free chunk again.      *)
THEOREM HeapIsWholeAgain == ASSUME RequestsFit PROVE SpecLifo => []AllFreedIsWhole
BY LifoAlways, LifoWhole, PTL

(* malloc gives out a block of the arena, apart from those that are live. *)
LEMMA GrantAllocates ==
  ASSUME LifoInv, LifoInv', NEW size \in Sizes, Grant(size)
  PROVE  ArenaOf!Allocate
<1> DEFINE n == Len(live)
<1>1. PICK chunk : live' = Append(live, [ptr |-> chunk + HEADER, size |-> size])
  BY DEF Grant
<1> DEFINE block == [ptr |-> chunk + HEADER, size |-> size]
<1>2. block.size = size
  OBVIOUS
<1> HIDE DEF block
<1>3. live' = Append(live, block)
  BY <1>1 DEF block
<1>4. /\ live \in Seq(Blocks) /\ n \in Nat
  BY LifoNumbers
<1>5. /\ Len(live') = n + 1 /\ live'[n + 1] = block /\ DOMAIN live' = 1 .. n + 1 /\ DOMAIN live = 1 .. n
      /\ \A i \in 1 .. n : live'[i] = live[i]
  BY <1>3, <1>4
<1>6. LiveBlocks = {live[i] : i \in 1 .. n} /\ LiveBlocks' = {live'[i] : i \in 1 .. n + 1}
  BY <1>5 DEF LiveBlocks, Range
<1>7. LiveBlocks' = LiveBlocks \cup {block} /\ block \in LiveBlocks'
  BY <1>4, <1>5, <1>6
<1>8. ArenaOf!Extent(block) \subseteq HeapWords
  <2>1. BlocksClearOfHeaders'
    BY LifoClear, PTL
  <2>2. Extent(block) \subseteq HeapWords
    BY <1>7, <2>1 DEF BlocksClearOfHeaders, Extent, HeapWords
  <2> QED
    BY <2>2 DEF Extent, ArenaOf!Extent
<1>9. ASSUME NEW b \in LiveBlocks
      PROVE  b.ptr # block.ptr /\ ArenaOf!Extent(b) \cap ArenaOf!Extent(block) = {}
  <2>1. PICK i \in 1 .. n : b = live[i]
    BY <1>6
  <2>2. b.ptr + b.size <= block.ptr - HEADER
    <3>1. i \in 1 .. n + 1 /\ n + 1 \in 1 .. n + 1 /\ i < n + 1
      BY <1>4
    <3>2. \A j, k \in 1 .. Len(live') : j < k => Behind(live', j) <= Chunk(live', k)
      BY DEF LifoInv, Stacked
    <3>3. Behind(live', i) <= Chunk(live', n + 1)
      BY <1>5, <3>1, <3>2
    <3> QED
      BY <1>5, <2>1, <3>3 DEF Behind, Chunk
  <2>3. b.ptr \in Int /\ b.size \in Nat /\ b.size > 0
    BY <2>1, LifoNumbers
  <2>4. block.ptr \in Int
    <3>1. live' \in Seq(Blocks)
      BY DEF LifoInv, HeapInv, TypeOK, Blocks, HeapEnd, HEADER
    <3>2. block \in Blocks
      <4>1. n + 1 \in 1 .. Len(live')
        BY <1>4, <1>5
      <4> QED
        BY <1>5, <3>1, <4>1, ElementOfSeq
    <3> QED
      BY <3>2, BlockTypes
  <2>5. b.ptr + b.size < block.ptr
    BY <2>2, <2>3, <2>4 DEF HEADER
  <2>6. b.ptr # block.ptr
    BY <2>3, <2>4, <2>5
  <2>7. ASSUME NEW w \in ArenaOf!Extent(b), w \in ArenaOf!Extent(block)
        PROVE  FALSE
    <3>1. w \in Int /\ w < b.ptr + b.size
      BY <2>3, <2>7 DEF ArenaOf!Extent
    <3>2. block.ptr <= w
      BY <1>2, <2>4, <2>7, <3>1, HeapAssumption DEF ArenaOf!Extent
    <3> QED
      BY <2>3, <2>4, <2>5, <3>1, <3>2
  <2> QED
    BY <2>6, <2>7
<1> QED
  BY <1>2, <1>7, <1>8, <1>9 DEF ArenaOf!Allocate

(* free gives the newest block back to the arena. *)
LEMMA FreeReleases ==
  ASSUME LifoInv, live # <<>>, live' = RemoveAt(live, Len(live))
  PROVE  ArenaOf!Release
<1> DEFINE n == Len(live)
<1>1. n \in Nat /\ n \in 1 .. n /\ live \in Seq(Blocks)
  BY LifoNumbers, Newest
<1>2. Len(live') = n - 1 /\ \A i \in 1 .. n - 1 : live'[i] = live[i]
  <2>1. \A i \in 1 .. n - 1 : i < n
    BY <1>1
  <2> QED
    BY <1>1, <2>1, RemoveAtLemma
<1>3. live' \in Seq(Blocks)
  BY <1>1, RemoveAtLemma
<1>4. LiveBlocks = {live[i] : i \in 1 .. n} /\ LiveBlocks' = {live[i] : i \in 1 .. n - 1}
  BY <1>1, <1>2, <1>3 DEF LiveBlocks, Range
<1>5. ASSUME NEW i \in 1 .. n - 1
      PROVE  live[i] # live[n]
  <2>1. i \in 1 .. n /\ i < n
    BY <1>1
  <2>2. Behind(live, i) <= Chunk(live, n)
    BY <1>1, <2>1 DEF LifoInv, Stacked
  <2>3. /\ live[i].ptr \in Int /\ live[i].size \in Nat /\ Behind(live, i) = Chunk(live, i) + HEADER + live[i].size
        /\ Chunk(live, i) \in Int /\ live[i].size > 0 /\ Chunk(live, n) \in Int
    BY <1>1, <2>1, LifoNumbers
  <2>4. Chunk(live, i) # Chunk(live, n)
    BY <2>2, <2>3 DEF HEADER
  <2> QED
    BY <2>4 DEF Chunk
<1>6. LiveBlocks' = LiveBlocks \ {live[n]} /\ live[n] \in LiveBlocks
  <2>1. \A i \in 1 .. n : i \in 1 .. n - 1 \/ i = n
    BY <1>1
  <2>2. \A i \in 1 .. n - 1 : i \in 1 .. n
    BY <1>1
  <2> QED
    BY <1>1, <1>4, <1>5, <2>1, <2>2
<1> QED
  BY <1>6 DEF ArenaOf!Release

LEMMA ArenaStep == LifoInv /\ LifoInv' /\ [NextLifo]_vars => [ArenaOf!Next]_LiveBlocks
<1> SUFFICES ASSUME LifoInv, LifoInv', [NextLifo]_vars
             PROVE  ArenaOf!Next \/ UNCHANGED LiveBlocks
  OBVIOUS
<1>1. CASE UNCHANGED live
  BY <1>1 DEF LiveBlocks
<1>2. ASSUME NEW size \in Sizes, Grant(size)
      PROVE  ArenaOf!Next
  BY <1>2, GrantAllocates DEF ArenaOf!Next
<1>3. CASE live # <<>> /\ live' = RemoveAt(live, Len(live))
  BY <1>3, FreeReleases DEF ArenaOf!Next
<1> QED
  BY <1>1, <1>2, <1>3 DEF NextLifo, NextAllocOnly, Malloc, Free, Halted, vars,
                          RefuseSize, RefuseSearch, FaultInMalloc, Endless

(* The heap is an arena to callers that free the newest block first, where *)
(* no request is so long that a sum wraps: whatever it does to the list,   *)
(* each call gives out a block that is apart from the live ones, or takes  *)
(* one back, or leaves the blocks alone.                                   *)
THEOREM HeapIsArena == ASSUME RequestsFit PROVE SpecLifo => ArenaSpec
<1>1. Init => ArenaOf!Init
  BY DEF Init, ArenaOf!Init, LiveBlocks, Range
<1> QED
  BY <1>1, LifoAlways, ArenaStep, PTL DEF SpecLifo, ArenaSpec, ArenaOf!Spec
==============================================================================
