------------------------------ MODULE LogProofs ------------------------------
(***************************************************************************)
(* What the console promises for screens of any size and any pitch that    *)
(* fit the address space, any text, and any rectangles whose edges do not  *)
(* wrap: it writes to the buffer only, and never over the text it has      *)
(* written; and what the calls of the log promise for any messages: each   *)
(* prints what its pieces mean.                                            *)
(***************************************************************************)
EXTENDS Log, StringProofs

LEMMA LeastMember ==
  ASSUME NEW S \in SUBSET Nat, S # {}
  PROVE  \E n \in S : \A k \in S : n <= k
<1>1. PICK n \in S : \A m \in S : ~ (<<m, n>> \in OpToRel(<, Nat))
  BY NatLessThanWellFounded, WFMin
<1>2. ASSUME NEW k \in S
      PROVE  ~ (k < n)
  BY <1>1 DEF OpToRel
<1> QED
  BY <1>2

(* A set of naturals with a bound has a highest element.                   *)
LEMMA HighestIsMember ==
  ASSUME NEW S \in SUBSET Nat, S # {}, NEW bound \in Nat, \A n \in S : n <= bound
  PROVE  Highest(S) \in S
<1> DEFINE Below == {bound - n : n \in S}
<1>1. Below \subseteq Nat /\ Below # {}
  <2>1. ASSUME NEW n \in S
        PROVE  bound - n \in Nat
    BY SMT
  <2>2. \A m \in Below : \E n \in S : m = bound - n
    OBVIOUS
  <2>3. PICK n \in S : TRUE
    OBVIOUS
  <2>4. bound - n \in Below
    OBVIOUS
  <2> HIDE DEF Below
  <2> QED
    BY <2>1, <2>2, <2>4
<1>2. PICK least \in Below : \A m \in Below : least <= m
  <2> HIDE DEF Below
  <2> QED
    BY <1>1, LeastMember
<1>3. PICK n \in S : least = bound - n
  OBVIOUS
<1>4. ASSUME NEW k \in S
      PROVE  k <= n
  <2>1. least <= bound - k
    BY <1>2
  <2> QED
    BY <2>1, <1>3, SMT
<1> QED
  BY <1>4 DEF Highest

LEMMA HigherOfTwo ==
  ASSUME NEW a \in Nat, NEW b \in Nat
  PROVE  Highest({a, b}) \in Nat /\ Highest({a, b}) >= a /\ Highest({a, b}) >= b
<1>1. \E n \in {a, b} : \A k \in {a, b} : k <= n
  <2>1. CASE a <= b
    BY <2>1
  <2>2. CASE b <= a
    BY <2>2
  <2> QED
    BY <2>1, <2>2
<1>2. Highest({a, b}) \in {a, b} /\ \A k \in {a, b} : k <= Highest({a, b})
  BY <1>1 DEF Highest
<1> QED
  BY <1>2

-----------------------------------------------------------------------------
(* What is drawn.                                                          *)

ScreenType(fb) == fb \in [width : Nat, height : Nat, pitch : Nat] /\ FitsAddressSpace(fb)

LEMMA Limits == WordLimit \in Nat \ {0} /\ U32 \in Nat \ {0} /\ U32 = 4 * WordLimit
BY ConsoleAssumption DEF U32

(* What fits does not wrap. *)
LEMMA NoWrap ==
  ASSUME NEW limit \in Nat \ {0}, NEW n \in Nat, n < limit
  PROVE  n % limit = n
BY SMT

LEMMA QuotientOfFour ==
  ASSUME NEW p \in Nat
  PROVE  /\ p \div 4 \in Nat
         /\ \A w \in Nat : p >= 4 * w => p \div 4 >= w
         /\ \A w \in Nat : p = 4 * w => p \div 4 = w
  BY SMT

(* A row further down is not above it. *)
LEMMA Monotone ==
  ASSUME NEW a \in Nat, NEW b \in Nat, NEW q \in Nat, a <= b
  PROVE  a * q \in Nat /\ b * q \in Nat /\ a * q <= b * q /\ (b + 1) * q = b * q + q
  BY SMT

(* A pixel of the screen lies before its last one, or on it, as long as    *)
(* rows do not overlap, and in any case before what its rows take up.      *)
LEMMA PixelInside ==
  ASSUME NEW fb, ScreenType(fb), NEW x \in Nat, NEW y \in Nat, IsOnScreen(fb, x, y)
  PROVE  /\ Offset(fb, x, y) + 1 \in Nat
         /\ Offset(fb, x, y) + 1 <= fb.height * (fb.pitch \div 4) + fb.width
         /\ Offset(fb, x, y) + 1 <= BufferWords(fb)
<1> DEFINE q == fb.pitch \div 4
           w == fb.width
           h == fb.height
<1>1. q \in Nat /\ w \in Nat /\ h \in Nat /\ x < w /\ y < h
  BY QuotientOfFour DEF ScreenType, IsOnScreen
<1>2. h - 1 \in Nat /\ y <= h - 1 /\ (h - 1) + 1 = h
  BY <1>1, SMT
<1> HIDE DEF q, w, h
<1>3. y * q \in Nat /\ (h - 1) * q \in Nat /\ y * q <= (h - 1) * q /\ ((h - 1) + 1) * q = (h - 1) * q + q
  BY <1>1, <1>2, Monotone
<1>4. h * q = (h - 1) * q + q
  BY <1>2, <1>3
<1> DEFINE yq == y * q
           hq == (h - 1) * q
           all == h * q
<1>6. yq \in Nat /\ hq \in Nat /\ yq <= hq /\ all = hq + q
  BY <1>3, <1>4
<1>7. all < WordLimit /\ w < WordLimit
  BY DEF ScreenType, FitsAddressSpace, q, w, h
<1>5. /\ Offset(fb, x, y) = yq + x
      /\ BufferWords(fb) = hq + w
      /\ fb.height * (fb.pitch \div 4) + fb.width = all + w
  <2>1. Offset(fb, x, y) = (yq + x) % U32
    BY DEF Offset, q
  <2>2. BufferWords(fb) = hq + w /\ fb.height * (fb.pitch \div 4) + fb.width = all + w
    BY DEF BufferWords, q, w, h
  <2> HIDE DEF yq, hq, all
  <2>3. yq + x \in Nat /\ yq + x < U32
    BY <1>1, <1>6, <1>7, Limits
  <2> QED
    BY <2>1, <2>2, <2>3, NoWrap, Limits
<1> HIDE DEF yq, hq, all
<1> QED
  BY <1>1, <1>5, <1>6, SMT

(* How far a set of pixels of the screen, and what was there, reaches.     *)
Pixels(fb) == {Offset(fb, p[1], p[2]) + 1 : p \in {q \in Nat \X Nat : IsOnScreen(fb, q[1], q[2])}}

LEMMA HighestPixel ==
  ASSUME NEW fb, ScreenType(fb), NEW n \in Nat, NEW P \in SUBSET Pixels(fb)
  PROVE  /\ Highest({n} \cup P) \in {n} \cup P
         /\ Highest({n} \cup P) \in Nat
<1> DEFINE bound == n + fb.height * (fb.pitch \div 4) + fb.width
<1>1. fb.height * (fb.pitch \div 4) \in Nat /\ fb.width \in Nat
  <2>1. fb.pitch \div 4 \in Nat /\ fb.height \in Nat /\ fb.width \in Nat
    BY QuotientOfFour DEF ScreenType
  <2> HIDE DEF bound
  <2> QED
    BY <2>1, Monotone
<1>2. ASSUME NEW k \in {n} \cup P
      PROVE  k \in Nat /\ k <= bound
  <2>1. CASE k = n
    BY <2>1, <1>1, SMT
  <2>2. CASE k \in P
    <3>1. PICK p \in Nat \X Nat : IsOnScreen(fb, p[1], p[2]) /\ k = Offset(fb, p[1], p[2]) + 1
      BY <2>2 DEF Pixels
    <3>2. p[1] \in Nat /\ p[2] \in Nat
      OBVIOUS
    <3>3. k \in Nat /\ k <= fb.height * (fb.pitch \div 4) + fb.width
      BY <3>1, <3>2, PixelInside
    <3> QED
      BY <3>3, <1>1, SMT
  <2> QED
    BY <2>1, <2>2
<1>3. bound \in Nat
  BY <1>1, SMT
<1> HIDE DEF bound
<1> DEFINE S == {n} \cup P
<1>4. S \in SUBSET Nat /\ S # {} /\ \A k \in S : k <= bound
  BY <1>2
<1> HIDE DEF S
<1>5. Highest(S) \in S /\ Highest(S) \in Nat
  BY <1>3, <1>4, HighestIsMember
<1> QED
  BY <1>5 DEF S

LEMMA PaintedAreOnScreen ==
  ASSUME NEW fb, NEW x \in Nat, NEW y \in Nat, NEW w \in Nat, NEW h \in Nat
  PROVE  Painted(fb, x, y, w, h) \subseteq Pixels(fb)
<1> DEFINE onScreen == {q \in (x .. x + w - 1) \X (y .. y + h - 1) : IsOnScreen(fb, q[1], q[2])}
<1>1. ASSUME NEW k \in Painted(fb, x, y, w, h)
      PROVE  k \in Pixels(fb)
  <2>1. PICK p \in onScreen : k = Offset(fb, p[1], p[2]) + 1
    BY DEF Painted
  <2>2. p \in Nat \X Nat
    <3>1. x .. x + w - 1 \subseteq Nat /\ y .. y + h - 1 \subseteq Nat
      BY SMT
    <3> QED
      BY <3>1
  <2> QED
    BY <2>1, <2>2 DEF Pixels
<1> QED
  BY <1>1

LEMMA FilledAreOnScreen ==
  ASSUME NEW fb, ScreenType(fb), NEW x \in Nat, NEW y \in Nat, NEW w \in Nat, NEW h \in Nat,
         x + w < U32, y + h < U32
  PROVE  Filled(fb, x, y, w, h) \subseteq Pixels(fb)
<1> DEFINE width  == Clipped(x, w, fb.width)
           height == Clipped(y, h, fb.height)
<1>1. SUFFICES ASSUME IsOnScreen(fb, x, y), width > 0, height > 0
               PROVE  Offset(fb, x + width - 1, y + height - 1) + 1 \in Pixels(fb)
  BY DEF Filled
<1>2. width \in Nat /\ x + width <= fb.width /\ height \in Nat /\ y + height <= fb.height
  <2>1. (x + w) % U32 = x + w /\ (y + h) % U32 = y + h
    BY NoWrap, Limits
  <2>2. width = (IF x + w > fb.width THEN fb.width - x ELSE w) /\ height = (IF y + h > fb.height THEN fb.height - y ELSE h)
    BY <2>1 DEF Clipped
  <2> QED
    BY <1>1, <2>2 DEF IsOnScreen, ScreenType
<1>3. fb.width \in Nat /\ fb.height \in Nat
  BY DEF ScreenType
<1> HIDE DEF width, height
<1> DEFINE p == <<x + width - 1, y + height - 1>>
<1>4. p \in Nat \X Nat /\ IsOnScreen(fb, p[1], p[2])
  BY <1>1, <1>2, <1>3 DEF IsOnScreen
<1> QED
  BY <1>4 DEF Pixels

-----------------------------------------------------------------------------
(* How far is drawn.                                                       *)

Inside(fb, n) == fb.pitch >= 4 * fb.width => n <= BufferWords(fb)

(* In rows without gaps the last pixel is where the screen ends, which is  *)
(* where the last page ends when it is full.                               *)
LEMMA LastPixelIsMapped ==
  ASSUME NEW fb, ScreenType(fb), fb.pitch = 4 * fb.width, (fb.width * fb.height) % PageWords = 0
  PROVE  BufferWords(fb) = PagesOf(fb) * PageWords
<1> DEFINE w == fb.width
           h == fb.height
           P == PageWords
<1>1. w \in Nat /\ h \in Nat /\ P \in Nat \ {0}
  BY ConsoleAssumption DEF ScreenType
<1>2. fb.pitch \div 4 = w
  BY <1>1, QuotientOfFour DEF ScreenType
<1>3. BufferWords(fb) = (h - 1) * w + w
  BY <1>2 DEF BufferWords
<1>4. PagesOf(fb) * PageWords = (((w * h) % WordLimit) \div P) * P /\ (w * h) % P = 0 /\ w * h < WordLimit
  BY DEF PagesOf, ScreenType, FitsAddressSpace
<1> HIDE DEF w, h, P
<1>5. (h - 1) * w + w = w * h
  BY <1>1, SMT
<1>6. ASSUME NEW n \in Nat, n % P = 0
      PROVE  (n \div P) * P = n
  BY <1>1, <1>6, SMT
<1>7. w * h \in Nat
  BY <1>1, SMT
<1>8. (((w * h) % WordLimit) \div P) * P = w * h
  <2>1. (w * h) % WordLimit = w * h
    BY <1>4, <1>7, NoWrap, Limits
  <2> QED
    BY <1>4, <1>6, <1>7, <2>1
<1> QED
  BY <1>3, <1>4, <1>5, <1>8

LEMMA ClearedIsInside ==
  ASSUME NEW fb, ScreenType(fb), fb.height > 0
  PROVE  Inside(fb, Cleared(fb)) /\ Cleared(fb) \in Nat
<1> DEFINE w == fb.width
           h == fb.height
           q == fb.pitch \div 4
<1>1. w \in Nat /\ h \in Nat /\ h - 1 \in Nat /\ q \in Nat /\ (fb.pitch >= 4 * w => w <= q)
  BY QuotientOfFour DEF ScreenType
<1>2. Cleared(fb) = w * h /\ BufferWords(fb) = (h - 1) * q + w
  <2>1. w * h \in Nat /\ w * h < WordLimit
    <3>1. w * h < WordLimit
      BY DEF ScreenType, FitsAddressSpace
    <3> HIDE DEF w, h
    <3> QED
      BY <1>1, <3>1, SMT
  <2>2. w * h < U32
    BY <2>1, Limits
  <2>3. (w * h) % U32 = w * h
    BY <2>1, <2>2, NoWrap, Limits
  <2> QED
    BY <2>3 DEF Cleared, BufferWords
<1>3. Inside(fb, Cleared(fb)) <=> (fb.pitch >= 4 * w => w * h <= (h - 1) * q + w)
  BY <1>2 DEF Inside
<1> HIDE DEF w, h, q
<1>4. w * h \in Nat /\ w * h = (h - 1) * w + w /\ (h - 1) * w \in Nat /\ (h - 1) * q \in Nat
  BY <1>1, SMT
<1>5. w <= q => (h - 1) * w <= (h - 1) * q
  BY <1>1, SMT
<1>6. w <= q => w * h <= (h - 1) * q + w
  BY <1>1, <1>4, <1>5, SMT
<1> QED
  BY <1>1, <1>2, <1>3, <1>4, <1>6

LEMMA PixelsAreInside ==
  ASSUME NEW fb, ScreenType(fb), NEW n \in Nat, NEW P \in SUBSET Pixels(fb), Inside(fb, n)
  PROVE  /\ Highest({n} \cup P) \in Nat
         /\ Inside(fb, Highest({n} \cup P))
<1>1. \A k \in Pixels(fb) : Inside(fb, k)
  BY PixelInside DEF Pixels, Inside
<1> QED
  BY <1>1, HighestPixel

-----------------------------------------------------------------------------
(* The console's promises under any calls.                                 *)

(* Where the boot has mapped the screen, and how far is drawn.             *)
ConsoleInv ==
  /\ ConsoleTypeOK
  /\ startX \in Nat
  /\ FitsAddressSpace(screen)
  /\ mapped >= PagesOf(screen) * PageWords
  /\ Inside(screen, written)
  /\ InReadingOrder

LEMMA InsideIsMapped == ConsoleInv => DrawsInside
<1> SUFFICES ASSUME ConsoleInv
             PROVE  DrawsInside
  OBVIOUS
<1>1. ScreenType(screen) /\ Inside(screen, written) /\ mapped >= PagesOf(screen) * PageWords
      /\ mapped \in Nat /\ written \in Nat
  BY DEF ConsoleInv, ConsoleTypeOK, ScreenType
<1>2. screen.width \in Nat /\ screen.pitch \in Nat
  BY <1>1 DEF ScreenType
<1>3. screen.pitch = 4 * screen.width => screen.pitch >= 4 * screen.width
  BY <1>2, SMT
<1>4. ASSUME screen.pitch = 4 * screen.width, (screen.width * screen.height) % PageWords = 0
      PROVE  written <= mapped
  <2>1. BufferWords(screen) = PagesOf(screen) * PageWords /\ written <= BufferWords(screen)
    BY <1>1, <1>3, <1>4, LastPixelIsMapped DEF Inside
  <2>2. BufferWords(screen) \in Int
    <3>1. screen.pitch \div 4 \in Nat /\ screen.height \in Nat /\ screen.height - 1 \in Int /\ screen.width \in Nat
      BY <1>1, QuotientOfFour DEF ScreenType
    <3>2. (screen.height - 1) * (screen.pitch \div 4) \in Int
      BY <3>1, SMT
    <3> QED
      BY <3>1, <3>2 DEF BufferWords
  <2> QED
    BY <1>1, <2>1, <2>2
<1> QED
  BY <1>1, <1>4 DEF DrawsInside, Inside

LEMMA ConsoleStart == LogInit => ConsoleInv
<1> SUFFICES ASSUME LogInit
             PROVE  ConsoleInv
  OBVIOUS
<1>1. screen = [width |-> 0, height |-> 0, pitch |-> 0] /\ mapped = 0 /\ written = 0
  BY DEF LogInit, ConsoleInit
<1>2. screen.width = 0 /\ screen.height = 0 /\ screen.pitch = 0 /\ ScreenType(screen)
  <2>1. FitsAddressSpace(screen)
    <3>1. 0 \div 4 = 0 /\ 0 * 0 = 0 /\ 0 < WordLimit
      BY Limits, SMT
    <3> QED
      BY <1>1, <3>1 DEF FitsAddressSpace
  <2> QED
    BY <1>1, <2>1 DEF ScreenType
<1>3. PagesOf(screen) * PageWords = 0
  <2>1. PagesOf(screen) = 0 \div PageWords
    <3>1. 0 * 0 = 0 /\ 0 % WordLimit = 0
      BY Limits, NoWrap, SMT
    <3> QED
      BY <1>2, <3>1 DEF PagesOf
  <2>2. (0 \div PageWords) * PageWords = 0
    BY ConsoleAssumption, SMT
  <2> QED
    BY <2>1, <2>2
<1>4. Inside(screen, written)
  BY <1>1, <1>2, SMT DEF Inside, BufferWords
<1>5. ConsoleTypeOK /\ startX \in Nat /\ InReadingOrder
  BY <1>1, SMT DEF LogInit, ConsoleInit, ConsoleTypeOK, InReadingOrder, Nowhere
<1> QED
  BY <1>1, <1>2, <1>3, <1>4, <1>5 DEF ConsoleInv, ScreenType

(* The boot loader's screen is set up before anything is drawn.            *)
LEMMA ScreenSetUp ==
  ASSUME ConsoleInv, NEW tag \in Tags, SetUpScreen(tag), UNCHANGED startX
  PROVE  ConsoleInv'
<1> DEFINE fb == [width |-> tag.width, height |-> tag.height, pitch |-> tag.pitch]
           P == Painted(fb, Image.at, Image.at, Image.width, Image.height)
<1>1. CASE ~ IsUsable(tag)
  BY <1>1 DEF SetUpScreen, consoleVars, ConsoleInv, ConsoleTypeOK, InReadingOrder, Inside, BufferWords, PagesOf, FitsAddressSpace
<1>2. CASE IsUsable(tag)
  <2>1. /\ screen' = fb
        /\ mapped' = Highest({mapped, PagesOf(fb) * PageWords})
        /\ written' = Highest({Cleared(fb)} \cup P)
        /\ cursor' = [x |-> 10, y |-> 10]
        /\ lastGlyph' = Nowhere
    BY <1>2 DEF SetUpScreen
  <2>2. tag.width \in Nat /\ tag.height \in Nat /\ tag.pitch \in Nat /\ tag.height # 0
    BY <1>2, LogAssumption DEF IsUsable
  <2>3. ScreenType(fb) /\ fb.height > 0
    BY <2>2, LogAssumption DEF ScreenType, FitsAddressSpace
  <2> HIDE DEF fb
  <2>5. P \subseteq Pixels(fb)
    BY ConsoleAssumption, PaintedAreOnScreen
  <2> HIDE DEF P
  <2>6. Inside(fb, Cleared(fb)) /\ Cleared(fb) \in Nat
    BY <2>3, ClearedIsInside
  <2>7. written' \in Nat /\ Inside(fb, written')
    BY <2>1, <2>3, <2>5, <2>6, PixelsAreInside
  <2>8. mapped' \in Nat /\ mapped' >= PagesOf(fb) * PageWords
    <3>1. fb.width \in Nat /\ fb.height \in Nat /\ PageWords \in Nat \ {0}
      BY <2>3, ConsoleAssumption DEF ScreenType
    <3>2. fb.width * fb.height \in Nat
      BY <3>1, SMT
    <3>3. PagesOf(fb) \in Nat
      <4>1. (fb.width * fb.height) % WordLimit \in Nat
        BY <3>2, Limits, SMT
      <4> QED
        BY <3>1, <4>1, SMT DEF PagesOf
    <3>4. PagesOf(fb) * PageWords \in Nat
      BY <3>1, <3>3, SMT
    <3>5. mapped \in Nat
      BY DEF ConsoleInv, ConsoleTypeOK
    <3> QED
      BY <2>1, <3>4, <3>5, HigherOfTwo
  <2>9. cursor' \in [x : Nat, y : Nat]
    BY <2>1
  <2>10. ConsoleTypeOK'
    BY <2>1, <2>3, <2>7, <2>8, <2>9 DEF ConsoleTypeOK, ScreenType
  <2> QED
    <3>1. FitsAddressSpace(screen') /\ mapped' >= PagesOf(screen') * PageWords /\ Inside(screen', written')
      BY <2>1, <2>3, <2>7, <2>8 DEF ScreenType
    <3>2. InReadingOrder'
      BY <2>1 DEF InReadingOrder
    <3> QED
      BY <2>10, <3>1, <3>2 DEF ConsoleInv, Inside, BufferWords, PagesOf, FitsAddressSpace
<1> QED
  BY <1>1, <1>2

LEMMA RectangleFilled ==
  ASSUME ConsoleInv, NEW r \in Rectangles, fillRect(r.x, r.y, r.w, r.h), UNCHANGED startX
  PROVE  ConsoleInv'
<1>1. r.x \in Nat /\ r.y \in Nat /\ r.w \in Nat /\ r.h \in Nat /\ r.x + r.w < U32 /\ r.y + r.h < U32
  BY LogAssumption
<1>2. ScreenType(screen) /\ written \in Nat /\ Inside(screen, written)
  BY DEF ConsoleInv, ConsoleTypeOK, ScreenType
<1>3. Filled(screen, r.x, r.y, r.w, r.h) \subseteq Pixels(screen)
  BY <1>1, <1>2, FilledAreOnScreen
<1>4. written' \in Nat /\ Inside(screen, written')
  BY <1>2, <1>3, PixelsAreInside DEF fillRect
<1>5. UNCHANGED <<screen, mapped, cursor, lastGlyph, startX>>
  BY DEF fillRect
<1> QED
  BY <1>4, <1>5 DEF ConsoleInv, ConsoleTypeOK, InReadingOrder, Inside, BufferWords, PagesOf, FitsAddressSpace

(* A character: the cursor leaves the glyph behind it.                     *)
LEMMA GlyphPut ==
  ASSUME ConsoleInv, NEW c, NEW advance \in Nat, PutGlyph(c, advance), UNCHANGED <<screen, mapped, startX>>
  PROVE  ConsoleInv'
<1>1. /\ ScreenType(screen) /\ written \in Nat /\ Inside(screen, written)
      /\ cursor \in [x : Nat, y : Nat]
  BY DEF ConsoleInv, ConsoleTypeOK, ScreenType
<1>2. PICK width \in Nat : /\ cursor' = [cursor EXCEPT !.x = @ + advance + width]
                          /\ \/ UNCHANGED <<written, lastGlyph>>
                             \/ width = 8 /\ DrawGlyph
  BY DEF PutGlyph
<1>3. /\ cursor' \in [x : Nat, y : Nat]
      /\ cursor'.x = cursor.x + advance + width /\ cursor'.y = cursor.y
  BY <1>1, <1>2
<1>4. cursor.x \in Nat /\ cursor.y \in Nat
  BY <1>1
<1>5. CASE UNCHANGED <<written, lastGlyph>>
  <2>1. InReadingOrder'
    <3>1. SUFFICES ASSUME lastGlyph # Nowhere
                   PROVE  \/ cursor'.y >= lastGlyph.y + 8
                          \/ cursor'.y = lastGlyph.y /\ cursor'.x >= lastGlyph.x + 8
      BY <1>5 DEF InReadingOrder
    <3>2. lastGlyph.x \in Int /\ lastGlyph.y \in Int
      BY <3>1 DEF ConsoleInv, ConsoleTypeOK
    <3>3. \/ cursor.y >= lastGlyph.y + 8
          \/ cursor.y = lastGlyph.y /\ cursor.x >= lastGlyph.x + 8
      BY <3>1 DEF ConsoleInv, InReadingOrder
    <3> QED
      BY <1>3, <1>4, <3>2, <3>3, SMT
  <2> QED
    BY <1>1, <1>3, <1>5, <2>1 DEF ConsoleInv, ConsoleTypeOK, Inside, BufferWords, PagesOf, FitsAddressSpace
<1>6. CASE width = 8 /\ DrawGlyph
  <2> DEFINE P == Painted(screen, cursor.x, cursor.y, 8, 8)
  <2>1. P \subseteq Pixels(screen)
    BY <1>4, PaintedAreOnScreen
  <2>2. written' = Highest({written} \cup P) /\ lastGlyph' = IF P = {} THEN lastGlyph ELSE cursor
    BY <1>6 DEF DrawGlyph
  <2>3. P # {} => cursor.x \in 0 .. screen.width - 1 /\ cursor.y \in 0 .. screen.height - 1
    <3>1. SUFFICES ASSUME P # {}
                   PROVE  cursor.x < screen.width /\ cursor.y < screen.height
      BY <1>1, <1>4 DEF ScreenType
    <3>2. PICK p \in (cursor.x .. cursor.x + 8 - 1) \X (cursor.y .. cursor.y + 8 - 1) : IsOnScreen(screen, p[1], p[2])
      BY <3>1 DEF Painted
    <3>3. p[1] \in cursor.x .. cursor.x + 8 - 1 /\ p[2] \in cursor.y .. cursor.y + 8 - 1
      BY <3>2
    <3>4. p[1] < screen.width /\ p[2] < screen.height
      BY <3>2 DEF IsOnScreen
    <3> QED
      BY <1>1, <1>4, <3>3, <3>4 DEF ScreenType
  <2> HIDE DEF P
  <2>4. written' \in Nat /\ Inside(screen, written')
    BY <1>1, <2>1, <2>2, PixelsAreInside
  <2>5. ConsoleTypeOK'
    <3>1. \/ lastGlyph' = Nowhere
          \/ lastGlyph'.x \in 0 .. screen.width - 1 /\ lastGlyph'.y \in 0 .. screen.height - 1
      BY <2>2, <2>3 DEF ConsoleInv, ConsoleTypeOK
    <3> QED
      BY <1>1, <1>3, <2>4, <3>1 DEF ConsoleInv, ConsoleTypeOK
  <2>6. InReadingOrder'
    <3>1. CASE P = {}
      <4>1. SUFFICES ASSUME lastGlyph # Nowhere
                     PROVE  \/ cursor'.y >= lastGlyph.y + 8
                            \/ cursor'.y = lastGlyph.y /\ cursor'.x >= lastGlyph.x + 8
        BY <2>2, <3>1 DEF InReadingOrder
      <4>2. lastGlyph.x \in Int /\ lastGlyph.y \in Int
        BY <4>1 DEF ConsoleInv, ConsoleTypeOK
      <4>3. \/ cursor.y >= lastGlyph.y + 8
            \/ cursor.y = lastGlyph.y /\ cursor.x >= lastGlyph.x + 8
        BY <4>1 DEF ConsoleInv, InReadingOrder
      <4> QED
        BY <1>3, <1>4, <4>2, <4>3, SMT
    <3>2. CASE P # {}
      <4>1. lastGlyph' = cursor /\ cursor'.y = cursor.y /\ cursor'.x >= cursor.x + 8
        BY <1>3, <1>4, <1>6, <2>2, <3>2, SMT
      <4> QED
        BY <4>1 DEF InReadingOrder
    <3> QED
      BY <3>1, <3>2
  <2> QED
    BY <1>1, <2>4, <2>5, <2>6 DEF ConsoleInv, Inside, BufferWords, PagesOf, FitsAddressSpace
<1> QED
  BY <1>2, <1>5, <1>6

(* A newline, to whatever column: the cursor leaves the line of the glyph. *)
LEMMA LineEnded ==
  ASSUME ConsoleInv, NEW x \in Nat, Newline(x), UNCHANGED <<screen, mapped, written, lastGlyph, startX>>
  PROVE  ConsoleInv'
<1>1. cursor' = [x |-> x, y |-> cursor.y + 10] /\ cursor.y \in Nat /\ cursor.x \in Nat
  BY DEF Newline, ConsoleInv, ConsoleTypeOK
<1>2. cursor' \in [x : Nat, y : Nat] /\ cursor'.y = cursor.y + 10
  BY <1>1
<1>3. InReadingOrder'
  <2>1. SUFFICES ASSUME lastGlyph # Nowhere
                 PROVE  cursor'.y >= lastGlyph.y + 8
    BY DEF InReadingOrder
  <2>2. lastGlyph.x \in Int /\ lastGlyph.y \in Int
    BY <2>1 DEF ConsoleInv, ConsoleTypeOK
  <2>3. cursor.y >= lastGlyph.y + 8 \/ cursor.y = lastGlyph.y
    BY <2>1 DEF ConsoleInv, InReadingOrder
  <2> QED
    BY <1>1, <1>2, <2>2, <2>3, SMT
<1> QED
  BY <1>2, <1>3 DEF ConsoleInv, ConsoleTypeOK, Inside, BufferWords, PagesOf, FitsAddressSpace

LEMMA NextConsole == ConsoleInv /\ [LogNext]_<<consoleVars, logVars>> => ConsoleInv'
<1> SUFFICES ASSUME ConsoleInv, [LogNext]_<<consoleVars, logVars>>
             PROVE  ConsoleInv'
  OBVIOUS
<1> DEFINE Kept == UNCHANGED consoleVars
<1>1. ASSUME Kept, startX' \in Nat
      PROVE  ConsoleInv'
  BY <1>1 DEF consoleVars, ConsoleInv, ConsoleTypeOK, InReadingOrder, Inside, BufferWords, PagesOf, FitsAddressSpace
<1>2. cursor.x \in Nat /\ startX \in Nat
  BY DEF ConsoleInv, ConsoleTypeOK
<1>3. ASSUME NEW of, NEW pieces, NEW characters, Begin(of, pieces, characters)
      PROVE  ConsoleInv'
  BY <1>1, <1>2, <1>3 DEF Begin
<1>4. CASE \E pieces \in Formats :
             log(pieces) \/ warn(pieces) \/ error(pieces) \/ fatal(pieces) \/ debug(pieces)
  BY <1>3, <1>4 DEF log, warn, error, fatal, debug
<1>5. CASE \E text \in Texts : prints(text) \/ kprints(text) \/ println(text)
  BY <1>3, <1>5 DEF prints, kprints, println
<1>6. CASE \E pieces \in Alarms : panic(pieces)
  BY <1>1, <1>2, <1>6 DEF panic
<1>7. CASE PutNext
  <2> DEFINE c  == Head(pending).char
             to == Head(pending).to
  <2>1. /\ \/ to = "screen" /\ putChar(c)
           \/ to = "print" /\ PrintChar(c, startX)
           \/ to = "print again" /\ PrintChar(c, cursor.x)
           \/ to = "serial" /\ Kept
        /\ UNCHANGED startX
    BY <1>7 DEF PutNext
  <2> HIDE DEF c, to
  <2>2. CASE putChar(c)
    BY <2>1, <2>2, GlyphPut, LineEnded DEF putChar
  <2>3. ASSUME NEW x \in Nat, PrintChar(c, x)
        PROVE  ConsoleInv'
    BY <2>1, <2>3, GlyphPut, LineEnded DEF PrintChar
  <2>4. CASE Kept
    BY <1>1, <1>2, <2>1, <2>4
  <2> QED
    BY <1>2, <2>1, <2>2, <2>3, <2>4
<1>8. CASE Return
  BY <1>1, <1>8 DEF Return
<1>9. CASE FramebufferTag
  BY <1>9, ScreenSetUp DEF FramebufferTag, logVars
<1>10. CASE FillRectangle
  BY <1>10, RectangleFilled DEF FillRectangle, logVars
<1>11. CASE Stopped \/ UNCHANGED <<consoleVars, logVars>>
  BY <1>1, <1>2, <1>11 DEF Stopped, logVars
<1> QED
  BY <1>4, <1>5, <1>6, <1>7, <1>8, <1>9, <1>10, <1>11 DEF LogNext

(* The inductive invariant of the console holds under any calls of the log *)
(* and of the drawing of stage2.                                           *)
THEOREM ConsoleInvariance == LogSpec => []ConsoleInv
<1> QED BY ConsoleStart, NextConsole, PTL DEF LogSpec

(* The buffer is not written behind the last pixel of the screen nor,      *)
(* where the screen is full pages without gaps, behind what is mapped -    *)
(* for any picture and text and for rectangles whose edges do not wrap, on *)
(* screens of all sizes that fit the address space.                        *)
THEOREM DrawingStaysInside == LogSpec => []DrawsInside
<1> QED BY ConsoleInvariance, InsideIsMapped, PTL

(* Text follows text: whatever log, warn, print, println and panic write,  *)
(* and whoever interrupts whom, the cursor is past the last glyph seen.    *)
THEOREM TextIsInReadingOrder == LogSpec => []InReadingOrder
<1>1. ConsoleInv => InReadingOrder
  BY DEF ConsoleInv
<1> QED BY <1>1, ConsoleInvariance, PTL

-----------------------------------------------------------------------------
(* Flattening. *)

(* The first i sequences, one after the other.                             *)
IsFlattening(f, seqs, S) ==
  /\ f \in [0 .. Len(seqs) -> Seq(S)]
  /\ f[0] = <<>>
  /\ \A i \in 1 .. Len(seqs) : f[i] = f[i - 1] \o seqs[i]

(* The recursion that defines FlattenSeq has a solution, which puts one    *)
(* sequence after the other.                                               *)
LEMMA FlattenLemma ==
  ASSUME NEW S, NEW seqs \in Seq(Seq(S))
  PROVE  \E f : IsFlattening(f, seqs, S) /\ FlattenSeq(seqs) = f[Len(seqs)]
<1> DEFINE n == Len(seqs)
<1>1. n \in Nat /\ \A i \in 1 .. n : seqs[i] \in Seq(S)
  OBVIOUS
<1>2. <<>> \in Seq(S)
  OBVIOUS
<1>3. CASE n = 0
  <2>1. seqs = <<>> /\ FlattenSeq(seqs) = seqs
    BY <1>3 DEF FlattenSeq
  <2> DEFINE f == [i \in 0 .. 0 |-> <<>>]
  <2>2. f \in [0 .. n -> Seq(S)] /\ f[0] = <<>> /\ f[n] = <<>> /\ \A i \in 1 .. n : FALSE
    BY <1>2, <1>3
  <2>3. IsFlattening(f, seqs, S)
    BY <2>2 DEF IsFlattening
  <2> HIDE DEF f
  <2> QED
    BY <2>1, <2>2, <2>3
<1>4. CASE n # 0
  <2> DEFINE Def(f)  == f = [i \in 1 .. n |-> IF i = 1 THEN seqs[i] ELSE f[i - 1] \o seqs[i]]
             D       == 1 .. n
             rank    == [i \in D |-> i]
             given   == [i \in {1} |-> seqs[i]]
             before  == [i \in D \ {1} |-> i - 1]
             step    == [p \in (D \ {1}) \X Seq(S) |-> p[2] \o seqs[p[1]]]
  <2>1. \E f : Def(f)
    <3>1. /\ rank \in [D -> 0 .. n] /\ {1} \subseteq D /\ given \in [{1} -> Seq(S)]
          /\ before \in [D \ {1} -> D] /\ \A i \in D \ {1} : rank[before[i]] < rank[i]
      BY <1>1, <1>4
    <3>2. step \in [(D \ {1}) \X Seq(S) -> Seq(S)]
      <4>1. ASSUME NEW p \in (D \ {1}) \X Seq(S)
            PROVE  p[2] \o seqs[p[1]] \in Seq(S)
        <5>1. p[2] \in Seq(S) /\ seqs[p[1]] \in Seq(S)
          BY <1>1
        <5> QED
          BY <5>1, ConcatProperties
      <4> HIDE DEF D
      <4> QED
        BY <4>1
    <3>3. IsRecursion(D, Seq(S), n, rank, {1}, given, before, step)
      <4> HIDE DEF D, rank, given, before, step, n
      <4> QED
        BY <1>1, <1>2, <3>1, <3>2 DEF IsRecursion
    <3>4. PICK f \in [D -> Seq(S)] : Solves(f, D, given, before, step)
      <4> HIDE DEF D, rank, given, before, step, n
      <4> QED
        BY <3>3, Recursion
    <3>5. ASSUME NEW i \in D
          PROVE  f[i] = IF i = 1 THEN seqs[i] ELSE f[i - 1] \o seqs[i]
      <4>1. CASE i = 1
        BY <3>4, <4>1 DEF Solves
      <4>2. CASE i # 1
        <5>1. i \in D \ {1} /\ i - 1 \in D /\ DOMAIN given = {1}
          BY <1>1, <4>2
        <5>2. before[i] = i - 1
          BY <5>1
        <5>3. f[i] = step[<<i, f[i - 1]>>] /\ f[i - 1] \in Seq(S)
          <6> HIDE DEF D, given, before, step
          <6> QED
            BY <3>4, <4>2, <5>1, <5>2 DEF Solves
        <5>4. step[<<i, f[i - 1]>>] = f[i - 1] \o seqs[i]
          <6> HIDE DEF D
          <6> QED
            BY <5>1, <5>3
        <5> QED
          BY <4>2, <5>3, <5>4
      <4> QED
        BY <4>1, <4>2
    <3>6. Def(f)
      <4> HIDE DEF n
      <4> QED
        BY <3>5
    <3> QED
      BY <3>6
  <2> DEFINE flatten == CHOOSE f : Def(f)
  <2>2. Def(flatten)
    <3> HIDE DEF Def
    <3> QED
      BY <2>1
  <2>3. FlattenSeq(seqs) = flatten[n]
    BY <1>4 DEF FlattenSeq
  <2> HIDE DEF flatten
  <2>4. \A i \in D : flatten[i] = IF i = 1 THEN seqs[i] ELSE flatten[i - 1] \o seqs[i]
    <3> HIDE DEF n
    <3> QED
      BY <2>2, Zenon
  <2> DEFINE f == [i \in 0 .. n |-> IF i = 0 THEN <<>> ELSE flatten[i]]
             T == {i \in Nat : i <= n => f[i] \in Seq(S)}
  <2>5. ASSUME NEW i \in 1 .. n
        PROVE  f[i] = f[i - 1] \o seqs[i]
    <3>1. CASE i = 1
      <4>1. f[i] = seqs[i] /\ f[i - 1] = <<>>
        BY <2>4, <3>1
      <4>2. seqs[i] \in Seq(S)
        BY <1>1
      <4>3. <<>> \o seqs[i] = seqs[i]
        BY <4>2, ConcatEmptySeq
      <4> QED
        BY <4>1, <4>3
    <3>2. CASE i # 1
      <4>1. i - 1 \in 1 .. n /\ i - 1 # 0 /\ i # 0 /\ i \in 0 .. n /\ i - 1 \in 0 .. n
        BY <1>1, <3>2
      <4> HIDE DEF n
      <4>2. f[i] = flatten[i] /\ f[i - 1] = flatten[i - 1]
        BY <4>1
      <4> QED
        BY <2>4, <3>2, <4>2
    <3> QED
      BY <3>1, <3>2
  <2>6. T = Nat
    <3>1. 0 \in T
      BY <1>2
    <3>2. ASSUME NEW i \in T
          PROVE  i + 1 \in T
      <4>1. SUFFICES ASSUME i + 1 <= n
                     PROVE  f[i + 1] \in Seq(S)
        OBVIOUS
      <4>2. i + 1 \in 1 .. n /\ (i + 1) - 1 = i /\ i <= n
        BY <1>1, <4>1
      <4>3. f[i] \in Seq(S) /\ seqs[i + 1] \in Seq(S)
        BY <1>1, <4>2
      <4>4. f[i + 1] = f[i] \o seqs[i + 1]
        <5> HIDE DEF f
        <5> QED
          BY <2>5, <4>2
      <4> HIDE DEF f
      <4> QED
        BY <4>3, <4>4, ConcatProperties
    <3>3. T \in SUBSET Nat
      OBVIOUS
    <3> HIDE DEF T
    <3> QED
      BY <3>1, <3>2, <3>3, Induction
  <2>7. f[0] = <<>> /\ f[n] = flatten[n]
    BY <1>1, <1>4
  <2>8. f \in [0 .. n -> Seq(S)]
    <3>1. \A i \in 0 .. n : i \in T
      <4> HIDE DEF T
      <4> QED
        BY <1>1, <2>6
    <3>2. \A i \in 0 .. n : f[i] \in Seq(S)
      BY <1>1, <3>1
    <3> QED
      BY <3>2
  <2>9. IsFlattening(f, seqs, S)
    <3> HIDE DEF f
    <3> QED
      BY <2>5, <2>7, <2>8 DEF IsFlattening
  <2> HIDE DEF f
  <2> QED
    BY <2>3, <2>7, <2>9
<1> QED
  BY <1>3, <1>4

(* What is flattened stays where it is: the i-th sequence begins behind    *)
(* the ones before it.                                                     *)
IsFlattenedAt(f, seqs, i) ==
  /\ Len(f[i]) = Len(f[i - 1]) + Len(seqs[i])
  /\ Len(f[i]) <= Len(f[Len(seqs)])
  /\ \A t \in 1 .. Len(seqs[i]) : f[Len(seqs)][Len(f[i - 1]) + t] = seqs[i][t]

LEMMA FlattenedAt ==
  ASSUME NEW S, NEW seqs \in Seq(Seq(S)), NEW f, IsFlattening(f, seqs, S), NEW i \in 1 .. Len(seqs)
  PROVE  IsFlattenedAt(f, seqs, i)
<1> DEFINE n == Len(seqs)
           Kept(m) == Len(f[i]) <= Len(f[m]) /\ \A t \in 1 .. Len(f[i]) : f[m][t] = f[i][t]
           T == {d \in Nat : i + d <= n => Kept(i + d)}
<1>1. /\ n \in Nat /\ i \in Nat /\ i - 1 \in 0 .. n
      /\ \A m \in 0 .. n : f[m] \in Seq(S)
      /\ \A m \in 1 .. n : seqs[m] \in Seq(S) /\ f[m] = f[m - 1] \o seqs[m]
  <2>1. n \in Nat /\ \A m \in 1 .. n : seqs[m] \in Seq(S)
    OBVIOUS
  <2>2. i \in Nat /\ i - 1 \in 0 .. n
    BY <2>1
  <2> HIDE DEF n
  <2>3. \A m \in 0 .. n : f[m] \in Seq(S)
    BY DEF IsFlattening, n
  <2>4. \A m \in 1 .. n : f[m] = f[m - 1] \o seqs[m]
    BY DEF IsFlattening, n
  <2> QED
    BY <2>1, <2>2, <2>3, <2>4
<1>2. ASSUME NEW m \in 1 .. n
      PROVE  /\ Len(f[m - 1]) \in Nat /\ Len(seqs[m]) \in Nat
             /\ Len(f[m]) = Len(f[m - 1]) + Len(seqs[m])
             /\ \A t \in 1 .. Len(f[m - 1]) + Len(seqs[m]) :
                  f[m][t] = IF t <= Len(f[m - 1]) THEN f[m - 1][t] ELSE seqs[m][t - Len(f[m - 1])]
  <2>1. m - 1 \in 0 .. n
    BY <1>1
  <2>2. f[m - 1] \in Seq(S) /\ seqs[m] \in Seq(S) /\ f[m] = f[m - 1] \o seqs[m]
    BY <1>1, <2>1
  <2> HIDE DEF n
  <2>3. /\ Len(f[m - 1] \o seqs[m]) = Len(f[m - 1]) + Len(seqs[m])
        /\ \A t \in 1 .. Len(f[m - 1]) + Len(seqs[m]) :
             (f[m - 1] \o seqs[m])[t] = IF t <= Len(f[m - 1]) THEN f[m - 1][t] ELSE seqs[m][t - Len(f[m - 1])]
    BY <2>2, ConcatProperties
  <2>4. Len(f[m - 1]) \in Nat /\ Len(seqs[m]) \in Nat
    BY <2>2
  <2> QED
    BY <2>2, <2>3, <2>4
<1>3. T = Nat
  <2>1. 0 \in T
    <3>1. i + 0 = i /\ i \in 0 .. n
      BY <1>1
    <3>2. Len(f[i]) \in Nat
      BY <1>1, <3>1
    <3>3. Kept(i)
      BY <3>2
    <3> QED
      BY <3>1, <3>3
  <2>2. ASSUME NEW d \in T
        PROVE  d + 1 \in T
    <3>1. SUFFICES ASSUME i + (d + 1) <= n
                   PROVE  Kept(i + (d + 1))
      OBVIOUS
    <3>2. PICK m : m = i + (d + 1)
      OBVIOUS
    <3>3. m \in 1 .. n /\ m - 1 = i + d /\ i + d <= n /\ i \in 0 .. n /\ d \in Nat
      BY <1>1, <3>1, <3>2
    <3>4. Kept(m - 1)
      BY <3>3
    <3>5. Len(f[i]) \in Nat
      BY <1>1, <3>3
    <3>6. PICK a, b, c : a = Len(f[m - 1]) /\ b = Len(seqs[m]) /\ c = Len(f[i])
      OBVIOUS
    <3> HIDE DEF n
    <3>7. /\ a \in Nat /\ b \in Nat /\ c \in Nat /\ Len(f[m]) = a + b
          /\ \A t \in 1 .. a + b : f[m][t] = IF t <= a THEN f[m - 1][t] ELSE seqs[m][t - a]
      BY <1>2, <3>3, <3>5, <3>6
    <3>8. c <= a /\ \A t \in 1 .. c : f[m - 1][t] = f[i][t]
      BY <3>4, <3>6
    <3>10. a \in Nat /\ b \in Nat /\ c \in Nat /\ c <= a /\ Len(f[m]) = a + b /\ Len(f[i]) = c
      BY <3>6, <3>7, <3>8
    <3>9. Kept(m)
      <4>1. Len(f[i]) <= Len(f[m])
        BY <3>10
      <4>2. ASSUME NEW t \in 1 .. Len(f[i])
            PROVE  f[m][t] = f[i][t]
        <5>1. t \in 1 .. c /\ t \in 1 .. a + b /\ t <= a
          BY <3>10
        <5> QED
          BY <3>7, <3>8, <5>1
      <4> QED
        BY <4>1, <4>2
    <3> QED
      BY <3>2, <3>9
  <2>3. T \in SUBSET Nat
    OBVIOUS
  <2> HIDE DEF T
  <2> QED
    BY <2>1, <2>2, <2>3, Induction
<1>4. Kept(n)
  <2>1. n - i \in Nat /\ i + (n - i) = n /\ n <= n
    BY <1>1
  <2>2. n - i \in T
    <3> HIDE DEF T
    <3> QED
      BY <1>3, <2>1
  <2> QED
    BY <2>1, <2>2
<1>5. Len(f[i]) = Len(f[i - 1]) + Len(seqs[i]) /\ Len(f[i - 1]) \in Nat /\ Len(seqs[i]) \in Nat
  BY <1>2
<1>6. ASSUME NEW t \in 1 .. Len(seqs[i])
      PROVE  f[n][Len(f[i - 1]) + t] = seqs[i][t]
  <2>1. PICK a, b, u : a = Len(f[i - 1]) /\ b = Len(seqs[i]) /\ u = a + t
    OBVIOUS
  <2>2. a \in Nat /\ b \in Nat /\ t \in 1 .. b /\ Len(f[i]) = a + b
    BY <1>5, <2>1
  <2>6. u = a + t /\ a \in Nat /\ b \in Nat /\ t \in Nat /\ 1 <= t /\ t <= b
    BY <2>1, <2>2
  <2>3. u \in 1 .. a + b /\ ~ (u <= a) /\ u - a = t
    BY <2>6
  <2>4. f[i][u] = seqs[i][t]
    BY <1>2, <2>1, <2>3
  <2>5. f[n][u] = f[i][u]
    <3>1. u \in 1 .. Len(f[i])
      BY <2>2, <2>3
    <3> QED
      BY <1>4, <3>1
  <2> QED
    BY <2>1, <2>4, <2>5
<1> QED
  BY <1>4, <1>5, <1>6 DEF IsFlattenedAt

-----------------------------------------------------------------------------
(* What printf prints of a format and its arguments.                       *)

IsLiteralEnd(format, start, j) ==
  /\ j \in start + 1 .. Len(format) + 1
  /\ j = Len(format) + 1 \/ format[j] = "%"
  /\ \A k \in start + 1 .. j - 1 : format[k] # "%"

LEMMA LiteralEndLemma ==
  ASSUME NEW format, Len(format) \in Nat, NEW start \in 1 .. Len(format)
  PROVE  /\ IsLiteralEnd(format, start, LiteralEnd(format, start))
         /\ \A j : IsLiteralEnd(format, start, j) => j = LiteralEnd(format, start)
<1> DEFINE n    == Len(format)
           Ends == {j \in start + 1 .. n + 1 : j = n + 1 \/ format[j] = "%"}
<1>1. start \in Nat /\ n \in Nat /\ n + 1 \in Ends /\ Ends \in SUBSET Nat
  OBVIOUS
<1>2. PICK j \in Ends : \A k \in Ends : j <= k
  <2> HIDE DEF Ends
  <2> QED
    BY <1>1, LeastMember
<1>3. IsLiteralEnd(format, start, j)
  <2>1. ASSUME NEW k \in start + 1 .. j - 1, format[k] = "%"
        PROVE  FALSE
    <3>1. k \in Ends /\ ~ (j <= k)
      BY <2>1
    <3> QED
      BY <1>2, <3>1
  <2> QED
    BY <2>1 DEF IsLiteralEnd
<1>4. ASSUME NEW i, NEW k, IsLiteralEnd(format, start, i), IsLiteralEnd(format, start, k)
      PROVE  ~ (i < k)
  <2>1. SUFFICES ASSUME i < k
                 PROVE  FALSE
    OBVIOUS
  <2>2. i \in start + 1 .. k - 1 /\ i # n + 1
    BY <1>1, <1>4, <2>1 DEF IsLiteralEnd
  <2> QED
    BY <1>4, <2>2 DEF IsLiteralEnd
<1>5. ASSUME NEW i, NEW k, IsLiteralEnd(format, start, i), IsLiteralEnd(format, start, k)
      PROVE  i = k
  <2>1. i \in Int /\ k \in Int
    BY <1>1, <1>5 DEF IsLiteralEnd
  <2>2. ~ (i < k)
    BY <1>4, <1>5
  <2>3. ~ (k < i)
    BY <1>4, <1>5
  <2> QED
    BY <2>1, <2>2, <2>3
<1>6. LiteralEnd(format, start) = CHOOSE i \in start + 1 .. n + 1 : IsLiteralEnd(format, start, i)
  BY DEF LiteralEnd, IsLiteralEnd
<1>7. IsLiteralEnd(format, start, LiteralEnd(format, start))
  <2>1. j \in start + 1 .. n + 1
    OBVIOUS
  <2> HIDE DEF Ends, n
  <2> QED
    BY <1>3, <1>6, <2>1
<1> QED
  BY <1>5, <1>7

(* The cases of the loop of printf. *)
IsPrintedFrom(from, format, args, i, k) ==
  LET here == PrintedFrom(from, format, args, i, k)
      end(start) == LiteralEnd(format, start)
  IN  /\ i = Len(format) + 1 => here = <<>>
      /\ i <= Len(format) /\ format[i] # "%" =>
           here = SubSeq(format, i, end(i) - 1) \o from[<<end(i), k>>]
      /\ i <= Len(format) /\ format[i] = "%" /\ At(format, i + 1) = "%" =>
           here = SubSeq(format, i + 1, end(i + 1) - 1) \o from[<<end(i + 1), k>>]
      /\ i <= Len(format) /\ format[i] = "%" /\ At(format, i + 1) \in Conversions =>
           here = Converted(At(format, i + 1), args[k]) \o from[<<i + 2, k + 1>>]
      /\ i <= Len(format) /\ format[i] = "%" /\ At(format, i + 1) # "%"
           /\ At(format, i + 1) \notin Conversions =>
           here = SubSeq(format, i, Len(format))

LEMMA PrintedCases ==
  ASSUME NEW from, NEW format, NEW args, Len(format) \in Nat, NEW i \in 1 .. Len(format) + 1, NEW k
  PROVE  IsPrintedFrom(from, format, args, i, k)
<1> DEFINE next  == At(format, i + 1)
           start == IF format[i] = "%" THEN i + 1 ELSE i
           end   == LiteralEnd(format, start)
           here  == PrintedFrom(from, format, args, i, k)
<1>1. here = CASE i = Len(format) + 1 -> <<>>
               [] i <= Len(format) /\ (format[i] # "%" \/ next = "%") ->
                    SubSeq(format, start, end - 1) \o from[<<end, k>>]
               [] i <= Len(format) /\ format[i] = "%" /\ next \in Conversions ->
                    Converted(next, args[k]) \o from[<<i + 2, k + 1>>]
               [] OTHER -> SubSeq(format, i, Len(format))
  BY DEF PrintedFrom
<1>2. i <= Len(format) => ~ (i = Len(format) + 1)
  OBVIOUS
<1>3. "%" \notin Conversions
  BY DEF Conversions
<1>4. (format[i] = "%" => start = i + 1) /\ (format[i] # "%" => start = i)
  OBVIOUS
<1> HIDE DEF next, start, here
<1>5. i = Len(format) + 1 => here = <<>>
  BY <1>1, <1>2, Zenon
<1>6. i <= Len(format) /\ (format[i] # "%" \/ next = "%") => here = SubSeq(format, start, end - 1) \o from[<<end, k>>]
  BY <1>1, <1>2, <1>3, Zenon
<1>7. i <= Len(format) /\ format[i] = "%" /\ next \in Conversions => here = Converted(next, args[k]) \o from[<<i + 2, k + 1>>]
  BY <1>1, <1>2, <1>3, Zenon
<1>8. i <= Len(format) /\ format[i] = "%" /\ next # "%" /\ next \notin Conversions => here = SubSeq(format, i, Len(format))
  BY <1>1, <1>2, Zenon
<1> QED
  BY <1>4, <1>5, <1>6, <1>7, <1>8 DEF next, here, IsPrintedFrom

(* What is printed from a character on depends only on what is printed     *)
(* from later ones on.                                                     *)
SameAfter(f, g, format, i) ==
  \A j \in 1 .. Len(format) + 1, m \in Nat : j > i => f[<<j, m>>] = g[<<j, m>>]

LEMMA PrintedFromLater ==
  ASSUME NEW f, NEW g, NEW format, NEW args, Len(format) \in Nat,
         NEW i \in 1 .. Len(format) + 1, NEW k \in Nat, SameAfter(f, g, format, i)
  PROVE  PrintedFrom(f, format, args, i, k) = PrintedFrom(g, format, args, i, k)
<1> DEFINE n       == Len(format)
           F(from) == PrintedFrom(from, format, args, i, k)
           end(s)  == LiteralEnd(format, s)
<1>0. IsPrintedFrom(f, format, args, i, k) /\ IsPrintedFrom(g, format, args, i, k)
  BY PrintedCases
<1>1. CASE i = n + 1
  <2>1. F(f) = <<>> /\ F(g) = <<>>
    BY <1>0, <1>1 DEF IsPrintedFrom
  <2> QED
    BY <2>1
<1>2. CASE i <= n /\ format[i] # "%"
  <2>1. end(i) \in i + 1 .. n + 1
    BY <1>2, LiteralEndLemma DEF IsLiteralEnd
  <2>2. f[<<end(i), k>>] = g[<<end(i), k>>]
    BY <2>1 DEF SameAfter
  <2>3. /\ F(f) = SubSeq(format, i, end(i) - 1) \o f[<<end(i), k>>]
        /\ F(g) = SubSeq(format, i, end(i) - 1) \o g[<<end(i), k>>]
    BY <1>0, <1>2 DEF IsPrintedFrom
  <2> QED
    BY <2>2, <2>3
<1>3. CASE i <= n /\ format[i] = "%" /\ At(format, i + 1) = "%"
  <2>1. i + 1 \in 1 .. n
    BY <1>3 DEF At, NUL
  <2>2. end(i + 1) \in (i + 1) + 1 .. n + 1
    BY <2>1, LiteralEndLemma DEF IsLiteralEnd
  <2>3. f[<<end(i + 1), k>>] = g[<<end(i + 1), k>>]
    BY <2>2 DEF SameAfter
  <2>4. /\ F(f) = SubSeq(format, i + 1, end(i + 1) - 1) \o f[<<end(i + 1), k>>]
        /\ F(g) = SubSeq(format, i + 1, end(i + 1) - 1) \o g[<<end(i + 1), k>>]
    BY <1>0, <1>3 DEF IsPrintedFrom
  <2> QED
    BY <2>3, <2>4
<1>4. CASE i <= n /\ format[i] = "%" /\ At(format, i + 1) \in Conversions
  <2>1. i + 1 \in 1 .. n
    BY <1>4 DEF At, NUL, Conversions
  <2>2. f[<<i + 2, k + 1>>] = g[<<i + 2, k + 1>>]
    <3>1. i + 2 \in 1 .. Len(format) + 1 /\ i + 2 > i /\ k + 1 \in Nat
      BY <2>1
    <3> QED
      BY <3>1 DEF SameAfter
  <2>3. /\ F(f) = Converted(At(format, i + 1), args[k]) \o f[<<i + 2, k + 1>>]
        /\ F(g) = Converted(At(format, i + 1), args[k]) \o g[<<i + 2, k + 1>>]
    BY <1>0, <1>4 DEF IsPrintedFrom
  <2> QED
    BY <2>2, <2>3
<1>5. CASE i <= n /\ format[i] = "%" /\ At(format, i + 1) # "%" /\ At(format, i + 1) \notin Conversions
  <2>1. F(f) = SubSeq(format, i, n) /\ F(g) = SubSeq(format, i, n)
    BY <1>0, <1>5 DEF IsPrintedFrom
  <2> QED
    BY <2>1
<1> QED
  BY <1>1, <1>2, <1>3, <1>4, <1>5

(* The recursion that defines Printf has a solution.                       *)
IsPrinted(from, format, args) ==
  \A i \in 1 .. Len(format) + 1, k \in Nat : from[<<i, k>>] = PrintedFrom(from, format, args, i, k)

LEMMA PrintfDefined ==
  ASSUME NEW format, NEW args, Len(format) \in Nat
  PROVE  \E from : IsPrinted(from, format, args) /\ Printf(format, args) = from[<<1, 1>>]
<1> DEFINE n == Len(format)
           D == (1 .. n + 1) \X Nat
           Step(f, p) == PrintedFrom(f, format, args, p[1], p[2])
           Def(f) == f = [p \in D |-> Step(f, p)]
           Right(f, m) == \A i \in 1 .. n + 1, k \in Nat :
                            i > n + 1 - m => f[<<i, k>>] = PrintedFrom(f, format, args, i, k)
           T == {m \in Nat : \E f : Right(f, m)}
<1>1. T = Nat
  <2>1. 0 \in T
    <3>1. \A i \in 1 .. n + 1 : ~ (i > n + 1 - 0)
      OBVIOUS
    <3>2. Right(<<>>, 0)
      BY <3>1
    <3> HIDE DEF Right
    <3> QED
      BY <3>2
  <2>2. ASSUME NEW m \in T
        PROVE  m + 1 \in T
    <3>1. m \in Nat /\ m + 1 \in Nat /\ n \in Nat
      OBVIOUS
    <3>2. PICK f : Right(f, m)
      OBVIOUS
    <3> DEFINE g == [p \in D |-> Step(f, p)]
    <3>3. \A i \in 1 .. n + 1, k \in Nat : g[<<i, k>>] = PrintedFrom(f, format, args, i, k)
      OBVIOUS
    <3> HIDE DEF g
    <3>4. \A i \in 1 .. n + 1, k \in Nat : i > n + 1 - m => g[<<i, k>>] = f[<<i, k>>]
      BY <3>2, <3>3
    <3>5. ASSUME NEW i \in 1 .. n + 1, NEW k \in Nat, i > n + 1 - (m + 1)
          PROVE  g[<<i, k>>] = PrintedFrom(g, format, args, i, k)
      <4>1. \A j \in 1 .. n + 1 : j > i => j > n + 1 - m
        BY <3>1, <3>5
      <4>2. \A j \in 1 .. n + 1, l \in Nat : j > i => f[<<j, l>>] = g[<<j, l>>]
        BY <3>4, <4>1
      <4>3. PrintedFrom(f, format, args, i, k) = PrintedFrom(g, format, args, i, k)
        <5>1. SameAfter(f, g, format, i)
          BY <4>2 DEF SameAfter
        <5> QED
          BY <5>1, PrintedFromLater
      <4> QED
        BY <3>3, <4>3
    <3>6. Right(g, m + 1)
      BY <3>5
    <3> HIDE DEF Right
    <3> QED
      BY <3>1, <3>6
  <2>3. T \in SUBSET Nat
    OBVIOUS
  <2> HIDE DEF T
  <2> QED
    BY <2>1, <2>2, <2>3, Induction
<1>2. \E f : Def(f)
  <2>1. n + 1 \in Nat
    OBVIOUS
  <2>2. n + 1 \in T
    <3> HIDE DEF T
    <3> QED
      BY <1>1, <2>1
  <2>3. PICK f : Right(f, n + 1)
    BY <2>2
  <2>4. \A i \in 1 .. n + 1 : i > n + 1 - (n + 1)
    OBVIOUS
  <2>5. \A i \in 1 .. n + 1, k \in Nat : f[<<i, k>>] = PrintedFrom(f, format, args, i, k)
    BY <2>3, <2>4
  <2> DEFINE g == [p \in D |-> Step(f, p)]
  <2>6. \A i \in 1 .. n + 1, k \in Nat : g[<<i, k>>] = f[<<i, k>>]
    BY <2>5
  <2> HIDE DEF g
  <2>7. ASSUME NEW p \in D
        PROVE  g[p] = Step(g, p)
    <3>1. PICK i \in 1 .. n + 1, k \in Nat : p = <<i, k>>
      OBVIOUS
    <3>2. PrintedFrom(f, format, args, i, k) = PrintedFrom(g, format, args, i, k)
      <4>1. SameAfter(f, g, format, i)
        BY <2>6 DEF SameAfter
      <4> QED
        BY <4>1, PrintedFromLater
    <3> QED
      BY <2>5, <2>6, <3>1, <3>2
  <2>8. g = [p \in D |-> g[p]]
    BY DEF g
  <2>9. Def(g)
    BY <2>7, <2>8
  <2> HIDE DEF Def
  <2> QED
    BY <2>9
<1> DEFINE from == CHOOSE f : Def(f)
<1>3. Def(from)
  <2> HIDE DEF Def
  <2> QED
    BY <1>2
<1>4. Printf(format, args) = from[<<1, 1>>]
  BY DEF Printf
<1> HIDE DEF from
<1>5. \A i \in 1 .. n + 1, k \in Nat : from[<<i, k>>] = PrintedFrom(from, format, args, i, k)
  BY <1>3
<1>6. IsPrinted(from, format, args)
  BY <1>5 DEF IsPrinted
<1> QED
  BY <1>4, <1>6

-----------------------------------------------------------------------------
(* What printf prints of a piece.                                          *)

LEMMA NumeralType ==
  ASSUME NEW n \in 0 .. Words - 1, NEW base \in 2 .. 16
  PROVE  Numeral(n, base) \in Seq(Characters)
<1>1. "0" \in Digits /\ Digits \subseteq Characters
  <2>1. ASSUME NEW d \in 0 .. 15
        PROVE  Digit[d + 1] \in {Digit[i] : i \in 1 .. 16}
    <3>1. d + 1 \in 1 .. 16
      OBVIOUS
    <3> QED
      BY <3>1
  <2>2. Digits \subseteq Characters
    BY <2>1, LogAssumption DEF Digits
  <2>3. Digit[0 + 1] = "0" /\ 0 \in 0 .. 15
    BY DEF Digit
  <2>4. "0" \in Digits
    BY <2>3 DEF Digits
  <2> QED
    BY <2>2, <2>4
<1>2. CASE n = 0
  <2>1. Numeral(n, base) = << "0" >>
    BY <1>2, NumeralOfZero
  <2> QED
    BY <1>1, <2>1
<1>3. CASE n # 0
  <2>1. n \in 1 .. Words - 1
    BY <1>3, WordsLemma
  <2>2. PICK s : s = Remainders(n, base)
    OBVIOUS
  <2>3. s \in Seq(Digits) /\ Numeral(n, base) = Reversed(s)
    BY <2>1, <2>2, ReversedRemainders
  <2>4. s \in Seq(Characters)
    BY <1>1, <2>3
  <2>5. PICK l : l = Len(s)
    OBVIOUS
  <2>6. l \in Nat /\ \A i \in 1 .. l : s[i] \in Characters
    BY <2>4, <2>5
  <2>7. ASSUME NEW i \in 1 .. l
        PROVE  s[l + 1 - i] \in Characters
    <3>1. l + 1 - i \in 1 .. l
      BY <2>6
    <3> QED
      BY <2>6, <3>1
  <2>8. Reversed(s) = [i \in 1 .. l |-> s[l + 1 - i]]
    BY <2>5 DEF Reversed
  <2>9. Reversed(s) \in Seq(Characters)
    BY <2>6, <2>7, <2>8
  <2> QED
    BY <2>3, <2>9
<1> QED
  BY <1>2, <1>3

(* An argument is converted to what it means: the last line of the cases   *)
(* of printf rests on the helpers of String.cpp.                           *)
LEMMA ConvertedIsMeaning ==
  ASSUME NEW piece \in Piece, IsConversion(piece)
  PROVE  /\ Converted(piece.kind, piece.arg) = Meaning(piece)
         /\ Meaning(piece) \in Seq(Characters)
<1> DEFINE k == piece.kind
           a == piece.arg
<1> USE DEF IsConversion
<1>1. PICK h : h = Power(2, Width - 1)
  OBVIOUS
<1>2. h \in Nat /\ h > 0 /\ Words = 2 * h
  BY <1>1, WordsLemma
<1>3. 10 \in 2 .. 16 /\ 16 \in 2 .. 16
  OBVIOUS
<1>4. {"-", "0", "x"} \subseteq Characters
  <2>1. "x" \in Conversions /\ Digit[1] = "0" /\ 1 \in 1 .. 16
    BY DEF Conversions, Digit
  <2> QED
    BY <2>1, LogAssumption
<1>5. ASSUME NEW s \in Seq(Characters), NEW c \in Characters
      PROVE  << c >> \o s \in Seq(Characters)
  <2>1. << c >> \in Seq(Characters)
    OBVIOUS
  <2> QED
    BY <2>1, ConcatProperties
<1>6. CASE k = "c"
  <2>1. a \in Characters
    BY <1>6 DEF Piece
  <2>2. Converted(k, a) = << a >> /\ Meaning(piece) = << a >>
    BY <1>6 DEF Converted, Meaning
  <2> QED
    BY <2>1, <2>2
<1>7. CASE k = "s"
  <2>1. a \in Seq(Characters)
    BY <1>7 DEF Piece
  <2>2. Converted(k, a) = a /\ Meaning(piece) = a
    BY <1>7 DEF Converted, Meaning
  <2> QED
    BY <2>1, <2>2
<1>8. CASE k = "d"
  <2>1. a \in - h .. h - 1
    BY <1>1, <1>8 DEF Piece
  <2>2. itos(a, 10) = IF a < 0 THEN << "-" >> \o Numeral(-a, 10) ELSE Numeral(a, 10)
    BY <1>1, <2>1, ItosIsNumeral
  <2>3. /\ Converted(k, a) = itos(a, 10)
        /\ Meaning(piece) = IF a < 0 THEN << "-" >> \o Numeral(-a, 10) ELSE Numeral(a, 10)
    BY <1>8 DEF Converted, Meaning
  <2>4. ASSUME a < 0
        PROVE  << "-" >> \o Numeral(-a, 10) \in Seq(Characters)
    <3>1. -a \in 0 .. Words - 1
      BY <1>2, <2>1, <2>4
    <3>2. Numeral(-a, 10) \in Seq(Characters)
      BY <1>3, <3>1, NumeralType
    <3> QED
      BY <1>4, <1>5, <3>2
  <2>5. ASSUME ~ (a < 0)
        PROVE  Numeral(a, 10) \in Seq(Characters)
    <3>1. a \in 0 .. Words - 1
      BY <1>2, <2>1, <2>5
    <3> QED
      BY <1>3, <3>1, NumeralType
  <2> QED
    BY <2>2, <2>3, <2>4, <2>5
<1>9. CASE k = "u"
  <2>1. a \in 0 .. Words - 1
    BY <1>9 DEF Piece
  <2>2. Unsigned(a) = a
    BY <1>2, <2>1 DEF Unsigned
  <2>3. Converted(k, a) = utos(Unsigned(a), 10) /\ Meaning(piece) = Numeral(a, 10)
    BY <1>9 DEF Converted, Meaning
  <2>4. utos(a, 10) = Numeral(a, 10) /\ Numeral(a, 10) \in Seq(Characters)
    BY <1>3, <2>1, UtosIsNumeral, NumeralType
  <2> QED
    BY <2>2, <2>3, <2>4
<1>10. CASE k = "x"
  <2>1. a \in - h .. Words - 1
    BY <1>1, <1>10 DEF Piece
  <2>2. PICK u : u = Unsigned(a)
    OBVIOUS
  <2>3. u \in 0 .. Words - 1
    BY <1>2, <2>1, <2>2 DEF Unsigned
  <2>4. Converted(k, a) = << "0", "x" >> \o utos(u, 16) /\ Meaning(piece) = << "0", "x" >> \o Numeral(u, 16)
    BY <1>10, <2>2 DEF Converted, Meaning
  <2>5. utos(u, 16) = Numeral(u, 16) /\ Numeral(u, 16) \in Seq(Characters)
    BY <1>3, <2>3, UtosIsNumeral, NumeralType
  <2>6. << "0", "x" >> \in Seq(Characters)
    BY <1>4
  <2>7. << "0", "x" >> \o Numeral(u, 16) \in Seq(Characters)
    BY <2>5, <2>6, ConcatProperties
  <2> QED
    BY <2>4, <2>5, <2>7
<1> QED
  BY <1>6, <1>7, <1>8, <1>9, <1>10 DEF Conversions

(* What a piece puts into the format, and what among the arguments.        *)
InFormat(piece) ==
  CASE piece.kind = "literal" -> << piece.arg >>
    [] piece.kind = "percent" -> << "%", "%" >>
    [] OTHER                  -> << "%", piece.kind >>

InArguments(piece) == IF IsConversion(piece) THEN << piece.arg >> ELSE <<>>

(* What is printed from here on is text, and also what is printed after    *)
(* the literal that begins here.                                           *)
Settled(from, format, i, k) ==
  /\ from[<<i, k>>] \in Seq(Characters)
  /\ i <= Len(format) /\ format[i] # "%" => from[<<LiteralEnd(format, i), k>>] \in Seq(Characters)

LEMMA SubSeqOfOne ==
  ASSUME NEW s \in Seq(Characters), NEW i \in 1 .. Len(s)
  PROVE  SubSeq(s, i, i) = << s[i] >> /\ << s[i] >> \in Seq(Characters)
<1>1. s[i] \in Characters /\ i \in Nat /\ i - i + 1 = 1
  OBVIOUS
<1>2. SubSeq(s, i, i) = [j \in 1 .. 1 |-> s[i + j - 1]]
  BY <1>1
<1>3. ASSUME NEW j \in 1 .. 1
      PROVE  s[i + j - 1] = s[i]
  <2>1. i + j - 1 = i
    BY <1>1
  <2> QED
    BY <2>1
<1>4. PICK c : c = s[i]
  OBVIOUS
<1>5. [j \in 1 .. 1 |-> c] = << c >>
  OBVIOUS
<1> QED
  BY <1>1, <1>2, <1>3, <1>4, <1>5

Associates(s, t, u) == (s \o t) \o u = s \o (t \o u)

LEMMA TextsAssociative ==
  ASSUME NEW s \in Seq(Characters), NEW t \in Seq(Characters), NEW u \in Seq(Characters)
  PROVE  Associates(s, t, u)
BY ConcatAssociative DEF Associates

(* A literal can be printed character by character.                        *)
LiteralFrom(from, format, i, k) ==
  LET end == LiteralEnd(format, i)
  IN  /\ from[<<end, k>>] \in Seq(Characters)
      /\ SubSeq(format, i, end - 1) \o from[<<end, k>>] = << format[i] >> \o from[<<i + 1, k>>]

LEMMA LiteralSettled ==
  ASSUME NEW from, NEW format \in Seq(Characters), NEW args, IsPrinted(from, format, args),
         NEW i \in 1 .. Len(format), NEW k \in Nat, Settled(from, format, i + 1, k)
  PROVE  LiteralFrom(from, format, i, k)
<1>1. PICK n, e : n = Len(format) /\ e = LiteralEnd(format, i)
  OBVIOUS
<1>2. n \in Nat /\ i \in 1 .. n /\ \A j \in 1 .. n : format[j] \in Characters
  BY <1>1
<1>3. IsLiteralEnd(format, i, e)
  BY <1>1, <1>2, LiteralEndLemma
<1>4. e \in i + 1 .. n + 1 /\ e \in Nat
  BY <1>1, <1>2, <1>3 DEF IsLiteralEnd
<1>5. CASE e = i + 1
  <2>1. SubSeq(format, i, e - 1) = << format[i] >>
    <3>1. e - 1 = i
      BY <1>2, <1>5
    <3>2. SubSeq(format, i, i) = << format[i] >>
      BY SubSeqOfOne
    <3> QED
      BY <3>1, <3>2
  <2> QED
    BY <1>1, <1>5, <2>1 DEF Settled, LiteralFrom
<1>6. CASE e # i + 1
  <2>1. i + 1 \in 1 .. n /\ e \in (i + 1) + 1 .. n + 1
    BY <1>2, <1>4, <1>6
  <2>2. format[i + 1] # "%" /\ IsLiteralEnd(format, i + 1, e)
    <3>1. i + 1 \in i + 1 .. e - 1 /\ \A j \in (i + 1) + 1 .. e - 1 : j \in i + 1 .. e - 1
      BY <1>2, <2>1
    <3> QED
      BY <1>1, <1>3, <2>1, <3>1 DEF IsLiteralEnd
  <2>3. LiteralEnd(format, i + 1) = e
    BY <1>1, <1>2, <2>1, <2>2, LiteralEndLemma
  <2>4. from[<<e, k>>] \in Seq(Characters)
    <3>1. i + 1 <= Len(format)
      BY <1>1, <1>2, <2>1
    <3> QED
      BY <2>2, <2>3, <3>1 DEF Settled
  <2>5. from[<<i + 1, k>>] = SubSeq(format, i + 1, e - 1) \o from[<<e, k>>]
    <3>1. i + 1 \in 1 .. Len(format) + 1 /\ i + 1 <= Len(format)
      BY <1>1, <1>2, <2>1
    <3>2. IsPrintedFrom(from, format, args, i + 1, k)
      BY <1>1, <1>2, <3>1, PrintedCases
    <3>3. from[<<i + 1, k>>] = PrintedFrom(from, format, args, i + 1, k)
      BY <3>1 DEF IsPrinted
    <3> QED
      BY <2>2, <2>3, <3>1, <3>2, <3>3 DEF IsPrintedFrom
  <2>6. PICK a, b, c : a = << format[i] >> /\ b = SubSeq(format, i + 1, e - 1) /\ c = from[<<e, k>>]
    OBVIOUS
  <2>7. a \in Seq(Characters) /\ b \in Seq(Characters) /\ c \in Seq(Characters)
    <3>1. a \in Seq(Characters)
      BY <1>2, <2>6
    <3>2. \A j \in i + 1 .. e - 1 : format[j] \in Characters
      BY <1>2, <1>4
    <3>3. b \in Seq(Characters)
      <4>1. b = [j \in 1 .. (e - 1) - (i + 1) + 1 |-> format[(i + 1) + j - 1]]
        BY <1>2, <1>4, <2>6
      <4>2. (e - 1) - (i + 1) + 1 \in Nat
        BY <1>2, <1>4
      <4>3. ASSUME NEW j \in 1 .. (e - 1) - (i + 1) + 1
            PROVE  format[(i + 1) + j - 1] \in Characters
        <5>1. (i + 1) + j - 1 \in i + 1 .. e - 1
          BY <1>2, <1>4
        <5> QED
          BY <3>2, <5>1
      <4> QED
        BY <4>1, <4>2, <4>3
    <3> QED
      BY <2>4, <2>6, <3>1, <3>3
  <2>8. SubSeq(format, i, e - 1) = a \o b
    <3>1. i \in 1 .. Len(format) + 1 /\ i \in i - 1 .. Len(format) /\ e - 1 \in i .. Len(format)
      BY <1>1, <1>2, <1>4
    <3>2. SubSeq(format, i, i) \o SubSeq(format, i + 1, e - 1) = SubSeq(format, i, e - 1)
      BY <3>1, ConcatAdjacentSubSeq
    <3>3. SubSeq(format, i, i) = a
      BY <2>6, SubSeqOfOne
    <3> QED
      BY <2>6, <3>2, <3>3
  <2>9. (a \o b) \o c = a \o (b \o c)
    <3>1. Associates(a, b, c)
      BY <2>7, TextsAssociative
    <3> QED
      BY <3>1 DEF Associates
  <2> QED
    BY <1>1, <2>4, <2>5, <2>6, <2>8, <2>9 DEF LiteralFrom
<1> QED
  BY <1>5, <1>6

(* Where a piece stands: in the format, and its argument among the others. *)
PieceAt(piece, format, args, i, k) ==
  /\ i + Len(InFormat(piece)) <= Len(format) + 1
  /\ \A t \in 1 .. Len(InFormat(piece)) : format[(i - 1) + t] = InFormat(piece)[t]
  /\ \A t \in 1 .. Len(InArguments(piece)) : args[(k - 1) + t] = InArguments(piece)[t]

LEMMA PieceParts ==
  ASSUME NEW piece \in Piece
  PROVE  \/ /\ piece.kind = "literal" /\ piece.arg \in Characters \ {"%"} /\ ~ IsConversion(piece)
            /\ InFormat(piece) = << piece.arg >> /\ InArguments(piece) = <<>>
            /\ Meaning(piece) = << piece.arg >>
         \/ /\ piece.kind = "percent" /\ ~ IsConversion(piece)
            /\ InFormat(piece) = << "%", "%" >> /\ InArguments(piece) = <<>>
            /\ Meaning(piece) = << "%" >>
         \/ /\ IsConversion(piece)
            /\ InFormat(piece) = << "%", piece.kind >> /\ InArguments(piece) = << piece.arg >>
<1>1. CASE piece.kind = "literal"
  <2>1. piece.arg \in Characters \ {"%"}
    BY <1>1 DEF Piece
  <2>2. ~ IsConversion(piece)
    BY <1>1 DEF IsConversion, Conversions
  <2> QED
    BY <1>1, <2>1, <2>2 DEF InFormat, InArguments, Meaning
<1>2. CASE piece.kind = "percent"
  <2>1. ~ IsConversion(piece)
    BY <1>2 DEF IsConversion, Conversions
  <2> QED
    BY <1>2, <2>1 DEF InFormat, InArguments, Meaning
<1>3. CASE piece.kind # "literal" /\ piece.kind # "percent"
  <2>1. IsConversion(piece)
    BY <1>3 DEF Piece, IsConversion, Conversions
  <2>2. InFormat(piece) = << "%", piece.kind >>
    BY <1>3 DEF InFormat
  <2> QED
    BY <2>1, <2>2 DEF InArguments
<1> QED
  BY <1>1, <1>2, <1>3

(* printf prints a piece as what it means, and goes on behind it.          *)
IsPrintedAt(piece, from, format, i, k) ==
  /\ Meaning(piece) \in Seq(Characters)
  /\ Settled(from, format, i, k)
  /\ from[<<i, k>>] = Meaning(piece) \o from[<<i + Len(InFormat(piece)), k + Len(InArguments(piece))>>]

LEMMA PieceIsPrinted ==
  ASSUME NEW from, NEW format \in Seq(Characters), NEW args, IsPrinted(from, format, args),
         NEW piece \in Piece, NEW i \in Nat \ {0}, NEW k \in Nat \ {0},
         PieceAt(piece, format, args, i, k),
         Settled(from, format, i + Len(InFormat(piece)), k + Len(InArguments(piece)))
  PROVE  IsPrintedAt(piece, from, format, i, k)
<1>1. PICK n : n = Len(format)
  OBVIOUS
<1>2. n \in Nat /\ \A j \in 1 .. n : format[j] \in Characters
  BY <1>1
<1>3. ASSUME i <= n
      PROVE  IsPrintedFrom(from, format, args, i, k) /\ from[<<i, k>>] = PrintedFrom(from, format, args, i, k)
  <2>1. i \in 1 .. Len(format) + 1
    BY <1>1, <1>2, <1>3
  <2>2. IsPrintedFrom(from, format, args, i, k)
    BY <1>1, <1>2, <2>1, PrintedCases
  <2> QED
    BY <2>1, <2>2 DEF IsPrinted
<1>4. CASE /\ piece.arg \in Characters \ {"%"}
           /\ InFormat(piece) = << piece.arg >> /\ InArguments(piece) = <<>>
           /\ Meaning(piece) = << piece.arg >>
  <2>1. Len(InFormat(piece)) = 1 /\ Len(InArguments(piece)) = 0 /\ k + 0 = k
    BY <1>4
  <2>2. i \in 1 .. n /\ format[i] = piece.arg /\ Settled(from, format, i + 1, k)
    <3>1. i <= n /\ (i - 1) + 1 = i /\ InFormat(piece)[1] = piece.arg
      BY <1>1, <1>2, <1>4, <2>1 DEF PieceAt
    <3>2. 1 \in 1 .. Len(InFormat(piece))
      BY <2>1
    <3>3. format[(i - 1) + 1] = piece.arg
      BY <3>1, <3>2 DEF PieceAt
    <3> QED
      BY <1>2, <2>1, <3>1, <3>3
  <2>3. PICK e : e = LiteralEnd(format, i)
    OBVIOUS
  <2>4. /\ from[<<e, k>>] \in Seq(Characters)
        /\ SubSeq(format, i, e - 1) \o from[<<e, k>>] = << format[i] >> \o from[<<i + 1, k>>]
    <3>1. i \in 1 .. Len(format) /\ k \in Nat
      BY <1>1, <2>2
    <3>2. LiteralFrom(from, format, i, k)
      BY <2>2, <3>1, LiteralSettled
    <3> QED
      BY <2>3, <3>2 DEF LiteralFrom
  <2>5. from[<<i, k>>] = << piece.arg >> \o from[<<i + 1, k>>]
    <3>1. i <= Len(format) /\ i <= n /\ format[i] # "%"
      BY <1>1, <1>2, <1>4, <2>2
    <3>2. from[<<i, k>>] = SubSeq(format, i, e - 1) \o from[<<e, k>>]
      BY <1>3, <2>3, <3>1 DEF IsPrintedFrom
    <3> QED
      BY <2>2, <2>4, <3>2
  <2>6. << piece.arg >> \in Seq(Characters) /\ from[<<i + 1, k>>] \in Seq(Characters)
    BY <1>4, <2>2 DEF Settled
  <2>7. from[<<i, k>>] \in Seq(Characters)
    BY <2>5, <2>6, ConcatProperties
  <2> QED
    BY <1>1, <1>4, <2>1, <2>3, <2>4, <2>5, <2>6, <2>7 DEF Settled, IsPrintedAt
<1>5. CASE /\ InFormat(piece) = << "%", "%" >> /\ InArguments(piece) = <<>>
           /\ Meaning(piece) = << "%" >>
  <2>1. Len(InFormat(piece)) = 2 /\ Len(InArguments(piece)) = 0 /\ k + 0 = k
    BY <1>5
  <2>2. i \in 1 .. n /\ i + 1 \in 1 .. n /\ (i + 1) + 1 = i + 2
    BY <1>1, <1>2, <2>1 DEF PieceAt
  <2>3. format[i] = "%" /\ format[i + 1] = "%"
    <3>1. 1 \in 1 .. Len(InFormat(piece)) /\ 2 \in 1 .. Len(InFormat(piece))
      BY <2>1
    <3>2. format[(i - 1) + 1] = "%" /\ format[(i - 1) + 2] = "%"
      BY <1>5, <3>1 DEF PieceAt
    <3>3. (i - 1) + 1 = i /\ (i - 1) + 2 = i + 1
      OBVIOUS
    <3> QED
      BY <3>2, <3>3
  <2>4. Settled(from, format, (i + 1) + 1, k)
    BY <2>1, <2>2
  <2>5. PICK e : e = LiteralEnd(format, i + 1)
    OBVIOUS
  <2>6. SubSeq(format, i + 1, e - 1) \o from[<<e, k>>] = << format[i + 1] >> \o from[<<(i + 1) + 1, k>>]
    <3>1. i + 1 \in 1 .. Len(format) /\ k \in Nat
      BY <1>1, <2>2
    <3>2. LiteralFrom(from, format, i + 1, k)
      BY <2>4, <3>1, LiteralSettled
    <3> QED
      BY <2>5, <3>2 DEF LiteralFrom
  <2>7. At(format, i + 1) = "%"
    BY <1>1, <2>2, <2>3 DEF At
  <2>8. from[<<i, k>>] = << "%" >> \o from[<<i + 2, k>>]
    <3>1. i <= Len(format) /\ i <= n
      BY <1>1, <1>2, <2>2
    <3>2. from[<<i, k>>] = SubSeq(format, i + 1, e - 1) \o from[<<e, k>>]
      BY <1>3, <2>3, <2>5, <2>7, <3>1 DEF IsPrintedFrom
    <3> QED
      BY <2>2, <2>3, <2>6, <3>2
  <2>9. << "%" >> \in Seq(Characters) /\ from[<<i + 2, k>>] \in Seq(Characters)
    <3>1. "%" \in Characters
      BY <1>2, <2>2, <2>3
    <3>2. from[<<(i + 1) + 1, k>>] \in Seq(Characters)
      BY <2>4 DEF Settled
    <3>3. << "%" >> \in Seq(Characters)
      BY <3>1
    <3>4. (i + 1) + 1 = i + 2
      OBVIOUS
    <3> QED
      BY <3>2, <3>3, <3>4
  <2>10. from[<<i, k>>] \in Seq(Characters)
    BY <2>8, <2>9, ConcatProperties
  <2> QED
    BY <1>5, <2>1, <2>3, <2>8, <2>9, <2>10 DEF Settled, IsPrintedAt
<1>6. CASE IsConversion(piece) /\ InFormat(piece) = << "%", piece.kind >> /\ InArguments(piece) = << piece.arg >>
  <2>1. Len(InFormat(piece)) = 2 /\ Len(InArguments(piece)) = 1
    BY <1>6
  <2>2. i \in 1 .. n /\ i + 1 \in 1 .. n
    BY <1>1, <1>2, <2>1 DEF PieceAt
  <2>3. format[i] = "%" /\ format[i + 1] = piece.kind /\ args[k] = piece.arg
    <3>1. 1 \in 1 .. Len(InFormat(piece)) /\ 2 \in 1 .. Len(InFormat(piece)) /\ 1 \in 1 .. Len(InArguments(piece))
      BY <2>1
    <3>2. format[(i - 1) + 1] = "%" /\ format[(i - 1) + 2] = piece.kind /\ args[(k - 1) + 1] = piece.arg
      BY <1>6, <3>1 DEF PieceAt
    <3>3. (i - 1) + 1 = i /\ (i - 1) + 2 = i + 1 /\ (k - 1) + 1 = k
      OBVIOUS
    <3> QED
      BY <3>2, <3>3
  <2>4. At(format, i + 1) = piece.kind /\ piece.kind \in Conversions
    BY <1>1, <1>6, <2>2, <2>3 DEF At, IsConversion
  <2>5. Converted(piece.kind, piece.arg) = Meaning(piece) /\ Meaning(piece) \in Seq(Characters)
    BY <1>6, ConvertedIsMeaning
  <2>6. from[<<i, k>>] = Converted(At(format, i + 1), args[k]) \o from[<<i + 2, k + 1>>]
    <3>1. i <= Len(format) /\ i <= n
      BY <1>1, <1>2, <2>2
    <3>2. At(format, i + 1) \in Conversions
      BY <2>4
    <3> QED
      BY <1>3, <2>3, <3>1, <3>2 DEF IsPrintedFrom
  <2>7. from[<<i, k>>] = Meaning(piece) \o from[<<i + 2, k + 1>>]
    BY <2>3, <2>4, <2>5, <2>6
  <2>8. from[<<i + 2, k + 1>>] \in Seq(Characters)
    BY <2>1 DEF Settled
  <2>9. from[<<i, k>>] \in Seq(Characters)
    BY <2>5, <2>7, <2>8, ConcatProperties
  <2> QED
    BY <2>1, <2>3, <2>5, <2>7, <2>9 DEF Settled, IsPrintedAt
<1> QED
  BY <1>4, <1>5, <1>6, PieceParts

(* What is printed from each of n texts on is that text and what is        *)
(* printed from the next on: so from the first on it is all of them.       *)
AreFrom(g, texts) ==
  /\ g \in [0 .. Len(texts) -> Seq(Characters)]
  /\ g[Len(texts)] = <<>>
  /\ \A j \in 1 .. Len(texts) : g[j - 1] = texts[j] \o g[j]

LEMMA OneAfterTheOther ==
  ASSUME NEW texts \in Seq(Seq(Characters)), NEW m, IsFlattening(m, texts, Characters),
         NEW g, AreFrom(g, texts)
  PROVE  g[0] = m[Len(texts)] /\ m[Len(texts)] \in Seq(Characters)
<1> DEFINE n == Len(texts)
           Said(j) == g[0] = m[j] \o g[j]
           T == {j \in Nat : j <= n => Said(j)}
<1>1. /\ n \in Nat
      /\ \A j \in 0 .. n : m[j] \in Seq(Characters) /\ g[j] \in Seq(Characters)
      /\ \A j \in 1 .. n : texts[j] \in Seq(Characters)
  <2>1. n \in Nat /\ \A j \in 1 .. n : texts[j] \in Seq(Characters)
    OBVIOUS
  <2> QED
    BY <2>1 DEF IsFlattening, AreFrom
<1>2. m[0] = <<>> /\ \A j \in 1 .. n : m[j] = m[j - 1] \o texts[j]
  BY DEF IsFlattening
<1>3. T = Nat
  <2>1. 0 \in T
    <3>1. g[0] \in Seq(Characters)
      BY <1>1
    <3>2. <<>> \o g[0] = g[0]
      BY <3>1, ConcatEmptySeq
    <3> QED
      BY <1>2, <3>2
  <2>2. ASSUME NEW j \in T
        PROVE  j + 1 \in T
    <3>1. SUFFICES ASSUME j + 1 <= n
                   PROVE  Said(j + 1)
      <4> HIDE DEF Said
      <4> QED
        OBVIOUS
    <3>2. j + 1 \in 1 .. n /\ (j + 1) - 1 = j /\ j <= n /\ j \in 0 .. n /\ j + 1 \in 0 .. n
      BY <1>1, <3>1
    <3>3. Said(j)
      <4> HIDE DEF Said
      <4> QED
        BY <3>2
    <3> HIDE DEF n, T
    <3>4. g[j] = texts[j + 1] \o g[j + 1] /\ m[j + 1] = m[j] \o texts[j + 1]
      <4>1. g[(j + 1) - 1] = texts[j + 1] \o g[j + 1]
        BY <3>2 DEF n, AreFrom
      <4> QED
        BY <1>2, <3>2, <4>1
    <3>5. m[j] \in Seq(Characters) /\ texts[j + 1] \in Seq(Characters) /\ g[j + 1] \in Seq(Characters)
      BY <1>1, <3>2
    <3>6. (m[j] \o texts[j + 1]) \o g[j + 1] = m[j] \o (texts[j + 1] \o g[j + 1])
      <4>1. Associates(m[j], texts[j + 1], g[j + 1])
        BY <3>5, TextsAssociative
      <4> QED
        BY <4>1 DEF Associates
    <3> QED
      BY <3>3, <3>4, <3>6
  <2>3. T \in SUBSET Nat
    OBVIOUS
  <2> HIDE DEF T
  <2> QED
    BY <2>1, <2>2, <2>3, Induction
<1>4. Said(n)
  <2>1. n \in T
    <3> HIDE DEF T
    <3> QED
      BY <1>1, <1>3
  <2>2. n <= n
    BY <1>1
  <2> HIDE DEF Said, n
  <2> QED
    BY <2>1, <2>2
<1>5. m[n] \in Seq(Characters)
  BY <1>1
<1> QED
  BY <1>4, <1>5, ConcatEmptySeq DEF AreFrom

(* What a message says: each of its pieces, one after the other.           *)
Body(pieces) == FlattenSeq([i \in DOMAIN pieces |-> Meaning(pieces[i])])

LEMMA FormatParts ==
  ASSUME NEW pieces \in Seq(Piece)
  PROVE  LET chunks == [i \in 1 .. Len(pieces) |-> InFormat(pieces[i])]
             args   == [i \in 1 .. Len(pieces) |-> InArguments(pieces[i])]
             says   == [i \in 1 .. Len(pieces) |-> Meaning(pieces[i])]
             S      == {pieces[i].arg : i \in 1 .. Len(pieces)}
         IN  /\ chunks \in Seq(Seq(Characters)) /\ FormatOf(pieces) = FlattenSeq(chunks)
             /\ args \in Seq(Seq(S)) /\ Arguments(pieces) = FlattenSeq(args)
             /\ says \in Seq(Seq(Characters)) /\ Body(pieces) = FlattenSeq(says)
<1>1. PICK n : n = Len(pieces)
  OBVIOUS
<1> DEFINE S == {pieces[i].arg : i \in 1 .. n}
<1>2. n \in Nat /\ DOMAIN pieces = 1 .. n /\ \A i \in 1 .. n : pieces[i] \in Piece
  BY <1>1
<1>3. "%" \in Characters /\ Conversions \subseteq Characters
  BY LogAssumption
<1>4. ASSUME NEW i \in 1 .. n
      PROVE  /\ InFormat(pieces[i]) \in Seq(Characters)
             /\ InArguments(pieces[i]) \in Seq(S)
             /\ Meaning(pieces[i]) \in Seq(Characters)
  <2>1. PICK p \in Piece : p = pieces[i]
    BY <1>2
  <2>2. PICK a : a = p.arg
    OBVIOUS
  <2>3. a \in S
    BY <2>1, <2>2
  <2> HIDE DEF S
  <2>4. << a >> \in Seq(S) /\ <<>> \in Seq(S)
    BY <2>3
  <2>5. CASE /\ p.arg \in Characters \ {"%"}
             /\ InFormat(p) = << p.arg >> /\ InArguments(p) = <<>>
             /\ Meaning(p) = << p.arg >>
    BY <2>1, <2>4, <2>5
  <2>6. CASE InFormat(p) = << "%", "%" >> /\ InArguments(p) = <<>> /\ Meaning(p) = << "%" >>
    BY <1>3, <2>1, <2>4, <2>6
  <2>7. CASE IsConversion(p) /\ InFormat(p) = << "%", p.kind >> /\ InArguments(p) = << p.arg >>
    <3>1. Meaning(p) \in Seq(Characters)
      BY <2>7, ConvertedIsMeaning
    <3>2. p.kind \in Characters
      BY <1>3, <2>7 DEF IsConversion
    <3>3. InFormat(p) \in Seq(Characters)
      BY <1>3, <2>7, <3>2
    <3> QED
      BY <2>1, <2>2, <2>4, <2>7, <3>1, <3>3
  <2> QED
    BY <2>5, <2>6, <2>7, PieceParts
<1> DEFINE chunks == [i \in 1 .. n |-> InFormat(pieces[i])]
           args   == [i \in 1 .. n |-> InArguments(pieces[i])]
           says   == [i \in 1 .. n |-> Meaning(pieces[i])]
<1>5. chunks \in Seq(Seq(Characters)) /\ args \in Seq(Seq(S)) /\ says \in Seq(Seq(Characters))
  <2> HIDE DEF S
  <2> QED
    BY <1>2, <1>4
<1>6. FormatOf(pieces) = FlattenSeq(chunks)
  BY <1>2 DEF FormatOf, InFormat
<1>7. Arguments(pieces) = FlattenSeq(args)
  BY <1>2 DEF Arguments, InArguments
<1>8. Body(pieces) = FlattenSeq(says)
  BY <1>2 DEF Body
<1> QED
  BY <1>1, <1>5, <1>6, <1>7, <1>8

LEMMA SettledAtEnd ==
  ASSUME NEW from, NEW format \in Seq(Characters), NEW args, IsPrinted(from, format, args), NEW k \in Nat
  PROVE  from[<<Len(format) + 1, k>>] = <<>> /\ Settled(from, format, Len(format) + 1, k)
<1>1. Len(format) \in Nat /\ Len(format) + 1 \in 1 .. Len(format) + 1 /\ ~ (Len(format) + 1 <= Len(format))
  OBVIOUS
<1>2. IsPrintedFrom(from, format, args, Len(format) + 1, k)
  BY <1>1, PrintedCases
<1>3. from[<<Len(format) + 1, k>>] = <<>>
  BY <1>1, <1>2 DEF IsPrinted, IsPrintedFrom
<1> QED
  BY <1>1, <1>3 DEF Settled

(* printf prints a format as what its pieces mean, whatever they are: for  *)
(* all formats of the conversions that it knows.                           *)
THEOREM PrintfSaysItAll ==
  ASSUME NEW pieces \in Seq(Piece)
  PROVE  /\ Printf(FormatOf(pieces), Arguments(pieces)) = Body(pieces)
         /\ Body(pieces) \in Seq(Characters)
<1>1. PICK n : n = Len(pieces)
  OBVIOUS
<1>2. PICK chunks, args, says, S :
        /\ chunks = [i \in 1 .. n |-> InFormat(pieces[i])]
        /\ args = [i \in 1 .. n |-> InArguments(pieces[i])]
        /\ says = [i \in 1 .. n |-> Meaning(pieces[i])]
        /\ S = {pieces[i].arg : i \in 1 .. n}
  OBVIOUS
<1>3. /\ chunks \in Seq(Seq(Characters)) /\ FormatOf(pieces) = FlattenSeq(chunks)
      /\ args \in Seq(Seq(S)) /\ Arguments(pieces) = FlattenSeq(args)
      /\ says \in Seq(Seq(Characters)) /\ Body(pieces) = FlattenSeq(says)
  BY <1>1, <1>2, FormatParts
<1>4. n \in Nat /\ Len(chunks) = n /\ Len(args) = n /\ Len(says) = n /\ \A i \in 1 .. n : pieces[i] \in Piece
  BY <1>1, <1>2
<1>5. PICK f : IsFlattening(f, chunks, Characters) /\ FormatOf(pieces) = f[n]
  BY <1>3, <1>4, FlattenLemma
<1>6. PICK a : IsFlattening(a, args, S) /\ Arguments(pieces) = a[n]
  BY <1>3, <1>4, FlattenLemma
<1>7. PICK m : IsFlattening(m, says, Characters) /\ Body(pieces) = m[n]
  BY <1>3, <1>4, FlattenLemma
<1>8. PICK F, A : F = f[n] /\ A = a[n]
  OBVIOUS
<1>9. F \in Seq(Characters) /\ Len(F) \in Nat
  <2>1. n \in 0 .. n
    BY <1>4
  <2> QED
    BY <1>4, <1>5, <1>8, <2>1 DEF IsFlattening
<1>10. PICK from : IsPrinted(from, F, A) /\ Printf(F, A) = from[<<1, 1>>]
  BY <1>9, PrintfDefined
<1> DEFINE p(j) == Len(f[j]) + 1
           q(j) == Len(a[j]) + 1
<1>11. ASSUME NEW j \in 0 .. n
       PROVE  p(j) \in Nat \ {0} /\ q(j) \in Nat \ {0}
  <2>1. f[j] \in Seq(Characters) /\ a[j] \in Seq(S)
    BY <1>4, <1>5, <1>6 DEF IsFlattening
  <2> QED
    BY <2>1
<1>12. ASSUME NEW j \in 1 .. n
       PROVE  /\ p(j) = p(j - 1) + Len(InFormat(pieces[j]))
              /\ q(j) = q(j - 1) + Len(InArguments(pieces[j]))
              /\ PieceAt(pieces[j], F, A, p(j - 1), q(j - 1))
  <2>1. chunks[j] = InFormat(pieces[j]) /\ args[j] = InArguments(pieces[j])
    BY <1>2
  <2>2. j \in 1 .. Len(chunks) /\ j \in 1 .. Len(args)
    BY <1>4
  <2>3. /\ Len(f[j]) = Len(f[j - 1]) + Len(chunks[j])
        /\ Len(f[j]) <= Len(f[Len(chunks)])
        /\ \A t \in 1 .. Len(chunks[j]) : f[Len(chunks)][Len(f[j - 1]) + t] = chunks[j][t]
    <3> HIDE DEF p, q
    <3>1. chunks \in Seq(Seq(Characters)) /\ IsFlattening(f, chunks, Characters)
      BY <1>3, <1>5
    <3>2. IsFlattenedAt(f, chunks, j)
      BY <2>2, <3>1, FlattenedAt
    <3> QED
      BY <3>2 DEF IsFlattenedAt
  <2>4. /\ Len(a[j]) = Len(a[j - 1]) + Len(args[j])
        /\ \A t \in 1 .. Len(args[j]) : a[Len(args)][Len(a[j - 1]) + t] = args[j][t]
    <3> HIDE DEF p, q
    <3>1. args \in Seq(Seq(S)) /\ IsFlattening(a, args, S)
      BY <1>3, <1>6
    <3>2. IsFlattenedAt(a, args, j)
      BY <2>2, <3>1, FlattenedAt
    <3> QED
      BY <3>2 DEF IsFlattenedAt
  <2>5. PICK u, v, x, y : u = Len(f[j - 1]) /\ v = Len(chunks[j]) /\ x = Len(a[j - 1]) /\ y = Len(args[j])
    OBVIOUS
  <2>6. u \in Nat /\ v \in Nat /\ x \in Nat /\ y \in Nat
    <3>1. chunks[j] \in Seq(Characters) /\ args[j] \in Seq(S)
      BY <1>3, <2>2
    <3>2. j - 1 \in 0 .. n
      BY <1>4
    <3>3. f[j - 1] \in Seq(Characters) /\ a[j - 1] \in Seq(S)
      BY <1>4, <1>5, <1>6, <3>2 DEF IsFlattening
    <3>4. /\ Len(chunks[j]) \in Nat /\ Len(args[j]) \in Nat
          /\ Len(f[j - 1]) \in Nat /\ Len(a[j - 1]) \in Nat
      <4> HIDE DEF p, q
      <4> QED
        BY <3>1, <3>3, LenProperties
    <3> QED
      BY <2>5, <3>4
  <2>7. Len(f[j]) = u + v /\ Len(a[j]) = x + y /\ u + v <= Len(F)
    BY <1>4, <1>8, <2>3, <2>4, <2>5
  <2>8. p(j) = p(j - 1) + v /\ q(j) = q(j - 1) + y
    <3>1. p(j) = (u + v) + 1 /\ q(j) = (x + y) + 1 /\ p(j - 1) = u + 1 /\ q(j - 1) = x + 1
      BY <2>5, <2>7
    <3> HIDE DEF p, q
    <3> QED
      BY <2>6, <3>1
  <2>9. p(j - 1) = u + 1 /\ q(j - 1) = x + 1
    BY <2>5
  <2>10. (u + 1) - 1 = u /\ (x + 1) - 1 = x /\ (u + 1) + v <= Len(F) + 1
    BY <1>9, <2>6, <2>7
  <2>11. \A t \in 1 .. v : F[u + t] = InFormat(pieces[j])[t]
    BY <1>4, <1>8, <2>1, <2>3, <2>5
  <2>12. \A t \in 1 .. y : A[x + t] = InArguments(pieces[j])[t]
    BY <1>4, <1>8, <2>1, <2>4, <2>5
  <2>13. PieceAt(pieces[j], F, A, u + 1, x + 1)
    BY <2>1, <2>5, <2>10, <2>11, <2>12 DEF PieceAt
  <2> QED
    BY <2>1, <2>5, <2>8, <2>9, <2>13
<1>13. p(n) = Len(F) + 1 /\ p(0) = 1 /\ q(0) = 1
  <2>1. f[0] = <<>> /\ a[0] = <<>>
    BY <1>5, <1>6 DEF IsFlattening
  <2> QED
    BY <1>8, <2>1
<1> DEFINE T == {d \in Nat : d <= n => Settled(from, F, p(n - d), q(n - d))}
<1> HIDE DEF p, q
<1>14. ASSUME NEW j \in 1 .. n, Settled(from, F, p(j), q(j))
       PROVE  /\ Meaning(pieces[j]) \in Seq(Characters)
              /\ Settled(from, F, p(j - 1), q(j - 1))
              /\ from[<<p(j - 1), q(j - 1)>>] = Meaning(pieces[j]) \o from[<<p(j), q(j)>>]
  <2>1. j - 1 \in 0 .. n /\ pieces[j] \in Piece
    BY <1>4
  <2>2. PICK piece, i, k : piece = pieces[j] /\ i = p(j - 1) /\ k = q(j - 1)
    OBVIOUS
  <2>3. piece \in Piece /\ i \in Nat \ {0} /\ k \in Nat \ {0}
    BY <1>11, <2>1, <2>2
  <2>4. /\ p(j) = i + Len(InFormat(piece)) /\ q(j) = k + Len(InArguments(piece))
        /\ PieceAt(piece, F, A, i, k)
    BY <1>12, <2>2
  <2>5. Settled(from, F, i + Len(InFormat(piece)), k + Len(InArguments(piece)))
    BY <1>14, <2>4
  <2>6. /\ Meaning(piece) \in Seq(Characters)
        /\ Settled(from, F, i, k)
        /\ from[<<i, k>>] = Meaning(piece) \o from[<<i + Len(InFormat(piece)), k + Len(InArguments(piece))>>]
    <3>1. IsPrinted(from, F, A)
      BY <1>10
    <3>2. IsPrintedAt(piece, from, F, i, k)
      BY <1>9, <2>3, <2>4, <2>5, <3>1, PieceIsPrinted
    <3> QED
      BY <3>2 DEF IsPrintedAt
  <2> QED
    BY <2>2, <2>4, <2>6
<1>15. T = Nat
  <2>1. 0 \in T
    <3>1. n - 0 = n /\ n \in 0 .. n
      BY <1>4
    <3>2. q(n) \in Nat
      BY <1>11, <3>1
    <3>3. Settled(from, F, p(n), q(n))
      BY <1>9, <1>10, <1>13, <3>2, SettledAtEnd
    <3> QED
      BY <3>1, <3>3
  <2>2. ASSUME NEW d \in T
        PROVE  d + 1 \in T
    <3>1. SUFFICES ASSUME d + 1 <= n
                   PROVE  Settled(from, F, p(n - (d + 1)), q(n - (d + 1)))
      OBVIOUS
    <3>2. n - d \in 1 .. n /\ d <= n /\ (n - d) - 1 = n - (d + 1)
      BY <1>4, <3>1
    <3>3. Settled(from, F, p(n - d), q(n - d))
      BY <3>2
    <3>4. Settled(from, F, p((n - d) - 1), q((n - d) - 1))
      BY <1>14, <3>2, <3>3
    <3> QED
      BY <3>2, <3>4
  <2>3. T \in SUBSET Nat
    OBVIOUS
  <2> HIDE DEF T
  <2> QED
    BY <2>1, <2>2, <2>3, Induction
<1>16. ASSUME NEW j \in 0 .. n
       PROVE  Settled(from, F, p(j), q(j))
  <2>1. n - j \in Nat /\ n - j <= n /\ n - (n - j) = j
    BY <1>4
  <2>2. n - j \in T
    <3> HIDE DEF T
    <3> QED
      BY <1>15, <2>1
  <2> QED
    BY <2>1, <2>2
<1> HIDE DEF T
<1> DEFINE g == [j \in 0 .. n |-> from[<<p(j), q(j)>>]]
<1>17. g \in [0 .. n -> Seq(Characters)]
  BY <1>16 DEF Settled
<1>18. ASSUME NEW j \in 1 .. n
       PROVE  g[j - 1] = says[j] \o g[j]
  <2>1. j \in 0 .. n /\ j - 1 \in 0 .. n
    BY <1>4
  <2>2. says[j] = Meaning(pieces[j])
    BY <1>2
  <2>3. g[j - 1] = from[<<p(j - 1), q(j - 1)>>] /\ g[j] = from[<<p(j), q(j)>>]
    BY <2>1
  <2> QED
    BY <1>14, <1>16, <2>1, <2>2, <2>3
<1>19. g[n] = <<>> /\ g[0] = from[<<1, 1>>]
  <2>1. n \in 0 .. n /\ 0 \in 0 .. n
    BY <1>4
  <2>2. q(n) \in Nat
    BY <1>11, <2>1
  <2>3. from[<<p(n), q(n)>>] = <<>>
    BY <1>9, <1>10, <1>13, <2>2, SettledAtEnd
  <2> QED
    BY <1>13, <2>1, <2>3
<1> HIDE DEF g
<1>20. g[0] = m[n] /\ m[n] \in Seq(Characters)
  <2>1. AreFrom(g, says)
    BY <1>4, <1>17, <1>18, <1>19 DEF AreFrom
  <2>2. g[0] = m[Len(says)] /\ m[Len(says)] \in Seq(Characters)
    BY <1>3, <1>7, <2>1, OneAfterTheOther
  <2> QED
    BY <1>4, <2>2
<1> QED
  BY <1>5, <1>6, <1>7, <1>8, <1>10, <1>19, <1>20

-----------------------------------------------------------------------------
(* Plain texts.                                                            *)

LEMMA FlattenOnes ==
  ASSUME NEW text \in Seq(Characters)
  PROVE  FlattenSeq([i \in 1 .. Len(text) |-> << text[i] >>]) = text
<1>1. PICK n, ones : n = Len(text) /\ ones = [i \in 1 .. n |-> << text[i] >>]
  OBVIOUS
<1>2. n \in Nat /\ \A i \in 1 .. n : text[i] \in Characters
  BY <1>1
<1>3. ASSUME NEW i \in 1 .. n
      PROVE  ones[i] \in Seq(Characters) /\ Len(ones[i]) = 1 /\ ones[i][1] = text[i]
  <2>1. PICK c \in Characters : c = text[i]
    BY <1>2
  <2>2. ones[i] = << c >>
    BY <1>1, <2>1
  <2> QED
    BY <2>1, <2>2
<1>4. ones \in Seq(Seq(Characters)) /\ Len(ones) = n
  BY <1>1, <1>2, <1>3
<1>5. PICK f : IsFlattening(f, ones, Characters) /\ FlattenSeq(ones) = f[n]
  BY <1>4, FlattenLemma
<1>6. ASSUME NEW i \in 1 .. n
      PROVE  IsFlattenedAt(f, ones, i)
  <2>1. i \in 1 .. Len(ones)
    BY <1>4
  <2> QED
    BY <1>4, <1>5, <2>1, FlattenedAt
<1> DEFINE T == {j \in Nat : j <= n => Len(f[j]) = j}
<1>7. T = Nat
  <2>1. 0 \in T
    BY <1>5 DEF IsFlattening
  <2>2. ASSUME NEW j \in T
        PROVE  j + 1 \in T
    <3>1. SUFFICES ASSUME j + 1 <= n
                   PROVE  Len(f[j + 1]) = j + 1
      OBVIOUS
    <3>2. j + 1 \in 1 .. n /\ (j + 1) - 1 = j /\ Len(f[j]) = j
      BY <1>2, <3>1
    <3>3. Len(f[j + 1]) = Len(f[(j + 1) - 1]) + Len(ones[j + 1])
      BY <1>6, <3>2 DEF IsFlattenedAt
    <3> QED
      BY <1>3, <3>2, <3>3
  <2>3. T \in SUBSET Nat
    OBVIOUS
  <2> HIDE DEF T
  <2> QED
    BY <2>1, <2>2, <2>3, Induction
<1>8. ASSUME NEW j \in 0 .. n
      PROVE  Len(f[j]) = j
  <2>1. j \in T /\ j \in Nat /\ j <= n
    <3> HIDE DEF T
    <3> QED
      BY <1>2, <1>7
  <2> QED
    BY <2>1
<1> HIDE DEF T
<1>9. f[n] \in Seq(Characters) /\ Len(f[n]) = n
  <2>1. n \in 0 .. n
    BY <1>2
  <2>2. f[n] \in Seq(Characters)
    BY <1>4, <1>5, <2>1 DEF IsFlattening
  <2> QED
    BY <1>8, <2>1, <2>2
<1>10. ASSUME NEW i \in 1 .. n
       PROVE  f[n][i] = text[i]
  <2>1. i - 1 \in 0 .. n /\ (i - 1) + 1 = i
    BY <1>2
  <2>2. 1 \in 1 .. Len(ones[i])
    BY <1>3
  <2>3. f[Len(ones)][Len(f[i - 1]) + 1] = ones[i][1]
    BY <1>6, <2>2 DEF IsFlattenedAt
  <2>4. Len(f[i - 1]) = i - 1
    BY <1>8, <2>1
  <2> QED
    BY <1>3, <1>4, <2>1, <2>3, <2>4
<1>11. f[n] = text
  <2>1. PICK g : g = f[n]
    OBVIOUS
  <2>2. g \in Seq(Characters) /\ Len(g) = n /\ \A i \in 1 .. n : g[i] = text[i]
    BY <1>9, <1>10, <2>1
  <2>3. g = text
    BY <1>1, <1>2, <2>2
  <2> QED
    BY <2>1, <2>3
<1> QED
  BY <1>1, <1>5, <1>11

LEMMA FlattenNothings ==
  ASSUME NEW n \in Nat
  PROVE  FlattenSeq([i \in 1 .. n |-> <<>>]) = <<>>
<1>1. PICK none : none = [i \in 1 .. n |-> <<>>]
  OBVIOUS
<1>2. none \in Seq(Seq(Characters)) /\ Len(none) = n /\ \A i \in 1 .. n : none[i] = <<>>
  BY <1>1
<1>3. PICK f : IsFlattening(f, none, Characters) /\ FlattenSeq(none) = f[n]
  BY <1>2, FlattenLemma
<1> DEFINE T == {j \in Nat : j <= n => f[j] = <<>>}
<1>4. T = Nat
  <2>1. 0 \in T
    BY <1>3 DEF IsFlattening
  <2>2. ASSUME NEW j \in T
        PROVE  j + 1 \in T
    <3>1. SUFFICES ASSUME j + 1 <= n
                   PROVE  f[j + 1] = <<>>
      OBVIOUS
    <3>2. j + 1 \in 1 .. n /\ (j + 1) - 1 = j /\ f[j] = <<>>
      BY <3>1
    <3>3. f[j + 1] = f[(j + 1) - 1] \o none[j + 1]
      BY <1>2, <1>3, <3>2 DEF IsFlattening
    <3>4. f[j + 1] = <<>> \o <<>>
      BY <1>2, <3>2, <3>3
    <3>5. <<>> \in Seq(Characters)
      OBVIOUS
    <3>6. <<>> \o <<>> = <<>>
      BY <3>5, ConcatEmptySeq
    <3> QED
      BY <3>4, <3>6
  <2>3. T \in SUBSET Nat
    OBVIOUS
  <2> HIDE DEF T
  <2> QED
    BY <2>1, <2>2, <2>3, Induction
<1>5. n \in T /\ n <= n
  <2> HIDE DEF T
  <2> QED
    BY <1>4
<1> QED
  BY <1>1, <1>3, <1>5

(* A text of literals says what it is, with the percent signs in it.       *)
LEMMA BodyOfLiteral ==
  ASSUME NEW text \in Seq(Characters)
  PROVE  Body(Literal(text)) = text
<1>1. PICK n, pieces : n = Len(text) /\ pieces = Literal(text)
  OBVIOUS
<1>2. n \in Nat /\ pieces = [i \in 1 .. n |-> [kind |-> "literal", arg |-> text[i]]]
  BY <1>1 DEF Literal
<1>3. DOMAIN pieces = 1 .. n
  BY <1>2
<1>4. ASSUME NEW i \in 1 .. n
      PROVE  Meaning(pieces[i]) = << text[i] >>
  <2>1. pieces[i].kind = "literal" /\ pieces[i].arg = text[i]
    BY <1>2
  <2> QED
    BY <2>1 DEF Meaning
<1>5. [i \in DOMAIN pieces |-> Meaning(pieces[i])] = [i \in 1 .. n |-> << text[i] >>]
  BY <1>3, <1>4
<1> QED
  BY <1>1, <1>5, FlattenOnes DEF Body

(* A text without percent signs is a format that prints itself: so the     *)
(* prefixes are printed as they are.                                       *)
LEMMA PlainTextIsPrinted ==
  ASSUME NEW text \in Seq(Characters), \A i \in 1 .. Len(text) : text[i] # "%"
  PROVE  Printf(text, <<>>) = text
<1>1. PICK n, pieces : n = Len(text) /\ pieces = Literal(text)
  OBVIOUS
<1>2. n \in Nat /\ pieces = [i \in 1 .. n |-> [kind |-> "literal", arg |-> text[i]]]
  BY <1>1 DEF Literal
<1>3. DOMAIN pieces = 1 .. n /\ \A i \in 1 .. n : pieces[i] = [kind |-> "literal", arg |-> text[i]]
  BY <1>2
<1>4. ASSUME NEW i \in 1 .. n
      PROVE  pieces[i] \in Piece
  <2>1. text[i] \in Characters \ {"%"}
    BY <1>1
  <2>2. pieces[i] \in [kind : {"literal"}, arg : Characters \ {"%"}]
    BY <1>3, <2>1
  <2> QED
    BY <2>2 DEF Piece
<1>5. pieces \in Seq(Piece)
  <2> HIDE DEF Piece
  <2> QED
    BY <1>2, <1>4
<1>6. FormatOf(pieces) = text
  <2>1. ASSUME NEW i \in 1 .. n
        PROVE  pieces[i].kind = "literal" /\ pieces[i].arg = text[i]
    BY <1>3
  <2>2. FormatOf(pieces) = FlattenSeq([i \in 1 .. n |-> InFormat(pieces[i])])
    BY <1>3 DEF FormatOf, InFormat
  <2>3. ASSUME NEW i \in 1 .. n
        PROVE  InFormat(pieces[i]) = << text[i] >>
    BY <2>1 DEF InFormat
  <2>4. [i \in 1 .. n |-> InFormat(pieces[i])] = [i \in 1 .. n |-> << text[i] >>]
    BY <2>3
  <2> QED
    BY <1>1, <2>2, <2>4, FlattenOnes
<1>7. Arguments(pieces) = <<>>
  <2>1. ASSUME NEW i \in 1 .. n
        PROVE  ~ IsConversion(pieces[i])
    <3>1. pieces[i].kind = "literal"
      BY <1>3
    <3> QED
      BY <3>1 DEF IsConversion, Conversions
  <2>2. Arguments(pieces) = FlattenSeq([i \in 1 .. n |-> IF IsConversion(pieces[i]) THEN << pieces[i].arg >> ELSE <<>>])
    BY <1>3 DEF Arguments
  <2>3. Arguments(pieces) = FlattenSeq([i \in 1 .. n |-> <<>>])
    BY <2>1, <2>2
  <2> QED
    BY <1>2, <2>3, FlattenNothings
<1>8. Body(pieces) = text
  BY <1>1, BodyOfLiteral
<1> QED
  BY <1>5, <1>6, <1>7, <1>8, PrintfSaysItAll

-----------------------------------------------------------------------------
(* Messages on their way.                                                  *)

ToScreen == {"screen", "print", "print again"}
Places   == {"screen", "serial", "print", "print again"}

Carries(p, text, S) ==
  /\ p \in Seq([to : S, char : Characters]) /\ text \in Seq(Characters)
  /\ Len(p) = Len(text)
  /\ \A i \in 1 .. Len(text) : p[i].char = text[i]

(* What goes to the screen goes first.                                     *)
OnItsWay(p, s, t) ==
  /\ p \in Seq([to : Places, char : Characters])
  /\ s \in Seq(Characters) /\ t \in Seq(Characters)
  /\ Len(p) = Len(s) + Len(t)
  /\ \A i \in 1 .. Len(s) : p[i].to # "serial" /\ p[i].char = s[i]
  /\ \A i \in 1 .. Len(t) : p[Len(s) + i].to = "serial" /\ p[Len(s) + i].char = t[i]

LEMMA ToCarries ==
  ASSUME NEW text \in Seq(Characters), NEW S, NEW to \in S
  PROVE  Carries(To(to, text), text, S)
<1>1. PICK n, p : n = Len(text) /\ p = To(to, text)
  OBVIOUS
<1>2. n \in Nat /\ p = [i \in 1 .. n |-> [to |-> to, char |-> text[i]]] /\ \A i \in 1 .. n : text[i] \in Characters
  BY <1>1 DEF To
<1>3. ASSUME NEW i \in 1 .. n
      PROVE  [to |-> to, char |-> text[i]] \in [to : S, char : Characters] /\ p[i].char = text[i]
  BY <1>2
<1>4. p \in Seq([to : S, char : Characters]) /\ Len(p) = n
  <2> DEFINE R == [to : S, char : Characters]
             r(i) == [to |-> to, char |-> text[i]]
  <2>1. \A i \in 1 .. n : r(i) \in R
    BY <1>3
  <2>2. p = [i \in 1 .. n |-> r(i)]
    BY <1>2
  <2> HIDE DEF R, r
  <2>3. p \in Seq(R) /\ Len(p) = n
    BY <1>2, <2>1, <2>2
  <2> QED
    BY <2>3 DEF R
<1> QED
  BY <1>1, <1>3, <1>4 DEF Carries

LEMMA CarriesBoth ==
  ASSUME NEW p, NEW q, NEW s, NEW t, NEW S, Carries(p, s, S), Carries(q, t, S)
  PROVE  Carries(p \o q, s \o t, S)
<1>1. PICK a, b : a = Len(s) /\ b = Len(t)
  OBVIOUS
<1> DEFINE R == [to : S, char : Characters]
<1>2. /\ p \in Seq(R) /\ q \in Seq(R) /\ s \in Seq(Characters) /\ t \in Seq(Characters)
      /\ a \in Nat /\ b \in Nat /\ Len(p) = a /\ Len(q) = b
      /\ \A i \in 1 .. a : p[i].char = s[i]
      /\ \A i \in 1 .. b : q[i].char = t[i]
  BY <1>1 DEF Carries
<1> HIDE DEF R
<1>3. /\ p \o q \in Seq(R) /\ Len(p \o q) = Len(p) + Len(q)
      /\ \A i \in 1 .. Len(p) + Len(q) : (p \o q)[i] = IF i <= Len(p) THEN p[i] ELSE q[i - Len(p)]
  BY <1>2, ConcatProperties
<1>4. /\ s \o t \in Seq(Characters) /\ Len(s \o t) = Len(s) + Len(t)
      /\ \A i \in 1 .. Len(s) + Len(t) : (s \o t)[i] = IF i <= Len(s) THEN s[i] ELSE t[i - Len(s)]
  BY <1>2, ConcatProperties
<1>5. PICK u, v : u = p \o q /\ v = s \o t
  OBVIOUS
<1>6. /\ u \in Seq(R) /\ v \in Seq(Characters) /\ Len(u) = a + b /\ Len(v) = a + b
      /\ \A i \in 1 .. a + b : u[i] = IF i <= a THEN p[i] ELSE q[i - a]
      /\ \A i \in 1 .. a + b : v[i] = IF i <= a THEN s[i] ELSE t[i - a]
  BY <1>1, <1>2, <1>3, <1>4, <1>5
<1>7. ASSUME NEW i \in 1 .. a + b
      PROVE  u[i].char = v[i]
  <2>1. CASE i <= a
    <3>1. i \in 1 .. a
      BY <1>2, <2>1
    <3> QED
      BY <1>2, <1>6, <2>1, <3>1
  <2>2. CASE ~ (i <= a)
    <3>1. i - a \in 1 .. b
      BY <1>2, <2>2
    <3> QED
      BY <1>2, <1>6, <2>2, <3>1
  <2> QED
    BY <2>1, <2>2
<1>8. Carries(u, v, S)
  BY <1>6, <1>7 DEF Carries, R
<1> QED
  BY <1>5, <1>8

LEMMA ElementOf ==
  ASSUME NEW A, NEW x \in Seq(A), NEW i \in 1 .. Len(x)
  PROVE  x[i] \in A
OBVIOUS

LEMMA SequenceIn ==
  ASSUME NEW A, NEW B, NEW x \in Seq(A), \A i \in 1 .. Len(x) : x[i] \in B
  PROVE  x \in Seq(B)
<1>1. x = [i \in 1 .. Len(x) |-> x[i]] /\ Len(x) \in Nat
  OBVIOUS
<1> QED
  BY <1>1

LEMMA CarriesOnItsWay ==
  ASSUME NEW p, NEW q, NEW s, NEW t, Carries(p, s, ToScreen), Carries(q, t, {"serial"})
  PROVE  OnItsWay(p \o q, s, t)
<1>1. PICK a, b : a = Len(s) /\ b = Len(t)
  OBVIOUS
<1> DEFINE R == [to : Places, char : Characters]
<1>2. /\ s \in Seq(Characters) /\ t \in Seq(Characters)
      /\ a \in Nat /\ b \in Nat /\ Len(p) = a /\ Len(q) = b
      /\ \A i \in 1 .. a : p[i].char = s[i]
      /\ \A i \in 1 .. b : q[i].char = t[i]
  BY <1>1 DEF Carries
<1>3. ASSUME NEW i \in 1 .. a
      PROVE  p[i] \in R /\ p[i].to # "serial"
  <2>1. p[i] \in [to : ToScreen, char : Characters]
    <3>1. p \in Seq([to : ToScreen, char : Characters]) /\ i \in 1 .. Len(p)
      BY <1>2 DEF Carries
    <3> QED
      BY <3>1, ElementOf
  <2>2. PICK r : r = p[i]
    OBVIOUS
  <2>3. r \in [to : ToScreen, char : Characters]
    BY <2>1, <2>2
  <2>4. r \in R /\ r.to # "serial"
    BY <2>3 DEF ToScreen, Places
  <2> QED
    BY <2>2, <2>4
<1>4. ASSUME NEW i \in 1 .. b
      PROVE  q[i] \in R /\ q[i].to = "serial"
  <2>1. q[i] \in [to : {"serial"}, char : Characters]
    <3>1. q \in Seq([to : {"serial"}, char : Characters]) /\ i \in 1 .. Len(q)
      BY <1>2 DEF Carries
    <3> QED
      BY <3>1, ElementOf
  <2>2. PICK r : r = q[i]
    OBVIOUS
  <2>3. r \in [to : {"serial"}, char : Characters]
    BY <2>1, <2>2
  <2>4. r \in R /\ r.to = "serial"
    BY <2>3 DEF Places
  <2> QED
    BY <2>2, <2>4
<1> HIDE DEF R
<1>5. p \in Seq(R) /\ q \in Seq(R)
  <2>1. p \in Seq([to : ToScreen, char : Characters]) /\ q \in Seq([to : {"serial"}, char : Characters])
    BY DEF Carries
  <2>2. (\A i \in 1 .. Len(p) : p[i] \in R) /\ \A i \in 1 .. Len(q) : q[i] \in R
    BY <1>2, <1>3, <1>4
  <2> QED
    BY <2>1, <2>2, SequenceIn
<1>6. /\ p \o q \in Seq(R) /\ Len(p \o q) = Len(p) + Len(q)
      /\ \A i \in 1 .. Len(p) + Len(q) : (p \o q)[i] = IF i <= Len(p) THEN p[i] ELSE q[i - Len(p)]
  BY <1>5, ConcatProperties
<1>7. PICK u : u = p \o q
  OBVIOUS
<1>8. /\ u \in Seq(R) /\ Len(u) = a + b
      /\ \A i \in 1 .. a + b : u[i] = IF i <= a THEN p[i] ELSE q[i - a]
  BY <1>2, <1>6, <1>7
<1>9. ASSUME NEW i \in 1 .. a
      PROVE  u[i].to # "serial" /\ u[i].char = s[i]
  <2>1. i \in 1 .. a + b /\ i <= a
    BY <1>2
  <2> QED
    BY <1>2, <1>3, <1>8, <2>1
<1>10. ASSUME NEW i \in 1 .. b
       PROVE  u[a + i].to = "serial" /\ u[a + i].char = t[i]
  <2>1. a + i \in 1 .. a + b /\ ~ (a + i <= a) /\ (a + i) - a = i
    BY <1>2
  <2>2. u[a + i] = q[i]
    BY <1>8, <2>1
  <2> QED
    BY <1>2, <1>4, <2>2
<1>11. OnItsWay(u, s, t)
  BY <1>1, <1>2, <1>8, <1>9, <1>10 DEF OnItsWay, R
<1> QED
  BY <1>7, <1>11

(* What goes to one place only.                                            *)
LEMMA CarriesNothing ==
  ASSUME NEW S
  PROVE  Carries(<<>>, <<>>, S)
<1>1. <<>> \in Seq([to : S, char : Characters]) /\ <<>> \in Seq(Characters) /\ \A i \in 1 .. Len(<<>>) : FALSE
  OBVIOUS
<1> QED
  BY <1>1 DEF Carries

LEMMA ScreenOnly ==
  ASSUME NEW p, NEW s, Carries(p, s, ToScreen)
  PROVE  OnItsWay(p, s, <<>>)
<1>1. OnItsWay(p \o <<>>, s, <<>>)
  BY CarriesNothing, CarriesOnItsWay
<1>2. p \in Seq([to : ToScreen, char : Characters])
  BY DEF Carries
<1>3. p \o <<>> = p
  BY <1>2, ConcatEmptySeq
<1> QED
  BY <1>1, <1>3

LEMMA SerialOnly ==
  ASSUME NEW q, NEW t, Carries(q, t, {"serial"})
  PROVE  OnItsWay(q, <<>>, t)
<1>1. OnItsWay(<<>> \o q, <<>>, t)
  BY CarriesNothing, CarriesOnItsWay
<1>2. q \in Seq([to : {"serial"}, char : Characters])
  BY DEF Carries
<1>3. <<>> \o q = q
  BY <1>2, ConcatEmptySeq
<1> QED
  BY <1>1, <1>3

-----------------------------------------------------------------------------
(* What a call has to bring to the screen and to the serial line.          *)

Alarm(pieces) ==
  << "--------", "\n", "KERNEL BRUH MOMENT", "\n" >> \o Body(pieces) \o << "\n", "--------", "\n" >>

Says(of, pieces, s, t) ==
  \/ of = "log"     /\ s = << "[LOG] " >> \o Body(pieces) \o << "\n" >> /\ t = <<>>
  \/ of = "warn"    /\ s = << "[WARN] " >> \o Body(pieces) /\ t = <<>>
  \/ of = "error"   /\ s = << "[ERROR] " >> \o Body(pieces) /\ t = <<>>
  \/ of = "fatal"   /\ s = << "[FATAL] " >> \o Body(pieces) /\ t = <<>>
  \/ of = "debug"   /\ s = <<>> /\ t = Body(pieces) \o << "\n" >>
  \/ of = "panic"   /\ s = Alarm(pieces) /\ t = Alarm(pieces)
  \/ of = "prints"  /\ s = Body(pieces) /\ t = <<>>
  \/ of = "kprints" /\ s = <<>> /\ t = Body(pieces)
  \/ of = "println" /\ s = Body(pieces) \o << "\n" >> /\ t = <<>>

(* The characters of a call of which nothing is printed yet.               *)
IsMessage(characters, of, pieces) ==
  \E s, t : OnItsWay(characters, s, t) /\ Says(of, pieces, s, t)

LEMMA FixedTextsArePrinted ==
  /\ \A c \in FixedTexts \cup {"\n"} : << c >> \in Seq(Characters) /\ Printf(<< c >>, <<>>) = << c >>
  /\ \A c \in FixedTexts : << c, "\n" >> \in Seq(Characters) /\ Printf(<< c, "\n" >>, <<>>) = << c, "\n" >>
<1>1. "\n" # "%" /\ \A c \in FixedTexts : c # "%"
  BY DEF FixedTexts
<1>2. "\n" \in Characters /\ FixedTexts \subseteq Characters
  BY LogAssumption
<1>3. ASSUME NEW c \in FixedTexts \cup {"\n"}
      PROVE  << c >> \in Seq(Characters) /\ Printf(<< c >>, <<>>) = << c >>
  <2>1. PICK text : text = << c >>
    OBVIOUS
  <2>2. text \in Seq(Characters) /\ Len(text) = 1 /\ text[1] # "%"
    BY <1>1, <1>2, <2>1
  <2>3. \A i \in 1 .. Len(text) : text[i] # "%"
    BY <2>2
  <2> QED
    BY <2>1, <2>2, <2>3, PlainTextIsPrinted
<1>4. ASSUME NEW c \in FixedTexts
      PROVE  << c, "\n" >> \in Seq(Characters) /\ Printf(<< c, "\n" >>, <<>>) = << c, "\n" >>
  <2>1. PICK text : text = << c, "\n" >>
    OBVIOUS
  <2>2. text \in Seq(Characters) /\ Len(text) = 2 /\ text[1] # "%" /\ text[2] # "%"
    BY <1>1, <1>2, <2>1
  <2>3. \A i \in 1 .. Len(text) : text[i] # "%"
    BY <2>2
  <2> QED
    BY <2>1, <2>2, <2>3, PlainTextIsPrinted
<1> QED
  BY <1>3, <1>4

JoinUp(w, x, y, z) ==
  << w, x >> \o << y, z >> = << w, x, y, z >> /\ << x >> \o << y, z >> = << x, y, z >>

LEMMA TuplesJoined ==
  ASSUME NEW w \in Characters, NEW x \in Characters, NEW y \in Characters, NEW z \in Characters
  PROVE  JoinUp(w, x, y, z)
<1>1. PICK p, q, r, j, k :
        /\ p = << w, x >> /\ q = << x >> /\ r = << y, z >> /\ j = << w, x, y, z >> /\ k = << x, y, z >>
  OBVIOUS
<1>2. /\ p \in Seq(Characters) /\ Len(p) = 2 /\ p[1] = w /\ p[2] = x
      /\ q \in Seq(Characters) /\ Len(q) = 1 /\ q[1] = x
      /\ r \in Seq(Characters) /\ Len(r) = 2 /\ r[1] = y /\ r[2] = z
  BY <1>1
<1>3. /\ j \in Seq(Characters) /\ Len(j) = 4 /\ j[1] = w /\ j[2] = x /\ j[3] = y /\ j[4] = z
      /\ k \in Seq(Characters) /\ Len(k) = 3 /\ k[1] = x /\ k[2] = y /\ k[3] = z
  BY <1>1
<1>4. PICK u, v : u = p \o r /\ v = q \o r
  OBVIOUS
<1>5. /\ u \in Seq(Characters) /\ Len(u) = Len(p) + Len(r)
      /\ \A i \in 1 .. Len(p) + Len(r) : u[i] = IF i <= Len(p) THEN p[i] ELSE r[i - Len(p)]
      /\ v \in Seq(Characters) /\ Len(v) = Len(q) + Len(r)
      /\ \A i \in 1 .. Len(q) + Len(r) : v[i] = IF i <= Len(q) THEN q[i] ELSE r[i - Len(q)]
  BY <1>2, <1>4, ConcatProperties
<1>6. /\ Len(u) = 4 /\ \A i \in 1 .. 4 : u[i] = j[i]
      /\ Len(v) = 3 /\ \A i \in 1 .. 3 : v[i] = k[i]
  BY <1>2, <1>3, <1>5
<1>7. u = j
  <2>1. u \in Seq(Characters) /\ j \in Seq(Characters) /\ Len(u) = 4 /\ Len(j) = 4
    BY <1>3, <1>5, <1>6
  <2>2. \A i \in 1 .. 4 : u[i] = j[i]
    BY <1>6
  <2> QED
    BY <2>1, <2>2
<1>8. v = k
  <2>1. v \in Seq(Characters) /\ k \in Seq(Characters) /\ Len(v) = 3 /\ Len(k) = 3
    BY <1>3, <1>5, <1>6
  <2>2. \A i \in 1 .. 3 : v[i] = k[i]
    BY <1>6
  <2> QED
    BY <2>1, <2>2
<1> QED
  BY <1>1, <1>4, <1>7, <1>8 DEF JoinUp

(* What panic prints, in either place.                                     *)
LEMMA AlarmIsCarried ==
  ASSUME NEW pieces \in Seq(Piece), NEW S, NEW to \in S
  PROVE  LET print(literal) == To(to, Printf(literal, <<>>))
             body == To(to, Printf(FormatOf(pieces), Arguments(pieces)))
         IN  Carries(print(<< "--------", "\n" >>) \o print(<< "KERNEL BRUH MOMENT", "\n" >>)
                       \o body \o print(<< "\n" >>) \o print(<< "--------", "\n" >>),
                     Alarm(pieces), S)
<1>1. PICK a, b, c, d : /\ a = << "--------", "\n" >> /\ b = << "KERNEL BRUH MOMENT", "\n" >>
                        /\ c = Body(pieces) /\ d = << "\n" >>
  OBVIOUS
<1>2. /\ "--------" \in FixedTexts /\ "KERNEL BRUH MOMENT" \in FixedTexts
  BY DEF FixedTexts
<1>3. /\ a \in Seq(Characters) /\ Printf(a, <<>>) = a
      /\ b \in Seq(Characters) /\ Printf(b, <<>>) = b
      /\ d \in Seq(Characters) /\ Printf(d, <<>>) = d
  BY <1>1, <1>2, FixedTextsArePrinted
<1>4. c \in Seq(Characters) /\ Printf(FormatOf(pieces), Arguments(pieces)) = c
  BY <1>1, PrintfSaysItAll
<1>5. /\ Carries(To(to, a), a, S) /\ Carries(To(to, b), b, S)
      /\ Carries(To(to, c), c, S) /\ Carries(To(to, d), d, S)
  BY <1>3, <1>4, ToCarries
<1>6. Carries(To(to, a) \o To(to, b), a \o b, S)
  BY <1>5, CarriesBoth
<1>7. Carries(To(to, a) \o To(to, b) \o To(to, c), a \o b \o c, S)
  BY <1>5, <1>6, CarriesBoth
<1>8. Carries(To(to, a) \o To(to, b) \o To(to, c) \o To(to, d), a \o b \o c \o d, S)
  BY <1>5, <1>7, CarriesBoth
<1>9. Carries(To(to, a) \o To(to, b) \o To(to, c) \o To(to, d) \o To(to, a), a \o b \o c \o d \o a, S)
  BY <1>5, <1>8, CarriesBoth
<1>10. a \o b \o c \o d \o a = Alarm(pieces)
  <2>0. "--------" \in Characters /\ "KERNEL BRUH MOMENT" \in Characters /\ "\n" \in Characters
    BY <1>2, LogAssumption
  <2>1. a \o b = << "--------", "\n", "KERNEL BRUH MOMENT", "\n" >>
    <3>1. JoinUp("--------", "\n", "KERNEL BRUH MOMENT", "\n")
      BY <2>0, TuplesJoined
    <3> QED
      BY <1>1, <3>1 DEF JoinUp
  <2>2. d \o a = << "\n", "--------", "\n" >>
    <3>1. JoinUp("\n", "\n", "--------", "\n")
      BY <2>0, TuplesJoined
    <3> QED
      BY <1>1, <3>1 DEF JoinUp
  <2>3. a \o b \in Seq(Characters)
    BY <1>3, ConcatProperties
  <2>4. (a \o b) \o c \in Seq(Characters)
    BY <1>4, <2>3, ConcatProperties
  <2>5. ((a \o b \o c) \o d) \o a = (a \o b \o c) \o (d \o a)
    <3>1. Associates(a \o b \o c, d, a)
      BY <1>3, <2>4, TextsAssociative
    <3> QED
      BY <3>1 DEF Associates
  <2> QED
    BY <1>1, <2>1, <2>2, <2>5 DEF Alarm
<1> QED
  BY <1>1, <1>3, <1>4, <1>9, <1>10

LEMMA MessagesAreMessages ==
  ASSUME NEW pieces \in Seq(Piece)
  PROVE  \A of \in {"log", "warn", "error", "fatal", "debug", "panic"} : IsMessage(Message(of, pieces), of, pieces)
<1>1. PICK body : body = Body(pieces)
  OBVIOUS
<1>2. body \in Seq(Characters) /\ Printf(FormatOf(pieces), Arguments(pieces)) = body
  BY <1>1, PrintfSaysItAll
<1>3. "screen" \in ToScreen /\ "serial" \in {"serial"}
  BY DEF ToScreen
<1>4. PICK newline : newline = << "\n" >>
  OBVIOUS
<1>5. newline \in Seq(Characters)
  BY <1>4, FixedTextsArePrinted
<1>6. /\ Carries(To("screen", body), body, ToScreen) /\ Carries(To("serial", body), body, {"serial"})
      /\ Carries(To("screen", newline), newline, ToScreen) /\ Carries(To("serial", newline), newline, {"serial"})
  BY <1>2, <1>3, <1>5, ToCarries
<1>7. ASSUME NEW c \in FixedTexts
      PROVE  /\ Printf(<< c >>, <<>>) = << c >>
             /\ Carries(To("screen", << c >>), << c >>, ToScreen)
             /\ Carries(To("screen", << c >>) \o To("screen", body), << c >> \o body, ToScreen)
  <2>1. Printf(<< c >>, <<>>) = << c >> /\ << c >> \in Seq(Characters)
    BY FixedTextsArePrinted
  <2>2. Carries(To("screen", << c >>), << c >>, ToScreen)
    BY <1>3, <2>1, ToCarries
  <2>3. Carries(To("screen", << c >>) \o To("screen", body), << c >> \o body, ToScreen)
    BY <1>6, <2>2, CarriesBoth
  <2> QED
    BY <2>1, <2>2, <2>3
<1>8. "[LOG] " \in FixedTexts /\ "[WARN] " \in FixedTexts /\ "[ERROR] " \in FixedTexts /\ "[FATAL] " \in FixedTexts
  BY DEF FixedTexts
<1>9. IsMessage(Message("log", pieces), "log", pieces)
  <2>1. Message("log", pieces) = To("screen", << "[LOG] " >>) \o To("screen", body) \o To("screen", newline)
    BY <1>2, <1>4, <1>7, <1>8 DEF Message
  <2>2. Carries(To("screen", << "[LOG] " >>) \o To("screen", body) \o To("screen", newline),
                << "[LOG] " >> \o body \o newline, ToScreen)
    BY <1>6, <1>7, <1>8, CarriesBoth
  <2>3. OnItsWay(Message("log", pieces), << "[LOG] " >> \o body \o newline, <<>>)
    BY <2>1, <2>2, ScreenOnly
  <2>4. Says("log", pieces, << "[LOG] " >> \o body \o newline, <<>>)
    BY <1>1, <1>4 DEF Says
  <2> QED
    BY <2>3, <2>4 DEF IsMessage
<1>10. IsMessage(Message("warn", pieces), "warn", pieces)
  <2>1. Message("warn", pieces) = To("screen", << "[WARN] " >>) \o To("screen", body)
    BY <1>2, <1>7, <1>8 DEF Message
  <2>2. OnItsWay(Message("warn", pieces), << "[WARN] " >> \o body, <<>>)
    BY <1>7, <1>8, <2>1, ScreenOnly
  <2>3. Says("warn", pieces, << "[WARN] " >> \o body, <<>>)
    BY <1>1 DEF Says
  <2> QED
    BY <2>2, <2>3 DEF IsMessage
<1>11. IsMessage(Message("error", pieces), "error", pieces)
  <2>1. Message("error", pieces) = To("screen", << "[ERROR] " >>) \o To("screen", body)
    BY <1>2, <1>7, <1>8 DEF Message
  <2>2. OnItsWay(Message("error", pieces), << "[ERROR] " >> \o body, <<>>)
    BY <1>7, <1>8, <2>1, ScreenOnly
  <2>3. Says("error", pieces, << "[ERROR] " >> \o body, <<>>)
    BY <1>1 DEF Says
  <2> QED
    BY <2>2, <2>3 DEF IsMessage
<1>12. IsMessage(Message("fatal", pieces), "fatal", pieces)
  <2>1. Message("fatal", pieces) = To("screen", << "[FATAL] " >>) \o To("screen", body)
    BY <1>2, <1>7, <1>8 DEF Message
  <2>2. OnItsWay(Message("fatal", pieces), << "[FATAL] " >> \o body, <<>>)
    BY <1>7, <1>8, <2>1, ScreenOnly
  <2>3. Says("fatal", pieces, << "[FATAL] " >> \o body, <<>>)
    BY <1>1 DEF Says
  <2> QED
    BY <2>2, <2>3 DEF IsMessage
<1>13. IsMessage(Message("debug", pieces), "debug", pieces)
  <2>1. Message("debug", pieces) = To("serial", body) \o To("serial", newline)
    BY <1>2, <1>4 DEF Message
  <2>2. Carries(To("serial", body) \o To("serial", newline), body \o newline, {"serial"})
    BY <1>6, CarriesBoth
  <2>3. OnItsWay(Message("debug", pieces), <<>>, body \o newline)
    BY <2>1, <2>2, SerialOnly
  <2>4. Says("debug", pieces, <<>>, body \o newline)
    BY <1>1, <1>4 DEF Says
  <2> QED
    BY <2>3, <2>4 DEF IsMessage
<1>14. IsMessage(Message("panic", pieces), "panic", pieces)
  <2> DEFINE print(to, literal) == To(to, Printf(literal, <<>>))
             alarm(to) == print(to, << "--------", "\n" >>) \o print(to, << "KERNEL BRUH MOMENT", "\n" >>)
                            \o To(to, Printf(FormatOf(pieces), Arguments(pieces)))
                            \o print(to, << "\n" >>) \o print(to, << "--------", "\n" >>)
  <2>1. Message("panic", pieces) = alarm("screen") \o alarm("serial")
    BY DEF Message
  <2>2. Carries(alarm("screen"), Alarm(pieces), ToScreen)
    BY <1>3, AlarmIsCarried
  <2>3. Carries(alarm("serial"), Alarm(pieces), {"serial"})
    BY <1>3, AlarmIsCarried
  <2> HIDE DEF alarm
  <2>4. OnItsWay(Message("panic", pieces), Alarm(pieces), Alarm(pieces))
    BY <2>1, <2>2, <2>3, CarriesOnItsWay
  <2>5. Says("panic", pieces, Alarm(pieces), Alarm(pieces))
    BY DEF Says
  <2> QED
    BY <2>4, <2>5 DEF IsMessage
<1> QED
  BY <1>9, <1>10, <1>11, <1>12, <1>13, <1>14

(* The texts without a format.                                             *)
LEMMA TextsAreMessages ==
  ASSUME NEW text \in Seq(Characters)
  PROVE  /\ IsMessage(To("print", text), "prints", Literal(text))
         /\ IsMessage(To("serial", text), "kprints", Literal(text))
         /\ IsMessage(To("print", text) \o To("print again", << "\n" >>), "println", Literal(text))
<1>1. PICK newline : newline = << "\n" >>
  OBVIOUS
<1>2. newline \in Seq(Characters)
  BY <1>1, FixedTextsArePrinted
<1>3. "print" \in ToScreen /\ "print again" \in ToScreen /\ "serial" \in {"serial"}
  BY DEF ToScreen
<1>4. /\ Carries(To("print", text), text, ToScreen) /\ Carries(To("serial", text), text, {"serial"})
      /\ Carries(To("print again", newline), newline, ToScreen)
  BY <1>2, <1>3, ToCarries
<1>5. Carries(To("print", text) \o To("print again", newline), text \o newline, ToScreen)
  BY <1>4, CarriesBoth
<1>6. /\ OnItsWay(To("print", text), text, <<>>)
      /\ OnItsWay(To("serial", text), <<>>, text)
      /\ OnItsWay(To("print", text) \o To("print again", newline), text \o newline, <<>>)
  BY <1>4, <1>5, ScreenOnly, SerialOnly
<1>7. Body(Literal(text)) = text
  BY BodyOfLiteral
<1>8. /\ Says("prints", Literal(text), text, <<>>)
      /\ Says("kprints", Literal(text), <<>>, text)
      /\ Says("println", Literal(text), text \o newline, <<>>)
  BY <1>1, <1>7 DEF Says
<1> QED
  BY <1>1, <1>6, <1>8 DEF IsMessage

-----------------------------------------------------------------------------
(* The calls.                                                              *)

(* What is printed already, with what is on its way, is what the call says; *)
(* between two calls nothing is.                                           *)
Delivery ==
  /\ pending \in Seq([to : Places, char : Characters])
  /\ printed \in [screen : Seq(Characters), serial : Seq(Characters)]
  /\ panicked \in BOOLEAN
  /\ call = NoCall => pending = <<>> /\ printed = Silence
  /\ call # NoCall => \E s, t : OnItsWay(pending, s, t)
                                /\ Says(call.of, call.pieces, printed.screen \o s, printed.serial \o t)

LEMMA DeliveryStart == LogInit => Delivery
<1> SUFFICES ASSUME LogInit
             PROVE  Delivery
  OBVIOUS
<1>1. pending = <<>> /\ call = NoCall /\ printed = Silence /\ panicked = FALSE
  BY DEF LogInit
<1>2. <<>> \in Seq([to : Places, char : Characters]) /\ <<>> \in Seq(Characters)
  OBVIOUS
<1>3. Silence \in [screen : Seq(Characters), serial : Seq(Characters)]
  BY <1>2 DEF Silence
<1> QED
  BY <1>1, <1>2, <1>3 DEF Delivery

(* A call begins with its message and nothing printed.                     *)
LEMMA CallBegins ==
  ASSUME NEW of, NEW pieces, NEW characters, IsMessage(characters, of, pieces), of # "none",
         pending' = characters, call' = [of |-> of, pieces |-> pieces], printed' = Silence,
         panicked' \in BOOLEAN
  PROVE  Delivery'
<1>1. PICK s, t : OnItsWay(characters, s, t) /\ Says(of, pieces, s, t)
  BY DEF IsMessage
<1>2. s \in Seq(Characters) /\ t \in Seq(Characters) /\ characters \in Seq([to : Places, char : Characters])
  BY <1>1 DEF OnItsWay
<1>3. printed'.screen = <<>> /\ printed'.serial = <<>> /\ printed' \in [screen : Seq(Characters), serial : Seq(Characters)]
  <2>1. <<>> \in Seq(Characters)
    OBVIOUS
  <2> QED
    BY <2>1 DEF Silence
<1>4. <<>> \o s = s /\ <<>> \o t = t
  BY <1>2, ConcatEmptySeq
<1>5. call'.of = of /\ call'.pieces = pieces /\ call' # NoCall
  BY DEF NoCall
<1>6. Says(call'.of, call'.pieces, printed'.screen \o s, printed'.serial \o t)
  BY <1>1, <1>3, <1>4, <1>5
<1>7. OnItsWay(pending', s, t)
  BY <1>1
<1>8. /\ pending' \in Seq([to : Places, char : Characters])
      /\ printed' \in [screen : Seq(Characters), serial : Seq(Characters)]
      /\ panicked' \in BOOLEAN
      /\ call' = NoCall => pending' = <<>> /\ printed' = Silence
      /\ call' # NoCall => \E u, v : OnItsWay(pending', u, v)
                                     /\ Says(call'.of, call'.pieces, printed'.screen \o u, printed'.serial \o v)
  BY <1>2, <1>3, <1>5, <1>6, <1>7
<1> QED
  BY <1>8 DEF Delivery

(* One character moves from what is on its way to what is printed.         *)
LEMMA MovedOver ==
  ASSUME NEW u \in Seq(Characters), NEW s \in Seq(Characters), s # <<>>
  PROVE  /\ Append(u, Head(s)) \in Seq(Characters) /\ Tail(s) \in Seq(Characters)
         /\ Append(u, Head(s)) \o Tail(s) = u \o s
<1>1. PICK c, rest : c = Head(s) /\ rest = Tail(s)
  OBVIOUS
<1>2. c \in Characters /\ rest \in Seq(Characters) /\ s = << c >> \o rest /\ << c >> \in Seq(Characters)
  <2>1. c \in Characters /\ rest \in Seq(Characters) /\ Len(rest) = Len(s) - 1
        /\ \A i \in 1 .. Len(rest) : rest[i] = s[i + 1]
    BY <1>1, HeadTailProperties
  <2>2. PICK n, one : n = Len(s) /\ one = << c >>
    OBVIOUS
  <2>3. n \in Nat /\ n > 0 /\ Len(rest) = n - 1 /\ one \in Seq(Characters) /\ Len(one) = 1 /\ one[1] = s[1]
    BY <1>1, <2>1, <2>2
  <2>4. PICK w : w = one \o rest
    OBVIOUS
  <2>5. /\ w \in Seq(Characters) /\ Len(w) = Len(one) + Len(rest)
        /\ \A i \in 1 .. Len(one) + Len(rest) : w[i] = IF i <= Len(one) THEN one[i] ELSE rest[i - Len(one)]
    <3>1. one \in Seq(Characters) /\ rest \in Seq(Characters)
      BY <2>1, <2>3
    <3> QED
      BY <2>4, <3>1, ConcatProperties
  <2>6. Len(w) = n
    BY <2>3, <2>5
  <2>7. ASSUME NEW i \in 1 .. n
        PROVE  w[i] = s[i]
    <3>1. CASE i = 1
      BY <2>3, <2>5, <3>1
    <3>2. CASE i # 1
      <4>1. i - 1 \in 1 .. Len(rest) /\ (i - 1) + 1 = i /\ i \in 1 .. Len(one) + Len(rest) /\ ~ (i <= Len(one))
            /\ i - Len(one) = i - 1
        BY <2>3, <3>2
      <4>2. w[i] = rest[i - 1]
        BY <2>5, <4>1
      <4> QED
        BY <2>1, <4>1, <4>2
    <3> QED
      BY <3>1, <3>2
  <2>8. w = s
    BY <2>2, <2>5, <2>6, <2>7
  <2> QED
    BY <2>1, <2>2, <2>3, <2>4, <2>8
<1>3. Append(u, c) = u \o << c >>
  BY <1>2, AppendIsConcat
<1>4. (u \o << c >>) \o rest = u \o (<< c >> \o rest)
  <2>1. Associates(u, << c >>, rest)
    BY <1>2, TextsAssociative
  <2> QED
    BY <2>1 DEF Associates
<1>5. Append(u, c) \in Seq(Characters)
  BY <1>2
<1> QED
  BY <1>1, <1>2, <1>3, <1>4, <1>5

LEMMA NextOnItsWay ==
  ASSUME NEW p, p # <<>>, NEW s, NEW t, OnItsWay(p, s, t)
  PROVE  IF Head(p).to = "serial"
           THEN s = <<>> /\ t # <<>> /\ Head(p).char = Head(t) /\ OnItsWay(Tail(p), s, Tail(t))
           ELSE s # <<>> /\ Head(p).char = Head(s) /\ OnItsWay(Tail(p), Tail(s), t)
<1>1. PICK a, b, r : a = Len(s) /\ b = Len(t) /\ r = Tail(p)
  OBVIOUS
<1> DEFINE R == [to : Places, char : Characters]
<1>2. /\ p \in Seq(R) /\ s \in Seq(Characters) /\ t \in Seq(Characters)
      /\ a \in Nat /\ b \in Nat /\ Len(p) = a + b
      /\ \A i \in 1 .. a : p[i].to # "serial" /\ p[i].char = s[i]
      /\ \A i \in 1 .. b : p[a + i].to = "serial" /\ p[a + i].char = t[i]
  BY <1>1 DEF OnItsWay
<1> HIDE DEF R
<1>3. /\ r \in Seq(R) /\ Len(r) = (a + b) - 1 /\ a + b > 0 /\ Head(p) = p[1]
      /\ \A i \in 1 .. (a + b) - 1 : r[i] = p[i + 1]
  <2>1. /\ r \in Seq(R) /\ Len(r) = Len(p) - 1 /\ \A i \in 1 .. Len(r) : r[i] = p[i + 1]
    BY <1>1, <1>2, HeadTailProperties
  <2>2. Len(p) > 0 /\ Head(p) = p[1]
    BY <1>2
  <2> QED
    BY <1>2, <2>1, <2>2
<1>4. CASE a = 0
  <2>1. b > 0 /\ 1 \in 1 .. b /\ a + 1 = 1 /\ (a + b) - 1 = b - 1 /\ b - 1 \in Nat
    BY <1>2, <1>3, <1>4
  <2>2. s = <<>> /\ t # <<>> /\ Head(t) = t[1]
    <3>1. s \in Seq(Characters) /\ Len(s) = 0
      BY <1>1, <1>2, <1>4
    <3>2. t \in Seq(Characters) /\ Len(t) # 0
      BY <1>1, <1>2, <2>1
    <3> QED
      BY <3>1, <3>2
  <2>3. p[1].to = "serial" /\ p[1].char = t[1]
    BY <1>2, <2>1
  <2>4. PICK v : v = Tail(t)
    OBVIOUS
  <2>5. v \in Seq(Characters) /\ Len(v) = b - 1 /\ \A i \in 1 .. b - 1 : v[i] = t[i + 1]
    <3>1. v \in Seq(Characters) /\ Len(v) = Len(t) - 1 /\ \A i \in 1 .. Len(v) : v[i] = t[i + 1]
      BY <1>2, <2>2, <2>4, HeadTailProperties
    <3> QED
      BY <1>1, <3>1
  <2>6. ASSUME NEW i \in 1 .. b - 1
        PROVE  r[a + i].to = "serial" /\ r[a + i].char = v[i]
    <3>1. a + i \in 1 .. (a + b) - 1 /\ (a + i) + 1 = a + (i + 1) /\ i + 1 \in 1 .. b
      BY <1>2, <1>4
    <3>2. r[a + i] = p[a + (i + 1)]
      BY <1>3, <3>1
    <3> QED
      BY <1>2, <2>5, <3>1, <3>2
  <2>7. OnItsWay(r, s, v)
    <3>1. Len(r) = a + (b - 1)
      BY <1>2, <1>3
    <3>2. \A i \in 1 .. a : r[i].to # "serial" /\ r[i].char = s[i]
      BY <1>4
    <3> QED
      BY <1>1, <1>2, <1>3, <2>5, <2>6, <3>1, <3>2 DEF OnItsWay, R
  <2> QED
    BY <1>1, <1>3, <2>2, <2>3, <2>4, <2>7
<1>5. CASE a # 0
  <2>1. a > 0 /\ 1 \in 1 .. a /\ a - 1 \in Nat
    BY <1>2, <1>5
  <2>2. s # <<>> /\ Head(s) = s[1]
    BY <1>1, <1>2, <1>5
  <2>3. p[1].to # "serial" /\ p[1].char = s[1]
    BY <1>2, <2>1
  <2>4. PICK v : v = Tail(s)
    OBVIOUS
  <2>5. v \in Seq(Characters) /\ Len(v) = a - 1 /\ \A i \in 1 .. a - 1 : v[i] = s[i + 1]
    <3>1. v \in Seq(Characters) /\ Len(v) = Len(s) - 1 /\ \A i \in 1 .. Len(v) : v[i] = s[i + 1]
      BY <1>2, <2>2, <2>4, HeadTailProperties
    <3> QED
      BY <1>1, <3>1
  <2>6. ASSUME NEW i \in 1 .. a - 1
        PROVE  r[i].to # "serial" /\ r[i].char = v[i]
    <3>1. i \in 1 .. (a + b) - 1 /\ i + 1 \in 1 .. a
      BY <1>2
    <3>2. r[i] = p[i + 1]
      BY <1>3, <3>1
    <3> QED
      BY <1>2, <2>5, <3>1, <3>2
  <2>7. ASSUME NEW i \in 1 .. b
        PROVE  r[(a - 1) + i].to = "serial" /\ r[(a - 1) + i].char = t[i]
    <3>1. (a - 1) + i \in 1 .. (a + b) - 1 /\ ((a - 1) + i) + 1 = a + i
      BY <1>2, <2>1
    <3>2. r[(a - 1) + i] = p[a + i]
      BY <1>3, <3>1
    <3> QED
      BY <1>2, <3>2
  <2>8. OnItsWay(r, v, t)
    <3>1. Len(r) = (a - 1) + b
      BY <1>2, <1>3
    <3> QED
      BY <1>1, <1>2, <1>3, <2>5, <2>6, <2>7, <3>1 DEF OnItsWay, R
  <2> QED
    BY <1>1, <1>3, <2>2, <2>3, <2>4, <2>8
<1> QED
  BY <1>4, <1>5

LEMMA CharacterPut == Delivery /\ PutNext => Delivery'
<1> SUFFICES ASSUME Delivery, PutNext
             PROVE  Delivery'
  OBVIOUS
<1>1. PICK to, c : to = Head(pending).to /\ c = Head(pending).char
  OBVIOUS
<1>2. /\ pending # <<>> /\ pending' = Tail(pending) /\ UNCHANGED <<call, panicked>>
      /\ printed' = IF to = "serial" THEN [printed EXCEPT !.serial = Append(@, c)]
                    ELSE [printed EXCEPT !.screen = Append(@, c)]
  BY <1>1 DEF PutNext
<1>3. call # NoCall /\ panicked \in BOOLEAN
      /\ printed \in [screen : Seq(Characters), serial : Seq(Characters)]
  BY <1>2 DEF Delivery
<1>4. PICK s, t : /\ OnItsWay(pending, s, t)
                  /\ Says(call.of, call.pieces, printed.screen \o s, printed.serial \o t)
  BY <1>3 DEF Delivery
<1>5. PICK u, v : u = printed.screen /\ v = printed.serial
  OBVIOUS
<1>6. u \in Seq(Characters) /\ v \in Seq(Characters) /\ s \in Seq(Characters) /\ t \in Seq(Characters)
  BY <1>3, <1>4, <1>5 DEF OnItsWay
<1>7. PICK p, x, y : p = pending' /\ x = printed'.screen /\ y = printed'.serial
  OBVIOUS
<1>8. SUFFICES ASSUME NEW s2, NEW t2, OnItsWay(p, s2, t2),
                      x \in Seq(Characters), y \in Seq(Characters), x \o s2 = u \o s, y \o t2 = v \o t
               PROVE  Delivery'
  <2>1. CASE to = "serial"
    <3>1. printed' = [printed EXCEPT !.serial = Append(@, c)]
      BY <1>2, <2>1
    <3>2. x = u /\ y = Append(v, c)
      BY <1>3, <1>5, <1>7, <3>1
    <3>3. t # <<>> /\ c = Head(t) /\ OnItsWay(p, s, Tail(t))
      BY <1>1, <1>2, <1>4, <1>7, <2>1, NextOnItsWay
    <3>4. y \in Seq(Characters) /\ y \o Tail(t) = v \o t
      BY <1>6, <3>2, <3>3, MovedOver
    <3> QED
      BY <1>6, <3>2, <3>3, <3>4
  <2>2. CASE to # "serial"
    <3>1. printed' = [printed EXCEPT !.screen = Append(@, c)]
      BY <1>2, <2>2
    <3>2. x = Append(u, c) /\ y = v
      BY <1>3, <1>5, <1>7, <3>1
    <3>3. s # <<>> /\ c = Head(s) /\ OnItsWay(p, Tail(s), t)
      BY <1>1, <1>2, <1>4, <1>7, <2>2, NextOnItsWay
    <3>4. x \in Seq(Characters) /\ x \o Tail(s) = u \o s
      BY <1>6, <3>2, <3>3, MovedOver
    <3> QED
      BY <1>6, <3>2, <3>3, <3>4
  <2> QED
    BY <2>1, <2>2
<1>9. p \in Seq([to : Places, char : Characters])
  BY <1>8 DEF OnItsWay
<1>10. printed' \in [screen : Seq(Characters), serial : Seq(Characters)]
  <2>1. CASE to = "serial"
    <3>1. printed' = [printed EXCEPT !.serial = Append(@, c)]
      BY <1>2, <2>1
    <3>2. printed' = [screen |-> printed.screen, serial |-> Append(v, c)] /\ y = Append(v, c) /\ printed.screen = u
      BY <1>3, <1>5, <1>7, <3>1
    <3> QED
      BY <1>6, <1>8, <3>2
  <2>2. CASE to # "serial"
    <3>1. printed' = [printed EXCEPT !.screen = Append(@, c)]
      BY <1>2, <2>2
    <3>2. printed' = [screen |-> Append(u, c), serial |-> printed.serial] /\ x = Append(u, c) /\ printed.serial = v
      BY <1>3, <1>5, <1>7, <3>1
    <3> QED
      BY <1>6, <1>8, <3>2
  <2> QED
    BY <2>1, <2>2
<1>11. Says(call.of, call.pieces, x \o s2, y \o t2)
  BY <1>4, <1>5, <1>8
<1>12. /\ pending' \in Seq([to : Places, char : Characters])
       /\ panicked' \in BOOLEAN
       /\ call' = NoCall => pending' = <<>> /\ printed' = Silence
       /\ call' # NoCall => \E a, b : OnItsWay(pending', a, b)
                                      /\ Says(call'.of, call'.pieces, printed'.screen \o a, printed'.serial \o b)
  BY <1>2, <1>3, <1>7, <1>8, <1>9, <1>11
<1> QED
  BY <1>10, <1>12 DEF Delivery

LEMMA NextDelivery == Delivery /\ [LogNext]_<<consoleVars, logVars>> => Delivery'
<1> SUFFICES ASSUME Delivery, [LogNext]_<<consoleVars, logVars>>
             PROVE  Delivery'
  OBVIOUS
<1>1. ASSUME UNCHANGED <<pending, call, printed, panicked>>
      PROVE  Delivery'
  BY <1>1 DEF Delivery
<1>2. panicked \in BOOLEAN /\ Silence \in [screen : Seq(Characters), serial : Seq(Characters)]
  <2>1. <<>> \in Seq(Characters)
    OBVIOUS
  <2> QED
    BY <2>1 DEF Delivery, Silence
<1>3. ASSUME NEW of, NEW pieces, NEW characters, of # "none", IsMessage(characters, of, pieces),
             Begin(of, pieces, characters), UNCHANGED panicked
      PROVE  Delivery'
  <2>1. call = NoCall /\ UNCHANGED printed /\ pending' = characters /\ call' = [of |-> of, pieces |-> pieces]
    BY <1>3 DEF Begin, Ready
  <2>2. printed' = Silence /\ panicked' \in BOOLEAN
    BY <1>2, <1>3, <2>1 DEF Delivery
  <2> QED
    BY <1>3, <2>1, <2>2, CallBegins
<1>4. CASE \E pieces \in Formats :
             log(pieces) \/ warn(pieces) \/ error(pieces) \/ fatal(pieces) \/ debug(pieces)
  <2>1. PICK pieces \in Formats : log(pieces) \/ warn(pieces) \/ error(pieces) \/ fatal(pieces) \/ debug(pieces)
    BY <1>4
  <2>2. pieces \in Seq(Piece)
    BY LogAssumption
  <2>3. PICK of \in {"log", "warn", "error", "fatal", "debug"} :
          Begin(of, pieces, Message(of, pieces)) /\ UNCHANGED panicked
    BY <2>1 DEF log, warn, error, fatal, debug
  <2>4. IsMessage(Message(of, pieces), of, pieces) /\ of # "none"
    BY <2>2, MessagesAreMessages
  <2> QED
    BY <1>3, <2>3, <2>4
<1>5. CASE \E pieces \in Alarms : panic(pieces)
  <2>1. PICK pieces \in Alarms : panic(pieces)
    BY <1>5
  <2>2. pieces \in Seq(Piece)
    BY LogAssumption
  <2>3. IsMessage(Message("panic", pieces), "panic", pieces)
    BY <2>2, MessagesAreMessages
  <2> QED
    BY <2>1, <2>3, CallBegins DEF panic
<1>6. CASE \E text \in Texts : prints(text) \/ kprints(text) \/ println(text)
  <2>1. PICK text \in Texts : prints(text) \/ kprints(text) \/ println(text)
    BY <1>6
  <2>2. text \in Seq(Characters)
    BY LogAssumption
  <2>3. CASE prints(text)
    BY <1>3, <2>2, <2>3, TextsAreMessages DEF prints
  <2>4. CASE kprints(text)
    BY <1>3, <2>2, <2>4, TextsAreMessages DEF kprints
  <2>5. CASE println(text)
    BY <1>3, <2>2, <2>5, TextsAreMessages DEF println
  <2> QED
    BY <2>1, <2>3, <2>4, <2>5
<1>7. CASE PutNext
  BY <1>7, CharacterPut
<1>8. CASE Return
  <2>1. pending' = <<>> /\ call' = NoCall /\ printed' = Silence /\ panicked' = panicked /\ UNCHANGED pending
    BY <1>8 DEF Return
  <2>2. pending' \in Seq([to : Places, char : Characters])
    BY <2>1
  <2> QED
    BY <1>2, <2>1, <2>2 DEF Delivery
<1>9. CASE FramebufferTag \/ FillRectangle \/ Stopped \/ UNCHANGED <<consoleVars, logVars>>
  BY <1>1, <1>9 DEF FramebufferTag, FillRectangle, Stopped, logVars
<1> QED
  BY <1>4, <1>5, <1>6, <1>7, <1>8, <1>9 DEF LogNext

(* Between what is printed and what is on its way nothing of a message is  *)
(* lost, whichever call prints it and when panic begins.                   *)
THEOREM DeliveryInvariance == LogSpec => []Delivery
<1> QED BY DeliveryStart, NextDelivery, PTL DEF LogSpec

(* The types: what is on its way, and what has been printed, is text.      *)
THEOREM LogTypeCorrect == LogSpec => []LogTypeOK
<1>1. ConsoleInv /\ Delivery => LogTypeOK
  BY DEF ConsoleInv, Delivery, LogTypeOK, Places
<1> QED BY <1>1, ConsoleInvariance, DeliveryInvariance, PTL

(* Each call prints what its pieces mean - with its prefix, in its place,  *)
(* completely and in order, panic in both places and whatever message it   *)
(* interrupts - for all formats of known conversions, all their arguments  *)
(* and all texts.                                                          *)
THEOREM PrintsAsFormatted == LogSpec => []PrintedAsFormatted
<1>1. Delivery => PrintedAsFormatted
  <2> SUFFICES ASSUME Delivery, call # NoCall, pending = <<>>
               PROVE  PrintedAsFormatted
    BY DEF PrintedAsFormatted
  <2>1. PICK s, t : /\ OnItsWay(pending, s, t)
                    /\ Says(call.of, call.pieces, printed.screen \o s, printed.serial \o t)
    BY DEF Delivery
  <2>2. printed \in [screen : Seq(Characters), serial : Seq(Characters)]
    BY DEF Delivery
  <2>3. s = <<>> /\ t = <<>>
    <3>1. s \in Seq(Characters) /\ t \in Seq(Characters) /\ Len(s) + Len(t) = 0
      BY <2>1 DEF OnItsWay
    <3>2. Len(s) = 0 /\ Len(t) = 0
      BY <3>1
    <3> QED
      BY <3>1, <3>2
  <2>4. PICK u, v : u = printed.screen /\ v = printed.serial
    OBVIOUS
  <2>5. u \in Seq(Characters) /\ v \in Seq(Characters) /\ printed = [screen |-> u, serial |-> v]
    BY <2>2, <2>4
  <2>6. u \o <<>> = u /\ v \o <<>> = v
    BY <2>5, ConcatEmptySeq
  <2>7. Says(call.of, call.pieces, u, v)
    BY <2>1, <2>3, <2>4, <2>6
  <2>8. PICK of, pieces : of = call.of /\ pieces = call.pieces
    OBVIOUS
  <2> DEFINE body  == FlattenSeq([i \in DOMAIN pieces |-> Meaning(pieces[i])])
             alarm == << "--------", "\n", "KERNEL BRUH MOMENT", "\n" >> \o body \o << "\n", "--------", "\n" >>
             on(screen_, serial_) == printed = [screen |-> screen_, serial |-> serial_]
             Expected ==
               CASE of = "log"   -> on(<< "[LOG] " >> \o body \o << "\n" >>, <<>>)
                 [] of = "warn"  -> on(<< "[WARN] " >> \o body, <<>>)
                 [] of = "error" -> on(<< "[ERROR] " >> \o body, <<>>)
                 [] of = "fatal" -> on(<< "[FATAL] " >> \o body, <<>>)
                 [] of = "debug" -> on(<<>>, body \o << "\n" >>)
                 [] of = "panic" -> on(alarm, alarm)
                 [] of = "prints"  -> on(body, <<>>)
                 [] of = "kprints" -> on(<<>>, body)
                 [] of = "println" -> on(body \o << "\n" >>, <<>>)
  <2>9. Says(of, pieces, u, v) /\ body = Body(pieces) /\ alarm = Alarm(pieces)
    BY <2>7, <2>8 DEF Body, Alarm
  <2>10. ASSUME NEW x, NEW y, u = x, v = y
         PROVE  on(x, y)
    BY <2>5, <2>10
  <2> HIDE DEF body, alarm
  <2>11. Expected
    <3> HIDE DEF on
    <3> QED
      BY <2>9, <2>10 DEF Says
  <2> HIDE DEF Expected
  <2>12. Expected => PrintedAsFormatted
    BY <2>8 DEF PrintedAsFormatted, Expected, body, alarm
  <2> QED
    BY <2>11, <2>12
<1> QED BY <1>1, DeliveryInvariance, PTL
=============================================================================
