------------------------------- MODULE Console -------------------------------
(***************************************************************************)
(* The framebuffer and the console on it (Kernel/src/Drivers/              *)
(* Framebuffer.cpp and FramebufferConsole.cpp), and the case of stage2     *)
(* that sets them up (Kernel/src/main.cpp).                                *)
(*                                                                         *)
(* Of the picture only its extent is kept: how far into the buffer has     *)
(* been written, and where the last glyph is that can be seen.  A glyph is *)
(* taken to fill its 8 by 8 pixels.  Sums and products are those of u32,   *)
(* except for the cursor's, which takes 2^32 pixels of text to wrap.       *)
(***************************************************************************)
EXTENDS Integers

CONSTANTS
  WordLimit,    \* 2^30, the words of four bytes in 2^32 bytes (fewer in runs)
  PageWords,    \* words in a page
  Image         \* the picture stage2 draws: [at, width, height]

ASSUME ConsoleAssumption ==
  /\ WordLimit \in Nat \ {0} /\ PageWords \in Nat \ {0}
  /\ Image \in [at : Nat, width : Nat, height : Nat]

VARIABLES
  screen,    \* Framebuffer: [width, height, pitch], in pixels and bytes
  mapped,    \* the words mapped at the address of the buffer
  written,   \* one more than the highest word written to on this screen
  cursor,    \* x and y of FramebufferConsole
  lastGlyph  \* where the last glyph that can be seen is

consoleVars == <<screen, mapped, written, cursor, lastGlyph>>

U32 == 4 * WordLimit   \* 2^32, of which u32 is the remainder

Nowhere == [x |-> -1, y |-> -1]

Highest(S) == CHOOSE n \in S : \A k \in S : k <= n

-----------------------------------------------------------------------------
(* Framebuffer. *)

(* Faulty: the right and the lower edge belong to the screen. *)
IsOnScreen_Edge(fb, x, y) == x <= fb.width /\ y <= fb.height

IsOnScreen(fb, x, y) == x < fb.width /\ y < fb.height

Offset(fb, x, y) == (y * (fb.pitch \div 4) + x) % U32

(* putPixel at every pixel of a rectangle: how far it writes, in all.      *)
Painted(fb, x, y, width, height) ==
  {Offset(fb, p[1], p[2]) + 1 : p \in
     {q \in (x .. x + width - 1) \X (y .. y + height - 1) : IsOnScreen(fb, q[1], q[2])}}

(* Faulty: bytes are taken for pixels. *)
Cleared_Bytes(fb) == fb.pitch * fb.height

(* A side of a rectangle, cut off at the edge of the screen; one of which  *)
(* the far end wraps is not.                                               *)
Clipped(start, length, limit) ==
  IF (start + length) % U32 > limit THEN limit - start ELSE length

(* How far fillRect writes: to the last pixel of its last row. *)
Filled(fb, x, y, w, h) ==
  LET width  == Clipped(x, w, fb.width)
      height == Clipped(y, h, fb.height)
  IN  IF IsOnScreen(fb, x, y) /\ width > 0 /\ height > 0
        THEN {Offset(fb, x + width - 1, y + height - 1) + 1} ELSE {}

fillRect(x, y, w, h) ==
  /\ written' = Highest({written} \cup Filled(screen, x, y, w, h))
  /\ UNCHANGED <<screen, mapped, cursor, lastGlyph>>

(* clear goes through the buffer as if rows followed each other.           *)
Cleared(fb) == (fb.width * fb.height) % U32

-----------------------------------------------------------------------------
(* The framebuffer tag of the boot loader. *)

(* What is left of a size, whose bytes are a u32, when it is mapped page   *)
(* by page.                                                                *)
PagesOf(fb) == ((fb.width * fb.height) % WordLimit) \div PageWords

IsUsable(tag) ==
  /\ tag.addr # 0 /\ tag.width # 0 /\ tag.height # 0 /\ tag.pitch # 0 /\ tag.bpp # 0
  /\ tag.rgb
  /\ tag.bpp = 32

(* The screen of a tag fits the address space: no product of its sides     *)
(* wraps.                                                                  *)
FitsAddressSpace(tag) ==
  /\ tag.width < WordLimit /\ tag.width * tag.height < WordLimit
  /\ tag.height * (tag.pitch \div 4) < WordLimit

(* The buffer is mapped and cleared, the console starts in its corner, and *)
(* the picture is drawn.  What an earlier tag has had mapped stays mapped. *)
SetUpScreen(tag) ==
  IF ~ IsUsable(tag) THEN UNCHANGED consoleVars
  ELSE LET fb == [width |-> tag.width, height |-> tag.height, pitch |-> tag.pitch]
       IN  /\ screen' = fb
           /\ mapped' = Highest({mapped, PagesOf(fb) * PageWords})
           /\ written' = Highest({Cleared(fb)} \cup
                                 Painted(fb, Image.at, Image.at, Image.width, Image.height))
           /\ cursor' = [x |-> 10, y |-> 10]
           /\ lastGlyph' = Nowhere

-----------------------------------------------------------------------------
(* FramebufferConsole. *)

Unprintable == {"\t"}

(* Faulty: the line is not left. *)
Newline_SameLine(x) == cursor' = [cursor EXCEPT !.x = x]

Newline(x) == cursor' = [x |-> x, y |-> cursor.y + 10]

DrawGlyph ==
  LET pixels == Painted(screen, cursor.x, cursor.y, 8, 8)
  IN  /\ written' = Highest({written} \cup pixels)
      /\ lastGlyph' = IF pixels = {} THEN lastGlyph ELSE cursor

(* What is drawn for a character, and how far it moves the cursor in       *)
(* putChar, which print adds to.                                           *)
PutGlyph(c, advance) ==
  /\ IF c \in Unprintable THEN UNCHANGED <<written, lastGlyph>> ELSE DrawGlyph
  /\ cursor' = [cursor EXCEPT !.x = @ + advance + (IF c \in Unprintable THEN 0 ELSE 8)]

putChar(c) ==
  /\ IF c = "\n" THEN Newline(10) /\ UNCHANGED <<written, lastGlyph>> ELSE PutGlyph(c, 0)
  /\ UNCHANGED <<screen, mapped>>

(* One turn of the loop of print, which keeps to the column it began in.   *)
PrintChar(c, startX) ==
  /\ IF c = "\n" THEN Newline(startX) /\ UNCHANGED <<written, lastGlyph>> ELSE PutGlyph(c, 8)
  /\ UNCHANGED <<screen, mapped>>

ConsoleInit ==
  /\ screen = [width |-> 0, height |-> 0, pitch |-> 0]
  /\ mapped = 0
  /\ written = 0
  /\ cursor = [x |-> 0, y |-> 0]
  /\ lastGlyph = Nowhere

-----------------------------------------------------------------------------
(* Properties. *)

ConsoleTypeOK ==
  /\ screen \in [width : Nat, height : Nat, pitch : Nat]
  /\ mapped \in Nat /\ written \in Nat
  /\ cursor \in [x : Nat, y : Nat]
  /\ \/ lastGlyph = Nowhere
     \/ lastGlyph.x \in 0 .. screen.width - 1 /\ lastGlyph.y \in 0 .. screen.height - 1

(* The words of a buffer, up to the last pixel of its last row. *)
BufferWords(fb) == (fb.height - 1) * (fb.pitch \div 4) + fb.width

(* Text that leaves the screen on the right or below, and the picture, are *)
(* cut off: nothing is written behind the last pixel of the screen, and    *)
(* nothing that is not mapped - for a screen of whole pages without gaps   *)
(* between its rows, which is what the kernel asks for.  (Of any other,    *)
(* the last page is not mapped, and clear, or a glyph, faults there.)      *)
DrawsInside ==
  /\ screen.pitch >= 4 * screen.width => written <= BufferWords(screen)
  /\ screen.pitch = 4 * screen.width /\ (screen.width * screen.height) % PageWords = 0 =>
       written <= mapped

(* The cursor is always past the last glyph seen: to the right of it or at *)
(* least a line below, so that no message is written over another, however *)
(* log, warn (which ends without a newline), print (which has its own      *)
(* column) and println follow each other.                                  *)
InReadingOrder ==
  lastGlyph # Nowhere =>
    \/ cursor.y >= lastGlyph.y + 8
    \/ cursor.y = lastGlyph.y /\ cursor.x >= lastGlyph.x + 8
=============================================================================
