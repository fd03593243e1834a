--------------------------------- MODULE Log ---------------------------------
(***************************************************************************)
(* The kernel's messages (Kernel/src/Lib/Log.cpp), on the console and on   *)
(* the serial line.                                                        *)
(*                                                                         *)
(* A caller's format is given in pieces, [kind, arg]: a literal character, *)
(* "%%", or a conversion with its argument; the code sees the characters   *)
(* of the format and the arguments apart.  A word of a fixed prefix counts *)
(* as one character.                                                       *)
(***************************************************************************)
EXTENDS Strings, Console, SequencesExt

CONSTANTS
  Characters,   \* those that strings are made of, the terminating null not among them
  Formats,      \* what messages are made of: sequences of pieces
  Alarms,       \* what panic is called with, out of the same pieces
  Texts,        \* what is printed without a format
  Tags,         \* framebuffer tags of the boot loader
  Rectangles,   \* what is filled: [x, y, w, h], whose edges do not wrap
  MaxX, MaxY    \* bounds on where the cursor is when a message begins

Conversions == {"c", "d", "u", "x", "s"}

FixedTexts == {"[LOG] ", "[WARN] ", "[ERROR] ", "[FATAL] ", "--------", "KERNEL BRUH MOMENT"}

(* Numbers are those that fit the type that the conversion takes them for; *)
(* "%x" is used for pointers and for integers.                             *)
Piece ==
  [kind : {"literal"}, arg : Characters \ {"%"}] \cup [kind : {"percent"}, arg : {NUL}] \cup
  [kind : {"c"}, arg : Characters] \cup [kind : {"s"}, arg : Seq(Characters)] \cup
  [kind : {"d"}, arg : - Power(2, Width - 1) .. Power(2, Width - 1) - 1] \cup
  [kind : {"u"}, arg : 0 .. Words - 1] \cup
  [kind : {"x"}, arg : - Power(2, Width - 1) .. Words - 1]

ASSUME LogAssumption ==
  /\ Conversions \cup FixedTexts \cup {Digit[i] : i \in 1 .. 16} \cup {"%", "-", "\n"} \subseteq Characters
  /\ NUL \notin Characters
  /\ Formats \subseteq Seq(Piece) /\ Alarms \subseteq Seq(Piece) /\ Texts \subseteq Seq(Characters)
  /\ Tags \subseteq [addr : Nat, width : Nat, height : Nat, pitch : Nat, bpp : Nat, rgb : BOOLEAN]
  /\ \A tag \in Tags : FitsAddressSpace(tag)
  /\ Rectangles \subseteq [x : Nat, y : Nat, w : Nat, h : Nat]
  /\ \A r \in Rectangles : r.x + r.w < U32 /\ r.y + r.h < U32

VARIABLES
  pending,   \* the characters on their way, and where to: [to, char]
  startX,    \* startX of FramebufferConsole::print
  call,      \* the last call: [of, pieces]
  printed,   \* what it has brought to the screen and the serial line
  panicked   \* panic has been called

logVars == <<pending, startX, call, printed, panicked>>

-----------------------------------------------------------------------------
(* printf. *)

(* Faulty: a literal goes on to the end of the format. *)
LiteralEnd_Last(format, start) == Len(format) + 1

(* Where a literal ends whose first character, which may be "%", is given. *)
LiteralEnd(format, start) ==
  CHOOSE j \in start + 1 .. Len(format) + 1 :
    /\ j = Len(format) + 1 \/ format[j] = "%"
    /\ \A k \in start + 1 .. j - 1 : format[k] # "%"

Converted(conversion, arg) ==
  CASE conversion = "c" -> << arg >>
    [] conversion = "d" -> itos(arg, 10)
    [] conversion = "u" -> utos(Unsigned(arg), 10)
    [] conversion = "x" -> << "0", "x" >> \o utos(Unsigned(arg), 16)
    [] conversion = "s" -> arg

(* What is printed from the i-th character of the format and the k-th      *)
(* argument on, when from says what is printed from later ones on.  After  *)
(* an unknown conversion the rest of the format is printed as it is, and   *)
(* what follows it in memory is read: here it is taken to be a null.       *)
PrintedFrom(from, format, args, i, k) ==
  LET next  == At(format, i + 1)
      start == IF format[i] = "%" THEN i + 1 ELSE i
      end   == LiteralEnd(format, start)
  IN  CASE i = Len(format) + 1 -> <<>>
        [] i <= Len(format) /\ (format[i] # "%" \/ next = "%") ->
             SubSeq(format, start, end - 1) \o from[<<end, k>>]
        [] i <= Len(format) /\ format[i] = "%" /\ next \in Conversions ->
             Converted(next, args[k]) \o from[<<i + 2, k + 1>>]
        [] OTHER -> SubSeq(format, i, Len(format))

Printf(format, args) ==
  LET from[p \in (1 .. Len(format) + 1) \X Nat] == PrintedFrom(from, format, args, p[1], p[2])
  IN  from[<<1, 1>>]

-----------------------------------------------------------------------------
(* Calls. *)

IsConversion(piece) == piece.kind \in Conversions

FormatOf(pieces) ==
  FlattenSeq([i \in DOMAIN pieces |->
                CASE pieces[i].kind = "literal" -> << pieces[i].arg >>
                  [] pieces[i].kind = "percent" -> << "%", "%" >>
                  [] OTHER                      -> << "%", pieces[i].kind >>])

Arguments(pieces) ==
  FlattenSeq([i \in DOMAIN pieces |->
                IF IsConversion(pieces[i]) THEN << pieces[i].arg >> ELSE <<>>])

To(to, text) == [i \in DOMAIN text |-> [to |-> to, char |-> text[i]]]

(* va_list is a pointer, of which each printf gets a copy: panic can go    *)
(* through its arguments twice.                                            *)
Message(of, pieces) ==
  LET print(to, literal) == To(to, Printf(literal, <<>>))
      body(to)           == To(to, Printf(FormatOf(pieces), Arguments(pieces)))
      alarm(to) == print(to, << "--------", "\n" >>) \o print(to, << "KERNEL BRUH MOMENT", "\n" >>)
                     \o body(to) \o print(to, << "\n" >>) \o print(to, << "--------", "\n" >>)
  IN  CASE of = "log"   -> print("screen", << "[LOG] " >>) \o body("screen") \o To("screen", << "\n" >>)
        [] of = "warn"  -> print("screen", << "[WARN] " >>) \o body("screen")
        [] of = "error" -> print("screen", << "[ERROR] " >>) \o body("screen")
        [] of = "fatal" -> print("screen", << "[FATAL] " >>) \o body("screen")
        [] of = "debug" -> body("serial") \o To("serial", << "\n" >>)
        [] of = "panic" -> alarm("screen") \o alarm("serial")

NoCall == [of |-> "none", pieces |-> <<>>]
Silence == [screen |-> <<>>, serial |-> <<>>]

(* Where the model stops counting. *)
WithinBounds == cursor.x <= MaxX /\ cursor.y <= MaxY

Ready ==
  /\ call = NoCall
  /\ written <= mapped
  /\ WithinBounds

Begin(of, pieces, characters) ==
  /\ Ready
  /\ pending' = characters
  /\ call' = [of |-> of, pieces |-> pieces]
  /\ startX' = cursor.x
  /\ UNCHANGED <<consoleVars, printed>>

log(pieces)   == Begin("log", pieces, Message("log", pieces)) /\ UNCHANGED panicked
warn(pieces)  == Begin("warn", pieces, Message("warn", pieces)) /\ UNCHANGED panicked
error(pieces) == Begin("error", pieces, Message("error", pieces)) /\ UNCHANGED panicked
fatal(pieces) == Begin("fatal", pieces, Message("fatal", pieces)) /\ UNCHANGED panicked
debug(pieces) == Begin("debug", pieces, Message("debug", pieces)) /\ UNCHANGED panicked

(* An exception makes handleInterrupt call panic between any two steps of  *)
(* another message, of which the rest is never seen.                       *)
panic(pieces) ==
  /\ ~ panicked /\ written <= mapped /\ WithinBounds
  /\ panicked' = TRUE
  /\ pending' = Message("panic", pieces)
  /\ call' = [of |-> "panic", pieces |-> pieces]
  /\ printed' = Silence
  /\ UNCHANGED <<consoleVars, startX>>

Literal(text) == [i \in DOMAIN text |-> [kind |-> "literal", arg |-> text[i]]]

(* The texts without a format, and println, which prints a newline by a    *)
(* second print: that begins where the first has ended.                    *)
prints(text)  == Begin("prints", Literal(text), To("print", text)) /\ UNCHANGED panicked
kprints(text) == Begin("kprints", Literal(text), To("serial", text)) /\ UNCHANGED panicked
println(text) ==
  /\ Begin("println", Literal(text), To("print", text) \o To("print again", << "\n" >>))
  /\ UNCHANGED panicked

(* The next character goes to where it is meant for. *)
PutNext ==
  /\ pending # <<>> /\ written <= mapped
  /\ LET c  == Head(pending).char
         to == Head(pending).to
     IN  /\ \/ to = "screen" /\ putChar(c)
            \/ to = "print" /\ PrintChar(c, startX)
            \/ to = "print again" /\ PrintChar(c, cursor.x)
            \/ to = "serial" /\ UNCHANGED consoleVars
         /\ printed' = IF to = "serial" THEN [printed EXCEPT !.serial = Append(@, c)]
                       ELSE [printed EXCEPT !.screen = Append(@, c)]
  /\ pending' = Tail(pending)
  /\ UNCHANGED <<startX, call, panicked>>

(* The call returns, unless it was one of panic. *)
Return ==
  /\ call # NoCall /\ pending = <<>> /\ ~ panicked
  /\ call' = NoCall /\ printed' = Silence /\ startX' = 0
  /\ UNCHANGED <<consoleVars, pending, panicked>>

FramebufferTag ==
  /\ Ready
  /\ \E tag \in Tags : SetUpScreen(tag)
  /\ UNCHANGED logVars

FillRectangle ==
  /\ Ready
  /\ \E r \in Rectangles : fillRect(r.x, r.y, r.w, r.h)
  /\ UNCHANGED logVars

(* panic does not return; nor does a fault on the way to the screen. *)
Stopped ==
  /\ \/ panicked /\ pending = <<>>
     \/ written > mapped
     \/ ~ WithinBounds /\ call = NoCall
  /\ UNCHANGED <<consoleVars, logVars>>

LogInit ==
  /\ ConsoleInit
  /\ pending = <<>>
  /\ startX = 0
  /\ call = NoCall
  /\ printed = Silence
  /\ panicked = FALSE

LogNext ==
  \/ \E pieces \in Formats :
       log(pieces) \/ warn(pieces) \/ error(pieces) \/ fatal(pieces) \/ debug(pieces)
  \/ \E pieces \in Alarms : panic(pieces)
  \/ \E text \in Texts : prints(text) \/ kprints(text) \/ println(text)
  \/ PutNext \/ Return
  \/ FramebufferTag \/ FillRectangle
  \/ Stopped

LogSpec == LogInit /\ [][LogNext]_<<consoleVars, logVars>>

-----------------------------------------------------------------------------
(* Properties. *)

LogTypeOK ==
  /\ ConsoleTypeOK
  /\ pending \in Seq([to : {"screen", "serial", "print", "print again"}, char : Characters])
  /\ startX \in Nat
  /\ printed \in [screen : Seq(Characters), serial : Seq(Characters)]
  /\ panicked \in BOOLEAN

(* What a piece of a message means to its reader. *)
Meaning(piece) ==
  CASE piece.kind \in {"literal", "c"} -> << piece.arg >>
    [] piece.kind = "percent" -> << "%" >>
    [] piece.kind = "s" -> piece.arg
    [] piece.kind = "d" -> IF piece.arg < 0 THEN << "-" >> \o Numeral(-piece.arg, 10) ELSE Numeral(piece.arg, 10)
    [] piece.kind = "u" -> Numeral(piece.arg, 10)
    [] piece.kind = "x" -> << "0", "x" >> \o Numeral(Unsigned(piece.arg), 16)

(* A message is complete, and so is all of what it says: piece by piece,   *)
(* with its prefix, each argument by its own conversion, neither "%%" nor  *)
(* a string argument taken for a conversion, the least integer and zero    *)
(* included.  panic says the same in both places, whatever it interrupts.  *)
PrintedAsFormatted ==
  call # NoCall /\ pending = <<>> =>
    LET body  == FlattenSeq([i \in DOMAIN call.pieces |-> Meaning(call.pieces[i])])
        alarm == << "--------", "\n", "KERNEL BRUH MOMENT", "\n" >> \o body \o << "\n", "--------", "\n" >>
        on(screen_, serial_) == printed = [screen |-> screen_, serial |-> serial_]
    IN  CASE call.of = "log"   -> on(<< "[LOG] " >> \o body \o << "\n" >>, <<>>)
          [] call.of = "warn"  -> on(<< "[WARN] " >> \o body, <<>>)
          [] call.of = "error" -> on(<< "[ERROR] " >> \o body, <<>>)
          [] call.of = "fatal" -> on(<< "[FATAL] " >> \o body, <<>>)
          [] call.of = "debug" -> on(<<>>, body \o << "\n" >>)
          [] call.of = "panic" -> on(alarm, alarm)
          [] call.of = "prints"  -> on(body, <<>>)
          [] call.of = "kprints" -> on(<<>>, body)
          [] call.of = "println" -> on(body \o << "\n" >>, <<>>)
=============================================================================
