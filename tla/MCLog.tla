-------------------------------- MODULE MCLog --------------------------------
(* Messages and screens of Log's run. *)
EXTENDS Log

TheCharacters == Conversions \cup FixedTexts \cup {Digit[i] : i \in 1 .. 16}
                   \cup {"%", "-", "\n", "\t"}

(* Integers have five bits: -16 is the least, 31 the greatest unsigned one. *)
Pieces ==
  {[kind |-> "literal", arg |-> c] : c \in {"d", "\n"}} \cup
  {[kind |-> "percent", arg |-> NUL]} \cup
  {[kind |-> "c", arg |-> c] : c \in {"%", "\t"}} \cup
  {[kind |-> "d", arg |-> n] : n \in {-16, 0, 15}} \cup
  {[kind |-> "u", arg |-> 31], [kind |-> "x", arg |-> -1]} \cup
  {[kind |-> "s", arg |-> s] : s \in {<<>>, << "%", "d" >>}}

(* Those whose characters can be mistaken for one another. *)
Confusable == {[kind |-> "literal", arg |-> "d"], [kind |-> "percent", arg |-> NUL],
               [kind |-> "d", arg |-> -16], [kind |-> "s", arg |-> << "%", "d" >>]}

TheFormats == {<<>>} \cup {<<p>> : p \in Pieces} \cup (Pieces \X Pieces)
                \cup (Confusable \X Confusable \X Confusable)

TheAlarms == { <<>>, << [kind |-> "d", arg |-> -16], [kind |-> "literal", arg |-> "\n"],
                        [kind |-> "x", arg |-> -1] >> }

TheTexts == { << "a" >>, << "a", "\n", "\t" >> }

(* Screens of 26 by 32 pixels with rows that follow each other, with a gap *)
(* between them, and one that ends within a page; tags that cannot be used. *)
Screen == [addr |-> 1, width |-> 26, height |-> 32, pitch |-> 104, bpp |-> 32, rgb |-> TRUE]

TheTags == { Screen, [Screen EXCEPT !.pitch = 112], [Screen EXCEPT !.height = 31],
             [Screen EXCEPT !.addr = 0], [Screen EXCEPT !.rgb = FALSE], [Screen EXCEPT !.bpp = 24] }

(* One that ends in the corner of the screen, one that does not, and empty *)
(* ones.                                                                   *)
TheRectangles == [x : {25, 26}, y : {20}, w : {0, 9}, h : {0, 30}]

Picture == [at |-> 15, width |-> 21, height |-> 24]
=============================================================================
