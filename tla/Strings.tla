------------------------------- MODULE Strings -------------------------------
(***************************************************************************)
(* The string helpers (Kernel/src/Lib/String.cpp).                         *)
(*                                                                         *)
(* A string is the sequence of its characters before the terminating null; *)
(* a character is a TLA+ string of one character.  Integers have Width     *)
(* bits.                                                                   *)
(***************************************************************************)
EXTENDS Integers, Sequences

CONSTANT Width   \* 32 in the code

ASSUME WidthAssumption == Width \in Nat \ {0}

NUL == ""

(* The i-th character in memory, the terminating null included. *)
At(str, i) == IF i \in 1 .. Len(str) THEN str[i] ELSE NUL

(* base to the n; a recursion that can be reasoned about. *)
Power(base, n) ==
  LET power[k \in 0 .. n] == IF k = 0 THEN 1 ELSE base * power[k - 1]
  IN  power[n]

Words == Power(2, Width)

Unsigned(n) == n % Words
Signed(n)   == LET u == n % Words IN IF u < Power(2, Width - 1) THEN u ELSE u - Words

-----------------------------------------------------------------------------
(* Numbers. *)

Digit == << "0", "1", "2", "3", "4", "5", "6", "7", "8", "9", "a", "b", "c", "d", "e", "f" >>

Reversed(str) == [i \in 1 .. Len(str) |-> str[Len(str) + 1 - i]]

(* The remainders of repeated division, the last digit first. *)
Remainders(value, base) ==
  LET rest[v \in 0 .. value] ==
        IF v = 0 THEN <<>> ELSE << Digit[(v % base) + 1] >> \o rest[v \div base]
  IN  rest[value]

utos(value, base) == IF value = 0 THEN << "0" >> ELSE Reversed(Remainders(value, base))

(* base is unsigned, which makes the divisions unsigned: so they are right *)
(* also of the least number, whose negative does not fit.                  *)
itos(value, base) ==
  IF value < 0 /\ base = 10
    THEN Reversed(Append(Remainders(Unsigned(Signed(-value)), base), "-"))
    ELSE utos(Unsigned(value), base)

(* The digits of a number, from the first, as arithmetic defines them.     *)
DigitsOf(n, base) ==
  CHOOSE l \in 1 .. Width : (l = 1 \/ Power(base, l - 1) <= n) /\ n < Power(base, l)

Numeral(n, base) ==
  [i \in 1 .. DigitsOf(n, base) |->
     Digit[((n \div Power(base, DigitsOf(n, base) - i)) % base) + 1]]

-----------------------------------------------------------------------------
(* Comparing and copying. *)

(* strcmp ends at the first position where one string ends or they differ; *)
(* its callers ask whether it finds a difference there.                    *)
strcmpIsZero(str1, str2) ==
  \E i \in 1 .. Len(str1) + 1 :
    /\ \A k \in 1 .. i - 1 : At(str1, k) # NUL /\ At(str1, k) = At(str2, k)
    /\ At(str1, i) = NUL /\ At(str2, i) = NUL

(* strncmp also ends, without a difference, when n characters are equal. *)
strncmpIsZero(str1, str2, n) ==
  LET same(i) == \A k \in 1 .. i : At(str1, k) # NUL /\ At(str1, k) = At(str2, k)
  IN  \/ same(n)
      \/ \E i \in 1 .. n : same(i - 1) /\ At(str1, i) = NUL /\ At(str2, i) = NUL

strlen(str) == Len(str)

(* strncpy copies n characters, or up to the null and with it; dest is the *)
(* array written to.                                                       *)
strncpy(dest, src, n) ==
  [i \in DOMAIN dest |-> IF i <= n /\ i <= Len(src) + 1 THEN At(src, i) ELSE dest[i]]

(* The string in an array: what stands before its first null. *)
IsStringIn(str, array) ==
  /\ Len(str) + 1 \in DOMAIN array /\ array[Len(str) + 1] = NUL
  /\ \A i \in 1 .. Len(str) : array[i] = str[i] /\ str[i] # NUL
=============================================================================
