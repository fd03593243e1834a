----------------------------- MODULE StringProofs -----------------------------
(***************************************************************************)
(* What the string helpers answer, for all strings: the modules that treat *)
(* names and paths as values rest on it.  And what digits the conversions  *)
(* write of a number, for all numbers of all word widths.                  *)
(***************************************************************************)
EXTENDS Strings, SequenceTheorems, WellFoundedInduction, TLAPS

(* A string: characters, none of which is the null. *)
IsCString(s) == s \in Seq(STRING \ {NUL})

LEMMA AtLemma ==
  ASSUME NEW s, IsCString(s)
  PROVE  /\ Len(s) \in Nat
         /\ \A i \in Nat \ {0} : IF i <= Len(s) THEN At(s, i) = s[i] /\ At(s, i) # NUL ELSE At(s, i) = NUL
BY DEF IsCString, At

(* strcmp finds no difference between equal strings, and only there: two   *)
(* names are the same name to findDevice, and two paths the same path to   *)
(* isPathMounted, exactly if they are equal.                               *)
THEOREM StrcmpIsEquality ==
  ASSUME NEW s, NEW t, IsCString(s), IsCString(t)
  PROVE  strcmpIsZero(s, t) <=> s = t
<1>1. ASSUME s = t
      PROVE  strcmpIsZero(s, t)
  <2>1. Len(s) + 1 \in 1 .. Len(s) + 1 /\ At(s, Len(s) + 1) = NUL
    BY AtLemma
  <2>2. \A k \in 1 .. Len(s) + 1 - 1 : At(s, k) # NUL
    BY AtLemma
  <2> QED
    BY <1>1, <2>1, <2>2 DEF strcmpIsZero
<1>2. ASSUME strcmpIsZero(s, t)
      PROVE  s = t
  <2>1. PICK i \in 1 .. Len(s) + 1 :
          /\ \A k \in 1 .. i - 1 : At(s, k) # NUL /\ At(s, k) = At(t, k)
          /\ At(s, i) = NUL /\ At(t, i) = NUL
    BY <1>2 DEF strcmpIsZero
  <2>2. i = Len(s) + 1
    BY <2>1, AtLemma
  <2>3. Len(t) < i
    BY <2>1, AtLemma
  <2>4. \A k \in 1 .. Len(s) : k <= Len(t) /\ s[k] = t[k]
    BY <2>1, <2>2, AtLemma
  <2>5. Len(s) = Len(t)
    <3>1. Len(s) # 0 => Len(s) <= Len(t)
      BY <2>4, AtLemma
    <3> QED
      BY <2>2, <2>3, <3>1, AtLemma
  <2> QED
    BY <2>4, <2>5 DEF IsCString
<1> QED
  BY <1>1, <1>2

(* strncmp over the length of a path finds no difference exactly if that   *)
(* path begins the other one: which is how findMountPoint compares.        *)
THEOREM StrncmpIsPrefix ==
  ASSUME NEW s, NEW p, IsCString(s), IsCString(p)
  PROVE  strncmpIsZero(s, p, Len(p)) <=> Len(p) <= Len(s) /\ \A k \in 1 .. Len(p) : s[k] = p[k]
<1> DEFINE same(i) == \A k \in 1 .. i : At(s, k) # NUL /\ At(s, k) = At(p, k)
<1>1. strncmpIsZero(s, p, Len(p)) <=>
        same(Len(p)) \/ \E i \in 1 .. Len(p) : same(i - 1) /\ At(s, i) = NUL /\ At(p, i) = NUL
  BY DEF strncmpIsZero
<1>2. \A i \in 1 .. Len(p) : At(p, i) # NUL
  BY AtLemma
<1>3. ASSUME same(Len(p))
      PROVE  Len(p) <= Len(s) /\ \A k \in 1 .. Len(p) : s[k] = p[k]
  <2>1. \A k \in 1 .. Len(p) : k <= Len(s) /\ s[k] = p[k]
    BY <1>3, AtLemma
  <2>2. Len(p) # 0 => Len(p) <= Len(s)
    BY <2>1, AtLemma
  <2> QED
    BY <2>1, <2>2, AtLemma
<1>4. ASSUME Len(p) <= Len(s), \A k \in 1 .. Len(p) : s[k] = p[k]
      PROVE  same(Len(p))
  BY <1>4, AtLemma
<1> QED
  BY <1>1, <1>2, <1>3, <1>4

(* strncpy of a string shorter than n leaves an array that holds it, with  *)
(* its null: the copies of names and paths in arrays of 256 characters are *)
(* those strings.                                                          *)
THEOREM StrncpyHolds ==
  ASSUME NEW size \in Nat, NEW dest \in [1 .. size -> STRING], NEW src, IsCString(src),
         NEW n \in 1 .. size, Len(src) < n
  PROVE  IsStringIn(src, strncpy(dest, src, n))
<1> DEFINE array == strncpy(dest, src, n)
<1>1. DOMAIN dest = 1 .. size /\ Len(src) \in Nat /\ Len(src) + 1 <= n /\ n <= size
  BY AtLemma
<1>2. \A i \in 1 .. Len(src) + 1 : i \in DOMAIN array /\ array[i] = At(src, i)
  BY <1>1 DEF strncpy
<1> HIDE DEF array
<1>3. Len(src) + 1 \in DOMAIN array /\ array[Len(src) + 1] = NUL
  BY <1>1, <1>2, AtLemma
<1>4. \A i \in 1 .. Len(src) : array[i] = src[i] /\ src[i] # NUL
  BY <1>1, <1>2, AtLemma
<1> QED
  BY <1>3, <1>4 DEF IsStringIn, array

-----------------------------------------------------------------------------
(* Recursion. *)

(* Induction over the natural numbers, with a set for the property.        *)
LEMMA Induction ==
  ASSUME NEW T \in SUBSET Nat, 0 \in T, \A n \in T : n + 1 \in T
  PROVE  T = Nat
<1> DEFINE Out == Nat \ T
<1> SUFFICES ASSUME Out # {}
             PROVE  FALSE
  OBVIOUS
<1>1. PICK n \in Out : \A m \in Out : ~ (<<m, n>> \in OpToRel(<, Nat))
  <2>1. Out \subseteq Nat
    OBVIOUS
  <2> HIDE DEF Out
  <2> QED
    BY <2>1, NatLessThanWellFounded, WFMin
<1>2. n \in Nat /\ n # 0 /\ n - 1 \in Nat
  OBVIOUS
<1>3. n - 1 \in Out
  <2>1. CASE n - 1 \in T
    <3>1. (n - 1) + 1 \in T
      BY <2>1
    <3> QED
      BY <1>2, <3>1
  <2> QED
    BY <1>2, <2>1
<1>4. <<n - 1, n>> \in OpToRel(<, Nat)
  BY <1>2 DEF OpToRel
<1> QED
  BY <1>1, <1>3, <1>4

(* A function whose value at d is given at once (given[d]) or follows from *)
(* its value at a place of less rank (step) exists.                        *)
Solves(f, D, given, before, step) ==
  \A d \in D : f[d] = IF d \in DOMAIN given THEN given[d] ELSE step[<<d, f[before[d]]>>]

IsRecursion(D, R, bound, rank, B, given, before, step) ==
  /\ bound \in Nat /\ rank \in [D -> 0 .. bound]
  /\ R # {} /\ B \subseteq D /\ given \in [B -> R]
  /\ before \in [D \ B -> D] /\ step \in [(D \ B) \X R -> R]
  /\ \A d \in D \ B : rank[before[d]] < rank[d]

LEMMA Recursion ==
  ASSUME NEW D, NEW R, NEW bound, NEW rank, NEW B, NEW given, NEW before, NEW step,
         IsRecursion(D, R, bound, rank, B, given, before, step)
  PROVE  \E f \in [D -> R] : Solves(f, D, given, before, step)
<1> USE DEF IsRecursion
<1> PICK r : r \in R
  OBVIOUS
<1> DEFINE Below(n) == {d \in D : rank[d] < n}
           T == {n \in Nat : \E f \in [D -> R] : Solves(f, Below(n), given, before, step)}
<1>1. T = Nat
  <2>1. 0 \in T
    <3>1. Below(0) = {}
      OBVIOUS
    <3>2. Solves([d \in D |-> r], Below(0), given, before, step)
      BY <3>1 DEF Solves
    <3> QED
      BY <3>2
  <2>2. ASSUME NEW n \in T
        PROVE  n + 1 \in T
    <3>1. PICK f \in [D -> R] : Solves(f, Below(n), given, before, step)
      OBVIOUS
    <3> DEFINE value(d) == IF d \in B THEN given[d] ELSE step[<<d, f[before[d]]>>]
               g == [d \in D |-> value(d)]
    <3>2. \A d \in D : value(d) \in R
      OBVIOUS
    <3>3. g \in [D -> R]
      BY <3>2
    <3>4. \A d \in Below(n) : g[d] = f[d]
      BY <3>1 DEF Solves
    <3>5. ASSUME NEW d \in Below(n + 1)
          PROVE  g[d] = IF d \in DOMAIN given THEN given[d] ELSE step[<<d, g[before[d]]>>]
      <4>1. CASE d \in B
        BY <4>1
      <4>2. CASE d \notin B
        <5>1. before[d] \in D /\ rank[before[d]] \in Int /\ rank[d] \in Int /\ rank[before[d]] < rank[d]
          BY <4>2
        <5>2. before[d] \in Below(n)
          BY <5>1
        <5>3. g[before[d]] = f[before[d]]
          BY <5>2, <3>4
        <5> QED
          BY <4>2, <5>3
      <4> QED
        BY <4>1, <4>2
    <3>6. Solves(g, Below(n + 1), given, before, step)
      BY <3>5 DEF Solves
    <3>7. n + 1 \in Nat
      OBVIOUS
    <3> HIDE DEF g, Below
    <3> QED
      BY <3>3, <3>6, <3>7
  <2>3. T \in SUBSET Nat
    OBVIOUS
  <2> HIDE DEF T
  <2> QED
    BY <2>1, <2>2, <2>3, Induction
<1>2. PICK f \in [D -> R] : Solves(f, Below(bound + 1), given, before, step)
  <2>1. bound + 1 \in Nat
    OBVIOUS
  <2>2. bound + 1 \in T
    <3> HIDE DEF T
    <3> QED
      BY <1>1, <2>1
  <2> QED
    BY <2>2
<1>3. Below(bound + 1) = D
  OBVIOUS
<1> QED
  BY <1>2, <1>3

-----------------------------------------------------------------------------
(* Powers. *)

LEMMA PowerLemma ==
  ASSUME NEW b \in Nat, NEW n \in Nat
  PROVE  Power(b, n) \in Nat /\ Power(b, 0) = 1 /\ Power(b, n + 1) = b * Power(b, n)
<1> DEFINE power(m) == CHOOSE f : f = [k \in 0 .. m |-> IF k = 0 THEN 1 ELSE b * f[k - 1]]
<1>1. ASSUME NEW m \in Nat
      PROVE  power(m) = [k \in 0 .. m |-> IF k = 0 THEN 1 ELSE b * power(m)[k - 1]]
  <2> DEFINE D      == 0 .. m
             rank   == [k \in D |-> k]
             given  == [k \in {0} |-> 1]
             before == [k \in D \ {0} |-> k - 1]
             step   == [p \in (D \ {0}) \X Nat |-> b * p[2]]
  <2>1. \E f \in [D -> Nat] : Solves(f, D, given, before, step)
    <3>1. /\ rank \in [D -> 0 .. m] /\ given \in [{0} -> Nat] /\ before \in [D \ {0} -> D]
          /\ {0} \in SUBSET D /\ 1 \in Nat /\ \A d \in D \ {0} : rank[before[d]] < rank[d]
      OBVIOUS
    <3>2. step \in [(D \ {0}) \X Nat -> Nat]
      BY SMT
    <3>3. IsRecursion(D, Nat, m, rank, {0}, given, before, step)
      <4> HIDE DEF D, rank, given, before, step
      <4> QED
        BY <3>1, <3>2 DEF IsRecursion
    <3> HIDE DEF D, rank, given, before, step
    <3> QED
      BY <3>3, Recursion
  <2>2. PICK f \in [D -> Nat] : Solves(f, D, given, before, step)
    BY <2>1
  <2>3. ASSUME NEW k \in D
        PROVE  f[k] = IF k = 0 THEN 1 ELSE b * f[k - 1]
    <3>1. CASE k = 0
      BY <2>2, <3>1 DEF Solves
    <3>2. CASE k # 0
      <4>1. k \in D \ {0} /\ k - 1 \in D
        BY <3>2
      <4>2. before[k] = k - 1 /\ f[k - 1] \in Nat
        BY <4>1
      <4>3. f[k] = step[<<k, f[before[k]]>>]
        BY <2>2, <4>1 DEF Solves
      <4>4. step[<<k, f[k - 1]>>] = b * f[k - 1]
        BY <4>1, <4>2
      <4> QED
        BY <3>2, <4>2, <4>3, <4>4
    <3> QED
      BY <3>1, <3>2
  <2>4. f = [k \in 0 .. m |-> IF k = 0 THEN 1 ELSE b * f[k - 1]]
    BY <2>3
  <2> QED
    BY <2>4
<1>2. ASSUME NEW m \in Nat
      PROVE  power(m)[0] = 1 /\ \A k \in 1 .. m : power(m)[k] = b * power(m)[k - 1]
  <2> HIDE DEF power
  <2> QED
    BY <1>1
<1>3. \A m \in Nat : Power(b, m) = power(m)[m]
  BY DEF Power
<1> HIDE DEF power
<1> DEFINE T == {k \in Nat : power(k)[k] \in Nat /\ \A m \in Nat : k <= m => power(m)[k] = power(k)[k]}
<1>4. T = Nat
  <2>1. 0 \in T
    BY <1>2
  <2>2. ASSUME NEW k \in T
        PROVE  k + 1 \in T
    <3>1. ASSUME NEW m \in Nat, k + 1 <= m
          PROVE  power(m)[k + 1] = b * power(k)[k]
      <4>1. power(m)[k + 1] = b * power(m)[(k + 1) - 1]
        BY <1>2, <3>1
      <4>2. (k + 1) - 1 = k /\ k <= m
        BY <3>1
      <4> QED
        BY <4>1, <4>2
    <3>2. power(k + 1)[k + 1] = b * power(k)[k] /\ power(k)[k] \in Nat
      BY <3>1
    <3>3. power(k + 1)[k + 1] \in Nat
      BY <3>2
    <3> QED
      BY <3>1, <3>2, <3>3
  <2>3. T \in SUBSET Nat
    OBVIOUS
  <2> HIDE DEF T
  <2> QED
    BY <2>1, <2>2, <2>3, Induction
<1>5. power(n)[n] \in Nat /\ power(n + 1)[n] = power(n)[n]
  BY <1>4
<1>6. power(n + 1)[n + 1] = b * power(n + 1)[(n + 1) - 1]
  BY <1>2
<1> QED
  BY <1>2, <1>3, <1>5, <1>6

(* A greater exponent gives a greater power, and so does a greater base.   *)
LEMMA PowersGrow ==
  ASSUME NEW b \in Nat, b >= 2, NEW k \in Nat, NEW n \in Nat
  PROVE  /\ Power(b, n) > 0
         /\ k <= n => Power(b, k) <= Power(b, n)
         /\ Power(2, n) <= Power(b, n)
<1> DEFINE T == {m \in Nat : /\ Power(b, m) > 0 /\ Power(2, m) <= Power(b, m)
                             /\ \A j \in Nat : j <= m => Power(b, j) <= Power(b, m)}
<1>1. T = Nat
  <2>1. 0 \in T
    <3>1. Power(b, 0) = 1 /\ Power(2, 0) = 1
      BY PowerLemma
    <3>2. \A j \in Nat : j <= 0 => j = 0
      OBVIOUS
    <3> QED
      BY <3>1, <3>2
  <2>2. ASSUME NEW m \in T
        PROVE  m + 1 \in T
    <3> DEFINE pb == Power(b, m)
               p2 == Power(2, m)
    <3>1. /\ pb \in Nat /\ p2 \in Nat /\ pb > 0 /\ p2 <= pb
          /\ Power(b, m + 1) = b * pb /\ Power(2, m + 1) = 2 * p2
      BY PowerLemma
    <3>2. \A j \in Nat : j <= m => Power(b, j) \in Nat /\ Power(b, j) <= pb
      BY PowerLemma
    <3> HIDE DEF pb, p2
    <3>3. pb <= b * pb /\ 2 * p2 <= b * pb /\ b * pb > 0
      <4>1. 2 * pb <= b * pb /\ b * pb \in Nat
        BY <3>1, SMT
      <4> QED
        BY <3>1, <4>1, SMT
    <3>4. ASSUME NEW j \in Nat, j <= m + 1
          PROVE  Power(b, j) <= Power(b, m + 1)
      <4>1. CASE j = m + 1
        BY <3>1, <3>3, <4>1, PowerLemma
      <4>2. CASE j <= m
        BY <3>1, <3>2, <3>3, <4>2
      <4> QED
        BY <3>4, <4>1, <4>2
    <3> QED
      BY <3>1, <3>3, <3>4
  <2>3. T \in SUBSET Nat
    OBVIOUS
  <2> HIDE DEF T
  <2> QED
    BY <2>1, <2>2, <2>3, Induction
<1>2. n \in T
  <2> HIDE DEF T
  <2> QED
    BY <1>1
<1> QED
  BY <1>2

LEMMA Quotient ==
  ASSUME NEW v \in Nat, NEW a \in Nat \ {0}
  PROVE  v \div a \in Nat /\ v % a \in 0 .. a - 1 /\ v = a * (v \div a) + (v % a)
OBVIOUS

LEMMA QuotientUnique ==
  ASSUME NEW a \in Nat \ {0}, NEW x \in Nat, NEW r \in 0 .. a - 1
  PROVE  (a * x + r) \div a = x
<1>1. (a * x + r) \div a = x /\ (a * x + r) % a = r
  BY SMTT(30)
<1> QED
  BY <1>1

LEMMA QuotientOfQuotient ==
  ASSUME NEW v \in Nat, NEW a \in Nat \ {0}, NEW b \in Nat \ {0}
  PROVE  a * b \in Nat \ {0} /\ (v \div a) \div b = v \div (a * b)
<1>1. PICK x, r : x = v \div a /\ r = v % a
  OBVIOUS
<1>2. x \in Nat /\ r \in 0 .. a - 1 /\ v = a * x + r
  BY <1>1, Quotient
<1>3. PICK y, s : y = x \div b /\ s = x % b
  OBVIOUS
<1>4. y \in Nat /\ s \in 0 .. b - 1 /\ x = b * y + s
  BY <1>2, <1>3, Quotient
<1>5. a * b \in Nat \ {0} /\ a * s \in Nat /\ a * s + a <= a * b
  <2>1. \A p \in Nat : a * p \in Nat
    BY SMT
  <2>2. a * (s + 1) = a * s + a /\ a * (s + 1) <= a * b
    BY <1>4, SMT
  <2>3. a * b > 0
    BY SMT
  <2> QED
    BY <1>4, <2>1, <2>2, <2>3, SMT
<1>6. a * s + r \in 0 .. a * b - 1
  BY <1>2, <1>5, SMT
<1>7. v = (a * b) * y + (a * s + r)
  BY <1>2, <1>4, SMT
<1>8. v \div (a * b) = y
  BY <1>4, <1>5, <1>6, <1>7, QuotientUnique
<1> QED
  BY <1>1, <1>3, <1>5, <1>8

-----------------------------------------------------------------------------
(* Digits. *)

Digits == {Digit[d + 1] : d \in 0 .. 15}

(* The digits of v, the last one first, as many as it needs.               *)
IsReversedNumeral(s, v, base) ==
  /\ s \in Seq(Digits)
  /\ v = 0 => s = <<>>
  /\ v > 0 => Len(s) > 0 /\ Power(base, Len(s) - 1) <= v
  /\ v < Power(base, Len(s))
  /\ \A i \in 1 .. Len(s) : s[i] = Digit[((v \div Power(base, i - 1)) % base) + 1]

LEMMA OneMoreDigit ==
  ASSUME NEW base \in 2 .. 16, NEW v \in Nat \ {0}, NEW s, IsReversedNumeral(s, v \div base, base)
  PROVE  IsReversedNumeral(<< Digit[(v % base) + 1] >> \o s, v, base)
<1>1. PICK q, r : q = v \div base /\ r = v % base
  OBVIOUS
<1>2. base \in Nat \ {0} /\ q \in Nat /\ r \in 0 .. base - 1 /\ v = base * q + r /\ v > 0
  <2>1. base \in Nat \ {0} /\ v \in Nat /\ v > 0
    OBVIOUS
  <2> QED
    BY <1>1, <2>1, Quotient
<1>3. PICK n : n = Len(s)
  OBVIOUS
<1>4. s \in Seq(Digits) /\ n \in Nat
  BY <1>3 DEF IsReversedNumeral
<1>5. PICK d : d = Digit[r + 1]
  OBVIOUS
<1>6. d \in Digits
  <2>1. r \in 0 .. 15
    BY <1>2
  <2> QED
    BY <1>5, <2>1 DEF Digits
<1>7. PICK t : t = << d >> \o s
  OBVIOUS
<1>8. /\ t \in Seq(Digits) /\ Len(t) = n + 1 /\ t[1] = d
      /\ \A i \in 2 .. n + 1 : t[i] = s[i - 1]
  <2>1. PICK u : u = << d >>
    OBVIOUS
  <2>2. u \in Seq(Digits) /\ Len(u) = 1 /\ u[1] = d
    BY <1>6, <2>1
  <2>3. t = u \o s
    BY <1>7, <2>1
  <2> QED
    <3>1. /\ u \o s \in Seq(Digits) /\ Len(u \o s) = Len(u) + Len(s)
          /\ \A i \in 1 .. Len(u) + Len(s) : (u \o s)[i] = IF i <= Len(u) THEN u[i] ELSE s[i - Len(u)]
      BY <1>4, <2>2, ConcatProperties
    <3> QED
      BY <1>3, <1>4, <2>2, <2>3, <3>1
<1>9. PICK p : p = Power(base, n)
  OBVIOUS
<1>10. p \in Nat /\ Power(base, n + 1) = base * p
  BY <1>2, <1>4, <1>9, PowerLemma
<1>11. p <= v
  <2>1. CASE q = 0
    <3>1. n = 0
      BY <1>1, <1>3, <2>1 DEF IsReversedNumeral
    <3> QED
      BY <1>2, <1>9, <3>1, PowerLemma
  <2>2. CASE q > 0
    <3>1. n > 0 /\ Power(base, n - 1) <= q
      BY <1>1, <1>3, <2>2 DEF IsReversedNumeral
    <3>2. n - 1 \in Nat /\ (n - 1) + 1 = n
      BY <1>4, <3>1
    <3>3. PICK o : o = Power(base, n - 1)
      OBVIOUS
    <3>4. o \in Nat /\ p = base * o
      BY <1>2, <1>9, <3>2, <3>3, PowerLemma
    <3>5. base * o <= base * q
      BY <1>2, <3>1, <3>3, <3>4, SMT
    <3>6. base * q \in Nat /\ base * q <= v
      BY <1>2, SMT
    <3>7. base * o \in Nat
      BY <3>4, <1>10
    <3> QED
      BY <1>2, <3>4, <3>5, <3>6, <3>7, SMT
  <2> QED
    BY <1>2, <2>1, <2>2
<1>12. v < base * p
  <2>1. q < p
    BY <1>1, <1>3, <1>9 DEF IsReversedNumeral
  <2>2. base * (q + 1) <= base * p /\ base * (q + 1) = base * q + base
    BY <1>2, <1>10, <2>1, SMT
  <2>3. base * q \in Nat /\ base * p \in Nat
    BY <1>2, <1>10, SMT
  <2> QED
    BY <1>2, <2>2, <2>3, SMT
<1>13. ASSUME NEW i \in 1 .. n + 1
       PROVE  t[i] = Digit[((v \div Power(base, i - 1)) % base) + 1]
  <2>1. CASE i = 1
    <3>1. Power(base, i - 1) = 1 /\ v \div 1 = v
      BY <1>2, <2>1, PowerLemma
    <3> QED
      BY <1>1, <1>5, <1>8, <2>1, <3>1
  <2>2. CASE i > 1
    <3>1. i \in 2 .. n + 1 /\ i - 1 \in 1 .. n /\ i - 2 \in Nat /\ (i - 1) - 1 = i - 2 /\ (i - 2) + 1 = i - 1
      BY <1>4, <2>2
    <3>2. t[i] = Digit[((q \div Power(base, i - 2)) % base) + 1]
      BY <1>1, <1>3, <1>8, <3>1 DEF IsReversedNumeral
    <3>3. Power(base, i - 2) \in Nat \ {0} /\ Power(base, i - 1) = base * Power(base, i - 2)
      <4>1. Power(base, i - 2) \in Nat /\ Power(base, (i - 2) + 1) = base * Power(base, i - 2)
        BY <1>2, <3>1, PowerLemma
      <4>2. base >= 2
        OBVIOUS
      <4>3. Power(base, i - 2) > 0
        BY <1>2, <3>1, <4>2, PowersGrow
      <4> QED
        BY <3>1, <4>1, <4>3
    <3>4. q \div Power(base, i - 2) = v \div (base * Power(base, i - 2))
      BY <1>1, <1>2, <3>3, QuotientOfQuotient
    <3> QED
      BY <3>2, <3>3, <3>4
  <2> QED
    BY <1>4, <2>1, <2>2
<1>14. Len(t) - 1 = n /\ n + 1 > 0
  BY <1>4, <1>8
<1>15. IsReversedNumeral(t, v, base)
  BY <1>2, <1>8, <1>9, <1>10, <1>11, <1>12, <1>13, <1>14 DEF IsReversedNumeral
<1> QED
  BY <1>1, <1>5, <1>7, <1>15

(* The recursion that defines Remainders has a solution, and it is what    *)
(* repeated division by the base gives.                                    *)
LEMMA RemaindersLemma ==
  ASSUME NEW base \in 2 .. 16, NEW value \in Nat
  PROVE  IsReversedNumeral(Remainders(value, base), value, base)
<1> DEFINE one(v)  == << Digit[(v % base) + 1] >>
           Def(f)  == f = [v \in 0 .. value |-> IF v = 0 THEN <<>> ELSE one(v) \o f[v \div base]]
           D       == 0 .. value
           rank    == [v \in D |-> v]
           given   == [v \in {0} |-> <<>>]
           before  == [v \in D \ {0} |-> v \div base]
           step    == [p \in (D \ {0}) \X Seq(Digits) |-> one(p[1]) \o p[2]]
<1>1. ASSUME NEW v \in D \ {0}
      PROVE  v \div base \in D /\ v \div base < v
  <2>1. PICK q, r : q = v \div base /\ r = v % base
    OBVIOUS
  <2>2. v \in Nat /\ v > 0 /\ v <= value /\ base \in Nat \ {0} /\ base >= 2
    OBVIOUS
  <2>3. q \in Nat /\ r \in Nat /\ v = base * q + r
    BY <2>1, <2>2, Quotient
  <2>4. 2 * q <= base * q /\ base * q \in Nat
    BY <2>2, <2>3, SMT
  <2>5. q < v
    BY <2>2, <2>3, <2>4, SMT
  <2> QED
    BY <2>1, <2>2, <2>3, <2>5
<1>2. ASSUME NEW v \in D
      PROVE  one(v) \in Seq(Digits)
  <2>1. v % base \in 0 .. 15
    <3>1. v \in Nat /\ base \in Nat \ {0} /\ base <= 16
      OBVIOUS
    <3>2. v % base \in 0 .. base - 1
      BY <3>1, Quotient
    <3> QED
      BY <3>1, <3>2
  <2>2. PICK d : d = Digit[(v % base) + 1]
    OBVIOUS
  <2>3. d \in Digits
    BY <2>1, <2>2 DEF Digits
  <2>4. << d >> \in Seq(Digits)
    BY <2>3
  <2> QED
    BY <2>2, <2>4
<1>3. \E f : Def(f)
  <2>1. step \in [(D \ {0}) \X Seq(Digits) -> Seq(Digits)]
    <3>1. ASSUME NEW p \in (D \ {0}) \X Seq(Digits)
          PROVE  one(p[1]) \o p[2] \in Seq(Digits)
      <4>1. one(p[1]) \in Seq(Digits) /\ p[2] \in Seq(Digits)
        BY <1>2
      <4> HIDE DEF one
      <4> QED
        BY <4>1, ConcatProperties
    <3> HIDE DEF one, D
    <3> QED
      BY <3>1
  <2>2. IsRecursion(D, Seq(Digits), value, rank, {0}, given, before, step)
    <3>1. rank \in [D -> 0 .. value] /\ {0} \subseteq D /\ given \in [{0} -> Seq(Digits)]
      OBVIOUS
    <3>2. before \in [D \ {0} -> D] /\ \A v \in D \ {0} : rank[before[v]] < rank[v]
      BY <1>1
    <3>3. Seq(Digits) # {}
      <4>1. <<>> \in Seq(Digits)
        OBVIOUS
      <4> QED
        BY <4>1
    <3> HIDE DEF D, rank, given, before, step
    <3> QED
      BY <2>1, <3>1, <3>2, <3>3 DEF IsRecursion
  <2>3. PICK f \in [D -> Seq(Digits)] : Solves(f, D, given, before, step)
    <3> HIDE DEF D, rank, given, before, step
    <3> QED
      BY <2>2, Recursion
  <2>4. ASSUME NEW v \in D
        PROVE  f[v] = IF v = 0 THEN <<>> ELSE one(v) \o f[v \div base]
    <3>1. CASE v = 0
      BY <2>3, <3>1 DEF Solves
    <3>2. CASE v # 0
      <4>1. v \in D \ {0} /\ v \div base \in D
        BY <1>1, <3>2
      <4>2. before[v] = v \div base /\ f[v \div base] \in Seq(Digits)
        <5> HIDE DEF D
        <5> QED
          BY <4>1
      <4>3. f[v] = step[<<v, f[before[v]]>>]
        <5>1. DOMAIN given = {0}
          OBVIOUS
        <5> HIDE DEF D, given, before, step
        <5> QED
          BY <2>3, <3>2, <5>1 DEF Solves
      <4>4. step[<<v, f[v \div base]>>] = one(v) \o f[v \div base]
        <5> HIDE DEF D, one
        <5> QED
          BY <4>1, <4>2
      <4> QED
        BY <3>2, <4>2, <4>3, <4>4
    <3> QED
      BY <3>1, <3>2
  <2>5. Def(f)
    <3> HIDE DEF one
    <3> QED
      BY <2>4
  <2> QED
    BY <2>5
<1> DEFINE rest == CHOOSE f : Def(f)
<1>4. Def(rest)
  <2> HIDE DEF Def
  <2> QED
    BY <1>3
<1>5. Remainders(value, base) = rest[value]
  BY DEF Remainders
<1> HIDE DEF rest
<1>6. /\ rest[0] = <<>>
      /\ \A v \in D \ {0} : rest[v] = one(v) \o rest[v \div base]
  <2>1. 0 \in D
    OBVIOUS
  <2>2. rest = [v \in D |-> IF v = 0 THEN <<>> ELSE one(v) \o rest[v \div base]]
    BY <1>4
  <2> HIDE DEF one, D
  <2>3. \A v \in D : rest[v] = IF v = 0 THEN <<>> ELSE one(v) \o rest[v \div base]
    BY <2>2, Zenon
  <2> QED
    BY <2>1, <2>3
<1> DEFINE T == {n \in Nat : \A v \in D : v <= n => IsReversedNumeral(rest[v], v, base)}
<1>7. T = Nat
  <2>1. 0 \in T
    <3>1. base \in Nat /\ 0 \in Nat
      OBVIOUS
    <3>2. Power(base, 0) = 1
      BY <3>1, PowerLemma
    <3>4. IsReversedNumeral(<<>>, 0, base)
      BY <3>2 DEF IsReversedNumeral
    <3>3. \A v \in D : v <= 0 => v = 0
      OBVIOUS
    <3> HIDE DEF D
    <3> QED
      BY <1>6, <3>4, <3>3
  <2>2. ASSUME NEW n \in T
        PROVE  n + 1 \in T
    <3>1. ASSUME NEW v \in D, v = n + 1
          PROVE  IsReversedNumeral(rest[v], v, base)
      <4>1. v \in D \ {0} /\ v \in Nat \ {0} /\ n \in Nat
        BY <3>1
      <4>2. v \div base \in D /\ v \div base <= n
        BY <1>1, <3>1, <4>1
      <4>3. IsReversedNumeral(rest[v \div base], v \div base, base)
        BY <4>2
      <4>4. IsReversedNumeral(one(v) \o rest[v \div base], v, base)
        BY <4>1, <4>3, OneMoreDigit
      <4> HIDE DEF one
      <4> QED
        BY <1>6, <4>1, <4>4
    <3>2. \A v \in D : v <= n + 1 => v <= n \/ v = n + 1
      OBVIOUS
    <3> HIDE DEF D
    <3> QED
      BY <3>1, <3>2
  <2>3. T \in SUBSET Nat
    OBVIOUS
  <2> HIDE DEF T
  <2> QED
    BY <2>1, <2>2, <2>3, Induction
<1>8. value \in T /\ value \in D /\ value <= value
  <2>1. value \in D
    OBVIOUS
  <2> HIDE DEF T
  <2> QED
    BY <1>7, <2>1
<1> QED
  BY <1>5, <1>8

-----------------------------------------------------------------------------
(* Numbers. *)

LEMMA WordsLemma ==
  /\ Power(2, Width - 1) \in Nat /\ Power(2, Width - 1) > 0
  /\ Words = 2 * Power(2, Width - 1)
<1>1. Width - 1 \in Nat /\ (Width - 1) + 1 = Width
  BY WidthAssumption
<1>2. /\ Power(2, Width - 1) \in Nat
      /\ Power(2, (Width - 1) + 1) = 2 * Power(2, Width - 1)
  BY <1>1, PowerLemma
<1>3. Power(2, Width - 1) > 0
  BY <1>1, PowersGrow
<1> QED
  BY <1>1, <1>2, <1>3 DEF Words

(* As many digits as a number needs fit the width, and it needs no other   *)
(* number of them.                                                         *)
LEMMA LengthLemma ==
  ASSUME NEW n \in 0 .. Words - 1, NEW base \in 2 .. 16, NEW l \in Nat \ {0},
         l = 1 \/ Power(base, l - 1) <= n, n < Power(base, l)
  PROVE  DigitsOf(n, base) = l
<1> DEFINE Fits(k) == (k = 1 \/ Power(base, k - 1) <= n) /\ n < Power(base, k)
<1>1. n \in Nat /\ n < Words /\ base \in Nat /\ base >= 2 /\ Words \in Nat /\ Width \in Nat \ {0}
  BY WordsLemma, WidthAssumption
<1>2. l \in 1 .. Width
  <2>1. SUFFICES ASSUME l > Width
                 PROVE  FALSE
    BY <1>1
  <2>2. l - 1 \in Nat /\ Width <= l - 1 /\ l # 1
    BY <1>1, <2>1
  <2>3. Power(base, Width) <= Power(base, l - 1) /\ Words <= Power(base, Width)
    BY <1>1, <2>2, PowersGrow DEF Words
  <2>4. Power(base, Width) \in Nat /\ Power(base, l - 1) \in Nat
    BY <1>1, <2>2, PowerLemma
  <2> QED
    BY <1>1, <2>2, <2>3, <2>4
<1>3. ASSUME NEW k \in 1 .. Width, Fits(k)
      PROVE  k = l
  <2>1. ASSUME NEW i \in Nat \ {0}, NEW j \in Nat \ {0}, Fits(i), Fits(j)
        PROVE  ~ (i < j)
    <3>1. SUFFICES ASSUME i < j
                   PROVE  FALSE
      OBVIOUS
    <3>2. j - 1 \in Nat /\ i <= j - 1 /\ j # 1
      BY <3>1
    <3>3. Power(base, i) <= Power(base, j - 1)
      BY <1>1, <3>2, PowersGrow
    <3>4. Power(base, i) \in Nat /\ Power(base, j - 1) \in Nat
      BY <1>1, <3>2, PowerLemma
    <3>5. n < Power(base, i) /\ Power(base, j - 1) <= n
      BY <2>1, <3>2
    <3> QED
      BY <1>1, <3>3, <3>4, <3>5
  <2>2. Fits(l)
    OBVIOUS
  <2>3. k \in Nat \ {0}
    BY <1>1
  <2> HIDE DEF Fits
  <2>4. ~ (k < l) /\ ~ (l < k)
    BY <1>3, <2>1, <2>2, <2>3
  <2> QED
    BY <2>3, <2>4
<1>4. Fits(l)
  OBVIOUS
<1> HIDE DEF Fits
<1>5. (CHOOSE k \in 1 .. Width : Fits(k)) = l
  BY <1>2, <1>3, <1>4
<1> QED
  BY <1>5 DEF Fits, DigitsOf

LEMMA ReversedRemainders ==
  ASSUME NEW n \in 1 .. Words - 1, NEW base \in 2 .. 16
  PROVE  /\ Remainders(n, base) \in Seq(Digits)
         /\ Reversed(Remainders(n, base)) = Numeral(n, base)
<1>1. PICK s : s = Remainders(n, base)
  OBVIOUS
<1>2. n \in Nat /\ n > 0 /\ n \in 0 .. Words - 1
  BY WordsLemma
<1>3. IsReversedNumeral(s, n, base)
  BY <1>1, <1>2, RemaindersLemma
<1>4. PICK l : l = Len(s)
  OBVIOUS
<1>5. s \in Seq(Digits) /\ l \in Nat \ {0}
  BY <1>2, <1>3, <1>4 DEF IsReversedNumeral
<1>6. Power(base, l - 1) <= n /\ n < Power(base, l)
  BY <1>2, <1>3, <1>4 DEF IsReversedNumeral
<1>7. DigitsOf(n, base) = l
  BY <1>2, <1>5, <1>6, LengthLemma
<1>8. Numeral(n, base) = [i \in 1 .. l |-> Digit[((n \div Power(base, l - i)) % base) + 1]]
  BY <1>7 DEF Numeral
<1>9. Reversed(s) = [i \in 1 .. l |-> s[l + 1 - i]]
  BY <1>4 DEF Reversed
<1>10. ASSUME NEW i \in 1 .. l
       PROVE  s[l + 1 - i] = Digit[((n \div Power(base, l - i)) % base) + 1]
  <2>1. l + 1 - i \in 1 .. l /\ (l + 1 - i) - 1 = l - i
    BY <1>5
  <2> QED
    BY <1>3, <1>4, <2>1 DEF IsReversedNumeral
<1> QED
  BY <1>1, <1>5, <1>8, <1>9, <1>10

(* The number 0 has one digit. *)
LEMMA NumeralOfZero ==
  ASSUME NEW base \in 2 .. 16
  PROVE  Numeral(0, base) = << "0" >>
<1>1. base \in Nat /\ Power(base, 0) = 1 /\ Power(base, 0 + 1) = base * Power(base, 0)
  <2>1. base \in Nat /\ 0 \in Nat
    OBVIOUS
  <2> QED
    BY <2>1, PowerLemma
<1>2. Power(base, 1) = base /\ 0 < Power(base, 1)
  BY <1>1
<1>3. 0 \in 0 .. Words - 1
  BY WordsLemma
<1>4. DigitsOf(0, base) = 1
  BY <1>2, <1>3, LengthLemma
<1>5. Numeral(0, base) = [i \in 1 .. 1 |-> Digit[((0 \div Power(base, 1 - i)) % base) + 1]]
  BY <1>4 DEF Numeral
<1>6. (0 \div Power(base, 1 - 1)) % base = 0
  BY <1>1
<1>7. ASSUME NEW i \in 1 .. 1
      PROVE  Digit[((0 \div Power(base, 1 - i)) % base) + 1] = Digit[1]
  <2>1. i = 1
    OBVIOUS
  <2> QED
    BY <1>6, <2>1
<1>8. Numeral(0, base) = [i \in 1 .. 1 |-> Digit[1]]
  BY <1>5, <1>7
<1>9. Digit[1] = "0"
  BY DEF Digit
<1> QED
  BY <1>8, <1>9

(* utos writes the digits of its number, as arithmetic defines them, no    *)
(* more and no fewer, for all numbers that fit the width and all bases its *)
(* digits are enough for.                                                  *)
THEOREM UtosIsNumeral ==
  ASSUME NEW n \in 0 .. Words - 1, NEW base \in 2 .. 16
  PROVE  utos(n, base) = Numeral(n, base)
<1>1. CASE n = 0
  BY <1>1, NumeralOfZero DEF utos
<1>2. CASE n # 0
  <2>1. n \in 1 .. Words - 1
    BY <1>2, WordsLemma
  <2> QED
    BY <1>2, <2>1, ReversedRemainders DEF utos
<1> QED
  BY <1>1, <1>2

LEMMA ReversedAppend ==
  ASSUME NEW S, NEW s \in Seq(S), NEW c \in S
  PROVE  Reversed(Append(s, c)) = << c >> \o Reversed(s)
<1>1. PICK l : l = Len(s)
  OBVIOUS
<1>2. PICK r : r = Reversed(s)
  OBVIOUS
<1>3. l \in Nat /\ \A i \in 1 .. l : s[i] \in S
  BY <1>1
<1>4. r = [i \in 1 .. l |-> s[l + 1 - i]]
  BY <1>1, <1>2 DEF Reversed
<1>5. ASSUME NEW i \in 1 .. l
      PROVE  s[l + 1 - i] \in S
  <2>1. l + 1 - i \in 1 .. l
    BY <1>3
  <2> QED
    BY <1>3, <2>1
<1>6. r \in Seq(S) /\ Len(r) = l
  BY <1>3, <1>4, <1>5
<1>7. PICK u : u = << c >>
  OBVIOUS
<1>8. u \in Seq(S) /\ Len(u) = 1 /\ u[1] = c
  BY <1>7
<1>9. /\ u \o r \in Seq(S) /\ Len(u \o r) = Len(u) + Len(r)
      /\ \A i \in 1 .. Len(u) + Len(r) : (u \o r)[i] = IF i <= Len(u) THEN u[i] ELSE r[i - Len(u)]
  BY <1>6, <1>8, ConcatProperties
<1>10. PICK t : t = Append(s, c)
  OBVIOUS
<1>11. Len(t) = l + 1 /\ t[l + 1] = c /\ \A i \in 1 .. l : t[i] = s[i]
  BY <1>1, <1>10
<1>12. Reversed(t) = [i \in 1 .. l + 1 |-> t[(l + 1) + 1 - i]]
  BY <1>11 DEF Reversed
<1>13. ASSUME NEW i \in 1 .. l + 1
       PROVE  t[(l + 1) + 1 - i] = (u \o r)[i]
  <2>1. i \in 1 .. Len(u) + Len(r)
    BY <1>3, <1>6, <1>8
  <2>2. CASE i = 1
    <3>1. (l + 1) + 1 - i = l + 1
      BY <1>3, <2>2
    <3>2. (u \o r)[i] = u[1]
      BY <1>8, <1>9, <2>1, <2>2
    <3> QED
      BY <1>8, <1>11, <3>1, <3>2
  <2>3. CASE i # 1
    <3>1. i - 1 \in 1 .. l /\ (l + 1) + 1 - i = l + 1 - (i - 1) /\ l + 1 - (i - 1) \in 1 .. l /\ ~ (i <= 1)
      BY <1>3, <2>3
    <3>2. (u \o r)[i] = r[i - 1]
      BY <1>8, <1>9, <2>1, <3>1
    <3>3. r[i - 1] = s[l + 1 - (i - 1)]
      BY <1>4, <3>1
    <3> QED
      BY <1>11, <3>1, <3>2, <3>3
  <2> QED
    BY <2>2, <2>3
<1>14. u \o r = [i \in 1 .. l + 1 |-> (u \o r)[i]]
  <2>1. PICK w : w = u \o r
    OBVIOUS
  <2>2. w \in Seq(S) /\ Len(w) = l + 1
    BY <1>3, <1>6, <1>8, <1>9, <2>1
  <2>3. w = [i \in 1 .. l + 1 |-> w[i]]
    BY <2>2
  <2> QED
    BY <2>1, <2>3
<1>15. Reversed(t) = u \o r
  BY <1>12, <1>13, <1>14
<1> QED
  BY <1>2, <1>7, <1>10, <1>15

(* itos writes a sign and the digits of what is behind it, also of the     *)
(* least number, whose negative does not fit.                              *)
THEOREM ItosIsNumeral ==
  ASSUME NEW n \in - Power(2, Width - 1) .. Power(2, Width - 1) - 1
  PROVE  itos(n, 10) = IF n < 0 THEN << "-" >> \o Numeral(-n, 10) ELSE Numeral(n, 10)
<1>1. PICK h : h = Power(2, Width - 1)
  OBVIOUS
<1>2. h \in Nat /\ h > 0 /\ Words = 2 * h /\ n \in Int /\ -h <= n /\ n < h
  BY <1>1, WordsLemma
<1>3. 10 \in 2 .. 16
  OBVIOUS
<1>4. CASE n >= 0
  <2>1. Unsigned(n) = n /\ n \in 0 .. Words - 1
    BY <1>2, <1>4 DEF Unsigned
  <2>2. utos(n, 10) = Numeral(n, 10)
    BY <1>3, <2>1, UtosIsNumeral
  <2> QED
    BY <1>2, <1>4, <2>1, <2>2 DEF itos
<1>5. CASE n < 0
  <2>1. PICK m : m = -n
    OBVIOUS
  <2>2. m \in Nat /\ m > 0 /\ m <= h /\ m \in 1 .. Words - 1
    BY <1>2, <1>5, <2>1
  <2>3. Unsigned(Signed(m)) = m
    <3>1. m % Words = m
      BY <1>2, <2>2
    <3>2. Signed(m) = IF m < h THEN m ELSE m - Words
      BY <1>1, <3>1 DEF Signed
    <3>3. (m - Words) % Words = m
      BY <1>2, <2>2
    <3> QED
      BY <3>1, <3>2, <3>3 DEF Unsigned
  <2>4. PICK s : s = Remainders(m, 10)
    OBVIOUS
  <2>5. s \in Seq(Digits) /\ Reversed(s) = Numeral(m, 10)
    BY <1>3, <2>2, <2>4, ReversedRemainders
  <2>6. itos(n, 10) = Reversed(Append(s, "-"))
    BY <1>5, <2>1, <2>3, <2>4 DEF itos
  <2>7. s \in Seq(Digits \cup {"-"})
    BY <2>5
  <2>8. Reversed(Append(s, "-")) = << "-" >> \o Reversed(s)
    BY <2>7, ReversedAppend
  <2> QED
    BY <1>5, <2>1, <2>5, <2>6, <2>8
<1> QED
  BY <1>2, <1>4, <1>5
=============================================================================
