---------------------------- MODULE PrintfProofs -----------------------------
(***************************************************************************)
(* Proofs about Printf, for every width of int and long, every alphabet,   *)
(* every set of arguments and formats of any length.                       *)
(*                                                                         *)
(* number divides until nothing is left, and a reader multiplies: both are *)
(* recursive functions.  What they compute is shown by induction, in the   *)
(* form of a set of numbers that contains 0 and every successor, or of a   *)
(* least counterexample.                                                   *)
(***************************************************************************)
EXTENDS Printf, SequenceTheorems, WellFoundedInduction, TLAPS

-----------------------------------------------------------------------------
(* Induction.                                                              *)

\* A set of natural numbers has a least element.
LEMMA Least ==
  ASSUME NEW T, T \subseteq Nat, T # {}
  PROVE  \E x \in T : \A y \in T : x <= y
<1>1. PICK R : R = OpToRel(<, Nat)
  OBVIOUS
<1>2. IsWellFoundedOn(R, Nat)
  BY <1>1, NatLessThanWellFounded
<1>3. PICK x \in T : \A y \in T : ~ (<<y, x>> \in R)
  BY <1>2, WFMin
<1>4. \A m, n \in Nat : m < n => <<m, n>> \in R
  BY <1>1 DEF OpToRel
<1>5. ASSUME NEW y \in T PROVE x <= y
  <2>1. x \in Nat /\ y \in Nat /\ ~(y < x)
    BY <1>3, <1>4
  <2>2. QED
    BY <2>1
<1>6. QED
  BY <1>3, <1>5

\* A set that contains 0 and every successor contains every number.
LEMMA Induction ==
  ASSUME NEW T, T \subseteq Nat, 0 \in T, \A n \in T : n + 1 \in T
  PROVE  \A n \in Nat : n \in T
<1> SUFFICES ASSUME Nat \ T # {} PROVE FALSE
  OBVIOUS
<1>1. PICK x \in Nat \ T : \A y \in Nat \ T : x <= y
  BY Least
<1>2. x - 1 \in Nat /\ x - 1 \in T
  BY <1>1
<1>3. QED
  BY <1>1, <1>2

-----------------------------------------------------------------------------
(* The reader.                                                             *)

\* a step of the reader
Read(f, s, base, n) == IF n = 0 THEN 0 ELSE f[n - 1] * base + DigitValue(s[n], base)

\* There is a function that reads a row of digits of any length.
LEMMA ReaderExists ==
  ASSUME NEW s, NEW base
  PROVE  \A N \in Nat : \E f : f = [n \in 0 .. N |-> Read(f, s, base, n)]
<1> DEFINE T == {N \in Nat : \E f : f = [n \in 0 .. N |-> Read(f, s, base, n)]}
<1>1. 0 \in T
  <2> DEFINE f == [n \in 0 .. 0 |-> 0]
  <2>1. f = [n \in 0 .. 0 |-> Read(f, s, base, n)]
    BY DEF Read
  <2>2. QED
    BY <2>1
<1>2. ASSUME NEW N \in T PROVE N + 1 \in T
  <2>1. PICK f : f = [n \in 0 .. N |-> Read(f, s, base, n)]
    BY <1>2
  <2> DEFINE g == [n \in 0 .. N + 1 |-> IF n = N + 1 THEN Read(f, s, base, n) ELSE f[n]]
  <2>2. N \in Nat
    OBVIOUS
  <2>3. ASSUME NEW n \in 0 .. N + 1 PROVE g[n] = Read(g, s, base, n)
    <3>1. CASE n = 0
      BY <2>1, <2>2, <3>1 DEF Read
    <3>2. CASE n # 0
      <4>1. n - 1 \in 0 .. N /\ n - 1 # N + 1
        BY <2>2, <3>2
      <4>2. g[n - 1] = f[n - 1]
        BY <2>2, <4>1
      <4>3. Read(g, s, base, n) = Read(f, s, base, n)
        BY <4>2 DEF Read
      <4>4. g[n] = Read(f, s, base, n)
        BY <2>1, <2>2
      <4>5. QED
        BY <4>3, <4>4
    <3>3. QED
      BY <3>1, <3>2
  <2>4. g = [n \in 0 .. N + 1 |-> Read(g, s, base, n)]
    BY <2>3
  <2>5. \E h : h = [n \in 0 .. N + 1 |-> Read(h, s, base, n)]
    <3> HIDE DEF g
    <3>1. QED
      BY <2>4
  <2>6. QED
    BY <2>2, <2>5
<1>3. \A N \in Nat : N \in T
  <2> HIDE DEF T
  <2>1. T \subseteq Nat
    BY DEF T
  <2>2. QED
    BY <1>1, <1>2, <2>1, Induction
<1>4. QED
  BY <1>3

\* ValueOf is what such a function has at the end of the row.
LEMMA ValueReads ==
  ASSUME NEW s, NEW base, Len(s) \in Nat
  PROVE  \E f : /\ f[0] = 0 /\ ValueOf(s, base) = f[Len(s)]
                /\ \A n \in 1 .. Len(s) :
                     f[n] = f[n - 1] * base + DigitValue(s[n], base)
<1> DEFINE F == CHOOSE f : f = [n \in 0 .. Len(s) |->
                  IF n = 0 THEN 0 ELSE f[n - 1] * base + DigitValue(s[n], base)]
<1>1. \E f : f = [n \in 0 .. Len(s) |->
                IF n = 0 THEN 0 ELSE f[n - 1] * base + DigitValue(s[n], base)]
  <2>1. PICK f : f = [n \in 0 .. Len(s) |-> Read(f, s, base, n)]
    BY ReaderExists
  <2>2. f = [n \in 0 .. Len(s) |->
              IF n = 0 THEN 0 ELSE f[n - 1] * base + DigitValue(s[n], base)]
    BY <2>1, Zenon DEF Read
  <2>3. QED
    BY <2>2
<1>2. F = [n \in 0 .. Len(s) |->
             IF n = 0 THEN 0 ELSE F[n - 1] * base + DigitValue(s[n], base)]
  BY <1>1, Zenon
<1>3. ValueOf(s, base) = F[Len(s)]
  BY Zenon DEF ValueOf
<1> HIDE DEF F
<1>4. F[0] = 0
  BY <1>2
<1>5. ASSUME NEW n \in 1 .. Len(s)
      PROVE  F[n] = F[n - 1] * base + DigitValue(s[n], base)
  <2>1. n \in 0 .. Len(s) /\ n # 0
    OBVIOUS
  <2>2. QED
    BY <1>2, <2>1
<1>6. QED
  BY <1>3, <1>4, <1>5

\* Any function that reads a row of digits ends with its value.
LEMMA ValueIs ==
  ASSUME NEW s, NEW base, Len(s) \in Nat, NEW g, g[0] = 0,
         \A n \in 1 .. Len(s) : g[n] = g[n - 1] * base + DigitValue(s[n], base)
  PROVE  ValueOf(s, base) = g[Len(s)]
<1>1. PICK f : /\ f[0] = 0 /\ ValueOf(s, base) = f[Len(s)]
               /\ \A n \in 1 .. Len(s) :
                    f[n] = f[n - 1] * base + DigitValue(s[n], base)
  BY ValueReads
<1> DEFINE T == {n \in Nat : n <= Len(s) => f[n] = g[n]}
<1>2. 0 \in T
  BY <1>1
<1>3. ASSUME NEW n \in T PROVE n + 1 \in T
  <2>1. n \in Nat /\ n + 1 \in Nat /\ (n + 1) - 1 = n
    OBVIOUS
  <2>2. CASE n + 1 <= Len(s)
    <3>1. n + 1 \in 1 .. Len(s) /\ f[n] = g[n]
      BY <2>1, <2>2
    <3>2. f[n + 1] = f[n] * base + DigitValue(s[n + 1], base)
      BY <1>1, <2>1, <3>1
    <3>3. g[n + 1] = g[n] * base + DigitValue(s[n + 1], base)
      BY <2>1, <3>1
    <3>4. QED
      BY <2>1, <3>1, <3>2, <3>3
  <2>3. CASE ~(n + 1 <= Len(s))
    BY <2>1, <2>3
  <2>4. QED
    BY <2>2, <2>3
<1>4. \A n \in Nat : n \in T
  <2> HIDE DEF T
  <2>1. T \subseteq Nat
    BY DEF T
  <2>2. QED
    BY <1>2, <1>3, <2>1, Induction
<1>5. f[Len(s)] = g[Len(s)]
  BY <1>4
<1>6. QED
  BY <1>1, <1>5

\* One more digit: the value so far times the base, and the digit.
LEMMA ValueAppend ==
  ASSUME NEW S, NEW s \in Seq(S), NEW ch \in S, NEW base
  PROVE  ValueOf(s \o <<ch>>, base) = ValueOf(s, base) * base + DigitValue(ch, base)
<1>1. Len(s) \in Nat
  OBVIOUS
<1>2. PICK f : /\ f[0] = 0 /\ ValueOf(s, base) = f[Len(s)]
               /\ \A n \in 1 .. Len(s) :
                    f[n] = f[n - 1] * base + DigitValue(s[n], base)
  BY <1>1, ValueReads
<1>3. PICK t : t = s \o <<ch>>
  OBVIOUS
<1>4. /\ t \in Seq(S) /\ Len(t) = Len(s) + 1 /\ t[Len(s) + 1] = ch
      /\ \A n \in 1 .. Len(s) : t[n] = s[n]
  BY <1>3
<1>5. PICK g : g = [n \in 0 .. Len(s) + 1 |->
                      IF n <= Len(s) THEN f[n]
                                     ELSE f[Len(s)] * base + DigitValue(ch, base)]
  OBVIOUS
<1>6. g[0] = 0 /\ g[Len(s) + 1] = f[Len(s)] * base + DigitValue(ch, base)
  BY <1>1, <1>2, <1>5
<1>7. \A n \in 0 .. Len(s) : g[n] = f[n]
  BY <1>1, <1>5
<1>8. ASSUME NEW n \in 1 .. Len(t)
      PROVE  g[n] = g[n - 1] * base + DigitValue(t[n], base)
  <2>1. CASE n \in 1 .. Len(s)
    <3>1. n \in 0 .. Len(s) /\ n - 1 \in 0 .. Len(s)
      BY <1>1, <2>1
    <3>2. QED
      BY <1>2, <1>4, <1>7, <2>1, <3>1
  <2>2. CASE n = Len(s) + 1
    <3>1. n - 1 = Len(s) /\ Len(s) \in 0 .. Len(s)
      BY <1>1, <2>2
    <3>2. QED
      BY <1>4, <1>6, <1>7, <2>2, <3>1
  <2>3. QED
    BY <1>1, <1>4, <2>1, <2>2
<1>9. ValueOf(t, base) = g[Len(t)]
  BY <1>1, <1>4, <1>6, <1>8, ValueIs
<1>10. QED
  BY <1>2, <1>3, <1>4, <1>6, <1>9

\* Zeros in front change nothing.
LEMMA ValueZeros ==
  ASSUME NEW S, NEW z \in Seq(S), NEW s \in Seq(S), NEW base \in Nat,
         \A n \in 1 .. Len(z) : DigitValue(z[n], base) = 0
  PROVE  ValueOf(z \o s, base) = ValueOf(s, base)
<1>1. Len(z) \in Nat /\ Len(s) \in Nat
  OBVIOUS
<1>2. PICK f : /\ f[0] = 0 /\ ValueOf(s, base) = f[Len(s)]
               /\ \A n \in 1 .. Len(s) :
                    f[n] = f[n - 1] * base + DigitValue(s[n], base)
  BY <1>1, ValueReads
<1>3. PICK t : t = z \o s
  OBVIOUS
<1>4. PICK k : k = Len(z)
  OBVIOUS
<1>5. /\ Len(t) = k + Len(s) /\ \A n \in 1 .. k : t[n] = z[n]
      /\ \A n \in k + 1 .. k + Len(s) : t[n] = s[n - k]
  BY <1>1, <1>3, <1>4
<1>6. PICK g : g = [n \in 0 .. k + Len(s) |-> IF n <= k THEN 0 ELSE f[n - k]]
  OBVIOUS
<1>7. g[0] = 0 /\ g[k + Len(s)] = f[Len(s)]
  <2>1. 0 \in 0 .. k + Len(s) /\ 0 <= k /\ k + Len(s) \in 0 .. k + Len(s)
    BY <1>1, <1>4
  <2>2. CASE Len(s) = 0
    BY <1>1, <1>2, <1>4, <1>6, <2>1, <2>2
  <2>3. CASE Len(s) # 0
    <3>1. ~(k + Len(s) <= k) /\ (k + Len(s)) - k = Len(s)
      BY <1>1, <1>4, <2>3
    <3>2. QED
      BY <1>6, <2>1, <3>1
  <2>4. QED
    BY <2>2, <2>3
<1>8. ASSUME NEW n \in 1 .. Len(t)
      PROVE  g[n] = g[n - 1] * base + DigitValue(t[n], base)
  <2>1. n \in 1 .. k + Len(s) /\ n \in 0 .. k + Len(s) /\ n - 1 \in 0 .. k + Len(s)
    BY <1>1, <1>4, <1>5
  <2>2. CASE n <= k
    <3>1. n \in 1 .. k /\ n - 1 <= k
      BY <1>1, <1>4, <2>1, <2>2
    <3>2. g[n] = 0 /\ g[n - 1] = 0
      BY <1>6, <2>1, <2>2, <3>1
    <3>3. DigitValue(t[n], base) = 0
      BY <1>4, <1>5, <3>1
    <3>4. QED
      BY <3>2, <3>3
  <2>3. CASE ~(n <= k)
    <3>1. n - k \in 1 .. Len(s) /\ n \in k + 1 .. k + Len(s) /\ (n - k) - 1 = (n - 1) - k
      BY <1>1, <1>4, <2>1, <2>3
    <3>2. g[n] = f[n - k]
      BY <1>6, <2>1, <2>3
    <3>3. g[n - 1] = f[(n - k) - 1]
      <4>1. CASE n - 1 <= k
        <5>1. (n - k) - 1 = 0
          BY <1>1, <1>4, <2>1, <2>3, <4>1
        <5>2. g[n - 1] = 0
          BY <1>6, <2>1, <4>1
        <5>3. QED
          BY <1>2, <5>1, <5>2
      <4>2. CASE ~(n - 1 <= k)
        BY <1>6, <2>1, <3>1, <4>2
      <4>3. QED
        BY <4>1, <4>2
    <3>4. f[n - k] = f[(n - k) - 1] * base + DigitValue(s[n - k], base)
      BY <1>2, <3>1
    <3>5. t[n] = s[n - k]
      BY <1>5, <3>1
    <3>6. QED
      BY <3>2, <3>3, <3>4, <3>5
  <2>4. QED
    BY <2>2, <2>3
<1>9. ValueOf(t, base) = g[Len(t)]
  <2>1. Len(t) \in Nat
    BY <1>1, <1>4, <1>5
  <2>2. QED
    BY <1>7, <1>8, <2>1, ValueIs
<1>10. QED
  BY <1>2, <1>3, <1>5, <1>7, <1>9


-----------------------------------------------------------------------------
(* The digits.                                                             *)

Bases == {8, 10, 16}
Tables == {Upper, Lower}

\* what a conversion writes
Glyphs == {"0", "1", "2", "3", "4", "5", "6", "7", "8", "9", "A", "B", "C", "D", "E", "F",
           "a", "b", "c", "d", "e", "f", "x", "X", "-", "+", " "}

\* The two tables, entry by entry.
LEMMA UpperTable ==
  /\ Upper[1] = "0" /\ Upper[2] = "1" /\ Upper[3] = "2" /\ Upper[4] = "3"
  /\ Upper[5] = "4" /\ Upper[6] = "5" /\ Upper[7] = "6" /\ Upper[8] = "7"
  /\ Upper[9] = "8" /\ Upper[10] = "9" /\ Upper[11] = "A" /\ Upper[12] = "B"
  /\ Upper[13] = "C" /\ Upper[14] = "D" /\ Upper[15] = "E" /\ Upper[16] = "F"
BY DEF Upper, DigitChars

LEMMA LowerTable ==
  /\ Lower[1] = "0" /\ Lower[2] = "1" /\ Lower[3] = "2" /\ Lower[4] = "3"
  /\ Lower[5] = "4" /\ Lower[6] = "5" /\ Lower[7] = "6" /\ Lower[8] = "7"
  /\ Lower[9] = "8" /\ Lower[10] = "9" /\ Lower[11] = "a" /\ Lower[12] = "b"
  /\ Lower[13] = "c" /\ Lower[14] = "d" /\ Lower[15] = "e" /\ Lower[16] = "f"
BY DEF Lower, DigitChars

\* No character is two digits.
LEMMA DigitsDiffer ==
  ASSUME NEW m \in 1 .. 16, NEW n \in 1 .. 16, NEW table \in Tables,
         table[m] \in {Upper[n], Lower[n]}
  PROVE  m = n
<1>1. \/ m = 1 \/ m = 2 \/ m = 3 \/ m = 4 \/ m = 5 \/ m = 6 \/ m = 7 \/ m = 8
      \/ m = 9 \/ m = 10 \/ m = 11 \/ m = 12 \/ m = 13 \/ m = 14 \/ m = 15 \/ m = 16
  OBVIOUS
<1>2. \/ n = 1 \/ n = 2 \/ n = 3 \/ n = 4 \/ n = 5 \/ n = 6 \/ n = 7 \/ n = 8
      \/ n = 9 \/ n = 10 \/ n = 11 \/ n = 12 \/ n = 13 \/ n = 14 \/ n = 15 \/ n = 16
  OBVIOUS
<1>3. QED
  BY <1>1, <1>2, UpperTable, LowerTable DEF Tables

\* The reader takes a digit of the table for what it stands for.
LEMMA DigitRead ==
  ASSUME NEW base \in Bases, NEW table \in Tables, NEW m \in 1 .. base
  PROVE  /\ table[m] \in Glyphs /\ IsDigit(table[m], base)
         /\ DigitValue(table[m], base) = m - 1
<1>1. m \in 1 .. 16 /\ base \in Nat /\ base <= 16
  BY DEF Bases
<1>2. table[m] \in {Upper[m], Lower[m]}
  BY DEF Tables
<1>3. \A d \in 1 .. base : table[m] \in {Upper[d], Lower[d]} <=> d = m
  <2>1. \A d \in 1 .. base : d \in 1 .. 16
    BY <1>1
  <2>2. QED
    BY <1>1, <1>2, <2>1, DigitsDiffer
<1>4. (CHOOSE d \in 1 .. base : table[m] \in {Upper[d], Lower[d]}) = m
  BY <1>2, <1>3
<1>5. DigitValue(table[m], base) = m - 1
  BY <1>4 DEF DigitValue
<1>6. IsDigit(table[m], base)
  BY <1>2 DEF IsDigit
<1>7. table[m] \in Glyphs
  <2>1. \/ m = 1 \/ m = 2 \/ m = 3 \/ m = 4 \/ m = 5 \/ m = 6 \/ m = 7 \/ m = 8
        \/ m = 9 \/ m = 10 \/ m = 11 \/ m = 12 \/ m = 13 \/ m = 14 \/ m = 15 \/ m = 16
    BY <1>1
  <2>2. Upper[m] \in Glyphs
    BY <2>1, UpperTable, ZenonT(40) DEF Glyphs
  <2>3. Lower[m] \in Glyphs
    BY <2>1, LowerTable, ZenonT(40) DEF Glyphs
  <2>4. QED
    BY <1>2, <2>2, <2>3
<1>8. QED
  BY <1>5, <1>6, <1>7

\* A zero is a digit worth nothing.
LEMMA ZeroRead ==
  ASSUME NEW base \in Bases
  PROVE  "0" \in Glyphs /\ IsDigit("0", base) /\ DigitValue("0", base) = 0
<1>1. Upper \in Tables /\ 1 \in 1 .. base /\ Upper[1] = "0" /\ 1 - 1 = 0
  BY UpperTable DEF Tables, Bases
<1>2. QED
  BY <1>1, DigitRead

-----------------------------------------------------------------------------
(* number's division.                                                      *)

\* a step of the division
Divide(f, base, table, n) ==
  IF n = 0 THEN <<>> ELSE f[n \div base] \o <<table[(n % base) + 1]>>

\* Dividing makes a number smaller, and multiplying makes up for it.
LEMMA Quotient ==
  ASSUME NEW base \in Bases, NEW n \in Nat \ {0}
  PROVE  /\ n \div base \in Nat /\ n \div base < n
         /\ (n % base) + 1 \in 1 .. base /\ (n \div base) * base + (n % base) = n
<1>1. CASE base = 8
  BY <1>1
<1>2. CASE base = 10
  BY <1>2
<1>3. CASE base = 16
  BY <1>3
<1>4. QED
  BY <1>1, <1>2, <1>3 DEF Bases

LEMMA DivisionExists ==
  ASSUME NEW base \in Bases, NEW table
  PROVE  \A N \in Nat : \E f : f = [n \in 0 .. N |-> Divide(f, base, table, n)]
<1> DEFINE T == {N \in Nat : \E f : f = [n \in 0 .. N |-> Divide(f, base, table, n)]}
<1>1. 0 \in T
  <2> DEFINE f == [n \in 0 .. 0 |-> <<>>]
  <2>1. f = [n \in 0 .. 0 |-> Divide(f, base, table, n)]
    BY DEF Divide
  <2>2. QED
    BY <2>1
<1>2. ASSUME NEW N \in T PROVE N + 1 \in T
  <2>1. PICK f : f = [n \in 0 .. N |-> Divide(f, base, table, n)]
    BY <1>2
  <2> DEFINE g == [n \in 0 .. N + 1 |->
                     IF n = N + 1 THEN Divide(f, base, table, n) ELSE f[n]]
  <2>2. N \in Nat
    OBVIOUS
  <2>3. ASSUME NEW n \in 0 .. N + 1 PROVE g[n] = Divide(g, base, table, n)
    <3>1. CASE n = 0
      BY <2>1, <2>2, <3>1 DEF Divide
    <3>2. CASE n # 0
      <4>1. n \in Nat \ {0} /\ n <= N + 1
        BY <2>2, <3>2
      <4>2. PICK q : q = n \div base
        OBVIOUS
      <4>3. q \in Nat /\ q < n
        BY <4>1, <4>2, Quotient
      <4>4. q \in 0 .. N + 1 /\ q # N + 1
        BY <2>2, <4>1, <4>3
      <4>5. g[q] = f[q]
        BY <4>4
      <4>6. Divide(g, base, table, n) = Divide(f, base, table, n)
        <5> HIDE DEF g
        <5>1. g[n \div base] = f[n \div base]
          BY <4>2, <4>5
        <5>2. QED
          BY <5>1, Zenon DEF Divide
      <4>7. g[n] = Divide(f, base, table, n)
        BY <2>1, <2>2
      <4>8. QED
        BY <4>6, <4>7
    <3>3. QED
      BY <3>1, <3>2
  <2>4. g = [n \in 0 .. N + 1 |-> Divide(g, base, table, n)]
    BY <2>3
  <2>5. \E h : h = [n \in 0 .. N + 1 |-> Divide(h, base, table, n)]
    <3> HIDE DEF g
    <3>1. QED
      BY <2>4
  <2>6. QED
    BY <2>2, <2>5
<1>3. \A N \in Nat : N \in T
  <2> HIDE DEF T
  <2>1. T \subseteq Nat
    BY DEF T
  <2>2. QED
    BY <1>1, <1>2, <2>1, Induction
<1>4. QED
  BY <1>3

\* Divided is that function.
LEMMA DividedIs ==
  ASSUME NEW base \in Bases, NEW table
  PROVE  /\ Divided(base, table)[0] = <<>>
         /\ \A n \in 1 .. LongValues :
              Divided(base, table)[n] =
                Divided(base, table)[n \div base] \o <<table[(n % base) + 1]>>
<1>1. LongValues \in Nat
  BY WidthsAssumption
<1>2. \E f : f = [n \in 0 .. LongValues |->
                    IF n = 0 THEN <<>> ELSE f[n \div base] \o <<table[(n % base) + 1]>>]
  <2>1. PICK f : f = [n \in 0 .. LongValues |-> Divide(f, base, table, n)]
    BY <1>1, DivisionExists
  <2>2. f = [n \in 0 .. LongValues |->
              IF n = 0 THEN <<>> ELSE f[n \div base] \o <<table[(n % base) + 1]>>]
    BY <2>1, Zenon DEF Divide
  <2>3. QED
    BY <2>2
<1>3. Divided(base, table) = [n \in 0 .. LongValues |->
        IF n = 0 THEN <<>>
        ELSE Divided(base, table)[n \div base] \o <<table[(n % base) + 1]>>]
  BY <1>2, Zenon DEF Divided
<1>4. PICK D : D = Divided(base, table)
  OBVIOUS
<1>5. D = [n \in 0 .. LongValues |->
             IF n = 0 THEN <<>> ELSE D[n \div base] \o <<table[(n % base) + 1]>>]
  BY <1>3, <1>4, Zenon
<1>6. D[0] = <<>>
  <2>1. 0 \in 0 .. LongValues
    BY <1>1
  <2>2. QED
    BY <1>5, <2>1, Zenon
<1>7. ASSUME NEW n \in 1 .. LongValues
      PROVE  D[n] = D[n \div base] \o <<table[(n % base) + 1]>>
  <2>1. n \in 0 .. LongValues /\ n # 0
    BY <1>1
  <2>2. QED
    BY <1>5, <2>1, Zenon
<1>8. QED
  BY <1>4, <1>6, <1>7


\* What the division leaves: a row of digits whose value is the number.
LEMMA DividedValue ==
  ASSUME NEW base \in Bases, NEW table \in Tables
  PROVE  \A n \in 0 .. LongValues :
           LET d == Divided(base, table)[n] IN
           /\ d \in Seq(Glyphs) /\ \A i \in 1 .. Len(d) : IsDigit(d[i], base)
           /\ ValueOf(d, base) = n /\ (n > 0 => Len(d) > 0)
<1> DEFINE D == Divided(base, table)
           P(n) == /\ D[n] \in Seq(Glyphs)
                   /\ \A i \in 1 .. Len(D[n]) : IsDigit(D[n][i], base)
                   /\ ValueOf(D[n], base) = n /\ (n > 0 => Len(D[n]) > 0)
           T == {n \in 0 .. LongValues : ~P(n)}
<1>1. LongValues \in Nat /\ base \in Nat
  BY WidthsAssumption DEF Bases
<1>2. ASSUME NEW n \in T, \A m \in T : n <= m PROVE FALSE
  <2>1. CASE n = 0
    <3>1. D[n] = <<>>
      BY <2>1, DividedIs
    <3>2. D[n] \in Seq(Glyphs) /\ Len(D[n]) = 0
      BY <3>1
    <3>3. ValueOf(D[n], base) = 0
      BY <3>2, ValueReads
    <3>4. QED
      BY <1>2, <2>1, <3>2, <3>3
  <2>2. CASE n # 0
    <3>1. n \in 1 .. LongValues /\ n \in Nat \ {0}
      BY <1>1, <2>2
    <3>2. PICK q : q = n \div base
      OBVIOUS
    <3>3. PICK r : r = (n % base) + 1
      OBVIOUS
    <3>4. q \in Nat /\ q < n /\ r \in 1 .. base /\ q * base + (r - 1) = n
      <4>1. q * base + (n % base) = n /\ n % base \in Int
        BY <3>1, <3>2, Quotient DEF Bases
      <4>2. q \in Nat /\ q < n /\ r \in 1 .. base
        BY <3>1, <3>2, <3>3, Quotient
      <4>3. r - 1 = n % base
        BY <3>3, <4>1
      <4>4. QED
        BY <4>1, <4>2, <4>3
    <3>5. P(q)
      <4>1. q \in 0 .. LongValues /\ ~(n <= q)
        BY <1>1, <3>1, <3>4
      <4>2. q \notin T
        BY <1>2, <4>1
      <4>3. QED
        BY <4>1, <4>2
    <3>6. D[n] = D[q] \o <<table[r]>>
      BY <3>1, <3>2, <3>3, DividedIs
    <3>7. table[r] \in Glyphs /\ IsDigit(table[r], base) /\ DigitValue(table[r], base) = r - 1
      BY <3>4, DigitRead
    <3> PICK d : d = D[q]
      OBVIOUS
    <3> PICK ch : ch = table[r]
      OBVIOUS
    <3> PICK e : e = D[n]
      OBVIOUS
    <3>8. /\ d \in Seq(Glyphs) /\ ValueOf(d, base) = q
          /\ \A i \in 1 .. Len(d) : IsDigit(d[i], base)
      BY <3>5
    <3>9. e = d \o <<ch>> /\ ch \in Glyphs /\ IsDigit(ch, base)
      BY <3>6, <3>7
    <3>10. /\ e \in Seq(Glyphs) /\ Len(e) = Len(d) + 1 /\ Len(d) \in Nat
           /\ e[Len(d) + 1] = ch /\ \A i \in 1 .. Len(d) : e[i] = d[i]
      BY <3>8, <3>9
    <3>11. ValueOf(e, base) = n
      <4>1. ValueOf(e, base) = q * base + DigitValue(ch, base)
        BY <3>8, <3>9, ValueAppend
      <4>2. QED
        BY <3>4, <3>7, <4>1
    <3>12. \A i \in 1 .. Len(e) : IsDigit(e[i], base)
      <4>1. \A i \in 1 .. Len(e) : i \in 1 .. Len(d) \/ i = Len(d) + 1
        BY <3>10
      <4>2. QED
        BY <3>8, <3>9, <3>10, <4>1
    <3>13. P(n)
      BY <3>10, <3>11, <3>12
    <3>14. QED
      BY <1>2, <3>13
  <2>3. QED
    BY <2>1, <2>2
<1>3. T = {}
  <2> HIDE DEF T
  <2>1. T \subseteq Nat
    BY <1>1 DEF T
  <2>2. QED
    BY <1>2, <2>1, Least
<1>4. QED
  BY <1>3

\* What number writes for a magnitude.
LEMMA DigitsOfValue ==
  ASSUME NEW base \in Bases, NEW table \in Tables, NEW v \in 0 .. LongValues
  PROVE  LET d == DigitsOf(v, base, table) IN
         /\ d \in Seq(Glyphs) /\ \A i \in 1 .. Len(d) : IsDigit(d[i], base)
         /\ ValueOf(d, base) = v /\ Len(d) > 0
<1>1. LongValues \in Nat /\ base \in Nat
  BY WidthsAssumption DEF Bases
<1>2. CASE v = 0
  <2> PICK d : d = <<"0">>
    OBVIOUS
  <2>1. DigitsOf(v, base, table) = d
    BY <1>2 DEF DigitsOf
  <2>2. "0" \in Glyphs /\ IsDigit("0", base) /\ DigitValue("0", base) = 0
    BY ZeroRead
  <2>3. d \in Seq(Glyphs) /\ Len(d) = 1 /\ d[1] = "0"
    BY <2>2
  <2>4. \A i \in 1 .. Len(d) : IsDigit(d[i], base)
    BY <2>2, <2>3
  <2>5. ValueOf(d, base) = 0
    <3>1. PICK f : /\ f[0] = 0 /\ ValueOf(d, base) = f[1]
                   /\ f[1] = f[1 - 1] * base + DigitValue(d[1], base)
      BY <2>3, ValueReads
    <3>2. QED
      BY <1>1, <2>2, <2>3, <3>1
  <2>6. ValueOf(d, base) = v /\ Len(d) > 0
    BY <1>2, <2>3, <2>5
  <2>7. QED
    BY <2>1, <2>3, <2>4, <2>6
<1>3. CASE v # 0
  <2>1. DigitsOf(v, base, table) = Divided(base, table)[v] /\ v > 0
    BY <1>1, <1>3 DEF DigitsOf
  <2>2. PICK d : d = Divided(base, table)[v]
    OBVIOUS
  <2>3. /\ d \in Seq(Glyphs) /\ \A i \in 1 .. Len(d) : IsDigit(d[i], base)
        /\ ValueOf(d, base) = v /\ Len(d) > 0
    BY <2>1, <2>2, DividedValue
  <2>4. DigitsOf(v, base, table) = d
    BY <2>1, <2>2
  <2>5. QED
    BY <2>3, <2>4
<1>4. QED
  BY <1>2, <1>3


-----------------------------------------------------------------------------
(* Sequences.                                                              *)

\* A run of one character.
LEMMA RepeatFacts ==
  ASSUME NEW S, NEW ch \in S, NEW n \in Int
  PROVE  /\ Repeat(ch, n) \in Seq(S) /\ Len(Repeat(ch, n)) = Longer(n, 0)
         /\ \A i \in 1 .. Len(Repeat(ch, n)) : Repeat(ch, n)[i] = ch
         /\ n <= 0 => Repeat(ch, n) = <<>>
<1>1. CASE n <= 0
  <2>1. Repeat(ch, n) = <<>>
    BY <1>1 DEF Repeat
  <2>2. Longer(n, 0) = 0
    BY <1>1 DEF Longer
  <2>3. QED
    BY <2>1, <2>2
<1>2. CASE ~(n <= 0)
  <2>1. n \in Nat /\ Longer(n, 0) = n
    BY <1>2 DEF Longer
  <2>2. PICK r : r = [k \in 1 .. n |-> ch]
    OBVIOUS
  <2>3. r \in [1 .. n -> S]
    BY <2>2
  <2>4. r \in Seq(S) /\ Len(r) = n
    BY <2>1, <2>3
  <2>5. QED
    BY <1>2, <2>1, <2>2, <2>4 DEF Repeat
<1>3. QED
  BY <1>1, <1>2

Closed(Seqs) == \A u, v \in Seqs : u \o v \in Seqs
Associative(Seqs) == \A u, v, w \in Seqs : (u \o v) \o w = u \o (v \o w)

\* Concatenation of sequences.
LEMMA Concats == ASSUME NEW S PROVE Closed(Seq(S)) /\ Associative(Seq(S))
<1>1. ASSUME NEW u \in Seq(S), NEW v \in Seq(S) PROVE u \o v \in Seq(S)
  BY ConcatProperties
<1>2. ASSUME NEW u \in Seq(S), NEW v \in Seq(S), NEW w \in Seq(S)
      PROVE  (u \o v) \o w = u \o (v \o w)
  BY ConcatAssociative
<1>3. QED
  BY <1>1, <1>2 DEF Closed, Associative

\* the parts number puts together: blanks, sign, prefix, zeros twice, digits
Parts(Seqs, a, s, p, d, z, t) ==
  a \in Seqs /\ s \in Seqs /\ p \in Seqs /\ d \in Seqs /\ z \in Seqs /\ t \in Seqs

\* the seven parts of a number in brackets
Bracketed(a, s, p, d, z, t, g) ==
  /\ a \o s \o p \o d \o z \o t \o g =
       ((a \o (s \o p)) \o ((d \o z) \o t)) \o g
  /\ a \o s \o p \o d \o z \o t \o g =
       ((a \o s) \o (((p \o d) \o z) \o t)) \o g

\* Brackets of the seven parts of a number do not matter.
LEMMA Regroup ==
  ASSUME NEW Seqs, Closed(Seqs), Associative(Seqs), NEW a, NEW s, NEW p, NEW d, NEW z,
         NEW t, NEW g, Parts(Seqs, a, s, p, d, z, t)
  PROVE  Bracketed(a, s, p, d, z, t, g)
<1>1. a \in Seqs /\ s \in Seqs /\ p \in Seqs
  BY DEF Parts
<1>2. d \in Seqs /\ z \in Seqs
  BY DEF Parts
<1>3. t \in Seqs
  BY DEF Parts
<1>4. PICK as : as = a \o s
  OBVIOUS
<1>5. as \in Seqs
  BY <1>1, <1>4 DEF Closed
<1>6. PICK asp : asp = as \o p
  OBVIOUS
<1>7. asp \in Seqs
  BY <1>1, <1>5, <1>6 DEF Closed
<1>8. PICK dz : dz = d \o z
  OBVIOUS
<1>9. dz \in Seqs
  BY <1>2, <1>8 DEF Closed
<1>10. PICK pd : pd = p \o d
  OBVIOUS
<1>11. pd \in Seqs
  BY <1>1, <1>2, <1>10 DEF Closed
<1>12. PICK pdz : pdz = pd \o z
  OBVIOUS
<1>13. pdz \in Seqs
  BY <1>2, <1>11, <1>12 DEF Closed
<1>14. as \o p = a \o (s \o p)
  BY <1>1, <1>4 DEF Associative
<1>15. (asp \o d) \o z = asp \o dz
  BY <1>2, <1>7, <1>8 DEF Associative
<1>16. (asp \o dz) \o t = asp \o (dz \o t)
  BY <1>3, <1>7, <1>9 DEF Associative
<1>17. asp \o d = as \o pd
  <2>1. p \in Seqs /\ d \in Seqs
    BY <1>1, <1>2
  <2>2. QED
    BY <1>5, <1>6, <1>10, <2>1 DEF Associative
<1>18. (as \o pd) \o z = as \o pdz
  <2>1. z \in Seqs
    BY <1>2
  <2>2. QED
    BY <1>5, <1>11, <1>12, <2>1 DEF Associative
<1>19. (as \o pdz) \o t = as \o (pdz \o t)
  BY <1>3, <1>5, <1>13 DEF Associative
<1>20. a \o s \o p \o d \o z \o t \o g = (asp \o (dz \o t)) \o g
  BY <1>4, <1>6, <1>15, <1>16
<1>21. a \o s \o p \o d \o z \o t \o g = (as \o (pdz \o t)) \o g
  BY <1>4, <1>6, <1>17, <1>18, <1>19
<1>22. asp \o (dz \o t) = (a \o (s \o p)) \o ((d \o z) \o t)
  BY <1>6, <1>8, <1>14
<1>23. as \o (pdz \o t) = (a \o s) \o (((p \o d) \o z) \o t)
  BY <1>4, <1>10, <1>12
<1>24. QED
  BY <1>20, <1>21, <1>22, <1>23 DEF Bracketed

\* Two parts in a row, place by place.
LEMMA TwoParts ==
  ASSUME NEW S, NEW a \in Seq(S), NEW b \in Seq(S), NEW x, x = a \o b
  PROVE  /\ x \in Seq(S) /\ Len(x) = Len(a) + Len(b)
         /\ \A i \in 1 .. Len(a) : x[i] = a[i]
         /\ \A i \in 1 .. Len(b) : x[Len(a) + i] = b[i]
<1>1. Len(a) \in Nat /\ Len(b) \in Nat
  OBVIOUS
<1>2. /\ x \in Seq(S) /\ Len(x) = Len(a) + Len(b)
      /\ \A i \in 1 .. Len(a) + Len(b) :
           x[i] = IF i <= Len(a) THEN a[i] ELSE b[i - Len(a)]
  BY ConcatProperties, Zenon
<1>3. \A i \in 1 .. Len(a) : x[i] = a[i]
  BY <1>1, <1>2
<1>4. ASSUME NEW i \in 1 .. Len(b) PROVE x[Len(a) + i] = b[i]
  <2>1. /\ Len(a) + i \in 1 .. Len(a) + Len(b) /\ ~(Len(a) + i <= Len(a))
        /\ (Len(a) + i) - Len(a) = i
    BY <1>1
  <2>2. QED
    BY <1>2, <2>1
<1>5. QED
  BY <1>2, <1>3, <1>4

\* Four parts in a row, place by place.
LEMMA FourParts ==
  ASSUME NEW S, NEW a \in Seq(S), NEW l \in Seq(S), NEW b \in Seq(S), NEW g \in Seq(S),
         NEW x, x = ((a \o l) \o b) \o g
  PROVE  /\ x \in Seq(S) /\ Len(x) = Len(a) + Len(l) + Len(b) + Len(g)
         /\ \A i \in 1 .. Len(a) : x[i] = a[i]
         /\ \A i \in 1 .. Len(l) : x[Len(a) + i] = l[i]
         /\ \A i \in 1 .. Len(b) : x[Len(a) + Len(l) + i] = b[i]
         /\ \A i \in 1 .. Len(g) : x[Len(a) + Len(l) + Len(b) + i] = g[i]
<1>1. PICK u : u = a \o l
  OBVIOUS
<1>2. PICK v : v = u \o b
  OBVIOUS
<1>3. Len(a) \in Nat /\ Len(l) \in Nat /\ Len(b) \in Nat /\ Len(g) \in Nat
  OBVIOUS
<1>4. /\ u \in Seq(S) /\ Len(u) = Len(a) + Len(l)
      /\ \A i \in 1 .. Len(a) : u[i] = a[i]
      /\ \A i \in 1 .. Len(l) : u[Len(a) + i] = l[i]
  BY <1>1, TwoParts
<1>5. /\ v \in Seq(S) /\ Len(v) = Len(u) + Len(b)
      /\ \A i \in 1 .. Len(u) : v[i] = u[i]
      /\ \A i \in 1 .. Len(b) : v[Len(u) + i] = b[i]
  <2>1. u \in Seq(S) /\ v = u \o b
    BY <1>2, <1>4
  <2>2. QED
    BY <2>1, TwoParts
<1>6. /\ x \in Seq(S) /\ Len(x) = Len(v) + Len(g)
      /\ \A i \in 1 .. Len(v) : x[i] = v[i]
      /\ \A i \in 1 .. Len(g) : x[Len(v) + i] = g[i]
  BY <1>1, <1>2, <1>5, TwoParts
<1>7. \A i \in 1 .. Len(a) : x[i] = a[i]
  BY <1>3, <1>4, <1>5, <1>6
<1>8. \A i \in 1 .. Len(l) : x[Len(a) + i] = l[i]
  <2> SUFFICES ASSUME NEW i \in 1 .. Len(l) PROVE x[Len(a) + i] = l[i]
    OBVIOUS
  <2>1. Len(a) + i \in 1 .. Len(u) /\ Len(a) + i \in 1 .. Len(v)
    BY <1>3, <1>4, <1>5
  <2>2. QED
    BY <1>4, <1>5, <1>6, <2>1
<1>9. \A i \in 1 .. Len(b) : x[Len(a) + Len(l) + i] = b[i]
  <2> SUFFICES ASSUME NEW i \in 1 .. Len(b) PROVE x[Len(a) + Len(l) + i] = b[i]
    OBVIOUS
  <2>1. Len(u) + i \in 1 .. Len(v) /\ Len(u) + i = Len(a) + Len(l) + i
    BY <1>3, <1>4, <1>5
  <2>2. QED
    BY <1>5, <1>6, <2>1
<1>10. \A i \in 1 .. Len(g) : x[Len(a) + Len(l) + Len(b) + i] = g[i]
  <2>1. Len(v) = Len(a) + Len(l) + Len(b)
    BY <1>3, <1>4, <1>5
  <2>2. QED
    BY <1>6, <2>1
<1>11. QED
  BY <1>3, <1>4, <1>5, <1>6, <1>7, <1>8, <1>9, <1>10

\* A part of a sequence.
LEMMA PartOf ==
  ASSUME NEW S, NEW x \in Seq(S), NEW b \in Seq(S), NEW k \in Nat, NEW m,
         m = k + Len(b), m <= Len(x), \A i \in 1 .. Len(b) : x[k + i] = b[i]
  PROVE  SubSeq(x, k + 1, m) = b
<1>1. Len(b) \in Nat /\ Len(x) \in Nat /\ m \in Nat /\ m - (k + 1) + 1 = Len(b)
  OBVIOUS
<1>2. \A i \in k + 1 .. m : x[i] \in S
  BY <1>1
<1>3. PICK y : y = SubSeq(x, k + 1, m)
  OBVIOUS
<1>4. y \in Seq(S)
  BY <1>1, <1>2, <1>3, SubSeqProperties
<1>5. Len(y) = Len(b)
  <2>1. Len(y) = IF k + 1 <= m THEN m - (k + 1) + 1 ELSE 0
    BY <1>1, <1>2, <1>3, SubSeqProperties
  <2>2. QED
    BY <1>1, <2>1
<1>6. ASSUME NEW i \in 1 .. Len(b) PROVE y[i] = b[i]
  <2>1. i \in 1 .. m - (k + 1) + 1 /\ (k + 1) + i - 1 = k + i
    BY <1>1
  <2>2. y[i] = x[(k + 1) + i - 1]
    BY <1>1, <1>2, <1>3, <2>1, SubSeqProperties
  <2>3. QED
    BY <2>1, <2>2
<1>7. y = b
  BY <1>4, <1>5, <1>6, SeqEqual
<1>8. QED
  BY <1>3, <1>7


-----------------------------------------------------------------------------
(* The parts of a number.                                                  *)

Tmp(num, base, flag) ==
  DigitsOf(Magnitude(num, flag), base, IF "SMALL" \in flag THEN Lower ELSE Upper)
Zeros(prec, t) == Repeat("0", prec - Len(t))

\* the padding in front, inside and behind
Ahead(flag, room) ==
  IF flag \cap {"ZEROPAD", "LEFT"} = {} THEN Repeat(" ", room) ELSE <<>>
Inside(flag, room) ==
  IF "ZEROPAD" \in flag /\ "LEFT" \notin flag THEN Repeat("0", room) ELSE <<>>
Behind(flag, room) == IF "LEFT" \in flag THEN Repeat(" ", room) ELSE <<>>

\* LEFT cancels ZEROPAD and nothing else.
LEMMA EffectiveKeeps ==
  ASSUME NEW flag, NEW num, NEW base
  PROVE  /\ SignOf(num, Effective(flag)) = SignOf(num, flag)
         /\ Prefix(base, Effective(flag)) = Prefix(base, flag)
         /\ Magnitude(num, Effective(flag)) = Magnitude(num, flag)
         /\ "SMALL" \in Effective(flag) <=> "SMALL" \in flag
         /\ "LEFT" \in Effective(flag) <=> "LEFT" \in flag
         /\ "ZEROPAD" \in Effective(flag) <=> ("ZEROPAD" \in flag /\ "LEFT" \notin flag)
         /\ Effective(flag) \cap {"ZEROPAD", "LEFT"} = {} <=>
              flag \cap {"ZEROPAD", "LEFT"} = {}
<1>1. \A f \in {"SIGN", "PLUS", "SPACE", "SPECIAL", "SMALL", "LEFT"} :
        f \in Effective(flag) <=> f \in flag
  BY DEF Effective
<1>2. "ZEROPAD" \in Effective(flag) <=> ("ZEROPAD" \in flag /\ "LEFT" \notin flag)
  BY DEF Effective
<1>3. IsMinus(num, Effective(flag)) <=> IsMinus(num, flag)
  BY <1>1 DEF IsMinus
<1>4. SignOf(num, Effective(flag)) = SignOf(num, flag)
  BY <1>1, <1>3 DEF SignOf
<1>5. Prefix(base, Effective(flag)) = Prefix(base, flag)
  BY <1>1 DEF Prefix
<1>6. Magnitude(num, Effective(flag)) = Magnitude(num, flag)
  BY <1>3 DEF Magnitude
<1>7. Effective(flag) \cap {"ZEROPAD", "LEFT"} = {} <=> flag \cap {"ZEROPAD", "LEFT"} = {}
  BY <1>1, <1>2
<1>8. QED
  BY <1>1, <1>2, <1>4, <1>5, <1>6, <1>7

\* the parts of a number, and the number
Made(num, base, size, prec, flag, s, p, t, room) ==
  /\ s = SignOf(num, flag) /\ p = Prefix(base, flag) /\ t = Tmp(num, base, flag)
  /\ room = Room(size, s, p, Longer(prec, Len(t)))
  /\ number(num, base, size, prec, flag) =
       Ahead(flag, room) \o s \o p \o Inside(flag, room) \o Zeros(prec, t) \o t
       \o Behind(flag, room)

\* A padding loop leaves less than nothing, and the next one writes nothing.
LEMMA CountedOut ==
  ASSUME NEW size \in Int
  PROVE  /\ Counted(size) \in Int /\ Counted(size) <= -1
         /\ \A ch : Repeat(ch, Counted(size)) = <<>>
<1>1. PICK rest : rest = Counted(size)
  OBVIOUS
<1>2. rest \in Int /\ rest <= -1
  BY <1>1 DEF Counted
<1>3. \A ch : Repeat(ch, rest) = <<>>
  BY <1>2 DEF Repeat
<1>4. QED
  BY <1>1, <1>2, <1>3, Zenon

\* The three padding loops of number: the first that runs leaves nothing to the
\* others, and only one of them writes.
LEMMA OnePadding ==
  ASSUME NEW flag, NEW room \in Int,
         NEW two, two = IF flag \cap {"ZEROPAD", "LEFT"} = {} THEN Counted(room) ELSE room,
         NEW three, three = IF "LEFT" \notin flag THEN Counted(two) ELSE two,
         NEW ch, ch = IF "ZEROPAD" \in flag /\ "LEFT" \notin flag THEN "0" ELSE " "
  PROVE  /\ (IF "LEFT" \notin flag THEN Repeat(ch, two) ELSE <<>>) = Inside(flag, room)
         /\ Repeat(" ", three) = Behind(flag, room)
<1>1. \A size \in Int : Counted(size) \in Int /\ \A c0 : Repeat(c0, Counted(size)) = <<>>
  BY CountedOut, Zenon
<1>3. CASE "LEFT" \in flag
  <2>1. two = room /\ three = room
    BY <1>3
  <2>2. QED
    BY <1>3, <2>1 DEF Inside, Behind
<1>4. CASE "LEFT" \notin flag /\ "ZEROPAD" \in flag
  <2>1. two = room /\ three = Counted(room) /\ ch = "0"
    BY <1>4
  <2>2. Repeat(" ", three) = <<>>
    BY <1>1, <2>1, Zenon
  <2>3. QED
    BY <1>4, <2>1, <2>2 DEF Inside, Behind
<1>5. CASE "LEFT" \notin flag /\ "ZEROPAD" \notin flag
  <2>1. two = Counted(room) /\ three = Counted(two) /\ ch = " "
    BY <1>5
  <2>2. Repeat(" ", two) = <<>> /\ Repeat(" ", three) = <<>>
    BY <1>1, <2>1, Zenon
  <2>3. QED
    BY <1>5, <2>1, <2>2 DEF Inside, Behind
<1>6. QED
  BY <1>3, <1>4, <1>5

\* t is a row of digits with the value v
Digits(t, base, v) ==
  /\ t \in Seq(Glyphs) /\ Len(t) > 0 /\ ValueOf(t, base) = v
  /\ \A i \in 1 .. Len(t) : IsDigit(t[i], base)
ZerosFill(prec, t) == Len(Zeros(prec, t)) + Len(t) = Longer(prec, Len(t))

\* The parts are texts, the digits those of the magnitude.
LEMMA PartFacts ==
  ASSUME NEW num \in 0 .. LongValues - 1, NEW base \in Bases, NEW prec \in Int, NEW flag,
         NEW room \in Int, NEW s, NEW p, NEW t,
         s = SignOf(num, flag), p = Prefix(base, flag), t = Tmp(num, base, flag)
  PROVE  /\ Ahead(flag, room) \in Seq(Glyphs) /\ s \in Seq(Glyphs) /\ p \in Seq(Glyphs)
         /\ Inside(flag, room) \in Seq(Glyphs) /\ Zeros(prec, t) \in Seq(Glyphs)
         /\ Behind(flag, room) \in Seq(Glyphs) /\ ZerosFill(prec, t)
         /\ Digits(t, base, Magnitude(num, flag))
<1>1. LongValues \in Nat /\ num \in Nat /\ num < LongValues
  BY WidthsAssumption
<1>2. Magnitude(num, flag) \in 0 .. LongValues
  <2>1. (LongValues - num) % LongValues \in 0 .. LongValues
    BY <1>1
  <2>2. QED
    BY <1>1, <2>1 DEF Magnitude
<1>3. PICK table : table = IF "SMALL" \in flag THEN Lower ELSE Upper
  OBVIOUS
<1>4. table \in Tables /\ t = DigitsOf(Magnitude(num, flag), base, table)
  BY <1>3 DEF Tables, Tmp
<1>5. /\ t \in Seq(Glyphs) /\ Len(t) > 0 /\ ValueOf(t, base) = Magnitude(num, flag)
      /\ \A i \in 1 .. Len(t) : IsDigit(t[i], base)
  BY <1>2, <1>4, DigitsOfValue
<1>6. s \in {<<>>, <<"-">>, <<"+">>, <<" ">>}
  BY DEF SignOf
<1>7. p \in {<<>>, <<"0">>, <<"0", "x">>, <<"0", "X">>}
  BY DEF Prefix
<1>8. {"0", " ", "-", "+", "x", "X"} \subseteq Glyphs
  BY DEF Glyphs
<1>9. s \in Seq(Glyphs) /\ p \in Seq(Glyphs)
  <2>1. \A g \in Glyphs : <<g>> \in Seq(Glyphs)
    OBVIOUS
  <2>2. \A g, h \in Glyphs : <<g, h>> \in Seq(Glyphs)
    OBVIOUS
  <2>3. <<>> \in Seq(Glyphs)
    OBVIOUS
  <2>4. s \in Seq(Glyphs)
    BY <1>6, <1>8, <2>1, <2>3
  <2>5. p \in Seq(Glyphs)
    BY <1>7, <1>8, <2>1, <2>2, <2>3
  <2>6. QED
    BY <2>4, <2>5
<1>10. <<>> \in Seq(Glyphs) /\ Len(t) \in Nat /\ prec - Len(t) \in Int
  BY <1>5
<1>11. Repeat(" ", room) \in Seq(Glyphs) /\ Repeat("0", room) \in Seq(Glyphs)
  BY <1>8, RepeatFacts
<1>12. /\ Ahead(flag, room) \in Seq(Glyphs) /\ Inside(flag, room) \in Seq(Glyphs)
       /\ Behind(flag, room) \in Seq(Glyphs)
  BY <1>10, <1>11 DEF Ahead, Inside, Behind
<1>13. Zeros(prec, t) \in Seq(Glyphs) /\ Len(Zeros(prec, t)) = Longer(prec - Len(t), 0)
  BY <1>8, <1>10, RepeatFacts DEF Zeros
<1>14. Longer(prec - Len(t), 0) + Len(t) = Longer(prec, Len(t))
  BY <1>10 DEF Longer
<1>15. Len(Zeros(prec, t)) + Len(t) = Longer(prec, Len(t))
  BY <1>13, <1>14
<1>16. QED
  BY <1>5, <1>9, <1>12, <1>13, <1>15 DEF Digits, ZerosFill

\* number, part by part.
LEMMA NumberParts ==
  ASSUME NEW num \in 0 .. LongValues - 1, NEW base \in Bases, NEW size \in Int,
         NEW prec \in Int, NEW flag
  PROVE  \E s, p, t, room : Made(num, base, size, prec, flag, s, p, t, room)
<1>1. PICK type : type = Effective(flag)
  OBVIOUS
<1>2. PICK s, p, t : /\ s = SignOf(num, flag) /\ p = Prefix(base, flag)
                     /\ t = Tmp(num, base, flag)
  OBVIOUS
<1>3. PICK room : room = Room(size, s, p, Longer(prec, Len(t)))
  OBVIOUS
<1>4. /\ SignOf(num, type) = s /\ Prefix(base, type) = p
      /\ Magnitude(num, type) = Magnitude(num, flag)
      /\ "SMALL" \in type <=> "SMALL" \in flag
  BY <1>1, <1>2, EffectiveKeeps
<1>5. DigitsOf(Magnitude(num, type), base, IF "SMALL" \in type THEN Lower ELSE Upper) = t
  BY <1>2, <1>4 DEF Tmp
<1>6. PICK size2, size3, ch :
        /\ size2 = IF type \cap {"ZEROPAD", "LEFT"} = {} THEN Counted(room) ELSE room
        /\ size3 = IF "LEFT" \notin type THEN Counted(size2) ELSE size2
        /\ ch = IF "ZEROPAD" \in type THEN "0" ELSE " "
  OBVIOUS
<1>7. number(num, base, size, prec, flag) =
        (IF type \cap {"ZEROPAD", "LEFT"} = {} THEN Repeat(" ", room) ELSE <<>>) \o s \o p
        \o (IF "LEFT" \notin type THEN Repeat(ch, size2) ELSE <<>>)
        \o Repeat("0", prec - Len(t)) \o t \o Repeat(" ", size3)
  BY <1>1, <1>3, <1>4, <1>5, <1>6 DEF number
<1>12. room \in Int
  <2>1. /\ s \in Seq(Glyphs) /\ p \in Seq(Glyphs) /\ Digits(t, base, Magnitude(num, flag))
    <3>1. 0 \in Int
      OBVIOUS
    <3>2. QED
      BY <1>2, <3>1, PartFacts, Zenon
  <2>2. t \in Seq(Glyphs)
    BY <2>1, Zenon DEF Digits
  <2>3. Len(s) \in Nat /\ Len(p) \in Nat /\ Len(t) \in Nat
    BY <2>1, <2>2
  <2>4. QED
    BY <1>3, <2>3 DEF Room, Longer
<1>13. /\ size2 = IF flag \cap {"ZEROPAD", "LEFT"} = {} THEN Counted(room) ELSE room
       /\ size3 = IF "LEFT" \notin flag THEN Counted(size2) ELSE size2
       /\ ch = IF "ZEROPAD" \in flag /\ "LEFT" \notin flag THEN "0" ELSE " "
       /\ "LEFT" \in type <=> "LEFT" \in flag
       /\ (IF type \cap {"ZEROPAD", "LEFT"} = {} THEN Repeat(" ", room) ELSE <<>>)
            = Ahead(flag, room)
  BY <1>1, <1>6, EffectiveKeeps DEF Ahead
<1>14. /\ (IF "LEFT" \notin flag THEN Repeat(ch, size2) ELSE <<>>) = Inside(flag, room)
       /\ Repeat(" ", size3) = Behind(flag, room)
  BY <1>12, <1>13, OnePadding, Zenon
<1>8. number(num, base, size, prec, flag) =
        Ahead(flag, room) \o s \o p \o Inside(flag, room) \o Zeros(prec, t) \o t
        \o Behind(flag, room)
  BY <1>7, <1>13, <1>14 DEF Zeros
<1>9. Made(num, base, size, prec, flag, s, p, t, room)
  BY <1>2, <1>3, <1>8, Zenon DEF Made
<1>10. QED
  BY <1>9

-----------------------------------------------------------------------------
(* What a number reads back as.                                            *)

Blank == " "
AllOf(ch, s) == s \in Seq(Glyphs) /\ \A i \in 1 .. Len(s) : s[i] = ch

\* Zeros in front of zeros.
LEMMA ZerosJoin ==
  ASSUME NEW ch, NEW u, NEW v, AllOf(ch, u), AllOf(ch, v)
  PROVE  AllOf(ch, u \o v) /\ Len(u \o v) = Len(u) + Len(v)
<1> DEFINE w == u \o v
<1> HIDE DEF w
<1>1. /\ u \in Seq(Glyphs) /\ v \in Seq(Glyphs)
      /\ \A i \in 1 .. Len(u) : u[i] = ch
      /\ \A i \in 1 .. Len(v) : v[i] = ch
  BY DEF AllOf
<1>2. /\ w \in Seq(Glyphs) /\ Len(w) = Len(u) + Len(v)
      /\ \A i \in 1 .. Len(u) : w[i] = u[i]
      /\ \A i \in 1 .. Len(v) : w[Len(u) + i] = v[i]
  BY <1>1, TwoParts DEF w
<1>3. Len(u) \in Nat /\ Len(v) \in Nat
  BY <1>1
<1>4. ASSUME NEW i \in 1 .. Len(w) PROVE w[i] = ch
  <2>1. CASE i <= Len(u)
    BY <1>1, <1>2, <1>3, <2>1
  <2>2. CASE i > Len(u)
    <3>1. PICK j : j = i - Len(u)
      OBVIOUS
    <3>2. j \in 1 .. Len(v) /\ i = Len(u) + j
      BY <1>2, <1>3, <2>2, <3>1
    <3>3. QED
      BY <1>1, <1>2, <3>2
  <2>3. QED
    BY <1>3, <2>1, <2>2
<1>5. AllOf(ch, w)
  BY <1>2, <1>4 DEF AllOf
<1>6. QED
  BY <1>2, <1>5, Zenon DEF w

\* Zeros in front of digits leave the value as it is.
LEMMA ZerosAhead ==
  ASSUME NEW base \in Bases, NEW y, AllOf("0", y), NEW t \in Seq(Glyphs),
         \A i \in 1 .. Len(t) : IsDigit(t[i], base)
  PROVE  /\ y \o t \in Seq(Glyphs) /\ Len(y \o t) = Len(y) + Len(t)
         /\ \A i \in 1 .. Len(y \o t) : IsDigit((y \o t)[i], base)
         /\ ValueOf(y \o t, base) = ValueOf(t, base)
<1> DEFINE b == y \o t
<1> HIDE DEF b
<1>1. y \in Seq(Glyphs) /\ \A i \in 1 .. Len(y) : y[i] = "0"
  BY DEF AllOf
<1>2. /\ b \in Seq(Glyphs) /\ Len(b) = Len(y) + Len(t)
      /\ \A i \in 1 .. Len(y) : b[i] = y[i]
      /\ \A i \in 1 .. Len(t) : b[Len(y) + i] = t[i]
  BY <1>1, TwoParts DEF b
<1>3. Len(y) \in Nat /\ Len(t) \in Nat
  BY <1>1
<1>4. ASSUME NEW i \in 1 .. Len(b) PROVE IsDigit(b[i], base)
  <2>1. CASE i <= Len(y)
    <3>1. b[i] = "0"
      BY <1>1, <1>2, <1>3, <2>1
    <3>2. QED
      BY <3>1, ZeroRead
  <2>2. CASE i > Len(y)
    <3>1. PICK j : j = i - Len(y)
      OBVIOUS
    <3>2. j \in 1 .. Len(t) /\ i = Len(y) + j
      BY <1>2, <1>3, <2>2, <3>1
    <3>3. b[i] = t[j]
      BY <1>2, <3>2
    <3>4. QED
      BY <3>2, <3>3
  <2>3. QED
    BY <1>3, <2>1, <2>2
<1>5. base \in Nat
  BY DEF Bases
<1>6. \A i \in 1 .. Len(y) : DigitValue(y[i], base) = 0
  BY <1>1, ZeroRead
<1>7. ValueOf(b, base) = ValueOf(t, base)
  BY <1>1, <1>5, <1>6, ValueZeros DEF b
<1>8. QED
  BY <1>2, <1>4, <1>7, Zenon DEF b

\* x is a, l, b and g, one after the other
Joined(x, a, l, b, g) ==
  /\ x \in Seq(Glyphs) /\ Len(x) = Len(a) + Len(l) + Len(b) + Len(g)
  /\ \A i \in 1 .. Len(a) : x[i] = a[i]
  /\ \A i \in 1 .. Len(l) : x[Len(a) + i] = l[i]
  /\ \A i \in 1 .. Len(b) : x[Len(a) + Len(l) + i] = b[i]
  /\ \A i \in 1 .. Len(g) : x[Len(a) + Len(l) + Len(b) + i] = g[i]

\* a sign and a prefix, as Reads asks for them
Lead(l, flag, base, value) ==
  /\ l \in Seq(Glyphs)
  /\ \E sign \in IF value < 0 THEN {<<"-">>} ELSE {<<>>, <<"+">>, <<" ">>},
        prefix \in IF "SPECIAL" \in flag /\ base = 16
                     THEN {<<"0", "x">>, <<"0", "X">>} ELSE {<<>>} :
       l = sign \o prefix

\* the digits, as Reads asks for them
Row(b, base, value, digits) ==
  /\ b \in Seq(Glyphs) /\ Len(b) > 0 /\ Len(b) >= digits
  /\ \A i \in 1 .. Len(b) : IsDigit(b[i], base)
  /\ ValueOf(b, base) = IF value < 0 THEN -value ELSE value

\* Blanks, a lead, digits and blanks read as the value of the digits.
LEMMA ReadsJoined ==
  ASSUME NEW base, NEW value \in Int, NEW digits \in Int,
         NEW u, AllOf(Blank, u), NEW v, AllOf(Blank, v),
         NEW flag, flag = field.flags, NEW lead, Lead(lead, flag, base, value),
         NEW body, Row(body, base, value, digits), NEW x, Joined(x, u, lead, body, v)
  PROVE  Reads(x, base, value, digits)
<1>s. /\ u \in Seq(Glyphs) /\ v \in Seq(Glyphs)
      /\ lead \in Seq(Glyphs) /\ body \in Seq(Glyphs)
  BY DEF AllOf, Lead, Row
<1>1. /\ \A i \in 1 .. Len(u) : u[i] = Blank
      /\ \A i \in 1 .. Len(v) : v[i] = Blank
  BY DEF AllOf
<1>d. Len(body) > 0 /\ Len(body) >= digits
  BY DEF Row
<1>b. \A i \in 1 .. Len(body) : IsDigit(body[i], base)
  BY DEF Row
<1>n. x \in Seq(Glyphs) /\ Len(x) = Len(u) + Len(lead) + Len(body) + Len(v)
  BY DEF Joined
<1>2. /\ \A i \in 1 .. Len(u) : x[i] = u[i]
      /\ \A i \in 1 .. Len(lead) : x[Len(u) + i] = lead[i]
      /\ \A i \in 1 .. Len(body) : x[Len(u) + Len(lead) + i] = body[i]
      /\ \A i \in 1 .. Len(v) : x[Len(u) + Len(lead) + Len(body) + i] = v[i]
  BY DEF Joined
<1>3. Len(u) \in Nat /\ Len(lead) \in Nat /\ Len(body) \in Nat /\ Len(v) \in Nat
  BY <1>s
<1>4. PICK a, b, e : a = Len(u) /\ b = Len(u) + Len(lead) /\ e = b + Len(body)
  OBVIOUS
<1>5. /\ a \in 0 .. Len(x) /\ b \in 0 .. Len(x) /\ e \in 0 .. Len(x)
      /\ a <= b /\ b < e /\ e - b >= digits
  BY <1>d, <1>n, <1>3, <1>4
<1>6. \A i \in 1 .. a : x[i] = Blank
  BY <1>1, <1>2, <1>4
<1>7. SubSeq(x, a + 1, b) = lead
  <2>1. b = a + Len(lead) /\ b <= Len(x) /\ a \in Nat
    BY <1>3, <1>4, <1>5
  <2>2. \A i \in 1 .. Len(lead) : x[a + i] = lead[i]
    BY <1>2, <1>4
  <2>3. QED
    BY <1>s, <1>n, <2>1, <2>2, PartOf
<1>8. SubSeq(x, b + 1, e) = body
  <2>1. e = b + Len(body) /\ e <= Len(x) /\ b \in Nat
    BY <1>3, <1>4, <1>5
  <2>2. \A i \in 1 .. Len(body) : x[b + i] = body[i]
    BY <1>2, <1>4
  <2>3. QED
    BY <1>s, <1>n, <2>1, <2>2, PartOf
<1>9. ASSUME NEW i \in b + 1 .. e PROVE IsDigit(x[i], base)
  <2>1. PICK j : j = i - b
    OBVIOUS
  <2>2. j \in 1 .. Len(body) /\ i = Len(u) + Len(lead) + j
    BY <1>3, <1>4, <2>1
  <2>3. x[i] = body[j]
    BY <1>2, <2>2
  <2>4. QED
    BY <1>b, <2>2, <2>3
<1>10. ASSUME NEW i \in e + 1 .. Len(x) PROVE x[i] = Blank
  <2>1. PICK j : j = i - e
    OBVIOUS
  <2>2. j \in 1 .. Len(v) /\ i = Len(u) + Len(lead) + Len(body) + j
    BY <1>n, <1>3, <1>4, <2>1
  <2>3. QED
    BY <1>1, <1>2, <2>2
<1>11. \E sg \in IF value < 0 THEN {<<"-">>} ELSE {<<>>, <<"+">>, <<" ">>},
          pf \in IF "SPECIAL" \in field.flags /\ base = 16
                   THEN {<<"0", "x">>, <<"0", "X">>} ELSE {<<>>} :
         SubSeq(x, a + 1, b) = sg \o pf
  BY <1>7, Zenon DEF Lead
<1>12. ValueOf(SubSeq(x, b + 1, e), base) = IF value < 0 THEN -value ELSE value
  BY <1>8, Zenon DEF Row
<1>13. QED
  BY <1>5, <1>6, <1>9, <1>10, <1>11, <1>12, Zenon DEF Reads, Blank


LEMMA JoinedParts ==
  ASSUME NEW a \in Seq(Glyphs), NEW l \in Seq(Glyphs), NEW b \in Seq(Glyphs),
         NEW g \in Seq(Glyphs), NEW x, x = ((a \o l) \o b) \o g
  PROVE  Joined(x, a, l, b, g)
BY FourParts DEF Joined

\* The padding and the precision's zeros are made of one character.
LEMMA PaddingFacts ==
  ASSUME NEW flag, NEW room \in Int, NEW prec \in Int, NEW t \in Seq(Glyphs)
  PROVE  /\ AllOf(Blank, Ahead(flag, room)) /\ AllOf(Blank, Behind(flag, room))
         /\ AllOf("0", Inside(flag, room)) /\ AllOf("0", Zeros(prec, t))
<1>1. "0" \in Glyphs /\ Blank \in Glyphs
  BY DEF Glyphs, Blank
<1>2. ASSUME NEW ch \in Glyphs, NEW n \in Int PROVE AllOf(ch, Repeat(ch, n))
  BY RepeatFacts DEF AllOf
<1>3. ASSUME NEW ch PROVE AllOf(ch, <<>>)
  BY DEF AllOf
<1>4. Len(t) \in Nat /\ prec - Len(t) \in Int
  OBVIOUS
<1>5. AllOf("0", Zeros(prec, t))
  BY <1>1, <1>2, <1>4 DEF Zeros
<1>6. AllOf("0", Inside(flag, room))
  BY <1>1, <1>2, <1>3 DEF Inside
<1>7. Repeat(" ", room) = Repeat(Blank, room)
  BY DEF Blank
<1>8. PICK blanks : blanks = Repeat(" ", room)
  OBVIOUS
<1>9. AllOf(Blank, blanks) /\ AllOf(Blank, <<>>)
  BY <1>1, <1>2, <1>3, <1>7, <1>8
<1>10. /\ Ahead(flag, room) = blanks \/ Ahead(flag, room) = <<>>
       /\ Behind(flag, room) = blanks \/ Behind(flag, room) = <<>>
  BY <1>8 DEF Ahead, Behind
<1>11. AllOf(Blank, Ahead(flag, room)) /\ AllOf(Blank, Behind(flag, room))
  BY <1>9, <1>10, Zenon
<1>12. QED
  BY <1>5, <1>6, <1>11

\* The sign is a minus if and only if the value is negative.
LEMMA SignLead ==
  ASSUME NEW num, NEW flag, NEW value, (value < 0) <=> IsMinus(num, flag)
  PROVE  SignOf(num, flag) \in IF value < 0 THEN {<<"-">>} ELSE {<<>>, <<"+">>, <<" ">>}
BY DEF SignOf

\* The prefix that goes with a base.
LEMMA PrefixCases ==
  ASSUME NEW base, NEW flag
  PROVE  /\ "SPECIAL" \in flag /\ base = 16 =>
              Prefix(base, flag) \in {<<"0", "x">>, <<"0", "X">>}
         /\ "SPECIAL" \in flag /\ base = 8 => Prefix(base, flag) = <<"0">>
         /\ ~("SPECIAL" \in flag /\ base \in {8, 16}) => Prefix(base, flag) = <<>>
BY DEF Prefix

\* The digits number prints, with the zeros in front of them.
LEMMA ZerosRow ==
  ASSUME NEW base \in Bases, NEW y, AllOf("0", y), NEW t \in Seq(Glyphs), Len(t) > 0,
         \A i \in 1 .. Len(t) : IsDigit(t[i], base), NEW digits \in Int,
         Len(y) + Len(t) >= digits, NEW value,
         ValueOf(t, base) = (IF value < 0 THEN -value ELSE value)
  PROVE  Row(y \o t, base, value, digits)
<1>1. PICK b : b = y \o t
  OBVIOUS
<1>2. /\ b \in Seq(Glyphs) /\ Len(b) = Len(y) + Len(t)
      /\ \A i \in 1 .. Len(b) : IsDigit(b[i], base)
      /\ ValueOf(b, base) = ValueOf(t, base)
  BY <1>1, ZerosAhead, Zenon
<1>3. Len(y) \in Nat /\ Len(t) \in Nat
  BY DEF AllOf
<1>4. Len(b) > 0 /\ Len(b) >= digits
  BY <1>2, <1>3
<1>5. Row(b, base, value, digits)
  BY <1>2, <1>4, Zenon DEF Row
<1>6. QED
  BY <1>1, <1>5, Zenon

\* number prints the value of its argument, whatever flags, width and precision.
LEMMA NumberReads ==
  ASSUME NEW num \in 0 .. LongValues - 1, NEW base \in Bases, NEW size \in Int,
         NEW prec \in Int, NEW flag, flag = field.flags, NEW value \in Int,
         (value < 0) <=> IsMinus(num, flag),
         Magnitude(num, flag) = (IF value < 0 THEN -value ELSE value)
  PROVE  Reads(number(num, base, size, prec, flag), base, value, prec)
<1>x. PICK x : x = number(num, base, size, prec, flag)
  OBVIOUS
<1>m. PICK s, p, t, room : Made(num, base, size, prec, flag, s, p, t, room)
  BY NumberParts
<1>1. /\ s = SignOf(num, flag) /\ p = Prefix(base, flag) /\ t = Tmp(num, base, flag)
      /\ room = Room(size, s, p, Longer(prec, Len(t)))
      /\ number(num, base, size, prec, flag) =
           Ahead(flag, room) \o s \o p \o Inside(flag, room) \o Zeros(prec, t) \o t
           \o Behind(flag, room)
  BY <1>m, Zenon DEF Made
<1>2. room = Room(size, s, p, Longer(prec, Len(t)))
  BY <1>1, Zenon
<1>3. PICK a, d, z, g : /\ a = Ahead(flag, room) /\ d = Inside(flag, room)
                        /\ z = Zeros(prec, t) /\ g = Behind(flag, room)
  OBVIOUS
<1>4. x = a \o s \o p \o d \o z \o t \o g
  <2>1. number(num, base, size, prec, flag) =
           Ahead(flag, room) \o s \o p \o Inside(flag, room) \o Zeros(prec, t) \o t
           \o Behind(flag, room)
    BY <1>1, Zenon
  <2>2. QED
    BY <1>x, <1>3, <2>1, Zenon
<1>5. 0 \in Int
  OBVIOUS
<1>d. s \in Seq(Glyphs) /\ p \in Seq(Glyphs) /\ Digits(t, base, Magnitude(num, flag))
  BY <1>1, <1>5, PartFacts, Zenon
<1>6. s \in Seq(Glyphs) /\ p \in Seq(Glyphs) /\ t \in Seq(Glyphs) /\ Len(t) > 0
  BY <1>d, Zenon DEF Digits
<1>7. \A i \in 1 .. Len(t) : IsDigit(t[i], base)
  BY <1>d, Zenon DEF Digits
<1>8. ValueOf(t, base) = Magnitude(num, flag)
  BY <1>d, Zenon DEF Digits
<1>9. Len(z) + Len(t) = Longer(prec, Len(t))
  <2>1. ZerosFill(prec, t)
    BY <1>1, <1>5, PartFacts, Zenon
  <2>2. QED
    BY <1>3, <2>1, Zenon DEF ZerosFill
<1>10. Len(s) \in Nat /\ Len(p) \in Nat /\ Len(t) \in Nat
  BY <1>6
<1>11. room \in Int
  BY <1>2, <1>10 DEF Room, Longer
<1>12. AllOf(Blank, a) /\ AllOf(Blank, g) /\ AllOf("0", d) /\ AllOf("0", z)
  BY <1>3, <1>6, <1>11, PaddingFacts, Zenon
<1>13. AllOf("0", d) /\ AllOf("0", z)
  BY <1>12
<1>14. /\ a \in Seq(Glyphs) /\ g \in Seq(Glyphs) /\ d \in Seq(Glyphs)
       /\ z \in Seq(Glyphs)
  BY <1>12, Zenon DEF AllOf
<1>15. Len(d) \in Nat /\ Len(z) \in Nat
  BY <1>14
<1>16. /\ x = ((a \o (s \o p)) \o ((d \o z) \o t)) \o g
       /\ x = ((a \o s) \o (((p \o d) \o z) \o t)) \o g
  <2>1. Parts(Seq(Glyphs), a, s, p, d, z, t)
    BY <1>6, <1>14, Zenon DEF Parts
  <2>2. Closed(Seq(Glyphs)) /\ Associative(Seq(Glyphs))
    BY Concats
  <2>3. Bracketed(a, s, p, d, z, t, g)
    BY <2>1, <2>2, Regroup, Zenon
  <2>4. QED
    BY <1>4, <2>3, Zenon DEF Bracketed
<1>17. Len(z) + Len(t) >= prec
  BY <1>9, <1>10 DEF Longer
<1>18. s \in IF value < 0 THEN {<<"-">>} ELSE {<<>>, <<"+">>, <<" ">>}
  BY <1>1, SignLead, Zenon
<1>19. ValueOf(t, base) = IF value < 0 THEN -value ELSE value
  BY <1>8, Zenon
<1>20. ASSUME "SPECIAL" \in flag, base = 8 PROVE Reads(x, base, value, prec)
  <2>1. p = <<"0">>
    BY <1>1, <1>20, PrefixCases, Zenon
  <2>2. AllOf("0", p)
    <3>1. Len(p) = 1 /\ p[1] = "0"
      BY <2>1
    <3>2. QED
      BY <1>6, <3>1 DEF AllOf
  <2>3. AllOf("0", p \o d) /\ Len(p \o d) = Len(p) + Len(d)
    BY <1>13, <2>2, ZerosJoin, Zenon
  <2>4. AllOf("0", (p \o d) \o z) /\ Len((p \o d) \o z) = Len(p \o d) + Len(z)
    BY <1>13, <2>3, ZerosJoin, ZenonT(30)
  <2>5. PICK y : y = (p \o d) \o z
    OBVIOUS
  <2>6. AllOf("0", y) /\ Len(y) = Len(p) + Len(d) + Len(z)
    BY <2>3, <2>4, <2>5, Zenon
  <2>7. Len(y) + Len(t) >= prec
    BY <1>10, <1>15, <1>17, <2>6
  <2>8. Row(y \o t, base, value, prec)
    BY <1>6, <1>7, <1>19, <2>6, <2>7, ZerosRow, Zenon
  <2>9. PICK b : b = y \o t
    OBVIOUS
  <2>10. Row(b, base, value, prec)
    BY <2>8, <2>9, Zenon
  <2>11. b \in Seq(Glyphs)
    BY <2>10, Zenon DEF Row
  <2>12. base # 16
    BY <1>20
  <2>13. s = s \o <<>>
    BY <1>6, ConcatEmptySeq
  <2>14. Lead(s, flag, base, value)
    <3>1. <<>> \in IF "SPECIAL" \in flag /\ base = 16
                     THEN {<<"0", "x">>, <<"0", "X">>} ELSE {<<>>}
      BY <2>12, Zenon
    <3>2. QED
      BY <1>6, <1>18, <2>13, <3>1, Zenon DEF Lead
  <2>15. x = ((a \o s) \o b) \o g
    BY <1>16, <2>5, <2>9, Zenon
  <2>16. Joined(x, a, s, b, g)
    BY <1>6, <1>14, <2>11, <2>15, JoinedParts, Zenon
  <2>17. QED
    BY <1>12, <2>10, <2>14, <2>16, ReadsJoined, Zenon
<1>21. ASSUME ~("SPECIAL" \in flag /\ base = 8) PROVE Reads(x, base, value, prec)
  <2>1. p \in IF "SPECIAL" \in flag /\ base = 16
                THEN {<<"0", "x">>, <<"0", "X">>} ELSE {<<>>}
    <3>1. CASE "SPECIAL" \in flag /\ base = 16
      BY <1>1, <3>1, PrefixCases, Zenon
    <3>2. CASE ~("SPECIAL" \in flag /\ base = 16)
      BY <1>1, <1>21, <3>2, PrefixCases, Zenon
    <3>3. QED
      BY <3>1, <3>2
  <2>2. PICK l : l = s \o p
    OBVIOUS
  <2>3. l \in Seq(Glyphs)
    BY <1>6, <2>2, ConcatProperties, Zenon
  <2>4. Lead(l, flag, base, value)
    BY <1>18, <2>1, <2>2, <2>3, Zenon DEF Lead
  <2>5. PICK y : y = d \o z
    OBVIOUS
  <2>6. AllOf("0", y) /\ Len(y) = Len(d) + Len(z)
    BY <1>13, <2>5, ZerosJoin, Zenon
  <2>7. Len(y) + Len(t) >= prec
    BY <1>10, <1>15, <1>17, <2>6
  <2>8. Row(y \o t, base, value, prec)
    BY <1>6, <1>7, <1>19, <2>6, <2>7, ZerosRow, Zenon
  <2>9. PICK b : b = y \o t
    OBVIOUS
  <2>10. Row(b, base, value, prec)
    BY <2>8, <2>9, Zenon
  <2>11. b \in Seq(Glyphs)
    BY <2>10, Zenon DEF Row
  <2>12. x = ((a \o l) \o b) \o g
    BY <1>16, <2>2, <2>5, <2>9, Zenon
  <2>13. Joined(x, a, l, b, g)
    BY <1>14, <2>3, <2>11, <2>12, JoinedParts, Zenon
  <2>14. QED
    BY <1>12, <2>4, <2>10, <2>13, ReadsJoined, Zenon
<1>22. Reads(x, base, value, prec)
  BY <1>20, <1>21
<1>23. QED
  BY <1>x, <1>22, Zenon



-----------------------------------------------------------------------------
(* How a number is laid out in its field.                                  *)

Unit(Seqs, e) == e \in Seqs /\ \A u \in Seqs : e \o u = u /\ u \o e = u

\* a number without some of its paddings
Squeezed(e, a, s, p, d, z, t, g) ==
  LET x == a \o s \o p \o d \o z \o t \o g
  IN  /\ (a = e /\ d = e) => x = ((s \o p) \o (z \o t)) \o g
      /\ (a = e /\ g = e) => x = ((s \o p) \o d) \o (z \o t)
      /\ (d = e /\ g = e) => x = a \o ((s \o p) \o (z \o t))

\* Paddings that are empty can be left out.
LEMMA Squeeze ==
  ASSUME NEW Seqs, Closed(Seqs), Associative(Seqs), NEW e, Unit(Seqs, e),
         NEW a, NEW s, NEW p, NEW d, NEW z, NEW t, NEW g, g \in Seqs,
         Parts(Seqs, a, s, p, d, z, t)
  PROVE  Squeezed(e, a, s, p, d, z, t, g)
<1>1. a \in Seqs /\ s \in Seqs /\ p \in Seqs
  BY DEF Parts
<1>2. d \in Seqs /\ z \in Seqs /\ t \in Seqs
  BY DEF Parts
<1>3. PICK x : x = a \o s \o p \o d \o z \o t \o g
  OBVIOUS
<1>4. Bracketed(a, s, p, d, z, t, g)
  BY Regroup, Zenon
<1>5. PICK l : l = s \o p
  OBVIOUS
<1>6. PICK r : r = z \o t
  OBVIOUS
<1>7. l \in Seqs /\ r \in Seqs
  BY <1>1, <1>2, <1>5, <1>6, Zenon DEF Closed
<1>8. (d \o z) \o t = d \o r
  BY <1>2, <1>6, Zenon DEF Associative
<1>9. x = ((a \o l) \o (d \o r)) \o g
  BY <1>3, <1>4, <1>5, <1>8, Zenon DEF Bracketed
<1>10. \A u \in Seqs : e \o u = u /\ u \o e = u
  BY Zenon DEF Unit
<1>11. ASSUME a = e, d = e PROVE x = (l \o r) \o g
  <2>1. x = ((e \o l) \o (e \o r)) \o g
    BY <1>9, <1>11
  <2>2. e \o l = l /\ e \o r = r
    BY <1>7, <1>10
  <2>3. QED
    BY <2>1, <2>2, Zenon
<1>12. ASSUME a = e, g = e PROVE x = (l \o d) \o r
  <2>1. d \o r \in Seqs
    BY <1>2, <1>7, Zenon DEF Closed
  <2>2. l \o (d \o r) \in Seqs
    BY <1>7, <2>1, Zenon DEF Closed
  <2>3. x = (l \o (d \o r)) \o e
    <3>1. x = ((e \o l) \o (d \o r)) \o e
      BY <1>9, <1>12
    <3>2. e \o l = l
      BY <1>7, <1>10
    <3>3. QED
      BY <3>1, <3>2, Zenon
  <2>4. x = l \o (d \o r)
    BY <1>10, <2>2, <2>3, Zenon
  <2>5. (l \o d) \o r = l \o (d \o r)
    <3>1. \A u, v, w \in Seqs : (u \o v) \o w = u \o (v \o w)
      BY Zenon DEF Associative
    <3>2. l \in Seqs /\ r \in Seqs /\ d \in Seqs
      BY <1>2, <1>7
    <3>3. QED
      BY <3>1, <3>2, ZenonT(40)
  <2>6. QED
    BY <2>4, <2>5, Zenon
<1>13. ASSUME d = e, g = e PROVE x = a \o (l \o r)
  <2>1. x = ((a \o l) \o r) \o e
    <3>1. x = ((a \o l) \o (e \o r)) \o e
      BY <1>9, <1>13
    <3>2. e \o r = r
      BY <1>7, <1>10
    <3>3. QED
      BY <3>1, <3>2, Zenon
  <2>2. a \o l \in Seqs
    BY <1>1, <1>7, Zenon DEF Closed
  <2>3. (a \o l) \o r \in Seqs
    BY <1>7, <2>2, Zenon DEF Closed
  <2>4. x = (a \o l) \o r
    BY <1>10, <2>1, <2>3, Zenon
  <2>5. (a \o l) \o r = a \o (l \o r)
    <3>1. \A u, v, w \in Seqs : (u \o v) \o w = u \o (v \o w)
      BY Zenon DEF Associative
    <3>2. l \in Seqs /\ r \in Seqs /\ a \in Seqs
      BY <1>1, <1>7
    <3>3. QED
      BY <3>1, <3>2, Zenon
  <2>6. QED
    BY <2>4, <2>5, Zenon
<1>14. QED
  BY <1>3, <1>5, <1>6, <1>11, <1>12, <1>13, Zenon DEF Squeezed

LEMMA EmptyUnit == ASSUME NEW S PROVE Unit(Seq(S), <<>>)
<1>1. <<>> \in Seq(S)
  OBVIOUS
<1>2. QED
  BY <1>1, ConcatEmptySeq DEF Unit

\* the text of a number in its field, from the text it has without a width
LaidOut(num, base, width, prec, type) ==
  LET bare == number(num, base, 0, prec, type)
      lead == Len(SignOf(num, type)) + Len(Prefix(base, type))
      room == width - Len(bare)
  IN  number(num, base, width, prec, type) =
        IF "LEFT" \in type THEN bare \o Repeat(" ", room)
        ELSE IF "ZEROPAD" \in type
          THEN SubSeq(bare, 1, lead) \o Repeat("0", room)
               \o SubSeq(bare, lead + 1, Len(bare))
        ELSE Repeat(" ", room) \o bare

\* l and r are the two parts of x
Parted(x, l, r) ==
  /\ Len(x) = Len(l) + Len(r) /\ SubSeq(x, 1, Len(l)) = l
  /\ SubSeq(x, Len(l) + 1, Len(x)) = r

\* A text of two parts taken apart.
LEMMA Halves ==
  ASSUME NEW S, NEW l \in Seq(S), NEW r \in Seq(S), NEW x, x = l \o r
  PROVE  Parted(x, l, r)
<1>1. /\ x \in Seq(S) /\ Len(x) = Len(l) + Len(r)
      /\ \A i \in 1 .. Len(l) : x[i] = l[i]
      /\ \A i \in 1 .. Len(r) : x[Len(l) + i] = r[i]
  BY TwoParts
<1>2. PICK m, n : m = Len(l) /\ n = Len(r)
  OBVIOUS
<1>3. m \in Nat /\ n \in Nat /\ Len(x) = m + n /\ 0 \in Nat
  BY <1>1, <1>2
<1>4. SubSeq(x, 0 + 1, m) = l
  <2>1. m = 0 + Len(l) /\ m <= Len(x)
    BY <1>2, <1>3
  <2>2. \A i \in 1 .. Len(l) : x[0 + i] = l[i]
    BY <1>1
  <2>3. QED
    BY <1>1, <1>3, <2>1, <2>2, PartOf
<1>5. SubSeq(x, m + 1, m + n) = r
  <2>1. m + n = m + Len(r) /\ m + n <= Len(x)
    BY <1>2, <1>3
  <2>2. \A i \in 1 .. Len(r) : x[m + i] = r[i]
    BY <1>1, <1>2
  <2>3. QED
    BY <1>1, <1>3, <2>1, <2>2, PartOf
<1>6. 0 + 1 = 1
  OBVIOUS
<1>7. QED
  BY <1>1, <1>2, <1>3, <1>4, <1>5, <1>6 DEF Parted


\* a number without padding
Bare(num, base, prec, type, s, p, t) ==
  number(num, base, 0, prec, type) = (s \o p) \o (Zeros(prec, t) \o t)

\* Without a width a number is its lead, its zeros and its digits.
LEMMA BareNumber ==
  ASSUME NEW num \in 0 .. LongValues - 1, NEW base \in Bases, NEW prec \in Int, NEW type,
         NEW s, s = SignOf(num, type), NEW p, p = Prefix(base, type),
         NEW t, t = Tmp(num, base, type)
  PROVE  Bare(num, base, prec, type, s, p, t)
<1>m. PICK s0, p0, t0, room : Made(num, base, 0, prec, type, s0, p0, t0, room)
  BY NumberParts
<1>1. s0 = s /\ p0 = p /\ t0 = t
  BY <1>m, Zenon DEF Made
<1>2. /\ room = Room(0, s, p, Longer(prec, Len(t)))
      /\ number(num, base, 0, prec, type) =
           Ahead(type, room) \o s \o p \o Inside(type, room) \o Zeros(prec, t) \o t
           \o Behind(type, room)
  BY <1>m, <1>1, Zenon DEF Made
<1>3. 0 \in Int
  OBVIOUS
<1>4. /\ s \in Seq(Glyphs) /\ p \in Seq(Glyphs) /\ Zeros(prec, t) \in Seq(Glyphs)
      /\ Digits(t, base, Magnitude(num, type))
  BY <1>3, PartFacts, Zenon
<1>5. t \in Seq(Glyphs) /\ Len(t) > 0
  BY <1>4, Zenon DEF Digits
<1>6. Len(s) \in Nat /\ Len(p) \in Nat /\ Len(t) \in Nat
  BY <1>4, <1>5
<1>7. room \in Int /\ room <= 0
  BY <1>2, <1>5, <1>6 DEF Room, Longer
<1>8. \A ch \in Glyphs : Repeat(ch, room) = <<>>
  BY <1>7, RepeatFacts
<1>9. Repeat(" ", room) = <<>> /\ Repeat("0", room) = <<>>
  BY <1>8 DEF Glyphs
<1>10. Ahead(type, room) = <<>> /\ Inside(type, room) = <<>> /\ Behind(type, room) = <<>>
  BY <1>9 DEF Ahead, Inside, Behind
<1>11. <<>> \in Seq(Glyphs)
  OBVIOUS
<1>12. PICK z : z = Zeros(prec, t)
  OBVIOUS
<1>13. PICK e : e = <<>>
  OBVIOUS
<1>14. Parts(Seq(Glyphs), e, s, p, e, z, t)
  BY <1>4, <1>5, <1>11, <1>12, <1>13, Zenon DEF Parts
<1>15. Closed(Seq(Glyphs)) /\ Associative(Seq(Glyphs))
  BY Concats
<1>16. Unit(Seq(Glyphs), e) /\ e \in Seq(Glyphs)
  BY <1>11, <1>13, EmptyUnit
<1>17. Squeezed(e, e, s, p, e, z, t, e)
  BY <1>14, <1>15, <1>16, Squeeze, Zenon
<1>18. e \o s \o p \o e \o z \o t \o e = ((s \o p) \o (z \o t)) \o e
  BY <1>17, Zenon DEF Squeezed
<1>19. (s \o p) \o (z \o t) \in Seq(Glyphs)
  <2>1. s \o p \in Seq(Glyphs) /\ z \o t \in Seq(Glyphs)
    BY <1>4, <1>5, <1>12, <1>15, Zenon DEF Closed
  <2>2. QED
    BY <1>15, <2>1, Zenon DEF Closed
<1>20. ((s \o p) \o (z \o t)) \o e = (s \o p) \o (z \o t)
  BY <1>16, <1>19, Zenon DEF Unit
<1>21. number(num, base, 0, prec, type) = e \o s \o p \o e \o z \o t \o e
  BY <1>2, <1>10, <1>12, <1>13, Zenon
<1>22. QED
  BY <1>12, <1>18, <1>20, <1>21, Zenon DEF Bare

\* number lays its argument out as the flags ask.
LEMMA NumberLays ==
  ASSUME NEW num \in 0 .. LongValues - 1, NEW base \in Bases, NEW width \in Int,
         NEW prec \in Int, NEW type
  PROVE  LaidOut(num, base, width, prec, type)
<1>m. PICK s, p, t, room : Made(num, base, width, prec, type, s, p, t, room)
  BY NumberParts
<1>1. /\ s = SignOf(num, type) /\ p = Prefix(base, type) /\ t = Tmp(num, base, type)
      /\ room = Room(width, s, p, Longer(prec, Len(t)))
      /\ number(num, base, width, prec, type) =
           Ahead(type, room) \o s \o p \o Inside(type, room) \o Zeros(prec, t) \o t
           \o Behind(type, room)
  BY <1>m, Zenon DEF Made
<1>2. 0 \in Int
  OBVIOUS
<1>3. /\ s \in Seq(Glyphs) /\ p \in Seq(Glyphs) /\ Zeros(prec, t) \in Seq(Glyphs)
      /\ Digits(t, base, Magnitude(num, type)) /\ ZerosFill(prec, t)
  BY <1>1, <1>2, PartFacts, Zenon
<1>4. t \in Seq(Glyphs) /\ Len(t) > 0
  BY <1>3, Zenon DEF Digits
<1>5. Len(s) \in Nat /\ Len(p) \in Nat /\ Len(t) \in Nat
  BY <1>3, <1>4
<1>6. room \in Int
  BY <1>1, <1>5 DEF Room, Longer
<1>7. PICK z, a, d, g : /\ z = Zeros(prec, t) /\ a = Ahead(type, room)
                        /\ d = Inside(type, room) /\ g = Behind(type, room)
  OBVIOUS
<1>8. a \in Seq(Glyphs) /\ d \in Seq(Glyphs) /\ g \in Seq(Glyphs) /\ z \in Seq(Glyphs)
  BY <1>1, <1>3, <1>6, <1>7, PartFacts, Zenon
<1>9. PICK e : e = <<>>
  OBVIOUS
<1>10. Parts(Seq(Glyphs), a, s, p, d, z, t)
  BY <1>3, <1>4, <1>8, Zenon DEF Parts
<1>11. Closed(Seq(Glyphs)) /\ Associative(Seq(Glyphs)) /\ Unit(Seq(Glyphs), e)
  BY <1>9, Concats, EmptyUnit, Zenon
<1>12. Squeezed(e, a, s, p, d, z, t, g)
  BY <1>8, <1>10, <1>11, Squeeze, Zenon
<1>13. PICK l : l = s \o p
  OBVIOUS
<1>14. PICK r : r = z \o t
  OBVIOUS
<1>15. l \in Seq(Glyphs) /\ r \in Seq(Glyphs)
  BY <1>3, <1>4, <1>8, <1>11, <1>13, <1>14, Zenon DEF Closed
<1>16. PICK bare : bare = number(num, base, 0, prec, type)
  OBVIOUS
<1>17. bare = l \o r
  <2>1. Bare(num, base, prec, type, s, p, t)
    BY <1>1, BareNumber, Zenon
  <2>2. QED
    BY <1>7, <1>13, <1>14, <1>16, <2>1, Zenon DEF Bare
<1>18. PICK x : x = number(num, base, width, prec, type)
  OBVIOUS
<1>19. x = a \o s \o p \o d \o z \o t \o g
  BY <1>1, <1>7, <1>18, Zenon
<1>20. /\ (a = e /\ d = e) => x = (l \o r) \o g
       /\ (a = e /\ g = e) => x = (l \o d) \o r
       /\ (d = e /\ g = e) => x = a \o (l \o r)
  BY <1>12, <1>13, <1>14, <1>19, Zenon DEF Squeezed
<1>21. /\ Len(bare) = Len(l) + Len(r) /\ SubSeq(bare, 1, Len(l)) = l
       /\ SubSeq(bare, Len(l) + 1, Len(bare)) = r
  <2>1. Parted(bare, l, r)
    BY <1>15, <1>17, Halves, Zenon
  <2>2. QED
    BY <2>1, Zenon DEF Parted
<1>22. Len(l) = Len(s) + Len(p)
  BY <1>3, <1>13, ConcatProperties, Zenon
<1>23. Len(r) = Longer(prec, Len(t))
  <2>1. Len(r) = Len(z) + Len(t)
    BY <1>4, <1>8, <1>14, ConcatProperties, Zenon
  <2>2. QED
    BY <1>3, <1>7, <2>1, Zenon DEF ZerosFill
<1>24. width - Len(bare) = room
  <2>1. Len(bare) = Len(s) + Len(p) + Longer(prec, Len(t))
    BY <1>21, <1>22, <1>23
  <2>2. room = width - Len(s) - Len(p) - Longer(prec, Len(t))
    BY <1>1 DEF Room
  <2>3. Longer(prec, Len(t)) \in Int
    BY <1>5 DEF Longer
  <2>4. QED
    BY <1>5, <2>1, <2>2, <2>3
<1>25. x = IF "LEFT" \in type THEN bare \o Repeat(" ", room)
           ELSE IF "ZEROPAD" \in type
             THEN SubSeq(bare, 1, Len(l)) \o Repeat("0", room)
                  \o SubSeq(bare, Len(l) + 1, Len(bare))
           ELSE Repeat(" ", room) \o bare
  <2>1. CASE "LEFT" \in type
    <3>1. a = e /\ d = e /\ g = Repeat(" ", room)
      BY <1>7, <1>9, <2>1 DEF Ahead, Inside, Behind
    <3>2. QED
      BY <1>17, <1>20, <2>1, <3>1, Zenon
  <2>2. CASE "LEFT" \notin type /\ "ZEROPAD" \in type
    <3>1. a = e /\ g = e /\ d = Repeat("0", room)
      BY <1>7, <1>9, <2>2 DEF Ahead, Inside, Behind
    <3>2. QED
      BY <1>20, <1>21, <2>2, <3>1, Zenon
  <2>3. CASE "LEFT" \notin type /\ "ZEROPAD" \notin type
    <3>1. d = e /\ g = e /\ a = Repeat(" ", room)
      BY <1>7, <1>9, <2>3 DEF Ahead, Inside, Behind
    <3>2. QED
      BY <1>17, <1>20, <2>3, <3>1, Zenon
  <2>4. QED
    BY <2>1, <2>2, <2>3
<1>26. Len(SignOf(num, type)) + Len(Prefix(base, type)) = Len(l)
  BY <1>1, <1>22
<1>27. QED
  BY <1>16, <1>18, <1>24, <1>25, <1>26, Zenon DEF LaidOut


-----------------------------------------------------------------------------
(* The loop over the format.                                               *)

\* the number a conversion hands to number
Handed(f) ==
  IF f.qualifier = "l" \/ f.conv = "p" THEN f.arg ELSE unsigned_int(f.arg)

\* f is a number as ConvertNumber left it
NumberMade(f) ==
  f.conv \in DOMAIN Base =>
    /\ f.arg \in Args /\ f.width \in Int /\ f.precision \in Int
    /\ "SIGN" \in f.flags <=> f.conv \in {"d", "i"}
    /\ f.text = number(Handed(f), Base[f.conv], f.width, f.precision, f.flags)

\* f is a text as ConvertString left it
StringMade(f) ==
  f.conv \in {"s", "c"} =>
    LET kept == IF f.conv = "c" \/ f.precision < 0 \/ Len(f.string) <= f.precision
                  THEN f.string ELSE SubSeq(f.string, 1, f.precision)
        pad  == Repeat(" ", f.width - Len(kept))
    IN  /\ f.width \in Int /\ f.precision \in Int
        /\ f.string \in Seq({f.string[k] : k \in DOMAIN f.string})
        /\ f.text = IF "LEFT" \in f.flags THEN kept \o pad ELSE pad \o kept

FieldMade(f) == NumberMade(f) /\ StringMade(f)

LoopInv ==
  /\ c \in Chars \cup {NUL}
  /\ flags \subseteq {"LEFT", "PLUS", "SPACE", "SPECIAL", "ZEROPAD"}
  /\ field_width \in Int /\ precision \in Int

IInv == LoopInv /\ FieldMade(field)

\* fmt++ goes on to the next character of the format, or to its end.
LEMMA Advances ==
  ASSUME c \in Chars \cup {NUL}, Advance, c # NUL
  PROVE  c' \in Chars \cup {NUL}
<1>1. c # Past
  BY CharsAssumption
<1>2. c' \in IF left = 0 THEN {NUL} ELSE Chars \cup {NUL}
  BY <1>1 DEF Advance
<1>3. QED
  BY <1>2

LEMMA DigitInt == ASSUME NEW ch, is_digit(ch) PROVE Digit(ch) \in Int
<1>1. PICK n : n = CHOOSE k \in DOMAIN DigitChars : DigitChars[k] = ch
  OBVIOUS
<1>2. n \in DOMAIN DigitChars
  BY <1>1, Zenon DEF is_digit
<1>3. DOMAIN DigitChars \subseteq Int
  BY DEF DigitChars
<1>4. QED
  BY <1>1, <1>2, <1>3 DEF Digit

LEMMA ShiftInt ==
  ASSUME NEW n \in Int, NEW ch, is_digit(ch)
  PROVE  Shift10(n, ch) \in Int
BY DigitInt DEF Shift10

LEMMA SignedInt == ASSUME NEW v \in Int PROVE signed_int(v) \in Int /\ unsigned_int(v) \in Int
<1>1. IntValues \in Nat /\ IntValues > 0
  BY WidthsAssumption
<1>2. v % IntValues \in Int
  BY <1>1
<1>3. QED
  BY <1>1, <1>2 DEF signed_int, unsigned_int

LEMMA ArgsInt == Args \subseteq Int
BY WidthsAssumption

LEMMA FlagsKnown ==
  ASSUME NEW ch \in DOMAIN FlagOf
  PROVE  FlagOf[ch] \in {"LEFT", "PLUS", "SPACE", "SPECIAL", "ZEROPAD"}
<1>1. ch \in {"-", "+", " ", "#", "0"}
  BY DEF FlagOf
<1>2. QED
  BY <1>1 DEF FlagOf

LEMMA InitInv == Init => IInv
<1> SUFFICES ASSUME Init PROVE IInv
  OBVIOUS
<1>1. LoopInv
  BY DEF Init, LoopInv
<1>2. field.conv = "none"
  BY DEF Init, NoField
<1>3. field.conv \notin DOMAIN Base /\ field.conv \notin {"s", "c"}
  BY <1>2 DEF Base
<1>4. NumberMade(field)
  BY <1>3, Zenon DEF NumberMade
<1>5. StringMade(field)
  BY <1>3, Zenon DEF StringMade
<1>6. QED
  BY <1>1, <1>4, <1>5 DEF IInv, FieldMade


\* Every step keeps what the loop knows of the format and the directive.
LEMMA LoopStep == LoopInv /\ Next => LoopInv'
<1> SUFFICES ASSUME LoopInv, Next PROVE LoopInv'
  OBVIOUS
<1>1. /\ c \in Chars \cup {NUL} /\ field_width \in Int /\ precision \in Int
      /\ flags \subseteq {"LEFT", "PLUS", "SPACE", "SPECIAL", "ZEROPAD"}
  BY DEF LoopInv
<1>2. CASE Literal
  BY <1>1, <1>2, Advances DEF Literal, LoopInv
<1>3. CASE Directive
  <2>1. c # NUL
    BY <1>3 DEF Directive, NUL
  <2>2. QED
    BY <1>1, <1>3, <2>1, Advances DEF Directive, LoopInv
<1>4. CASE Flag
  <2>1. c # NUL
    BY <1>4 DEF Flag, NUL, FlagOf
  <2>2. flags' \subseteq {"LEFT", "PLUS", "SPACE", "SPECIAL", "ZEROPAD"}
    BY <1>1, <1>4, FlagsKnown DEF Flag
  <2>3. QED
    BY <1>1, <1>4, <2>1, <2>2, Advances DEF Flag, LoopInv
<1>5. CASE Width
  <2>1. CASE is_digit(c) /\ Advance /\ UNCHANGED flags
             /\ (field_width' = Shift10(0, c) \/ field_width' = Shift10(field_width, c))
    <3>1. field_width' \in Int
      BY <1>1, <2>1, ShiftInt
    <3>2. c # NUL
      BY <2>1 DEF is_digit, DigitChars, NUL
    <3>3. QED
      BY <1>1, <1>5, <2>1, <3>1, <3>2, Advances DEF Width, LoopInv
  <2>2. CASE c = "*" /\ Advance /\ \E v \in Args :
               LET w == signed_int(v) IN
               /\ field_width' = IF w < 0 THEN -w ELSE w
               /\ flags' = IF w < 0 THEN flags \cup {"LEFT"} ELSE flags
    <3>1. PICK v \in Args :
            /\ field_width' = IF signed_int(v) < 0 THEN -signed_int(v)
                                                   ELSE signed_int(v)
            /\ flags' = IF signed_int(v) < 0 THEN flags \cup {"LEFT"} ELSE flags
      BY <2>2
    <3>2. PICK w : w = signed_int(v)
      OBVIOUS
    <3>3. w \in Int
      BY <3>2, ArgsInt, SignedInt
    <3>4. field_width' \in Int
      BY <3>1, <3>2, <3>3, SignedInt
    <3>5. flags' \subseteq {"LEFT", "PLUS", "SPACE", "SPECIAL", "ZEROPAD"}
      BY <1>1, <3>1
    <3>6. c # NUL
      BY <2>2 DEF NUL
    <3>7. QED
      BY <1>1, <1>5, <2>2, <3>4, <3>5, <3>6, Advances DEF Width, LoopInv
  <2>3. CASE UNCHANGED <<c, left, flags, field_width>>
    BY <1>1, <1>5, <2>3 DEF Width, LoopInv
  <2>4. QED
    BY <1>5, <2>1, <2>2, <2>3 DEF Width
<1>6. CASE Precision
  <2>1. CASE UNCHANGED <<c, left, precision>>
    BY <1>1, <1>6, <2>1 DEF Precision, LoopInv
  <2>2. CASE c = "." /\ precision' = 0 /\ Advance
    <3>1. c # NUL
      BY <2>2 DEF NUL
    <3>2. QED
      BY <1>1, <1>6, <2>2, <3>1, Advances DEF Precision, LoopInv
  <2>3. CASE c = "*" /\ Advance /\ \E v \in Args : precision' = Longer(signed_int(v), 0)
    <3>1. PICK v \in Args : precision' = Longer(signed_int(v), 0)
      BY <2>3
    <3>2. signed_int(v) \in Int
      BY ArgsInt, SignedInt
    <3>3. precision' \in Int
      BY <3>1, <3>2 DEF Longer
    <3>4. c # NUL
      BY <2>3 DEF NUL
    <3>5. QED
      BY <1>1, <1>6, <2>3, <3>3, <3>4, Advances DEF Precision, LoopInv
  <2>4. CASE is_digit(c) /\ precision' = Shift10(precision, c) /\ Advance
    <3>1. precision' \in Int
      BY <1>1, <2>4, ShiftInt
    <3>2. c # NUL
      BY <2>4 DEF is_digit, DigitChars, NUL
    <3>3. QED
      BY <1>1, <1>6, <2>4, <3>1, <3>2, Advances DEF Precision, LoopInv
  <2>5. QED
    BY <1>6, <2>1, <2>2, <2>3, <2>4 DEF Precision
<1>7. CASE Qualifier
  <2>1. c \in {"h", "l", "L", "Z"} => c # NUL
    BY DEF NUL
  <2>2. c' \in Chars \cup {NUL}
    BY <1>1, <1>7, <2>1, Advances DEF Qualifier
  <2>3. QED
    BY <1>1, <1>7, <2>2 DEF Qualifier, LoopInv
<1>8. CASE ConvertNumber
  <2>1. c # NUL
    BY <1>8 DEF ConvertNumber, Base, NUL
  <2>2. UNCHANGED <<flags, field_width, precision>> /\ Advance
    BY <1>8 DEF ConvertNumber, Emit
  <2>3. QED
    BY <1>1, <2>1, <2>2, Advances DEF LoopInv
<1>9. CASE ConvertString
  <2>1. c # NUL
    BY <1>9 DEF ConvertString, NUL
  <2>2. UNCHANGED <<flags, field_width, precision>> /\ Advance
    BY <1>9 DEF ConvertString, Emit
  <2>3. QED
    BY <1>1, <2>1, <2>2, Advances DEF LoopInv
<1>10. CASE ConvertOther
  <2>1. c # NUL
    BY <1>10 DEF ConvertOther
  <2>2. UNCHANGED <<flags, field_width, precision>> /\ Advance
    BY <1>10 DEF ConvertOther, Emit
  <2>3. QED
    BY <1>1, <2>1, <2>2, Advances DEF LoopInv
<1>11. CASE ConvertEnd
  BY <1>1, <1>11 DEF ConvertEnd, Emit, Restored, LoopInv
<1>12. CASE Finish
  BY <1>1, <1>12 DEF Finish, LoopInv
<1>13. CASE Done
  BY <1>1, <1>13 DEF Done, vars, LoopInv
<1>14. QED
  BY <1>2, <1>3, <1>4, <1>5, <1>6, <1>7, <1>8, <1>9, <1>10, <1>11, <1>12, <1>13 DEF Next


\* What ConvertNumber leaves behind is a number.
LEMMA NumberStep ==
  ASSUME LoopInv, ConvertNumber
  PROVE  FieldMade(field')
<1>1. /\ field_width \in Int /\ precision \in Int
      /\ flags \subseteq {"LEFT", "PLUS", "SPACE", "SPECIAL", "ZEROPAD"}
  BY DEF LoopInv
<1>2. PICK v \in Args :
        Emit(v, <<>>, number(Fetched(v), Base[c], NumberWidth, precision, NumberFlags),
             NumberFlags, NumberWidth)
  BY DEF ConvertNumber
<1>3. PICK f, ch, q, w, prec, fl, text :
        /\ f = field' /\ ch = c /\ q = qualifier /\ w = NumberWidth /\ prec = precision
        /\ fl = NumberFlags /\ text = number(Fetched(v), Base[c], w, prec, fl)
  OBVIOUS
<1>4. f = [conv |-> ch, qualifier |-> q, flags |-> fl, width |-> w, precision |-> prec,
           arg |-> v, string |-> <<>>, text |-> text]
  BY <1>2, <1>3 DEF Emit
<1>5. /\ f.conv = ch /\ f.qualifier = q /\ f.flags = fl /\ f.width = w
      /\ f.precision = prec /\ f.arg = v /\ f.text = text
  BY <1>4
<1>6. ch \in DOMAIN Base
  BY <1>3 DEF ConvertNumber
<1>7. w \in Int /\ prec \in Int
  BY <1>1, <1>3, WidthsAssumption DEF NumberWidth
<1>8. "SIGN" \in fl <=> ch \in {"d", "i"}
  <2>1. "SIGN" \notin flags
    BY <1>1
  <2>2. CASE ch \in {"d", "i"}
    BY <1>3, <2>2 DEF NumberFlags
  <2>3. CASE ch \notin {"d", "i"}
    BY <1>3, <2>1, <2>3 DEF NumberFlags
  <2>4. QED
    BY <2>2, <2>3
<1>9. Handed(f) = Fetched(v)
  BY <1>3, <1>5 DEF Handed, Fetched
<1>10. text = number(Handed(f), Base[ch], w, prec, fl)
  BY <1>3, <1>9
<1>11. NumberMade(f)
  BY <1>5, <1>7, <1>8, <1>10 DEF NumberMade
<1>12. ch \notin {"s", "c"}
  BY <1>6 DEF Base
<1>13. StringMade(f)
  BY <1>5, <1>12, Zenon DEF StringMade
<1>14. QED
  BY <1>3, <1>11, <1>13, Zenon DEF FieldMade

\* The part of a string that is printed.
LEMMA Kept ==
  ASSUME NEW S, NEW s \in Seq(S), NEW k \in Nat, k <= Len(s)
  PROVE  /\ SubSeq(s, 1, k) \in Seq(S) /\ Len(SubSeq(s, 1, k)) = k
         /\ \A i \in 1 .. k : SubSeq(s, 1, k)[i] = s[i]
<1>1. Len(s) \in Nat /\ \A i \in 1 .. Len(s) : s[i] \in S
  OBVIOUS
<1>2. \A i \in 1 .. k : s[i] \in S
  BY <1>1
<1>3. PICK y : y = SubSeq(s, 1, k)
  OBVIOUS
<1>4. y \in Seq(S)
  BY <1>2, <1>3, SubSeqProperties
<1>5. Len(y) = IF 1 <= k THEN k - 1 + 1 ELSE 0
  BY <1>2, <1>3, SubSeqProperties
<1>6. \A i \in 1 .. k - 1 + 1 : y[i] = s[1 + i - 1]
  BY <1>2, <1>3, SubSeqProperties
<1>7. Len(y) = k
  BY <1>5
<1>8. \A i \in 1 .. k : y[i] = s[i]
  BY <1>6
<1>9. QED
  BY <1>3, <1>4, <1>7, <1>8, Zenon

\* What ConvertString leaves behind is a text.
LEMMA StringStep ==
  ASSUME LoopInv, ConvertString
  PROVE  FieldMade(field')
<1>1. field_width \in Int /\ precision \in Int
  BY DEF LoopInv
<1>2. PICK s \in IF c = "s" THEN Strings ELSE {<<"A">>} :
        Emit(0, s, Padded(IF c = "s" THEN Truncated(s) ELSE s), flags, field_width)
  BY DEF ConvertString
<1>3. PICK f, ch, w, prec, fl, kept, pad :
        /\ f = field' /\ ch = c /\ w = field_width /\ prec = precision /\ fl = flags
        /\ kept = (IF c = "s" THEN Truncated(s) ELSE s)
        /\ pad = Repeat(" ", field_width - Len(kept))
  OBVIOUS
<1>4. PICK text : text = IF "LEFT" \in fl THEN kept \o pad ELSE pad \o kept
  OBVIOUS
<1>8. ch \in {"s", "c"}
  BY <1>3 DEF ConvertString
<1>9. s \in Seq({s[k] : k \in DOMAIN s})
  <2>1. CASE c = "s"
    BY <1>2, <2>1, StringsAssumption
  <2>2. CASE c # "s"
    <3>1. s = <<"A">>
      BY <1>2, <2>2
    <3>2. QED
      BY <3>1
  <2>3. QED
    BY <2>1, <2>2
<1>10. kept = IF ch = "c" \/ prec < 0 \/ Len(s) <= prec THEN s ELSE SubSeq(s, 1, prec)
  BY <1>3, <1>8 DEF Truncated
<1>5. Padded(IF c = "s" THEN Truncated(s) ELSE s) = text
  <2>1. PICK S : S = {s[k] : k \in DOMAIN s} \cup {" "}
    OBVIOUS
  <2>2. kept \in Seq(S)
    <3>1. s \in Seq(S) /\ Len(s) \in Nat
      <4>1. PICK T : T = {s[k] : k \in DOMAIN s}
        OBVIOUS
      <4>2. s \in Seq(T) /\ T \subseteq S
        BY <1>9, <2>1, <4>1
      <4>3. QED
        BY <4>2
    <3>2. CASE ch = "c" \/ prec < 0 \/ Len(s) <= prec
      BY <1>10, <3>1, <3>2
    <3>3. CASE ~(ch = "c" \/ prec < 0 \/ Len(s) <= prec)
      <4>1. prec \in Int /\ kept = SubSeq(s, 1, prec)
        BY <1>1, <1>3, <1>10, <3>3
      <4>3. prec \in Nat /\ prec <= Len(s)
        BY <3>1, <3>3, <4>1
      <4>2. QED
        BY <3>1, <4>1, <4>3, Kept
    <3>4. QED
      BY <3>2, <3>3
  <2>3. PICK room, rest : room = w - Len(kept) /\ rest = Counted(room)
    OBVIOUS
  <2>4. room \in Int
    <3>1. Len(kept) \in Nat
      BY <2>2
    <3>2. w \in Int
      BY <1>1, <1>3
    <3>3. QED
      BY <2>3, <3>1, <3>2
  <2>5. " " \in S
    BY <2>1
  <2>6. Repeat(" ", rest) = <<>> /\ pad \in Seq(S)
    <3>1. pad = Repeat(" ", room)
      BY <1>3, <2>3
    <3>2. QED
      BY <2>3, <2>4, <2>5, <3>1, RepeatFacts, CountedOut, Zenon
  <2>7. pad \o kept \in Seq(S)
    BY <2>2, <2>6, Concats DEF Closed
  <2>8. <<>> \o kept = kept /\ (pad \o kept) \o <<>> = pad \o kept
    BY <2>2, <2>7, EmptyUnit DEF Unit
  <2>9. Padded(kept) = IF "LEFT" \in fl THEN <<>> \o kept \o pad
                                        ELSE pad \o kept \o Repeat(" ", rest)
    BY <1>3, <2>3 DEF Padded
  <2>10. Padded(kept) = text
    BY <1>4, <2>6, <2>8, <2>9
  <2>11. QED
    BY <1>3, <2>10
<1>6. f = [conv |-> ch, qualifier |-> qualifier, flags |-> fl, width |-> w,
           precision |-> prec, arg |-> 0, string |-> s, text |-> text]
  BY <1>2, <1>3, <1>5 DEF Emit
<1>7. /\ f.conv = ch /\ f.flags = fl /\ f.width = w
      /\ f.precision = prec /\ f.string = s /\ f.text = text
  BY <1>6
<1>11. StringMade(f)
  BY <1>1, <1>3, <1>4, <1>7, <1>9, <1>10 DEF StringMade
<1>12. ch \notin DOMAIN Base
  BY <1>8 DEF Base
<1>13. NumberMade(f)
  BY <1>7, <1>12, Zenon DEF NumberMade
<1>14. QED
  BY <1>3, <1>11, <1>13, Zenon DEF FieldMade

\* Every step keeps the last conversion, forgets it or leaves a faithful one.
LEMMA FieldStep == LoopInv /\ FieldMade(field) /\ Next => FieldMade(field')
<1> SUFFICES ASSUME LoopInv, FieldMade(field), Next PROVE FieldMade(field')
  OBVIOUS
<1>1. ASSUME NEW f, f.conv \notin DOMAIN Base, f.conv \notin {"s", "c"} PROVE FieldMade(f)
  BY <1>1, Zenon DEF FieldMade, NumberMade, StringMade
<1>2. CASE field' = field
  BY <1>2, Zenon
<1>3. CASE Directive
  <2>1. field' = NoField
    BY <1>3 DEF Directive
  <2>2. field'.conv = "none"
    BY <2>1 DEF NoField
  <2>3. "none" \notin DOMAIN Base /\ "none" \notin {"s", "c"}
    BY DEF Base
  <2>4. QED
    BY <1>1, <2>2, <2>3, Zenon
<1>4. CASE ConvertNumber
  BY <1>4, NumberStep
<1>5. CASE ConvertString
  BY <1>5, StringStep
<1>6. CASE ConvertOther
  <2>1. field'.conv = c
    BY <1>6 DEF ConvertOther, Emit
  <2>2. c \notin DOMAIN Base /\ c \notin {"s", "c"}
    BY <1>6 DEF ConvertOther
  <2>3. QED
    BY <1>1, <2>1, <2>2, Zenon
<1>7. CASE ConvertEnd
  <2>1. field'.conv = c
    BY <1>7 DEF ConvertEnd, Emit
  <2>2. c \notin DOMAIN Base /\ c \notin {"s", "c"}
    BY <1>7 DEF ConvertEnd, Base, NUL
  <2>3. QED
    BY <1>1, <2>1, <2>2, Zenon
<1>8. QED
  <2>1. \/ Literal \/ Flag \/ Width \/ Precision \/ Qualifier \/ Finish \/ Done
        \/ Directive \/ ConvertNumber \/ ConvertString \/ ConvertOther \/ ConvertEnd
    BY DEF Next
  <2>2. Literal \/ Flag => field' = field
    BY DEF Literal, Flag
  <2>3. Width \/ Precision \/ Qualifier => field' = field
    BY DEF Width, Precision, Qualifier
  <2>4. Finish \/ Done => field' = field
    BY DEF Finish, Done, vars
  <2>5. QED
    BY <1>2, <1>3, <1>4, <1>5, <1>6, <1>7, <2>1, <2>2, <2>3, <2>4

LEMMA NextInv == IInv /\ [Next]_vars => IInv'
<1> SUFFICES ASSUME IInv, [Next]_vars PROVE IInv'
  OBVIOUS
<1>1. LoopInv /\ FieldMade(field)
  BY DEF IInv
<1>2. CASE Next
  <2>1. LoopInv'
    BY <1>1, <1>2, LoopStep
  <2>2. FieldMade(field')
    BY <1>1, <1>2, FieldStep
  <2>3. QED
    BY <2>1, <2>2 DEF IInv
<1>3. CASE UNCHANGED vars
  <2>1. LoopInv'
    BY <1>1, <1>3 DEF LoopInv, vars
  <2>2. field' = field
    BY <1>3 DEF vars
  <2>3. FieldMade(field')
    BY <1>1, <2>2, Zenon
  <2>4. QED
    BY <2>1, <2>3 DEF IInv
<1>4. QED
  BY <1>2, <1>3

LEMMA SpecInv == Spec => []IInv
BY InitInv, NextInv, PTL DEF Spec


-----------------------------------------------------------------------------
(* The properties.                                                         *)

\* What a long or an int holds.
LEMMA Widths ==
  ASSUME NEW v \in Args
  PROVE  /\ LongValues \in Nat /\ IntValues \in Nat /\ v \in Nat /\ v < LongValues
         /\ unsigned_int(v) \in Nat /\ unsigned_int(v) < IntValues
         /\ 2 * unsigned_int(v) < LongValues
<1>1. /\ LongValues \in Nat /\ IntValues \in Nat /\ IntValues > 0
      /\ 2 * IntValues <= LongValues /\ v \in 0 .. LongValues - 1
  BY WidthsAssumption
<1>2. v % IntValues \in 0 .. IntValues - 1
  BY <1>1
<1>3. PICK u : u = unsigned_int(v)
  OBVIOUS
<1>4. u \in 0 .. IntValues - 1
  BY <1>2, <1>3 DEF unsigned_int
<1>5. u \in Nat /\ u < IntValues /\ 2 * u < LongValues
  BY <1>1, <1>4
<1>6. QED
  BY <1>1, <1>3, <1>5

\* The number printed is the one Shown names.
LEMMA ShownIs ==
  ASSUME Numeric, field.arg \in Args, "SIGN" \in field.flags <=> field.conv \in {"d", "i"}
  PROVE  /\ Handed(field) \in 0 .. LongValues - 1 /\ Shown \in Int
         /\ (Shown < 0) <=> IsMinus(Handed(field), field.flags)
         /\ Magnitude(Handed(field), field.flags) = IF Shown < 0 THEN -Shown ELSE Shown
<1>1. PICK v, u : v = field.arg /\ u = unsigned_int(v)
  OBVIOUS
<1>2. /\ LongValues \in Nat /\ IntValues \in Nat /\ v \in Nat /\ v < LongValues
      /\ u \in Nat /\ u < IntValues /\ 2 * u < LongValues
  BY <1>1, Widths
<1>3. u < LongValues
  BY <1>2
<1>4. ~Negative(u)
  BY <1>2 DEF Negative
<1>5. signed_int(v) = (IF 2 * u >= IntValues THEN u - IntValues ELSE u)
  BY <1>1 DEF signed_int
<1>6. PICK n : n = Handed(field)
  OBVIOUS
<1>7. CASE field.conv \in {"d", "i"} /\ field.qualifier = "l"
  <2>1. n = v
    BY <1>1, <1>6, <1>7 DEF Handed
  <2>2. Meant = signed_long(v) /\ Shown = signed_long(v)
    BY <1>1, <1>7 DEF Meant, Shown
  <2>3. PICK m : m = signed_long(v)
    OBVIOUS
  <2>4. m = IF 2 * v >= LongValues THEN v - LongValues ELSE v
    BY <2>3 DEF signed_long, Negative
  <2>5. m \in Int /\ ((m < 0) <=> 2 * v >= LongValues)
    BY <1>2, <2>4
  <2>6. IsMinus(n, field.flags) <=> 2 * v >= LongValues
    BY <1>7, <2>1 DEF IsMinus, Negative
  <2>7. Magnitude(n, field.flags) = IF m < 0 THEN -m ELSE m
    <3>1. CASE 2 * v >= LongValues
      <4>1. PICK r : r = LongValues - v
        OBVIOUS
      <4>2. r \in 0 .. LongValues - 1
        BY <1>2, <3>1, <4>1
      <4>3. r % LongValues = r
        BY <1>2, <4>2
      <4>4. -m = r
        BY <1>2, <2>4, <3>1, <4>1
      <4>5. Magnitude(n, field.flags) = r
        BY <2>1, <2>6, <3>1, <4>1, <4>3 DEF Magnitude
      <4>6. QED
        BY <2>5, <3>1, <4>4, <4>5
    <3>2. CASE ~(2 * v >= LongValues)
      BY <2>1, <2>4, <2>5, <2>6, <3>2 DEF Magnitude
    <3>3. QED
      BY <3>1, <3>2
  <2>8. QED
    BY <1>2, <1>6, <2>1, <2>2, <2>3, <2>5, <2>6, <2>7
<1>8. CASE field.conv \in {"d", "i"} /\ field.qualifier # "l"
  <2>1. n = u
    BY <1>1, <1>6, <1>8 DEF Handed
  <2>2. Meant = signed_int(v)
    BY <1>1, <1>8 DEF Meant
  <2>3. Shown = u
    BY <1>2, <1>5, <1>8, <2>2 DEF Shown
  <2>4. ~IsMinus(n, field.flags)
    BY <1>4, <2>1 DEF IsMinus
  <2>5. Magnitude(n, field.flags) = u
    BY <2>1, <2>4 DEF Magnitude
  <2>6. QED
    BY <1>2, <1>3, <1>6, <2>1, <2>3, <2>4, <2>5
<1>9. CASE field.conv \notin {"d", "i"}
  <2>1. Meant = n
    BY <1>1, <1>6, <1>9 DEF Meant, Handed
  <2>2. n = v \/ n = u
    BY <1>1, <1>6 DEF Handed
  <2>3. n \in 0 .. LongValues - 1
    BY <1>2, <1>3, <2>2
  <2>4. Shown = n
    BY <2>1, <2>3 DEF Shown
  <2>5. ~IsMinus(n, field.flags)
    BY <1>9 DEF IsMinus
  <2>6. Magnitude(n, field.flags) = n
    BY <2>5 DEF Magnitude
  <2>7. QED
    BY <1>6, <2>3, <2>4, <2>5, <2>6
<1>10. QED
  BY <1>7, <1>8, <1>9

\* Each conversion of a number has one of the three bases.
LEMMA BaseKnown == ASSUME NEW ch \in DOMAIN Base PROVE Base[ch] \in Bases
BY DEF Base, Bases

LEMMA ReadBackInv == IInv => NumbersReadBack
<1> SUFFICES ASSUME IInv, Numeric
             PROVE  Reads(field.text, Base[field.conv], Shown, field.precision)
  BY DEF NumbersReadBack
<1>1. /\ field.conv \in DOMAIN Base /\ field.arg \in Args
      /\ field.width \in Int /\ field.precision \in Int
      /\ "SIGN" \in field.flags <=> field.conv \in {"d", "i"}
      /\ field.text = number(Handed(field), Base[field.conv], field.width,
                             field.precision, field.flags)
  BY Zenon DEF IInv, FieldMade, NumberMade, Numeric
<1>2. PICK n, b, w, prec, fl, m :
        /\ n = Handed(field) /\ b = Base[field.conv] /\ w = field.width
        /\ prec = field.precision /\ fl = field.flags /\ m = Shown
  OBVIOUS
<1>3. /\ n \in 0 .. LongValues - 1 /\ m \in Int
      /\ (m < 0) <=> IsMinus(n, fl)
      /\ Magnitude(n, fl) = IF m < 0 THEN -m ELSE m
  BY <1>1, <1>2, ShownIs
<1>4. b \in Bases
  BY <1>1, <1>2, BaseKnown
<1>5. Reads(number(n, b, w, prec, fl), b, m, prec)
  BY <1>1, <1>2, <1>3, <1>4, NumberReads
<1>6. QED
  BY <1>1, <1>2, <1>5, Zenon

LEMMA NumberLaidOutInv == IInv => NumberLaidOut
<1> SUFFICES ASSUME IInv, Numeric PROVE NumberLaidOut
  BY DEF NumberLaidOut
<1>1. /\ field.conv \in DOMAIN Base /\ field.arg \in Args
      /\ field.width \in Int /\ field.precision \in Int
      /\ "SIGN" \in field.flags <=> field.conv \in {"d", "i"}
      /\ field.text = number(Handed(field), Base[field.conv], field.width,
                             field.precision, field.flags)
  BY Zenon DEF IInv, FieldMade, NumberMade, Numeric
<1>2. Handed(field) \in 0 .. LongValues - 1
  BY <1>1, ShownIs
<1>3. Base[field.conv] \in Bases
  BY <1>1, BaseKnown
<1>4. LaidOut(Handed(field), Base[field.conv], field.width, field.precision, field.flags)
  BY <1>1, <1>2, <1>3, NumberLays, Zenon
<1>5. QED
  BY <1>1, <1>4, Zenon DEF LaidOut, NumberLaidOut, Handed


\* a text with n characters of string from the place at + 1 on, and blanks
Placed(text, string, n, at, width) ==
  /\ Len(text) = Longer(width, n)
  /\ \A i \in 1 .. n : text[at + i] = string[i]
  /\ \A i \in 1 .. Len(text) : i \notin at + 1 .. at + n => text[i] = Blank

\* x is a and then b
Follows(x, a, b) ==
  /\ Len(x) = Len(a) + Len(b)
  /\ \A i \in 1 .. Len(a) : x[i] = a[i]
  /\ \A i \in 1 .. Len(b) : x[Len(a) + i] = b[i]

LEMMA Appended ==
  ASSUME NEW S, NEW a \in Seq(S), NEW b \in Seq(S), NEW x, x = a \o b
  PROVE  Follows(x, a, b)
BY TwoParts DEF Follows

\* Padding behind or in front puts a text at its end of the field.
LEMMA PaddedPlaces ==
  ASSUME NEW S, Blank \in S, NEW kept \in Seq(S), NEW n, n = Len(kept), NEW width \in Int,
         NEW pad, pad = Repeat(Blank, width - n)
  PROVE  /\ Placed(kept \o pad, kept, n, 0, width)
         /\ Placed(pad \o kept, kept, n, Len(pad \o kept) - n, width)
<1>1. n \in Nat /\ width - n \in Int
  OBVIOUS
<1>2. /\ pad \in Seq(S) /\ Len(pad) = Longer(width - n, 0)
      /\ \A i \in 1 .. Len(pad) : pad[i] = Blank
  BY <1>1, RepeatFacts
<1>3. PICK m : m = Len(pad)
  OBVIOUS
<1>4. m \in Nat /\ m + n = Longer(width, n)
  BY <1>1, <1>2, <1>3 DEF Longer
<1>5. Placed(kept \o pad, kept, n, 0, width)
  <2>1. PICK x : x = kept \o pad
    OBVIOUS
  <2>2. /\ Len(x) = n + m /\ \A i \in 1 .. n : x[i] = kept[i]
        /\ \A i \in 1 .. m : x[n + i] = pad[i]
    <3>1. pad \in Seq(S)
      BY <1>2
    <3>2. Follows(x, kept, pad)
      BY <2>1, <3>1, Appended, Zenon
    <3>3. QED
      BY <1>3, <3>2, Zenon DEF Follows
  <2>3. ASSUME NEW i \in 1 .. Len(x), i \notin 0 + 1 .. 0 + n PROVE x[i] = Blank
    <3>1. PICK j : j = i - n
      OBVIOUS
    <3>2. j \in 1 .. m /\ i = n + j
      BY <1>1, <1>4, <2>2, <2>3, <3>1
    <3>3. QED
      BY <1>2, <1>3, <2>2, <3>2
  <2>4. \A i \in 1 .. n : x[0 + i] = kept[i]
    BY <1>1, <2>2
  <2>5. Len(x) = Longer(width, n)
    BY <1>1, <1>4, <2>2
  <2>6. QED
    BY <2>1, <2>3, <2>4, <2>5, Zenon DEF Placed
<1>6. Placed(pad \o kept, kept, n, Len(pad \o kept) - n, width)
  <2>1. PICK x : x = pad \o kept
    OBVIOUS
  <2>2. /\ Len(x) = m + n /\ \A i \in 1 .. m : x[i] = pad[i]
        /\ \A i \in 1 .. n : x[m + i] = kept[i]
    <3>1. pad \in Seq(S)
      BY <1>2
    <3>2. Follows(x, pad, kept)
      BY <2>1, <3>1, Appended, Zenon
    <3>3. QED
      BY <1>3, <3>2, Zenon DEF Follows
  <2>3. Len(x) - n = m
    BY <1>1, <1>4, <2>2
  <2>4. ASSUME NEW i \in 1 .. Len(x), i \notin m + 1 .. m + n PROVE x[i] = Blank
    <3>1. i \in 1 .. m
      BY <1>1, <1>4, <2>2, <2>4
    <3>2. QED
      BY <1>2, <1>3, <2>2, <3>1
  <2>5. Len(x) = Longer(width, n)
    BY <1>4, <2>2
  <2>6. Placed(x, kept, n, m, width)
    BY <2>2, <2>4, <2>5, Zenon DEF Placed
  <2>7. QED
    BY <2>1, <2>3, <2>6, Zenon
<1>7. QED
  BY <1>5, <1>6

LEMMA StringLaidOutInv == IInv => StringLaidOut
<1> SUFFICES ASSUME IInv, field.conv \in {"s", "c"} PROVE StringLaidOut
  BY DEF StringLaidOut
<1>1. PICK s, w, prec, kept, pad :
        /\ s = field.string /\ w = field.width /\ prec = field.precision
        /\ kept = (IF field.conv = "c" \/ prec < 0 \/ Len(s) <= prec
                     THEN s ELSE SubSeq(s, 1, prec))
        /\ pad = Repeat(Blank, w - Len(kept))
  OBVIOUS
<1>2. /\ w \in Int /\ prec \in Int /\ s \in Seq({s[k] : k \in DOMAIN s})
      /\ field.text = IF "LEFT" \in field.flags THEN kept \o pad ELSE pad \o kept
  BY <1>1, Zenon DEF IInv, FieldMade, StringMade, Blank
<1>3. PICK S : S = {s[k] : k \in DOMAIN s} \cup {Blank}
  OBVIOUS
<1>4. s \in Seq(S) /\ Blank \in S
  <2>1. PICK T : T = {s[k] : k \in DOMAIN s}
    OBVIOUS
  <2>2. s \in Seq(T) /\ T \subseteq S /\ Blank \in S
    BY <1>2, <1>3, <2>1
  <2>3. QED
    BY <2>2
<1>5. Len(s) \in Nat
  BY <1>4, LenProperties
<1>6. PICK n : n = IF field.conv = "s" /\ prec \in 0 .. Len(s) THEN prec ELSE Len(s)
  OBVIOUS
<1>7. /\ kept \in Seq(S) /\ Len(kept) = n /\ n \in Nat
      /\ \A i \in 1 .. n : kept[i] = s[i]
  <2>1. CASE field.conv = "c" \/ prec < 0 \/ Len(s) <= prec
    <3>1. kept = s
      BY <1>1, <2>1
    <3>2. n = Len(s)
      BY <1>2, <1>5, <1>6, <2>1
    <3>3. QED
      BY <1>4, <1>5, <3>1, <3>2
  <2>2. CASE ~(field.conv = "c" \/ prec < 0 \/ Len(s) <= prec)
    <3>1. kept = SubSeq(s, 1, prec)
      BY <1>1, <2>2
    <3>2. prec \in Nat /\ prec <= Len(s) /\ n = prec
      BY <1>2, <1>5, <1>6, <2>2
    <3>3. QED
      BY <1>4, <3>1, <3>2, Kept
  <2>3. QED
    BY <2>1, <2>2
<1>8. /\ Placed(kept \o pad, kept, n, 0, w)
      /\ Placed(pad \o kept, kept, n, Len(pad \o kept) - n, w)
  BY <1>1, <1>2, <1>4, <1>7, PaddedPlaces, Zenon
<1>9. PICK text, at : /\ text = field.text
                      /\ at = IF "LEFT" \in field.flags THEN 0 ELSE Len(text) - n
  OBVIOUS
<1>10. Placed(text, kept, n, at, w)
  BY <1>2, <1>8, <1>9, Zenon
<1>11. /\ Len(text) = Longer(w, n)
       /\ \A i \in 1 .. n : text[at + i] = s[i]
       /\ \A i \in 1 .. Len(text) : i \notin at + 1 .. at + n => text[i] = " "
  BY <1>7, <1>10, Zenon DEF Placed, Blank
<1>12. QED
  BY <1>1, <1>6, <1>9, <1>11, Zenon DEF StringLaidOut

\* Wherever in a directive the format ends, vsprintf sees the terminating NUL
\* again after it and stops: fmt++ never passes it, and the default branch's
\* fmt-- takes back the one that would.
THEOREM FormatEnd == Spec => []StopsAtNul
<1>1. IInv => StopsAtNul
  BY CharsAssumption DEF IInv, LoopInv, StopsAtNul, NUL, Past
<1>2. QED
  BY <1>1, SpecInv, PTL

\* Whatever vsprintf converts fills its field as flags, width and precision
\* ask: number for the integers, the cases s and c for texts.
THEOREM FieldsLaidOut == Spec => []FieldLaidOut
<1>1. IInv => FieldLaidOut
  BY NumberLaidOutInv, StringLaidOutInv DEF FieldLaidOut
<1>2. QED
  BY <1>1, SpecInv, PTL

\* The digits number prints are those of the value it is handed, in its base
\* and at least as many as the precision, with a minus sign if and only if a
\* long is negative: do_div is unsigned and the most negative long keeps its
\* magnitude.  A negative int reads back as the unsigned int with its bits.
THEOREM ReadBack == Spec => []NumbersReadBack
<1>1. QED
  BY ReadBackInv, SpecInv, PTL
=============================================================================
