-------------------------- MODULE BootTablesProofs --------------------------
(***************************************************************************)
(* Proofs about the tables of BootTables, for every width of a byte, every *)
(* size of the page tables and of the interrupt table, and every layout.   *)
(*                                                                         *)
(* The gates and the descriptor are digits of an address put next to each  *)
(* other in another order: Digit and Below are all the arithmetic that     *)
(* taking them apart again needs.                                          *)
(***************************************************************************)
EXTENDS BootTables, TLAPS

-----------------------------------------------------------------------------
(* Digits.                                                                 *)

\* Division takes a number apart where it was put together.
LEMMA Digit ==
  ASSUME NEW c \in Nat \ {0}, NEW q \in Int, NEW r \in 0 .. c - 1
  PROVE  (q * c + r) \div c = q /\ (q * c + r) % c = r
<1> DEFINE x == q * c + r
<1>1. x \div c = q
  OBVIOUS
<1>2. x % c = r
  OBVIOUS
<1>3. QED
  BY <1>1, <1>2

\* A number below d * c has a first digit below d.
LEMMA Below ==
  ASSUME NEW c \in Nat \ {0}, NEW d \in Nat \ {0},
         NEW q \in 0 .. d - 1, NEW r \in 0 .. c - 1
  PROVE  q * c + r \in 0 .. d * c - 1
<1>1. (d - 1) * c = d * c - c
  OBVIOUS
<1>2. q * c <= (d - 1) * c
  OBVIOUS
<1>3. q * c \in Nat /\ d * c \in Nat
  OBVIOUS
<1>4. QED
  BY <1>1, <1>2, <1>3

\* Every number has its two digits.
LEMMA Taken ==
  ASSUME NEW c \in Nat \ {0}, NEW d \in Nat \ {0}, NEW x \in 0 .. d * c - 1
  PROVE  /\ x \div c \in 0 .. d - 1 /\ x % c \in 0 .. c - 1
         /\ x = (x \div c) * c + (x % c)
<1> DEFINE q == x \div c
           r == x % c
<1>1. q \in Int /\ r \in 0 .. c - 1 /\ x = q * c + r
  <2>1. d * c \in Nat
    OBVIOUS
  <2>2. x \in Nat
    BY <2>1
  <2>3. QED
    BY <2>2
<1> HIDE DEF q, r
<1>2. d * c \in Nat /\ x >= 0 /\ x < d * c
  <2>1. d * c \in Nat
    OBVIOUS
  <2>2. QED
    BY <2>1
<1>3. q >= 0
  <2>1. SUFFICES ASSUME q <= -1 PROVE FALSE
    BY <1>1
  <2>2. q * c <= (-1) * c
    BY <1>1, <2>1
  <2>3. q * c \in Int /\ (-1) * c = -c
    BY <1>1
  <2>4. QED
    BY <1>1, <1>2, <2>2, <2>3
<1>4. q < d
  <2>1. SUFFICES ASSUME q >= d PROVE FALSE
    BY <1>1
  <2>2. q * c >= d * c
    BY <1>1, <2>1
  <2>3. q * c \in Int
    BY <1>1
  <2>4. QED
    BY <1>1, <1>2, <2>2, <2>3
<1>5. QED
  BY <1>1, <1>3, <1>4 DEF q, r

-----------------------------------------------------------------------------
(* Widths.                                                                 *)

Word == B * B

LEMMA Widths ==
  /\ B \in Nat \ {0, 1} /\ Word \in Nat \ {0}
  /\ Values[1] = B /\ Values[2] = Word /\ Values[3] = Word * B
  /\ Values[4] = Word * Word /\ Values[5] = Word * Word * B
  /\ Values[6] = Word * Word * Word /\ Values[7] = Word * Word * Word * B
  /\ Quad = Word * Word * Word * Word
  /\ Word * B \in Nat \ {0} /\ Word * Word \in Nat \ {0}
  /\ Word * Word * B \in Nat \ {0} /\ Word * Word * Word \in Nat \ {0}
  /\ Word * Word * Word * B \in Nat \ {0}
  /\ Quad \in Nat \ {0}
<1>1. B \in Nat \ {0, 1}
  BY TablesAssumption
<1>2. Word \in Nat \ {0}
  BY <1>1 DEF Word
<1>3. /\ Values[1] = B /\ Values[2] = Word /\ Values[3] = Word * B
      /\ Values[4] = Word * Word /\ Values[5] = Word * Word * B
      /\ Values[6] = Word * Word * Word /\ Values[7] = Word * Word * Word * B
      /\ Values[8] = Word * Word * Word * Word
  BY DEF Values, Word
<1>4. Word * B \in Nat \ {0} /\ Word * Word \in Nat \ {0}
  BY <1>1, <1>2
<1>5. /\ Word * Word * B \in Nat \ {0} /\ Word * Word * Word \in Nat \ {0}
  BY <1>1, <1>2, <1>4
<1>6. /\ Word * Word * Word * B \in Nat \ {0}
      /\ Word * Word * Word * Word \in Nat \ {0}
  BY <1>1, <1>2, <1>5
<1>7. QED
  BY <1>1, <1>2, <1>3, <1>4, <1>5, <1>6 DEF Quad

\* A left shift that loses nothing.
LEMMA Shifted ==
  ASSUME NEW bytes, NEW c \in Nat \ {0}, NEW d \in Nat \ {0}, NEW v \in 0 .. d - 1,
         Values[bytes] = c, d * c <= Quad
  PROVE  shl(v, bytes) = v * c
<1>1. v * c + 0 \in 0 .. d * c - 1
  BY Below
<1>2. v * c \in 0 .. Quad - 1
  BY <1>1, Widths
<1>3. QED
  BY <1>2, Widths DEF shl

\* A gate made for any address leads there, on the kernel's code segment, as
\* an interrupt gate on the current stack.
LEMMA GateLeads ==
  ASSUME NEW addr \in 0 .. Quad - 1
  PROVE  /\ GateOffset(_set_gate(IntrGate, 0, addr)) = addr
         /\ GateSelector(_set_gate(IntrGate, 0, addr)) = KernelCs
         /\ GateWord(_set_gate(IntrGate, 0, addr)) = shl(IntrGate, 1)
<1> DEFINE W == Word
           W2 == W * W
           W3 == W * W * W
           hi == addr \div W2
           lo == addr % W2
           w1 == lo \div W
           w0 == lo % W
           at == IntrGate * B
<1>1. /\ W \in Nat \ {0} /\ W2 \in Nat \ {0} /\ W3 \in Nat \ {0}
      /\ W2 * W2 = Quad /\ W * W3 = Quad /\ W3 = W * W2 /\ Quad \in Nat \ {0}
  <2>1. Word * Word * Word * Word = (Word * Word) * (Word * Word)
    BY Widths
  <2>2. Word * Word * Word * Word = Word * (Word * Word * Word)
    BY Widths
  <2>3. Word * Word * Word = Word * (Word * Word)
    BY Widths
  <2>4. QED
    BY Widths, <2>1, <2>2, <2>3
<1>2. hi \in 0 .. W2 - 1 /\ lo \in 0 .. W2 - 1 /\ addr = hi * W2 + lo
  BY <1>1, Taken, ZenonT(40)
<1>3. w1 \in 0 .. W - 1 /\ w0 \in 0 .. W - 1 /\ lo = w1 * W + w0
  BY <1>1, <1>2, Taken
<1>4. at \in 0 .. W - 1 /\ KernelCs \in 0 .. W - 1
  <2>1. IntrGate \in 0 .. B - 1 /\ 0 \in 0 .. B - 1 /\ B \in Nat \ {0}
    BY TablesAssumption
  <2>2. IntrGate * B + 0 \in 0 .. B * B - 1
    BY <2>1, Below
  <2>3. QED
    BY <2>1, <2>2, Widths, TablesAssumption DEF Word
<1> HIDE DEF hi, lo, w1, w0, at
<1>5. low(addr, 2) = w0 /\ low(addr, 4) = lo /\ shr(lo, 2) = w1 /\ shr(addr, 4) = hi
  <2>1. addr = (hi * W + w1) * W + w0 /\ hi * W + w1 \in Int
    BY <1>1, <1>2, <1>3
  <2>2. addr % W = w0
    BY <1>1, <1>3, <2>1, Digit
  <2>3. QED
    BY <2>2, Widths DEF low, shr, hi, lo, w1
<1> DEFINE g1 == ((w1 * W + at) * W + KernelCs) * W + w0
<1>6. /\ w1 * W + at \in 0 .. W2 - 1
      /\ at * W + KernelCs \in 0 .. W2 - 1
      /\ KernelCs * W + w0 \in 0 .. W2 - 1
      /\ (at * W + KernelCs) * W + w0 \in 0 .. W3 - 1
      /\ (w1 * W + at) * W + KernelCs \in 0 .. W3 - 1
  <2>1. /\ w1 * W + at \in 0 .. W2 - 1
        /\ at * W + KernelCs \in 0 .. W2 - 1
        /\ KernelCs * W + w0 \in 0 .. W2 - 1
    BY <1>1, <1>3, <1>4, Below
  <2>2. W3 = W2 * W
    BY <1>1
  <2>3. QED
    BY <1>1, <1>3, <1>4, <2>1, <2>2, Below
<1>7. g1 \in 0 .. Quad - 1
  <2>1. W3 * W = Quad
    BY <1>1
  <2>2. QED
    BY <1>1, <1>3, <1>6, <2>1, Below
<1>8. g1 % W = w0 /\ g1 \div W = (w1 * W + at) * W + KernelCs
  <2> DEFINE q == (w1 * W + at) * W + KernelCs
  <2>1. q \in Int /\ g1 = q * W + w0
    BY <1>6, <1>1
  <2> HIDE DEF q, g1
  <2>2. g1 % W = w0 /\ g1 \div W = q
    BY <1>1, <1>3, <2>1, Digit
  <2>3. QED
    BY <2>2 DEF q
<1>9. g1 \div W2 = w1 * W + at
  <2>1. g1 = (w1 * W + at) * W2 + (KernelCs * W + w0)
    BY <1>1, <1>3, <1>4
  <2> DEFINE q == w1 * W + at
             r == KernelCs * W + w0
  <2>2. q \in Int /\ r \in 0 .. W2 - 1 /\ g1 = q * W2 + r
    BY <1>1, <1>6, <2>1
  <2> HIDE DEF q, r, g1
  <2>3. g1 \div W2 = q
    BY <1>1, <2>2, Digit
  <2>4. QED
    BY <2>3 DEF q
<1>10. g1 \div W3 = w1
  <2>1. g1 = w1 * W3 + ((at * W + KernelCs) * W + w0)
    BY <1>1, <1>3, <1>4
  <2> DEFINE r == (at * W + KernelCs) * W + w0
  <2>2. w1 \in Int /\ r \in 0 .. W3 - 1 /\ g1 = w1 * W3 + r
    BY <1>1, <1>3, <1>6, <2>1
  <2> HIDE DEF r, g1
  <2>3. QED
    BY <1>1, <2>2, Digit
<1>11. W <= Quad /\ W2 <= Quad /\ W * W2 <= Quad /\ W * W3 <= Quad /\ W2 * W2 <= Quad
  BY <1>1
<1>12. shl(IntrGate, 1) = at
  <2>1. IntrGate * Values[1] = at /\ at \in 0 .. Quad - 1
    BY <1>1, <1>4, <1>11, Widths DEF at
  <2>2. QED
    BY <1>1, <2>1 DEF shl
<1>13. _set_gate(IntrGate, 0, addr)[1] = g1
  <2>1. shl(IntrGate, 1) = at
    BY <1>12
  <2>2. shl(KernelCs, 2) = KernelCs * W
    <3>1. Values[2] = W /\ W * W <= Quad
      BY <1>11, Widths
    <3>2. QED
      BY <1>1, <1>4, <3>1, Shifted
  <2>3. shl((0 % 8) + at, 4) = at * W2
    <3>1. (0 % 8) + at = at
      BY <1>1, <1>4
    <3>2. shl(at, 4) = at * W2
      BY <1>1, <1>4, <1>11, Widths, Shifted
    <3>3. QED
      BY <3>1, <3>2
  <2>4. shl(w1, 6) = w1 * W3
    <3>1. Values[6] = W3 /\ W * W3 <= Quad
      BY <1>11, Widths
    <3> HIDE DEF W3
    <3>2. QED
      BY <1>1, <1>3, <3>1, Shifted
  <2>5. g1 = KernelCs * W + w0 + at * W2 + w1 * W3
    BY <1>1, <1>3, <1>4
  <2>6. g1 % Quad = g1
    BY <1>1, <1>7
  <2>7. QED
    BY <1>5, <2>1, <2>2, <2>3, <2>4, <2>5, <2>6 DEF _set_gate
<1>14. _set_gate(IntrGate, 0, addr)[2] = hi
  BY <1>5 DEF _set_gate
<1> DEFINE g == _set_gate(IntrGate, 0, addr)
<1> HIDE DEF g1, g
<1>15. g[1] = g1 /\ g[2] = hi
  BY <1>13, <1>14 DEF g
<1>16. GateSelector(g) = KernelCs
  <2> DEFINE q == w1 * W + at
  <2>1. q \in Int /\ g1 \div W = q * W + KernelCs
    BY <1>1, <1>6, <1>8
  <2> HIDE DEF q
  <2>2. (q * W + KernelCs) % W = KernelCs
    BY <1>1, <1>4, <2>1, Digit
  <2>3. QED
    BY <1>15, <2>1, <2>2, Widths DEF GateSelector, low, shr
<1>17. GateWord(g) = shl(IntrGate, 1)
  <2>1. w1 \in Int /\ g1 \div W2 = w1 * W + at
    BY <1>1, <1>3, <1>9
  <2>2. (w1 * W + at) % W = at
    BY <1>1, <1>4, <2>1, Digit
  <2>3. shl(IntrGate, 1) = at
    BY <1>12
  <2>4. QED
    BY <1>15, <2>1, <2>2, <2>3, Widths DEF GateWord, low, shr
<1>18. GateOffset(g) = addr
  <2>1. low(g[1], 2) = w0 /\ shr(g[1], 6) = w1
    BY <1>8, <1>10, <1>15, Widths DEF low, shr
  <2>2. shl(w1, 2) = w1 * W
    BY <1>1, <1>3, <1>11, Widths, Shifted
  <2>3. low(g[2], 4) = hi
    BY <1>1, <1>2, <1>15, Widths DEF low
  <2>4. shl(hi, 4) = hi * W2
    BY <1>1, <1>2, <1>11, Widths, Shifted
  <2>5. w0 + w1 * W + hi * W2 = addr
    BY <1>1, <1>2, <1>3
  <2>6. QED
    BY <2>1, <2>2, <2>3, <2>4, <2>5 DEF GateOffset
<1>19. QED
  BY <1>16, <1>17, <1>18 DEF g

\* The descriptor made for any address leads there, with its limit and type.
LEMMA DescriptorLeads ==
  ASSUME NEW base \in 0 .. Quad - 1
  PROVE  /\ TssBase(TssDescriptor(base)) = base
         /\ low(TssDescriptor(base)[1], 2) = TssLimit
         /\ low(shr(TssDescriptor(base)[1], 5), 1) = TssType
<1> DEFINE W == Word
           T == W * B
           W2 == W * W
           W5 == W * W * B
           W7 == W * W * W * B
           hi == base \div W2
           lo == base % W2
           top == lo \div T
           l3 == lo % T
<1>1. /\ B \in Nat \ {0} /\ W \in Nat \ {0} /\ T \in Nat \ {0} /\ W2 \in Nat \ {0}
      /\ W5 \in Nat \ {0} /\ W7 \in Nat \ {0} /\ Quad \in Nat \ {0}
  BY Widths
<1>0. /\ Values[1] = B /\ Values[2] = W /\ Values[3] = T /\ Values[4] = W2
      /\ Values[5] = W5 /\ Values[7] = W7
  BY Widths
<1>2. /\ W = B * B /\ T = W * B /\ W2 = B * T /\ W5 = T * W /\ W7 = W * W5
      /\ Quad = W2 * W2 /\ Quad = B * W7
  <2>1. W2 = B * T /\ W5 = T * W /\ W7 = W * W5
    BY <1>1 DEF Word
  <2>2. Quad = W2 * W2
    BY <1>1, Widths
  <2>3. Quad = B * W7
    BY <1>1, Widths DEF Word
  <2>4. QED
    BY <2>1, <2>2, <2>3 DEF Word
<1> HIDE DEF W, T, W2, W5, W7
<1>3. hi \in 0 .. W2 - 1 /\ lo \in 0 .. W2 - 1 /\ base = hi * W2 + lo
  <2>1. base \in 0 .. W2 * W2 - 1
    BY <1>2
  <2> HIDE DEF hi, lo
  <2>2. QED
    BY <1>1, <2>1, Taken DEF hi, lo
<1>4. top \in 0 .. B - 1 /\ l3 \in 0 .. T - 1 /\ lo = top * T + l3
  <2>1. lo \in 0 .. B * T - 1
    BY <1>2, <1>3
  <2> HIDE DEF lo, top, l3
  <2>2. QED
    BY <1>1, <2>1, Taken DEF top, l3
<1>5. TssType \in 0 .. B - 1 /\ TssLimit \in 0 .. W - 1
  BY <1>0, <1>1, TablesAssumption
<1>6. low(base, 3) = l3 /\ low(base, 4) = lo /\ shr(lo, 3) = top /\ shr(base, 4) = hi
  <2> DEFINE q == hi * B + top
  <2>1. base = hi * (B * T) + (top * T + l3)
    BY <1>2, <1>3, <1>4
  <2>2. base = q * T + l3 /\ q \in Int
    <3>1. hi \in Int /\ top \in Int /\ l3 \in Int
      BY <1>1, <1>3, <1>4
    <3>2. hi * (B * T) = (hi * B) * T /\ (hi * B + top) * T = (hi * B) * T + top * T
      BY <1>1, <3>1
    <3>3. hi * B \in Int /\ (hi * B) * T \in Int /\ top * T \in Int
      BY <1>1, <3>1
    <3> HIDE DEF hi, lo, top, l3
    <3>4. QED
      BY <2>1, <3>1, <3>2, <3>3
  <2> HIDE DEF q, l3, hi, lo, top
  <2>3. base % T = l3
    BY <1>1, <1>4, <2>2, Digit
  <2>4. QED
    BY <1>0, <2>3 DEF low, shr, hi, lo, top, l3
<1> HIDE DEF hi, lo, top, l3
<1> DEFINE first == l3 * W + TssLimit
           second == top * W + TssType
           d1 == second * W5 + first
<1>7. first \in 0 .. W5 - 1
  BY <1>1, <1>2, <1>4, <1>5, Below
<1>8. second \in 0 .. B * W - 1
  <2>1. B <= W
    BY <1>1, <1>2
  <2>2. TssType \in 0 .. W - 1
    BY <1>1, <1>5, <2>1
  <2>3. QED
    BY <1>1, <1>4, <2>2, Below
<1>9. hi \in Int /\ top \in Int /\ l3 \in Int /\ TssType \in Int /\ TssLimit \in Int
  BY <1>1, <1>3, <1>4, <1>5
<1>10. d1 \in 0 .. Quad - 1
  <2>1. (B * W) * W5 = Quad /\ B * W \in Nat \ {0}
    BY <1>1, <1>2
  <2> HIDE DEF first, second
  <2>2. QED
    BY <1>1, <1>7, <1>8, <2>1, Below
<1>11. d1 \div W5 = second
  <2>1. second \in Int
    BY <1>1, <1>9
  <2> HIDE DEF first, second
  <2>2. QED
    BY <1>1, <1>7, <2>1, Digit
<1>12. d1 % W = TssLimit /\ d1 \div W = second * T + l3
  <2> DEFINE q == second * T + l3
  <2>1. second \in Int
    BY <1>1, <1>9
  <2>2. d1 = second * (T * W) + (l3 * W + TssLimit)
    BY <1>2
  <2> HIDE DEF second
  <2>3. q \in Int /\ d1 = q * W + TssLimit
    BY <1>1, <1>9, <2>1, <2>2
  <2> HIDE DEF q, d1
  <2>4. d1 % W = TssLimit /\ d1 \div W = q
    BY <1>1, <1>5, <2>3, Digit
  <2>5. QED
    BY <2>4 DEF q
<1>13. d1 \div W7 = top
  <2> DEFINE r == TssType * W5 + first
  <2>1. first \in Int
    BY <1>1, <1>9
  <2>2. r \in 0 .. B * W5 - 1
    <3> HIDE DEF first
    <3>1. QED
      BY <1>1, <1>5, <1>7, Below
  <2>3. B * W5 <= W7
    <3>1. B <= W
      BY <1>1, <1>2
    <3>2. QED
      BY <1>1, <1>2, <3>1
  <2>4. B * W5 \in Nat
    BY <1>1
  <2>5. r \in 0 .. W7 - 1
    <3> HIDE DEF r
    <3>1. QED
      BY <1>1, <2>2, <2>3, <2>4
  <2>6. d1 = top * (W * W5) + r
    <3> HIDE DEF first
    <3>1. QED
      BY <1>1, <1>9, <2>1
  <2>7. d1 = top * W7 + r
    BY <1>2, <2>6
  <2> HIDE DEF r, d1
  <2>8. QED
    BY <1>1, <1>9, <2>5, <2>7, Digit
<1>14. TssDescriptor(base)[1] = d1
  <2>1. shl(TssType, 5) = TssType * W5
    <3>1. B * W5 <= Quad
      <4>1. Quad = (B * W) * W5 /\ B <= B * W
        BY <1>1, <1>2
      <4>2. QED
        BY <1>1, <4>1
    <3>2. QED
      BY <1>0, <1>1, <1>5, <3>1, Shifted
  <2>2. shl(top, 7) = top * W7
    <3>1. B * W7 <= Quad
      BY <1>1, <1>2
    <3>2. QED
      BY <1>0, <1>1, <1>4, <3>1, Shifted
  <2>3. shl(l3, 2) = l3 * W
    <3>1. T * W <= Quad
      <4>1. Quad = (B * W) * (T * W) /\ B * W \in Nat \ {0} /\ T * W \in Nat
        BY <1>1, <1>2
      <4>2. QED
        BY <1>1, <4>1
    <3>2. QED
      BY <1>0, <1>1, <1>4, <3>1, Shifted
  <2>4. d1 = TssType * W5 + top * W7 + l3 * W + TssLimit
    <3>1. top * W7 = (top * W) * W5
      BY <1>1, <1>2, <1>9
    <3>2. second * W5 = (top * W) * W5 + TssType * W5
      BY <1>1, <1>9
    <3>3. (top * W) * W5 \in Int /\ TssType * W5 \in Int /\ l3 * W \in Int
      BY <1>1, <1>9
    <3> HIDE DEF second
    <3>4. QED
      BY <1>9, <3>1, <3>2, <3>3
  <2>5. d1 % Quad = d1
    BY <1>1, <1>10
  <2> HIDE DEF d1
  <2>6. QED
    BY <1>6, <2>1, <2>2, <2>3, <2>4, <2>5 DEF TssDescriptor
<1>15. TssDescriptor(base)[2] = hi
  BY <1>6 DEF TssDescriptor
<1> DEFINE d == TssDescriptor(base)
<1> HIDE DEF d1, d
<1>16. d[1] = d1 /\ d[2] = hi
  BY <1>14, <1>15 DEF d
<1>17. low(d[1], 2) = TssLimit
  BY <1>0, <1>12, <1>16 DEF low
<1>18. low(shr(d[1], 5), 1) = TssType
  <2>1. second = (top * B) * B + TssType /\ top * B \in Int
    BY <1>1, <1>2, <1>9
  <2>2. second % B = TssType
    <3> HIDE DEF second
    <3>1. QED
      BY <1>1, <1>5, <2>1, Digit
  <2>3. QED
    BY <1>0, <1>11, <1>16, <2>2 DEF low, shr
<1>19. TssBase(d) = base
  <2>1. low(shr(d[1], 2), 3) = l3
    <3>1. second \in Int
      BY <1>1, <1>9
    <3> HIDE DEF second
    <3>2. (second * T + l3) % T = l3
      BY <1>1, <1>4, <3>1, Digit
    <3>3. QED
      BY <1>0, <1>12, <1>16, <3>2 DEF low, shr
  <2>2. shr(d[1], 7) = top
    BY <1>0, <1>13, <1>16 DEF shr
  <2>3. shl(top, 3) = top * T
    <3>1. B * T <= Quad
      BY <1>1, <1>2
    <3>2. QED
      BY <1>0, <1>1, <1>4, <3>1, Shifted
  <2>4. low(d[2], 4) = hi
    BY <1>0, <1>1, <1>3, <1>16 DEF low
  <2>5. shl(hi, 4) = hi * W2
    <3>1. W2 * W2 <= Quad
      BY <1>1, <1>2
    <3>2. QED
      BY <1>0, <1>1, <1>3, <3>1, Shifted
  <2>6. l3 + top * T + hi * W2 = base
    <3>1. top * T \in Int /\ hi * W2 \in Int
      BY <1>1, <1>9
    <3>2. QED
      BY <1>3, <1>4, <1>9, <3>1
  <2>7. QED
    BY <2>1, <2>2, <2>3, <2>4, <2>5, <2>6 DEF TssBase
<1>20. QED
  BY <1>17, <1>18, <1>19 DEF d

-----------------------------------------------------------------------------
(* Translation.                                                            *)

\* the page tables as the boot code leaves them
Mapped ==
  /\ pml4 = [k \in 0 .. Entries - 1 |-> IF k \in Roots THEN "pdpt" ELSE "none"]
  /\ pdpt = [k \in 0 .. Entries - 1 |-> IF k = 0 THEN "pd" ELSE "none"]
  /\ pd = [k \in 0 .. Entries - 1 |-> k * LargePage]

LEMMA Sizes ==
  /\ LargePage \in Nat \ {0} /\ Entries \in Nat \ {0} /\ Entries > 2
  /\ Reach \in Nat \ {0} /\ Entries * Reach \in Nat \ {0}
  /\ Reach <= Entries * Reach
<1>1. LargePage \in Nat \ {0} /\ Entries \in Nat \ {0} /\ Entries > 2
  BY TablesAssumption
<1>2. Reach \in Nat \ {0}
  BY <1>1 DEF Reach
<1>3. Entries * Reach \in Nat \ {0} /\ Reach <= Entries * Reach
  BY <1>1, <1>2
<1>4. QED
  BY <1>1, <1>2, <1>3

\* An address is mapped if an entry of pml4 leads to its part of memory, and
\* it lies in what pd maps: then its place is what is left of it.
LEMMA Translated ==
  ASSUME paging = TRUE, Mapped, NEW p \in Int, NEW a \in 0 .. Entries * Reach - 1
  PROVE  Translate(p * (Entries * Reach) + a) =
           IF p % Entries \in Roots /\ a < Reach THEN a ELSE Fault
<1> DEFINE va == p * (Entries * Reach) + a
           page == a \div Reach
           i4 == (va \div (Entries * Reach)) % Entries
           i3 == (va \div Reach) % Entries
           i2 == (va \div LargePage) % Entries
<1>1. i4 = p % Entries /\ i4 \in 0 .. Entries - 1
  <2>1. va \div (Entries * Reach) = p
    BY Sizes, Digit
  <2>2. QED
    BY Sizes, <2>1
<1>2. page \in 0 .. Entries - 1 /\ a % Reach \in 0 .. Reach - 1 /\ a = page * Reach + (a % Reach)
  BY Sizes, Taken
<1> HIDE DEF page
<1>3. i3 = page
  <2> DEFINE q == p * Entries + page
             r == a % Reach
  <2>1. q \in Int /\ r \in 0 .. Reach - 1
    BY <1>2, Sizes
  <2> HIDE DEF r
  <2>2. va = q * Reach + r
    BY <1>2, Sizes DEF r
  <2> HIDE DEF q, va
  <2>3. va \div Reach = q
    BY <2>1, <2>2, Sizes, Digit
  <2>4. q % Entries = page
    BY <1>2, Sizes, Digit DEF q
  <2>5. QED
    BY <2>3, <2>4
<1>4. page = 0 <=> a < Reach
  <2>1. ASSUME page = 0 PROVE a < Reach
    BY <1>2, <2>1, Sizes
  <2>2. ASSUME page # 0 PROVE a >= Reach
    <3>1. page >= 1
      BY <1>2, <2>2, Sizes
    <3>2. page * Reach >= Reach
      BY <1>2, <3>1, Sizes
    <3>3. page * Reach \in Int
      BY <1>2, Sizes
    <3>4. QED
      BY <1>2, <3>2, <3>3, Sizes
  <2>3. QED
    BY <2>1, <2>2, Sizes
<1>5. ASSUME a < Reach
      PROVE  i2 \in 0 .. Entries - 1 /\ i2 * LargePage + (va % LargePage) = a
  <2> DEFINE k == a \div LargePage
             r == a % LargePage
             q == p * (Entries * Entries) + k
  <2>1. k \in 0 .. Entries - 1 /\ r \in 0 .. LargePage - 1 /\ a = k * LargePage + r
    <3>1. a \in 0 .. Entries * LargePage - 1
      BY <1>5, Sizes DEF Reach
    <3>2. QED
      BY <3>1, Sizes, Taken
  <2> HIDE DEF k, r
  <2>2. q \in Int /\ q = (p * Entries) * Entries + k /\ p * Entries \in Int
    BY <2>1, Sizes
  <2>3. va = q * LargePage + r
    BY <2>1, Sizes DEF Reach
  <2> HIDE DEF q, va
  <2>4. va \div LargePage = q /\ va % LargePage = r
    BY <2>1, <2>2, <2>3, Sizes, Digit
  <2>5. q % Entries = k
    BY <2>1, <2>2, Sizes, Digit
  <2>6. QED
    BY <2>1, <2>4, <2>5
<1> HIDE DEF va, i4, i3, i2
<1>6. Translate(va) = IF \/ pml4[i4] # "pdpt" \/ pdpt[i3] # "pd" \/ pd[i2] = Fault
                        THEN Fault ELSE pd[i2] + (va % LargePage)
  BY DEF Translate, i4, i3, i2
<1>7. (pml4[i4] = "pdpt" <=> p % Entries \in Roots) /\ (pdpt[i3] = "pd" <=> a < Reach)
  BY <1>1, <1>2, <1>3, <1>4 DEF Mapped
<1>8. ASSUME a < Reach PROVE pd[i2] # Fault /\ pd[i2] + (va % LargePage) = a
  <2>1. pd[i2] = i2 * LargePage
    BY <1>5, <1>8 DEF Mapped
  <2>2. pd[i2] >= 0
    BY <1>5, <1>8, <2>1, Sizes
  <2>3. QED
    BY <1>5, <1>8, <2>1, <2>2 DEF Fault
<1>9. QED
  BY <1>6, <1>7, <1>8 DEF va

\* What a slot of pml4 makes of the addresses that go through it.
LEMMA Through ==
  ASSUME paging = TRUE, Mapped, NEW p \in Int, NEW d \in 0 .. Quad - High - 1,
         p % Entries = 0 \/ p % Entries = Entries \div 2
  PROVE  Translate(p * (Entries * Reach) + d) = IF d < Reach THEN d ELSE Fault
<1> DEFINE S == Entries * Reach
           half == Entries \div 2
           s == d \div S
           a == d % S
<1>1. S \in Nat \ {0} /\ Reach \in Nat \ {0} /\ Reach <= S
  BY Sizes
<1>2. half \in Nat /\ Entries = 2 * half /\ half > 1 /\ Roots = {0, half}
  BY TablesAssumption DEF Roots
<1>3. Quad - High = half * S
  <2>1. High = Quad - half * S /\ half * S \in Int
    BY <1>1, <1>2, Sizes DEF High
  <2>2. QED
    BY <2>1, Widths
<1> HIDE DEF half, S
<1>4. s \in 0 .. half - 1 /\ a \in 0 .. S - 1 /\ d = s * S + a
  <2>1. half \in Nat \ {0} /\ S \in Nat \ {0} /\ d \in 0 .. half * S - 1
    BY <1>1, <1>2, <1>3
  <2>2. QED
    BY <2>1, Taken
<1> HIDE DEF s, a
<1>5. s = 0 <=> d < S
  <2>1. ASSUME s = 0 PROVE d < S
    BY <1>1, <1>4, <2>1
  <2>2. ASSUME s # 0 PROVE d >= S
    <3>1. s >= 1 /\ s * S \in Int
      BY <1>1, <1>2, <1>4, <2>2
    <3>2. s * S >= S
      BY <1>1, <1>2, <1>4, <3>1
    <3>3. QED
      BY <1>1, <1>4, <3>1, <3>2
  <2>3. QED
    BY <1>1, <2>1, <2>2
<1>6. (p + s) % Entries \in Roots <=> s = 0
  <2> DEFINE q == p \div Entries
             r == p % Entries
  <2>1. q \in Int /\ r \in 0 .. Entries - 1 /\ p = q * Entries + r
    BY Sizes
  <2>2. r = 0 \/ r = half
    BY DEF half
  <2> HIDE DEF q, r
  <2>3. p + s = q * Entries + (r + s) /\ r + s \in 0 .. Entries - 1
    BY <1>2, <1>4, <2>1, <2>2, Sizes
  <2>4. (p + s) % Entries = r + s
    <3> DEFINE c == r + s
    <3>1. c \in 0 .. Entries - 1 /\ p + s = q * Entries + c
      BY <2>3
    <3> HIDE DEF c
    <3>2. (q * Entries + c) % Entries = c
      BY <2>1, <3>1, Sizes, Digit
    <3>3. QED
      BY <3>1, <3>2 DEF c
  <2>5. QED
    BY <1>2, <1>4, <2>2, <2>4
<1>7. p * S + d = (p + s) * S + a /\ p + s \in Int
  BY <1>1, <1>2, <1>4
<1>8. Translate((p + s) * S + a) = IF (p + s) % Entries \in Roots /\ a < Reach THEN a ELSE Fault
  <2> DEFINE t == p + s
  <2>1. t \in Int /\ a \in 0 .. Entries * Reach - 1
    BY <1>4, <1>7 DEF S
  <2> HIDE DEF t
  <2>2. Translate(t * (Entries * Reach) + a) = IF t % Entries \in Roots /\ a < Reach THEN a ELSE Fault
    BY <2>1, Translated
  <2>3. QED
    BY <2>2 DEF t, S
<1>9. d < Reach <=> s = 0 /\ a < Reach
  BY <1>1, <1>4, <1>5
<1>10. s = 0 => d = a
  BY <1>1, <1>4
<1>11. Translate(p * S + d) = IF d < Reach THEN d ELSE Fault
  BY <1>6, <1>7, <1>8, <1>9, <1>10
<1>12. QED
  BY <1>11 DEF S

\* The lower half and the upper half show the same memory.
LEMMA LowHigh ==
  ASSUME paging = TRUE, Mapped, NEW a \in LowerHalf
  PROVE  /\ Translate(a) = IF a < Reach THEN a ELSE Fault
         /\ Translate(PHY2VIR(a)) = IF a < Reach THEN a ELSE Fault
<1> DEFINE S == Entries * Reach
           half == Entries \div 2
           up == Quad \div (Entries * S)
           top == up * Entries - half
<1>1. half \in Nat /\ Entries = 2 * half /\ half > 1 /\ S \in Nat \ {0}
  BY Sizes, TablesAssumption
<1>2. a \in 0 .. Quad - High - 1
  BY DEF LowerHalf
<1> HIDE DEF half
<1>3. Translate(a) = IF a < Reach THEN a ELSE Fault
  <2> DEFINE z == 0
  <2>1. a = z * S + a /\ z \in Int /\ z % Entries = 0
    BY <1>1, <1>2, Sizes, Widths
  <2> HIDE DEF z
  <2>2. Translate(z * S + a) = IF a < Reach THEN a ELSE Fault
    BY <1>2, <2>1, Through
  <2>3. QED
    BY <2>1, <2>2
<1>5. up \in Int /\ Quad = up * (Entries * S)
  <2>1. Entries * S \in Nat \ {0} /\ Entries * Entries * Reach = Entries * S
    BY Sizes
  <2>2. Quad % (Entries * S) = 0
    BY <2>1, TablesAssumption
  <2>3. QED
    BY <2>1, <2>2, Widths
<1> HIDE DEF up
<1>6. High = top * S /\ top \in Int
  <2>1. High = up * (Entries * S) - half * Entries * Reach
    BY <1>5 DEF High, half
  <2>2. QED
    BY <1>1, <1>5, <2>1, Sizes
<1>7. top % Entries = half
  <2>1. top = (up - 1) * Entries + half /\ up - 1 \in Int /\ half \in 0 .. Entries - 1
    BY <1>1, <1>5, Sizes
  <2> HIDE DEF top
  <2>2. QED
    BY <2>1, Sizes, Digit
<1>8. Quad - High <= High
  <2>1. High = (up * Entries - half) * S /\ High > S
    BY <1>6, TablesAssumption
  <2>2. Quad = (up * Entries) * S /\ Quad - High = half * S
    BY <1>1, <1>5, <1>6, Sizes
  <2>3. up >= 1
    BY <1>1, <1>5, Sizes, Widths
  <2>4. up * Entries >= Entries
    BY <1>1, <1>5, <2>3, Sizes
  <2>5. up * Entries - half >= half /\ up * Entries - half \in Int
    BY <1>1, <1>5, <2>4, Sizes
  <2>6. (up * Entries - half) * S >= half * S
    BY <1>1, <2>5
  <2>7. QED
    BY <2>1, <2>2, <2>6
<1> HIDE DEF top
<1>9. PHY2VIR(a) = top * S + a
  <2>1. High \in Int
    BY <1>1, <1>6
  <2>2. a \in Int /\ ~(a >= High)
    BY <1>2, <1>8, <2>1, Widths
  <2>3. PHY2VIR(a) = High + a
    BY <2>2 DEF PHY2VIR
  <2>4. QED
    BY <1>6, <2>3
<1>10. Translate(top * S + a) = IF a < Reach THEN a ELSE Fault
  BY <1>2, <1>6, <1>7, Through DEF half
<1>11. QED
  BY <1>3, <1>9, <1>10

\* What pd maps lies in the lower half.
LEMMA MappedInHalf == 0 .. Reach - 1 \subseteq LowerHalf
<1> DEFINE S == Entries * Reach
           half == Entries \div 2
<1>1. half \in Nat /\ half > 1 /\ Entries = 2 * half /\ S \in Nat \ {0} /\ Reach <= S
  BY Sizes, TablesAssumption
<1>2. High = Quad - half * S
  <2>1. half * Entries * Reach = half * S
    BY <1>1, Sizes
  <2>2. QED
    BY <2>1, Sizes DEF High
<1> HIDE DEF half, S
<1>3. half * S \in Int /\ half * S >= S
  BY <1>1
<1>4. Quad - High >= Reach
  BY <1>1, <1>2, <1>3, Sizes, Widths
<1>5. QED
  BY <1>1, <1>2, <1>3, <1>4, Sizes, Widths DEF LowerHalf

-----------------------------------------------------------------------------
(* The inductive invariant.                                                *)

Boot == {"entry", "pd_loop", "paging"}
Slots == layout.idt .. layout.idt + Vectors - 1
GateFor(addr) == _set_gate(IntrGate, 0, addr)

Typing ==
  /\ layout \in Layouts /\ n \in Nat
  /\ pc \in Boot \cup {"rp_sidt", "tss", "kernel_start", "init_interrupt", "sti", "task_init"}
  /\ paging \in BOOLEAN /\ (paging <=> pc \notin Boot)
  /\ mem = [a \in Slots |-> mem[a]]

\* How far the page tables are filled.
Paging ==
  /\ pc = "entry" => pml4 = [k \in 0 .. Entries - 1 |-> "none"]
  /\ pc = "entry" => pdpt = [k \in 0 .. Entries - 1 |-> "none"]
  /\ pc = "entry" => pd = [k \in 0 .. Entries - 1 |-> Fault]
  /\ pc = "pd_loop" =>
       /\ n \in 1 .. Entries
       /\ pml4 = [k \in 0 .. Entries - 1 |-> IF k \in Roots THEN "pdpt" ELSE "none"]
       /\ pdpt = [k \in 0 .. Entries - 1 |-> IF k = 0 THEN "pd" ELSE "none"]
       /\ pd = [k \in 0 .. Entries - 1 |->
                  IF k < Entries - n THEN k * LargePage ELSE Fault]
  /\ pc \notin {"entry", "pd_loop"} => Mapped

\* How far the interrupt table is filled.
Gates ==
  /\ pc = "rp_sidt" =>
       /\ n \in 1 .. Vectors
       /\ \A v \in 0 .. Vectors - n - 1 : mem[layout.idt + v] = GateFor(layout.ignore)
  /\ pc = "init_interrupt" => n \in FirstIrq .. FirstIrq + Irqs - 1
  /\ pc \notin Boot \cup {"rp_sidt"} =>
       \A v \in 0 .. Vectors - 1 : mem[layout.idt + v] = GateFor(Expected(v))

Segment ==
  /\ pc \notin Boot \cup {"rp_sidt", "tss"} => gdt_tss = TssDescriptor(layout.tss)
  /\ tr \in {NoGate, TssDescriptor(layout.tss)}
  /\ TSS64_Table = [u \in 0 .. 25 |-> IF pc = "task_init" THEN StackAt(u) ELSE {}]

IInv == Typing /\ Paging /\ Gates /\ Segment

\* What the constants say of a layout.
LEMMA LayoutFacts ==
  ASSUME Typing
  PROVE  /\ layout.ignore \in 0 .. Quad - 1 /\ layout.tss \in 0 .. Quad - 1
         /\ layout.idt \in Nat /\ layout.idt + Vectors <= Reach
         /\ \A i \in 0 .. Irqs - 1 : layout.irq[i] \in 0 .. Quad - 1
         /\ Vectors \in Nat /\ FirstIrq \in Nat /\ Irqs \in Nat \ {0}
         /\ FirstIrq + Irqs <= Vectors
<1> DEFINE half == Entries \div 2
<1>1. half \in Nat /\ half > 0
  BY TablesAssumption
<1>2. High = Quad - half * Entries * Reach
  BY DEF High
<1> HIDE DEF half
<1>3. half * Entries * Reach >= Reach
  <2>1. half * Entries \in Nat \ {0}
    BY <1>1, Sizes
  <2>2. QED
    BY <2>1, Sizes
<1>4. half * Entries * Reach \in Nat
  BY <1>1, Sizes
<1>5. High \in Nat /\ High + Reach <= Quad
  <2>1. High \in Int /\ High > Entries * Reach
    BY <1>2, <1>4, Widths, TablesAssumption
  <2>2. QED
    BY <1>2, <1>3, <1>4, <2>1, Widths, Sizes
<1>6. /\ layout.ignore \in 0 .. Reach - 1 /\ layout.tss \in 0 .. Reach - 1
      /\ layout.idt \in 0 .. Reach - Vectors
      /\ layout.irq \in [0 .. Irqs - 1 -> High .. High + Reach - 1]
  BY TablesAssumption DEF Typing
<1>7. /\ Vectors \in Nat /\ FirstIrq \in Nat /\ Irqs \in Nat \ {0}
      /\ FirstIrq + Irqs <= Vectors
  BY TablesAssumption
<1>8. Reach \in Nat /\ Quad \in Nat /\ Reach <= Quad
  BY <1>5, Sizes, Widths
<1>9. \A i \in 0 .. Irqs - 1 : layout.irq[i] \in 0 .. Quad - 1
  <2>1. SUFFICES ASSUME NEW i \in 0 .. Irqs - 1 PROVE layout.irq[i] \in 0 .. Quad - 1
    OBVIOUS
  <2>2. layout.irq[i] \in High .. High + Reach - 1
    BY <1>6
  <2>3. QED
    BY <1>5, <1>8, <2>2
<1>10. /\ layout.ignore \in 0 .. Quad - 1 /\ layout.tss \in 0 .. Quad - 1
       /\ layout.idt \in Nat /\ layout.idt + Vectors <= Reach
  BY <1>6, <1>7, <1>8
<1>11. QED
  BY <1>7, <1>9, <1>10

\* While every vector has a gate, that gate leads to where it should.
LEMMA ExpectedIsAddress ==
  ASSUME Typing, NEW v \in 0 .. Vectors - 1
  PROVE  Expected(v) \in 0 .. Quad - 1
<1>1. ASSUME v \in FirstIrq .. FirstIrq + Irqs - 1 PROVE v - FirstIrq \in 0 .. Irqs - 1
  BY <1>1, LayoutFacts
<1>2. QED
  BY <1>1, LayoutFacts DEF Expected

LEMMA InitEstablishes == Init => IInv
<1> SUFFICES ASSUME Init PROVE IInv
  OBVIOUS
<1>1. Typing
  <2>1. mem = [a \in Slots |-> mem[a]]
    BY DEF Init, Slots
  <2>2. QED
    BY <2>1 DEF Init, Typing, Boot
<1>2. Paging
  BY DEF Init, Paging
<1>3. Gates
  BY DEF Init, Gates, Boot
<1>4. Segment
  BY DEF Init, Segment, Boot
<1>5. QED
  BY <1>1, <1>2, <1>3, <1>4 DEF IInv

\* A store through a mapped address reaches the slot it is meant for.
LEMMA StoreReaches ==
  ASSUME Typing, Mapped, paging = TRUE, NEW v \in 0 .. Vectors - 1, NEW gate
  PROVE  /\ Stored(layout.idt + v, gate) = [mem EXCEPT ![layout.idt + v] = gate]
         /\ Stored(PHY2VIR(layout.idt + v), gate) = [mem EXCEPT ![layout.idt + v] = gate]
<1>1. layout.idt + v \in 0 .. Reach - 1
  BY LayoutFacts, Sizes
<1>2. layout.idt + v \in LowerHalf /\ layout.idt + v < Reach
  BY <1>1, Sizes, MappedInHalf
<1>3. Translate(layout.idt + v) = layout.idt + v
      /\ Translate(PHY2VIR(layout.idt + v)) = layout.idt + v
  BY <1>2, LowHigh
<1>4. QED
  BY <1>3 DEF Stored

-----------------------------------------------------------------------------
(* One lemma per action.                                                   *)

LEMMA EntryStep == IInv /\ multiboot_entry => IInv'
<1> SUFFICES ASSUME IInv, multiboot_entry PROVE IInv'
  OBVIOUS
<1>1. Typing'
  BY Sizes DEF IInv, Typing, Slots, Boot, multiboot_entry
<1>2. Paging'
  <2>1. pml4' = [k \in 0 .. Entries - 1 |-> IF k \in Roots THEN "pdpt" ELSE "none"]
    BY DEF IInv, Paging, multiboot_entry
  <2>2. pdpt' = [k \in 0 .. Entries - 1 |-> IF k = 0 THEN "pd" ELSE "none"]
    BY Sizes DEF IInv, Paging, multiboot_entry
  <2>3. n' \in 1 .. Entries
    BY Sizes DEF multiboot_entry
  <2>4. pd' = [k \in 0 .. Entries - 1 |->
                 IF k < Entries - n' THEN k * LargePage ELSE Fault]
    <3>1. n' = Entries /\ pd' = [k \in 0 .. Entries - 1 |-> Fault]
      BY DEF IInv, Paging, multiboot_entry
    <3>2. \A k \in 0 .. Entries - 1 : ~ (k < Entries - n')
      BY <3>1, Sizes
    <3>3. QED
      BY <3>1, <3>2
  <2>5. pc' = "pd_loop"
    BY DEF multiboot_entry
  <2>6. QED
    BY <2>1, <2>2, <2>3, <2>4, <2>5 DEF Paging
<1>3. Gates'
  BY DEF Gates, Boot, multiboot_entry
<1>4. Segment'
  BY DEF IInv, Segment, Boot, multiboot_entry, StackAt
<1>5. QED
  BY <1>1, <1>2, <1>3, <1>4 DEF IInv

LEMMA PdStep == IInv /\ pd_loop => IInv'
<1> SUFFICES ASSUME IInv, pd_loop PROVE IInv'
  OBVIOUS
<1>1. n \in 1 .. Entries /\ Entries \in Nat /\ LargePage \in Nat
  BY Sizes DEF IInv, Paging, pd_loop
<1>2. Typing'
  BY <1>1 DEF IInv, Typing, Slots, Boot, pd_loop
<1>3. pd' = [k \in 0 .. Entries - 1 |->
               IF k < Entries - n' THEN k * LargePage ELSE Fault]
  <2>1. /\ pd = [k \in 0 .. Entries - 1 |->
                   IF k < Entries - n THEN k * LargePage ELSE Fault]
        /\ pd' = [pd EXCEPT ![Entries - n] = (Entries - n) * LargePage]
        /\ n' = n - 1
    BY DEF IInv, Paging, pd_loop
  <2>2. \A k \in 0 .. Entries - 1 :
          k < Entries - n' <=> (k < Entries - n \/ k = Entries - n)
    BY <1>1, <2>1
  <2>3. QED
    BY <2>1, <2>2
<1>4. Paging'
  <2>1. /\ pml4' = [k \in 0 .. Entries - 1 |-> IF k \in Roots THEN "pdpt" ELSE "none"]
        /\ pdpt' = [k \in 0 .. Entries - 1 |-> IF k = 0 THEN "pd" ELSE "none"]
    BY DEF IInv, Paging, pd_loop
  <2>2. CASE n = 1
    <3>1. pc' = "paging" /\ n' = 0
      BY <2>2 DEF pd_loop
    <3>2. \A k \in 0 .. Entries - 1 : k < Entries - n'
      BY <1>1, <3>1
    <3>3. pd' = [k \in 0 .. Entries - 1 |-> k * LargePage]
      BY <1>3, <3>2
    <3>4. QED
      BY <2>1, <3>1, <3>3 DEF Paging, Mapped
  <2>3. CASE n # 1
    <3>1. pc' = "pd_loop" /\ n' \in 1 .. Entries
      BY <1>1, <2>3 DEF pd_loop
    <3>2. QED
      BY <1>3, <2>1, <3>1 DEF Paging
  <2>4. QED
    BY <2>2, <2>3
<1>5. Gates'
  BY DEF Gates, Boot, pd_loop
<1>6. Segment'
  BY DEF IInv, Segment, Boot, pd_loop, StackAt
<1>7. QED
  BY <1>2, <1>4, <1>5, <1>6 DEF IInv

LEMMA StartStep == IInv /\ _start64 => IInv'
<1> SUFFICES ASSUME IInv, _start64 PROVE IInv'
  OBVIOUS
<1>1. Vectors \in Nat /\ Vectors > 0
  BY LayoutFacts DEF IInv
<1>2. Typing'
  BY <1>1 DEF IInv, Typing, Slots, Boot, _start64
<1>3. Paging'
  BY DEF IInv, Paging, Mapped, _start64
<1>4. Gates'
  BY <1>1 DEF Gates, Boot, _start64
<1>5. Segment'
  BY DEF IInv, Segment, Boot, _start64, StackAt
<1>6. QED
  BY <1>2, <1>3, <1>4, <1>5 DEF IInv

LEMMA IgnoreStep == IInv /\ rp_sidt => IInv'
<1> SUFFICES ASSUME IInv, rp_sidt PROVE IInv'
  OBVIOUS
<1>1. n \in 1 .. Vectors /\ Vectors \in Nat /\ layout.idt \in Nat
  BY LayoutFacts DEF IInv, Gates, rp_sidt
<1> DEFINE v0 == Vectors - n
<1>2. v0 \in 0 .. Vectors - 1 /\ layout.idt + Vectors - n = layout.idt + v0
  BY <1>1
<1>3. mem' = [mem EXCEPT ![layout.idt + v0] = GateFor(layout.ignore)]
  <2>1. Typing /\ Mapped /\ paging = TRUE
    BY DEF IInv, Typing, Paging, Boot, rp_sidt
  <2>2. mem' = Stored(layout.idt + v0, GateFor(layout.ignore))
    BY <1>2 DEF rp_sidt, GateFor
  <2> HIDE DEF v0
  <2>3. QED
    BY <1>2, <2>1, <2>2, StoreReaches
<1>4. Typing'
  <2>1. mem' = [a \in Slots |-> mem'[a]]
    BY <1>3 DEF IInv, Typing
  <2>2. Slots' = Slots
    BY DEF Slots, rp_sidt
  <2>3. mem' = [a \in Slots' |-> mem'[a]]
    BY <2>1, <2>2
  <2>4. QED
    BY <1>1, <2>3 DEF IInv, Typing, Boot, rp_sidt, tables
<1>5. Paging'
  BY DEF IInv, Paging, Mapped, rp_sidt, tables
<1>6. \A v \in 0 .. Vectors - n' - 1 : mem'[layout.idt + v] = GateFor(layout.ignore)
  <2>1. SUFFICES ASSUME NEW v \in 0 .. Vectors - n' - 1
                 PROVE  mem'[layout.idt + v] = GateFor(layout.ignore)
    OBVIOUS
  <2>2. n' = n - 1
    BY DEF rp_sidt
  <2>3. mem = [a \in Slots |-> mem[a]] /\ layout.idt + v \in Slots
    BY <1>1, <2>2 DEF IInv, Typing, Slots
  <2>4. CASE v = v0
    BY <1>3, <2>3, <2>4
  <2>5. CASE v # v0
    <3>1. v \in 0 .. Vectors - n - 1 /\ layout.idt + v # layout.idt + v0
      BY <1>1, <2>2, <2>5
    <3>2. mem[layout.idt + v] = GateFor(layout.ignore)
      BY <3>1 DEF IInv, Gates, rp_sidt
    <3> HIDE DEF v0
    <3>3. QED
      BY <1>3, <2>3, <3>1, <3>2
  <2>6. QED
    BY <2>4, <2>5
<1>7. Gates'
  <2>1. layout' = layout /\ n' = n - 1
    BY DEF rp_sidt
  <2>2. CASE n = 1
    <3>1. pc' = "tss" /\ n' = 0 /\ Vectors - n' - 1 = Vectors - 1
      BY <1>1, <2>2 DEF rp_sidt
    <3>2. \A v : Expected(v)' = layout.ignore
      BY <2>1, <3>1 DEF Expected
    <3>3. QED
      BY <1>6, <2>1, <3>1, <3>2 DEF Gates, GateFor
  <2>3. CASE n # 1
    <3>1. pc' = "rp_sidt" /\ n' \in 1 .. Vectors
      BY <1>1, <2>3 DEF rp_sidt
    <3>2. QED
      BY <1>6, <2>1, <3>1 DEF Gates, GateFor, Boot
  <2>4. QED
    BY <2>2, <2>3
<1>8. Segment'
  BY DEF IInv, Segment, Boot, rp_sidt, StackAt, tables
<1>9. QED
  BY <1>4, <1>5, <1>7, <1>8 DEF IInv

LEMMA DescriptorStep == IInv /\ SetUp_TSS64 => IInv'
<1> SUFFICES ASSUME IInv, SetUp_TSS64 PROVE IInv'
  OBVIOUS
<1>1. Typing'
  BY DEF IInv, Typing, Slots, Boot, SetUp_TSS64, tables
<1>2. Paging'
  BY DEF IInv, Paging, Mapped, SetUp_TSS64, tables
<1>3. Gates'
  BY DEF IInv, Gates, GateFor, Expected, Boot, SetUp_TSS64
<1>4. Segment'
  BY DEF IInv, Segment, Boot, SetUp_TSS64, StackAt
<1>5. QED
  BY <1>1, <1>2, <1>3, <1>4 DEF IInv

LEMMA LoadStep == IInv /\ load_TR => IInv'
<1> SUFFICES ASSUME IInv, load_TR PROVE IInv'
  OBVIOUS
<1>1. /\ FirstIrq \in Nat /\ Irqs \in Nat \ {0} /\ pc = "kernel_start"
      /\ pc' = "init_interrupt" /\ n' = FirstIrq /\ layout' = layout /\ mem' = mem
  BY LayoutFacts DEF IInv, load_TR
<1>2. Typing'
  BY <1>1 DEF IInv, Typing, Slots, Boot, load_TR, tables
<1>3. Paging'
  BY DEF IInv, Paging, Mapped, load_TR, tables
<1>4. Gates'
  <2>1. \A v \in 0 .. Vectors - 1 : Expected(v)' = Expected(v)
    BY <1>1, LayoutFacts DEF IInv, Expected
  <2>2. \A v \in 0 .. Vectors - 1 : mem'[layout'.idt + v] = GateFor(Expected(v)')
    BY <1>1, <2>1 DEF IInv, Gates, Boot
  <2>3. n' \in FirstIrq .. FirstIrq + Irqs - 1
    BY <1>1
  <2>4. QED
    BY <1>1, <2>2, <2>3 DEF Gates, GateFor, Boot
<1>5. Segment'
  BY DEF IInv, Segment, Boot, load_TR, StackAt
<1>6. QED
  BY <1>2, <1>3, <1>4, <1>5 DEF IInv

LEMMA GateStep == IInv /\ set_intr_gate => IInv'
<1> SUFFICES ASSUME IInv, set_intr_gate PROVE IInv'
  OBVIOUS
<1>1. /\ n \in FirstIrq .. FirstIrq + Irqs - 1 /\ layout.idt \in Nat
      /\ Vectors \in Nat /\ FirstIrq \in Nat /\ Irqs \in Nat \ {0}
      /\ FirstIrq + Irqs <= Vectors
  BY LayoutFacts DEF IInv, Gates, set_intr_gate
<1>2. n \in 0 .. Vectors - 1
  BY <1>1
<1>3. mem' = [mem EXCEPT ![layout.idt + n] = GateFor(layout.irq[n - FirstIrq])]
  <2>1. Typing /\ Mapped /\ paging = TRUE
    BY DEF IInv, Typing, Paging, Boot, set_intr_gate
  <2>2. mem' = Stored(PHY2VIR(layout.idt + n), GateFor(layout.irq[n - FirstIrq]))
    BY DEF set_intr_gate, GateFor, Handler
  <2>3. QED
    BY <1>2, <2>1, <2>2, StoreReaches
<1>4. Typing'
  <2>1. mem' = [a \in Slots |-> mem'[a]]
    BY <1>3 DEF IInv, Typing
  <2>2. Slots' = Slots
    BY DEF Slots, set_intr_gate
  <2>3. mem' = [a \in Slots' |-> mem'[a]]
    BY <2>1, <2>2
  <2>4. QED
    BY <1>1, <2>3 DEF IInv, Typing, Boot, set_intr_gate, tables
<1>5. Paging'
  BY DEF IInv, Paging, Mapped, set_intr_gate, tables
<1>6. Gates'
  <2>1. /\ layout' = layout /\ n' = n + 1 /\ pc = "init_interrupt"
        /\ pc' = IF n + 1 = FirstIrq + Irqs THEN "sti" ELSE "init_interrupt"
    BY DEF set_intr_gate
  <2>2. ASSUME NEW v \in 0 .. Vectors - 1
        PROVE  Expected(v)' = IF v = n THEN layout.irq[n - FirstIrq] ELSE Expected(v)
    BY <1>1, <2>1 DEF Expected
  <2>3. ASSUME NEW v \in 0 .. Vectors - 1
        PROVE  mem'[layout'.idt + v] = GateFor(Expected(v)')
    <3>1. mem = [a \in Slots |-> mem[a]] /\ layout.idt + v \in Slots
      BY <1>1 DEF IInv, Typing, Slots
    <3>2. mem[layout.idt + v] = GateFor(Expected(v))
      BY <2>1 DEF IInv, Gates, Boot
    <3>3. v # n => layout.idt + v # layout.idt + n
      BY <1>1
    <3>4. QED
      BY <1>3, <2>1, <2>2, <3>1, <3>2, <3>3
  <2>4. pc' = "init_interrupt" => n' \in FirstIrq .. FirstIrq + Irqs - 1
    BY <1>1, <2>1
  <2>5. QED
    BY <2>1, <2>3, <2>4 DEF Gates, GateFor, Boot
<1>7. Segment'
  BY DEF IInv, Segment, Boot, set_intr_gate, StackAt
<1>8. QED
  BY <1>4, <1>5, <1>6, <1>7 DEF IInv

LEMMA TssStep == IInv /\ set_tss64 => IInv'
<1> SUFFICES ASSUME IInv, set_tss64 PROVE IInv'
  OBVIOUS
<1>1. Typing'
  BY DEF IInv, Typing, Slots, Boot, set_tss64, tables
<1>2. Paging'
  BY DEF IInv, Paging, Mapped, set_tss64, tables
<1>3. Gates'
  <2>1. \A v : Expected(v)' = Expected(v)
    BY DEF Expected, set_tss64
  <2>2. QED
    BY <2>1 DEF IInv, Gates, GateFor, Boot, set_tss64
<1>4. Segment'
  <2>1. \A u : StackAt(u)' = StackAt(u)
    BY DEF StackAt
  <2>2. TSS64_Table' = [u \in 0 .. 25 |-> StackAt(u)]
    BY DEF IInv, Segment, set_tss64
  <2>3. QED
    BY <2>1, <2>2 DEF IInv, Segment, Boot, set_tss64
<1>5. QED
  BY <1>1, <1>2, <1>3, <1>4 DEF IInv

LEMMA StutterStep == IInv /\ UNCHANGED vars => IInv'
<1> SUFFICES ASSUME IInv, UNCHANGED vars PROVE IInv'
  OBVIOUS
<1>1. Typing' /\ Paging'
  BY DEF IInv, Typing, Paging, Mapped, Slots, vars, tables
<1>2. Gates'
  BY DEF IInv, Gates, GateFor, Expected, vars
<1>3. Segment'
  BY DEF IInv, Segment, StackAt, vars
<1>4. QED
  BY <1>1, <1>2, <1>3 DEF IInv

LEMMA Inductive == IInv /\ [Next]_vars => IInv'
  BY EntryStep, PdStep, StartStep, IgnoreStep, DescriptorStep, LoadStep, GateStep,
     TssStep, StutterStep DEF Next, Running

LEMMA Invariance == Spec => []IInv
  BY InitEstablishes, Inductive, PTL DEF Spec

-----------------------------------------------------------------------------
(* Theorems.                                                               *)

\* Once paging is on, low and high addresses show the same memory, as much of
\* it as pd maps, and nothing else is mapped (multiboot2.S).
THEOREM TwiceMapped == Spec => []MappedTwice
<1>1. IInv => MappedTwice
  <2>1. SUFFICES ASSUME IInv, paging PROVE MappedTwice
    BY DEF MappedTwice
  <2>2. paging = TRUE /\ Mapped
    BY <2>1 DEF IInv, Typing, Paging, Boot
  <2>3. QED
    BY <2>2, LowHigh DEF MappedTwice
<1>2. QED
  BY <1>1, Invariance, PTL

\* From kernel_start on every vector has a gate that leads to ignore_int or,
\* once set_intr_gate was called for it, to its own entry point.
THEOREM VectorsLead == Spec => []VectorsLeadToHandlers
<1>1. IInv => VectorsLeadToHandlers
  <2>1. SUFFICES ASSUME IInv, pc \notin Boot \cup {"rp_sidt", "tss"},
                        NEW v \in 0 .. Vectors - 1
                 PROVE  LET g == mem[layout.idt + v] IN
                        /\ GateOffset(g) = Expected(v)
                        /\ GateSelector(g) = KernelCs /\ GateWord(g) = shl(IntrGate, 1)
    BY DEF VectorsLeadToHandlers, Boot
  <2>2. mem[layout.idt + v] = _set_gate(IntrGate, 0, Expected(v))
    BY <2>1 DEF IInv, Gates, GateFor
  <2>3. Expected(v) \in 0 .. Quad - 1
    BY <2>1, ExpectedIsAddress DEF IInv
  <2>4. QED
    BY <2>2, <2>3, GateLeads
<1>2. QED
  BY <1>1, Invariance, PTL

\* Where the processor looks for a stack is where set_tss64 put it.
LEMMA StacksAgree ==
  ASSUME NEW k \in 2 .. Len(tss_struct), tss_struct[k] \in StackFields,
         NEW u \in {2 * k - 3, 2 * k - 2}
  PROVE  u \in 0 .. 25 /\ StackAt(u) = {tss_struct[k]}
<1>1. Len(tss_struct) = 12 /\ DOMAIN tss_struct = 1 .. 12
  BY DEF tss_struct
<1>2. StackFields = {"rsp0", "rsp1", "rsp2", "ist1", "ist2", "ist3", "ist4", "ist5",
                     "ist6", "ist7"}
  BY <1>1 DEF StackFields, tss_struct
<1>3. \/ k = 2 /\ tss_struct[k] = "rsp0"
      \/ k = 3 /\ tss_struct[k] = "rsp1"
      \/ k = 4 /\ tss_struct[k] = "rsp2"
      \/ k = 6 /\ tss_struct[k] = "ist1"
      \/ k = 7 /\ tss_struct[k] = "ist2"
      \/ k = 8 /\ tss_struct[k] = "ist3"
      \/ k = 9 /\ tss_struct[k] = "ist4"
      \/ k = 10 /\ tss_struct[k] = "ist5"
      \/ k = 11 /\ tss_struct[k] = "ist6"
      \/ k = 12 /\ tss_struct[k] = "ist7"
  BY <1>1, <1>2 DEF tss_struct
<1>4. \A f \in StackFields : f = tss_struct[k] <=> u \in {Slot[f], Slot[f] + 1}
  <2>1. u = 2 * k - 3 \/ u = 2 * k - 2
    OBVIOUS
  <2>2. /\ Slot["rsp0"] = 1 /\ Slot["rsp1"] = 3 /\ Slot["rsp2"] = 5 /\ Slot["ist1"] = 9
        /\ Slot["ist2"] = 11 /\ Slot["ist3"] = 13 /\ Slot["ist4"] = 15
        /\ Slot["ist5"] = 17 /\ Slot["ist6"] = 19 /\ Slot["ist7"] = 21
    BY DEF Slot
  <2>3. \/ u \in {1, 2} /\ tss_struct[k] = "rsp0"
        \/ u \in {3, 4} /\ tss_struct[k] = "rsp1"
        \/ u \in {5, 6} /\ tss_struct[k] = "rsp2"
        \/ u \in {9, 10} /\ tss_struct[k] = "ist1"
        \/ u \in {11, 12} /\ tss_struct[k] = "ist2"
        \/ u \in {13, 14} /\ tss_struct[k] = "ist3"
        \/ u \in {15, 16} /\ tss_struct[k] = "ist4"
        \/ u \in {17, 18} /\ tss_struct[k] = "ist5"
        \/ u \in {19, 20} /\ tss_struct[k] = "ist6"
        \/ u \in {21, 22} /\ tss_struct[k] = "ist7"
    BY <1>3, <2>1
  <2>4. QED
    BY <1>2, <2>2, <2>3, SMTT(30)
<1>5. QED
  BY <1>2, <1>3, <1>4 DEF StackAt

\* The task register holds a complete descriptor of TSS64_Table, in which the
\* stacks lie where struct tss_struct has them (gate.h, task.h).
THEOREM RegisterLeads == Spec => []TaskRegisterLeadsToStacks
<1>1. IInv => TaskRegisterLeadsToStacks
  <2> SUFFICES ASSUME IInv PROVE TaskRegisterLeadsToStacks
    OBVIOUS
  <2>1. ASSUME tr # NoGate
        PROVE  /\ TssBase(tr) = layout.tss /\ low(tr[1], 2) = TssLimit
               /\ low(shr(tr[1], 5), 1) = TssType
    <3>1. tr = TssDescriptor(layout.tss) /\ layout.tss \in 0 .. Quad - 1
      BY <2>1, LayoutFacts DEF IInv, Segment
    <3>2. QED
      BY <3>1, DescriptorLeads
  <2>2. ASSUME pc = "task_init", NEW k \in 2 .. Len(tss_struct),
               tss_struct[k] \in StackFields, NEW u \in {2 * k - 3, 2 * k - 2}
        PROVE  TSS64_Table[u] = {tss_struct[k]}
    BY <2>2, StacksAgree DEF IInv, Segment
  <2>3. QED
    BY <2>1, <2>2 DEF TaskRegisterLeadsToStacks
<1>2. QED
  BY <1>1, Invariance, PTL
=============================================================================
