------------------------------- MODULE Printf -------------------------------
(***************************************************************************)
(* vsprintf of HelloOS (kernel/printk/printk.c): the loop over a format    *)
(* string with its flags, widths, precisions and conversions, and number,  *)
(* which lays an integer out in its field.                                 *)
(*                                                                         *)
(* A character is a one-letter string.  The format is read lazily: each    *)
(* fmt++ picks the next character, so every format of up to MaxFormat      *)
(* characters is covered.  An integer argument is the bit pattern of a     *)
(* long, an unsigned long; an unsigned int is its low bits.                *)
(* Output is what the str pointer has passed; only the text of the last    *)
(* conversion is remembered.                                               *)
(***************************************************************************)
EXTENDS Integers, Sequences

CONSTANTS
  LongValues,         \* how many values a long has (2^64)
  IntValues,          \* how many values an int has (2^32)
  PointerDigits,      \* 2 * sizeof(void *) (16)
  Chars,              \* the characters a format is written with
  Args,               \* integer arguments, as bit patterns of a long
  Strings,            \* string arguments
  MaxFormat,          \* bound: characters in a format
  MaxField            \* bound: widths and precisions written in a format

ASSUME WidthsAssumption ==
  /\ LongValues \in Nat /\ LongValues % 2 = 0
  /\ IntValues \in Nat \ {0} /\ IntValues % 2 = 0 /\ 2 * IntValues <= LongValues
  /\ PointerDigits \in Nat
  /\ Args \subseteq 0 .. LongValues - 1
ASSUME StringsAssumption == \A s \in Strings : s \in Seq({s[k] : k \in DOMAIN s})
ASSUME FormatBounds == MaxFormat \in Nat /\ MaxField \in Nat

VARIABLES
  pc,     \* the part of the loop vsprintf is in
  c,      \* *fmt
  left,   \* how many characters the format may still have
  flags, field_width, precision, qualifier,
  field   \* history: the last conversion, its argument and its text

vars == <<pc, c, left, flags, field_width, precision, qualifier, field>>

NUL == "NUL"
Past == "past the end"

\* what stands for running past the end is no character of a format
ASSUME CharsAssumption == Past \notin Chars

DigitChars == <<"0", "1", "2", "3", "4", "5", "6", "7", "8", "9">>
Upper == DigitChars \o <<"A", "B", "C", "D", "E", "F">>
Lower == DigitChars \o <<"a", "b", "c", "d", "e", "f">>

is_digit(ch) == \E n \in DOMAIN DigitChars : DigitChars[n] = ch
Digit(ch) == (CHOOSE n \in DOMAIN DigitChars : DigitChars[n] = ch) - 1

FlagOf == [ch \in {"-", "+", " ", "#", "0"} |->
             CASE ch = "-" -> "LEFT" [] ch = "+" -> "PLUS" [] ch = " " -> "SPACE"
               [] ch = "#" -> "SPECIAL" [] ch = "0" -> "ZEROPAD"]

Repeat(ch, n) == [k \in 1 .. n |-> ch]      \* no character for n <= 0
Longer(m, n) == IF m > n THEN m ELSE n

-----------------------------------------------------------------------------
(* number: sign, prefix, padding and digits of one integer.                *)

unsigned_int(v) == v % IntValues
Negative(v) == 2 * v >= LongValues      \* as a signed long
signed_long(v) == IF Negative(v) THEN v - LongValues ELSE v
signed_int(v) == IF 2 * unsigned_int(v) >= IntValues
                   THEN unsigned_int(v) - IntValues ELSE unsigned_int(v)

\* do_div is divq: unsigned, so the most negative long keeps its magnitude
Divided(base, table) ==
  LET tmp[n \in 0 .. LongValues] ==
        IF n = 0 THEN <<>> ELSE tmp[n \div base] \o <<table[(n % base) + 1]>>
  IN  tmp
DigitsOf(v, base, table) == IF v = 0 THEN <<"0">> ELSE Divided(base, table)[v]

\* if (type&LEFT) type &= ~ZEROPAD
Effective(type) == IF "LEFT" \in type THEN type \ {"ZEROPAD"} ELSE type

IsMinus(num, type) == "SIGN" \in type /\ Negative(num)

SignOf(num, type) ==
  IF IsMinus(num, type) THEN <<"-">>
  ELSE IF "PLUS" \in type THEN <<"+">>
  ELSE IF "SPACE" \in type THEN <<" ">> ELSE <<>>

\* Faulty variant of Magnitude: the sign is printed, the number not negated.
Magnitude_Kept(num, type) == num
\* num = -num, which leaves the most negative long as it is
Magnitude(num, type) ==
  IF IsMinus(num, type) THEN (LongValues - num) % LongValues ELSE num

\* digits[33] is the letter x
Prefix(base, type) ==
  CASE "SPECIAL" \in type /\ base = 16 ->
         <<"0", IF "SMALL" \in type THEN "x" ELSE "X">>
    [] "SPECIAL" \in type /\ base = 8  -> <<"0">>
    [] OTHER                           -> <<>>

\* what is left of the field for padding
Room(size, sign, prefix, digits) == size - Len(sign) - Len(prefix) - digits

\* Faulty variant of Counted: the loop leaves size as it was.
Counted_Copy(size) == size
\* A padding loop, while (size-- > 0), writes size characters, and this is what
\* it leaves in size for the loops after it: the last decrement is that of the
\* test that fails.  Shifted by what is printed, the loops of c and s do the same.
Counted(size) == IF size > 0 THEN -1 ELSE size - 1

number(num, base, size, prec, flag) ==
  LET type   == Effective(flag)
      sign   == SignOf(num, type)
      prefix == Prefix(base, type)
      tmp    == DigitsOf(Magnitude(num, type), base,
                         IF "SMALL" \in type THEN Lower ELSE Upper)
      ahead  == type \cap {"ZEROPAD", "LEFT"} = {}
      inside == "LEFT" \notin type
      size1  == Room(size, sign, prefix, Longer(prec, Len(tmp)))
      size2  == IF ahead THEN Counted(size1) ELSE size1
      size3  == IF inside THEN Counted(size2) ELSE size2
      ch     == IF "ZEROPAD" \in type THEN "0" ELSE " "
  IN  (IF ahead THEN Repeat(" ", size1) ELSE <<>>) \o sign \o prefix
      \o (IF inside THEN Repeat(ch, size2) ELSE <<>>)
      \o Repeat("0", prec - Len(tmp)) \o tmp \o Repeat(" ", size3)

\* a text of %c or %s in its field
Padded(text) ==
  LET width1 == field_width - Len(text)
      width2 == IF "LEFT" \in flags THEN width1 ELSE Counted(width1)
  IN  (IF "LEFT" \in flags THEN <<>> ELSE Repeat(" ", width1)) \o text
      \o Repeat(" ", width2)

\* the part of a string that %s prints
Truncated(s) ==
  IF precision < 0 \/ Len(s) <= precision THEN s ELSE SubSeq(s, 1, precision)

-----------------------------------------------------------------------------
(* The loop over the format.                                               *)

NoField == [conv |-> "none", qualifier |-> "none", flags |-> {}, width |-> -1,
            precision |-> -1, arg |-> 0, string |-> <<>>, text |-> <<>>]

Init ==
  /\ pc = "text" /\ c \in Chars \cup {NUL} /\ left = MaxFormat
  /\ flags = {} /\ field_width = -1 /\ precision = -1 /\ qualifier = "none"
  /\ field = NoField

\* fmt++
Advance ==
  /\ c' \in IF c \in {NUL, Past} THEN {Past}
            ELSE IF left = 0 THEN {NUL} ELSE Chars \cup {NUL}
  /\ left' = IF left = 0 THEN 0 ELSE left - 1

Literal ==
  /\ pc = "text" /\ c \notin {"%", NUL}
  /\ Advance
  /\ UNCHANGED <<pc, flags, field_width, precision, qualifier, field>>

Directive ==
  /\ pc = "text" /\ c = "%" /\ pc' = "flags"
  /\ flags' = {} /\ field_width' = -1 /\ precision' = -1 /\ qualifier' = "none"
  /\ field' = NoField
  /\ Advance

Flag ==
  /\ pc = "flags" /\ c \in DOMAIN FlagOf
  /\ flags' = flags \cup {FlagOf[c]}
  /\ Advance
  /\ UNCHANGED <<pc, field_width, precision, qualifier, field>>

\* a step of skip_atoi: i = i*10 + *((*s)++) - '0'
Shift10(n, ch) == n * 10 + Digit(ch)

\* bound: the number read so far gets no digit that takes it past MaxField
Fits(n) == is_digit(c') => Shift10(n, c') <= MaxField

\* the width: digits, a star, or nothing
Width ==
  /\ \/ /\ pc = "flags" /\ c \notin DOMAIN FlagOf /\ is_digit(c)
        /\ field_width' = Shift10(0, c) /\ pc' = "width"
        /\ Advance /\ Fits(field_width') /\ UNCHANGED flags
     \/ /\ pc = "width" /\ is_digit(c)
        /\ field_width' = Shift10(field_width, c) /\ pc' = "width"
        /\ Advance /\ Fits(field_width') /\ UNCHANGED flags
     \/ /\ pc = "flags" /\ c = "*" /\ pc' = "dot" /\ Advance
        /\ \E v \in Args :
             LET w == signed_int(v) IN
             /\ 2 * w # -IntValues  \* bound: the most negative has no -w
             /\ field_width' = IF w < 0 THEN -w ELSE w
             /\ flags' = IF w < 0 THEN flags \cup {"LEFT"} ELSE flags
     \/ /\ \/ pc = "flags" /\ c \notin DOMAIN FlagOf \cup {"*"}
           \/ pc = "width"
        /\ ~is_digit(c) /\ pc' = "dot"
        /\ UNCHANGED <<c, left, flags, field_width>>
  /\ UNCHANGED <<precision, qualifier, field>>

\* the precision: a dot, then digits, a star, or nothing, which is 0
Precision ==
  /\ \/ /\ pc = "dot" /\ c # "." /\ pc' = "qualifier"
        /\ UNCHANGED <<c, left, precision>>
     \/ pc = "dot" /\ c = "." /\ precision' = 0 /\ pc' = "star" /\ Advance
     \/ /\ pc = "star" /\ c = "*" /\ pc' = "qualifier" /\ Advance
        /\ \E v \in Args : precision' = Longer(signed_int(v), 0)
     \/ /\ pc \in {"star", "precision"} /\ is_digit(c)
        /\ precision' = Shift10(precision, c) /\ pc' = "precision"
        /\ Advance /\ Fits(precision')
     \/ /\ pc = "precision" \/ (pc = "star" /\ c # "*")
        /\ ~is_digit(c) /\ pc' = "qualifier"
        /\ UNCHANGED <<c, left, precision>>
  /\ UNCHANGED <<flags, field_width, qualifier, field>>

Qualifier ==
  /\ pc = "qualifier" /\ pc' = "conversion"
  /\ IF c \in {"h", "l", "L", "Z"} THEN qualifier' = c /\ Advance
                                   ELSE UNCHANGED <<qualifier, c, left>>
  /\ UNCHANGED <<flags, field_width, precision, field>>

Base == [ch \in {"o", "p", "x", "X", "d", "i", "u"} |->
           CASE ch = "o" -> 8 [] ch \in {"p", "x", "X"} -> 16
             [] ch \in {"d", "i", "u"} -> 10]

\* va_arg(args, unsigned long) or va_arg(args, unsigned int), for d and i too
Fetched(v) == IF qualifier = "l" \/ c = "p" THEN v ELSE unsigned_int(v)

\* what the cases x, d, i and p add before number is called
NumberFlags ==
  flags \cup (CASE c = "x"          -> {"SMALL"}
                [] c \in {"d", "i"} -> {"SIGN"}
                [] c = "p" /\ field_width = -1 -> {"ZEROPAD"}
                [] OTHER            -> {})
NumberWidth == IF c = "p" /\ field_width = -1 THEN PointerDigits ELSE field_width

\* break, and fmt++ of the loop
Emit(arg, string, text, fl, width) ==
  /\ field' = [conv |-> c, qualifier |-> qualifier, flags |-> fl,
               width |-> width, precision |-> precision, arg |-> arg,
               string |-> string, text |-> text]
  /\ pc' = "text"
  /\ UNCHANGED <<flags, field_width, precision, qualifier>>

ConvertNumber ==
  /\ pc = "conversion" /\ c \in DOMAIN Base
  /\ \E v \in Args :
       Emit(v, <<>>, number(Fetched(v), Base[c], NumberWidth, precision,
                            NumberFlags), NumberFlags, NumberWidth)
  /\ Advance

ConvertString ==
  /\ pc = "conversion" /\ c \in {"s", "c"}
  /\ \E s \in IF c = "s" THEN Strings ELSE {<<"A">>} :
       Emit(0, s, Padded(IF c = "s" THEN Truncated(s) ELSE s), flags,
            field_width)
  /\ Advance

\* n stores a count; % and any other character print themselves
ConvertOther ==
  /\ pc = "conversion" /\ c \notin DOMAIN Base \cup {"s", "c", NUL}
  /\ Emit(0, <<>>, CASE c = "n" -> <<>> [] c = "%" -> <<"%">>
                     [] OTHER -> <<"%", c>>, flags, field_width)
  /\ Advance

\* Faulty variant of Restored: fmt-- is forgotten.
Restored_Not == Past
\* fmt--, then fmt++ of the loop: the NUL is seen again
Restored == NUL

\* the format ends inside a directive
ConvertEnd ==
  /\ pc = "conversion" /\ c = NUL
  /\ Emit(0, <<>>, <<"%">>, flags, field_width)
  /\ c' = Restored /\ left' = 0

Finish ==
  /\ pc = "text" /\ c = NUL /\ pc' = "done"
  /\ UNCHANGED <<c, left, flags, field_width, precision, qualifier, field>>

Done == pc = "done" /\ UNCHANGED vars

Next == Literal \/ Directive \/ Flag \/ Width \/ Precision \/ Qualifier
        \/ ConvertNumber \/ ConvertString \/ ConvertOther \/ ConvertEnd
        \/ Finish \/ Done

Spec == Init /\ [][Next]_vars

-----------------------------------------------------------------------------
(* Properties.                                                             *)

\* vsprintf never steps over the terminating NUL, wherever in a directive the
\* format ends: after the percent sign, a flag, a width, a dot or a qualifier.
StopsAtNul == c # Past

Numeric == field.conv \in DOMAIN Base

\* a digit of a number, in either case
IsDigit(ch, base) == \E d \in 1 .. base : ch \in {Upper[d], Lower[d]}
DigitValue(ch, base) ==
  (CHOOSE d \in 1 .. base : ch \in {Upper[d], Lower[d]}) - 1

\* what a reader makes of a row of digits
ValueOf(digits, base) ==
  LET val[n \in 0 .. Len(digits)] ==
        IF n = 0 THEN 0 ELSE val[n - 1] * base + DigitValue(digits[n], base)
  IN  val[Len(digits)]

\* the number a reader of the format expects
Meant ==
  CASE field.conv \in {"d", "i"} /\ field.qualifier = "l" -> signed_long(field.arg)
    [] field.conv \in {"d", "i"} /\ field.qualifier # "l" -> signed_int(field.arg)
    [] field.conv = "p" \/ (field.conv \notin {"d", "i"} /\ field.qualifier = "l")
         -> field.arg
    [] OTHER -> unsigned_int(field.arg)

\* what a reader finds: Meant, but for a negative int
Shown == IF Meant < 0 /\ field.qualifier # "l" THEN Meant + IntValues ELSE Meant

\* the text is blanks, a sign, 0x or 0X if asked for, digits, and blanks again
Reads(text, base, value, digits) ==
  \E a, b, e \in 0 .. Len(text) :
    /\ a <= b /\ b < e /\ e - b >= digits
    /\ \A i \in 1 .. a : text[i] = " "
    /\ \E sign \in IF value < 0 THEN {<<"-">>} ELSE {<<>>, <<"+">>, <<" ">>},
          prefix \in IF "SPECIAL" \in field.flags /\ base = 16
                      THEN {<<"0", "x">>, <<"0", "X">>} ELSE {<<>>} :
         SubSeq(text, a + 1, b) = sign \o prefix
    /\ \A i \in b + 1 .. e : IsDigit(text[i], base)
    /\ ValueOf(SubSeq(text, b + 1, e), base) = IF value < 0 THEN -value ELSE value
    /\ \A i \in e + 1 .. Len(text) : text[i] = " "

\* Whatever flags, width and precision, the digits printed are those of the
\* argument and at least as many as the precision, with a minus sign if and
\* only if it is negative, the most negative long and unsigned values with the
\* top bit set included.  Only a negative int comes out as the unsigned int
\* with its bits: d and i fetch an unsigned int, and number never sees the sign.
\* The qualifiers h, L and Z are read as the code fetches them, like none.
NumbersReadBack ==
  Numeric => Reads(field.text, Base[field.conv], Shown, field.precision)

\* A number is laid out in its field as the flags ask: the text it has without
\* a width, flush left with blanks behind it, with zeros between prefix and
\* digits, or flush right, and never shorter nor longer than that.
NumberLaidOut ==
  Numeric =>
    LET type == field.flags
        num  == IF field.qualifier = "l" \/ field.conv = "p"
                  THEN field.arg ELSE unsigned_int(field.arg)
        bare == number(num, Base[field.conv], 0, field.precision, type)
        lead == Len(SignOf(num, type)) + Len(Prefix(Base[field.conv], type))
        room == field.width - Len(bare)
    IN  field.text =
          IF "LEFT" \in type THEN bare \o Repeat(" ", room)
          ELSE IF "ZEROPAD" \in type
            THEN SubSeq(bare, 1, lead) \o Repeat("0", room)
                 \o SubSeq(bare, lead + 1, Len(bare))
          ELSE Repeat(" ", room) \o bare

\* Of a string, %s prints as much as the precision allows, and %c its
\* character, at its end of a field that is no wider than asked or needed.
StringLaidOut ==
  field.conv \in {"s", "c"} =>
    LET n == IF field.conv = "s" /\ field.precision \in 0 .. Len(field.string)
               THEN field.precision ELSE Len(field.string)
        pad == Len(field.text) - n
        at == IF "LEFT" \in field.flags THEN 0 ELSE pad
    IN  /\ Len(field.text) = Longer(field.width, n)
        /\ \A i \in 1 .. n : field.text[at + i] = field.string[i]
        /\ \A i \in 1 .. Len(field.text) :
             i \notin at + 1 .. at + n => field.text[i] = " "

\* Whatever vsprintf converts, number or text, fills its field as the flags,
\* the width and the precision ask.
FieldLaidOut == NumberLaidOut /\ StringLaidOut
=============================================================================
