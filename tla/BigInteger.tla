----------------------------- MODULE BigInteger -----------------------------
(***************************************************************************)
(* The arbitrary precision numbers a DECIMAL column is read into:          *)
(* common::BigInteger (a sign and a magnitude of words, the least          *)
(* significant first), common::Decimal (a BigInteger and a scale) and the  *)
(* bit operations under them.                                              *)
(*                                                                         *)
(* A word of the program has four bytes of eight bits.  Here a byte has    *)
(* ByteBits bits, so that numbers of several words stay small; a word      *)
(* still has four bytes, an int64 two words, and every limit that the      *)
(* code derives from the widths (the greatest power of ten in a uint64,    *)
(* the part of a text read at a time) is derived here in the same way.     *)
(* A text is a sequence of digits, Minus, Plus, Point and Exponent.        *)
(*                                                                         *)
(* The state is one Decimal and, beside it, the integer num that its       *)
(* unscaled value ought to be.                                             *)
(***************************************************************************)
EXTENDS Integers, FiniteSets, SequencesExt

CONSTANTS ByteBits,    \* bits of a byte
          Operands,    \* the integers that numbers are made of and combined with
          Scales,      \* the scales asked for
          HeapWords,   \* what may lie before an allocated array
          Texts,       \* the texts that are read
          MaxOps,      \* operations after the first value
          MaxValue     \* bound of an unscaled value

VARIABLES d,           \* the Decimal: a BigInteger x and a scale
          num,         \* what its unscaled value ought to be
          ops,         \* operations so far
          heap,        \* the word before an array
          doubt        \* what a division did that may have spoilt it: "none" so far

numVars == <<d, num, ops, heap, doubt>>

WordBits == 4 * ByteBits
Base     == 2^WordBits
Abs(n)   == IF n < 0 THEN -n ELSE n

\* The magnitude of a number, and the value of a magnitude: the reference.
MagValue(mag) == FoldRight(LAMBDA w, acc : w + Base * acc, mag, 0)
Value(x)      == x.sign * MagValue(x.mag)

\* Division of integers as C++ rounds it, towards zero.
Quot(a, b) == LET q == Abs(a) \div Abs(b) IN IF (a < 0) = (b < 0) THEN q ELSE -q

\* A for loop over the n elements of an array.  Each turn has the finished
\* result of the one before (one value, taken from a set of one: TLC would
\* carry an unfinished expression on).
Loop(Step(_, _), init, n) ==
    LET after[i \in 0 .. n] ==
            IF i = 0 THEN init ELSE CHOOSE b \in {Step(a, i) : a \in {after[i - 1]}} : TRUE
    IN  after[n]

-----------------------------------------------------------------------------
(***************************************************************************)
(* Bits: a zero is looked for in half of the bits at a time.               *)
(***************************************************************************)

Halves == IF WordBits = 4 THEN <<2>> ELSE <<4, 2>>

Half(a, s) ==
    IF a.i \div 2^(WordBits - s) = 0 THEN [n |-> a.n + s, i |-> (a.i * 2^s) % Base] ELSE a

LastHalf(a) == a.n - a.i \div 2^(WordBits - 1)

NumberOfLeadingZerosU32(w) ==
    IF w = 0 THEN WordBits ELSE LastHalf(FoldLeft(Half, [n |-> 1, i |-> w], Halves))

BitLengthU32(w) == WordBits - NumberOfLeadingZerosU32(w)

NumberOfLeadingZerosU64(n) ==
    IF n \div Base = 0 THEN WordBits + NumberOfLeadingZerosU32(n % Base)
    ELSE NumberOfLeadingZerosU32(n \div Base)

\* The powers of ten that a uint64 holds.
UINT64_MAX_PRECISION == CHOOSE k \in 1 .. 20 : 10^k >= Base^2 /\ 10^(k - 1) < Base^2

TenPowerU64(n) == 10^n

DigitsOrOneMore(n, r) == IF r = UINT64_MAX_PRECISION \/ n < TenPowerU64(r) THEN r ELSE r + 1

DigitLength(n) ==
    IF n < 10 THEN 1
    ELSE DigitsOrOneMore(n, ((2 * WordBits - NumberOfLeadingZerosU64(n) + 1) * 1233) \div 4096)

-----------------------------------------------------------------------------
(***************************************************************************)
(* Assignment.                                                             *)
(***************************************************************************)

\* DynamicSizeArray::Resize: new elements are zero.
Resize(mag, n) == IF n <= Len(mag) THEN SubSeq(mag, 1, n) ELSE mag \o [i \in 1 .. n - Len(mag) |-> 0]

Normalize(mag) == Resize(mag, Max({0} \cup {i \in DOMAIN mag : mag[i] # 0}))

BigZero == [sign |-> 1, mag |-> <<>>]

AssignUint64(n) ==
    [sign |-> 1, mag |-> CASE n = 0           -> <<>>
                           [] n \div Base = 0 -> <<n>>
                           [] OTHER           -> <<n % Base, n \div Base>>]

\* The most negative int64 is its own opposite, and as a uint64 the right
\* magnitude.
AssignInt64(n) == IF n < 0 THEN [AssignUint64(-n) EXCEPT !.sign = -1] ELSE AssignUint64(n)

IsZero(x) == x.mag = <<>>
Negate(x) == IF IsZero(x) THEN x ELSE [x EXCEPT !.sign = -x.sign]

GetBitLength(x) ==
    IF IsZero(x) THEN 0
    ELSE BitLengthU32(Last(x.mag)) + (Len(x.mag) - 1) * WordBits

-----------------------------------------------------------------------------
(***************************************************************************)
(* Bytes: the constructor from bytes in either order, and the bytes of a   *)
(* magnitude, the most significant first.                                  *)
(***************************************************************************)

FromBytes(bytes, sign, bigEndian) ==
    LET little  == IF bigEndian THEN Reverse(bytes) ELSE bytes
        length  == Max({0} \cup {i \in DOMAIN little : little[i] # 0})
        byte(k) == IF k <= length THEN little[k] ELSE 0
        word(i) == LET b == 4 * (i - 1)
                   IN  byte(b + 1) + 2^ByteBits * byte(b + 2)
                       + 2^(2 * ByteBits) * byte(b + 3) + 2^(3 * ByteBits) * byte(b + 4)
    IN  IF length = 0 THEN BigZero
        ELSE [sign |-> sign, mag |-> [i \in 1 .. (length + 3) \div 4 |-> word(i)]]

MagnitudeToBytes(x) ==
    LET bytesNum == (GetBitLength(x) + ByteBits - 1) \div ByteBits
        \* Byte k, counted from the least significant one, from 0.
        byte(k)  == (x.mag[k \div 4 + 1] \div 2^(ByteBits * (k % 4))) % 2^ByteBits
    IN  IF bytesNum = 0 THEN <<0>> ELSE [j \in 1 .. bytesNum |-> byte(bytesNum - j)]

-----------------------------------------------------------------------------
(***************************************************************************)
(* Addition, multiplication, comparison.                                   *)
(***************************************************************************)

\* A sum or a product at a place of the array, and what is carried on.
Carried(a, k, sum) == [mag |-> [a.mag EXCEPT ![k] = sum % Base], carry |-> sum \div Base]

\* common::Add: the addend into the words of an array from at on; and a
\* carry into them.
AddWords(mag, at, addend) ==
    LET step(a, i) == Carried(a, at + i, a.mag[at + i] + addend[i] + a.carry)
    IN  Loop(step, [mag |-> mag, carry |-> 0], Len(addend))

AddCarry(a, at) ==
    LET step(b, i) == Carried(b, at + i, b.mag[at + i] + b.carry)
    IN  Loop(step, a, Len(a.mag) - at)

Pushed(a) == IF a.carry = 0 THEN a.mag ELSE Append(a.mag, a.carry)

AddMag(mag, addend) ==
    Pushed(AddCarry(AddWords(Resize(mag, Max({Len(mag), Len(addend)})), 0, addend), Len(addend)))

\* The sign is not looked at: the magnitude grows.
Add(x, n) ==
    CASE n = 0     -> x
      [] IsZero(x) -> AssignUint64(n)
      [] OTHER     -> [x EXCEPT !.mag = AddMag(x.mag, AssignUint64(n).mag)]

CarryLast(a, k) == [a.mag EXCEPT ![k] = a.carry]

MultiplyWord(r, x, i, w) ==
    LET step(a, j) == Carried(a, i + j - 1, x.mag[j] * w + a.mag[i + j - 1] + a.carry)
    IN  CarryLast(Loop(step, [mag |-> r, carry |-> 0], Len(x.mag)), i + Len(x.mag))

Multiply(x, y) ==
    LET row(r, i) == MultiplyWord(r, x, i, y.mag[i])
    IN  [sign |-> x.sign * y.sign,
         mag  |-> Normalize(Loop(row, Resize(<<>>, Len(x.mag) + Len(y.mag)), Len(y.mag)))]

\* Square and multiply.
RECURSIVE PowLoop(_, _, _)
PowLoop(acc, multiplicant, exp) ==
    IF exp = 0 THEN acc
    ELSE PowLoop(IF exp % 2 = 1 THEN Multiply(acc, multiplicant) ELSE acc,
                 IF exp \div 2 # 0 THEN Multiply(multiplicant, multiplicant) ELSE multiplicant,
                 exp \div 2)

Pow(x, exp) ==
    CASE exp < 0              -> BigZero
      [] exp >= 0 /\ IsZero(x) -> x
      [] exp >= 0 /\ GetBitLength(x) = 1 ->
            IF exp % 2 = 0 /\ x.sign < 0 THEN [x EXCEPT !.sign = 1] ELSE x
      [] OTHER -> PowLoop(AssignInt64(1), x, exp)

GetPowerOfTen(n) ==
    IF n < UINT64_MAX_PRECISION THEN AssignUint64(TenPowerU64(n)) ELSE Pow(AssignInt64(10), n)

Compare(x, y, ignoreSign) ==
    LET mgt == IF ignoreSign THEN 1 ELSE x.sign
        top == Max({0} \cup {i \in DOMAIN x.mag : x.mag[i] # y.mag[i]})
    IN  IF ~ignoreSign /\ x.sign # y.sign THEN IF x.sign > y.sign THEN 1 ELSE -1
        ELSE IF Len(x.mag) # Len(y.mag)
        THEN IF Len(x.mag) > Len(y.mag) THEN mgt ELSE -mgt
        ELSE IF top = 0 THEN 0
        ELSE IF x.mag[top] > y.mag[top] THEN mgt ELSE -mgt

\* The constant of the program, 646456993 / 2^31, to five digits.
PrecisionOrOneMore(x, r) == IF Compare(x, GetPowerOfTen(r), TRUE) < 0 THEN r ELSE r + 1

GetPrecision(x) ==
    IF IsZero(x) THEN 1 ELSE PrecisionOrOneMore(x, ((GetBitLength(x) + 1) * 30103) \div 100000)

\* Each word takes the sign by itself.
GetMagInt(x, n) ==
    IF n >= Len(x.mag) THEN IF x.sign > 0 THEN 0 ELSE Base - 1
    ELSE (x.sign * x.mag[n + 1]) % Base

\* The bits of an int64 as a number.
AsInt64(u) == IF u >= Base^2 \div 2 THEN u - Base^2 ELSE u

ToInt64(x) == AsInt64(GetMagInt(x, 1) * Base + GetMagInt(x, 0))
-----------------------------------------------------------------------------
(***************************************************************************)
(* Division: short cuts, the machine's division where the dividend is a    *)
(* uint64, and Knuth's algorithm D.  The result says, beside quotient and  *)
(* remainder, whether the algorithm went below zero in a subtraction       *)
(* ("borrowed") or read before its arrays ("outside").                     *)
(***************************************************************************)

ShiftLeft(mag, n) ==
    [i \in DOMAIN mag |-> ((mag[i] * 2^n) % Base)
                          + (IF i > 1 THEN mag[i - 1] \div 2^(WordBits - n) ELSE 0)]

ShiftRight(mag, n) ==
    [i \in DOMAIN mag |-> mag[i] \div 2^n
                          + (IF i < Len(mag) THEN (mag[i + 1] * 2^(WordBits - n)) % Base ELSE 0)]

\* The difference is signed: one more is carried when it is negative.
MultiplyAndSubstruct(nu, at, a, x) ==
    LET put(s, k, product, difference) ==
            [nu    |-> [s.nu EXCEPT ![k] = difference % Base],
             carry |-> product \div Base - difference \div Base]
        step(s, i) == put(s, at + i, a[i] * x, s.nu[at + i] - s.carry - ((a[i] * x) % Base))
    IN  Loop(step, [nu |-> nu, carry |-> 0], Len(a))

\* The estimated quotient is lowered while two words of the divisor show
\* that it is too large.
AdjustOnce(qhat, rhat, v1, v2, u2) ==
    IF qhat >= Base \/ qhat * v2 > Base * rhat + u2 THEN qhat - 1 ELSE qhat

RECURSIVE Adjust(_, _, _, _, _)
Adjust(qhat, rhat, v1, v2, u2) ==
    IF ~(qhat >= Base \/ qhat * v2 > Base * rhat + u2) THEN qhat
    ELSE IF rhat + v1 >= Base THEN qhat - 1
    ELSE Adjust(qhat - 1, rhat + v1, v1, v2, u2)

\* The estimate from two words of the dividend and one of the divisor.
Qhat(high, v1, v2, u2) == Adjust(high \div v1, high % v1, v1, v2, u2) % Base

\* nu[i + vlen] - carry is taken of two unsigned words, so that difference
\* is not negative whatever was borrowed, and the addition is not done.
Subtracted(s, i, nv, qhat, sub) ==
    LET top        == i + Len(nv) + 1
        difference == (sub.nu[top] - sub.carry) % Base
        nu         == [sub.nu EXCEPT ![top] = difference]
    IN  [nu |-> IF difference < 0 THEN AddWords(nu, i, nv).mag ELSE nu,
         q  |-> [s.q EXCEPT ![i + 1] = IF difference < 0 THEN qhat - 1 ELSE qhat],
         doubt |-> IF sub.nu[top] < sub.carry THEN "borrowed"
                   ELSE IF Len(nv) = 1 THEN "outside" ELSE s.doubt]

SubtractQhat(s, i, nv, qhat) ==
    Subtracted(s, i, nv, qhat, MultiplyAndSubstruct(s.nu, i, nv, qhat))

\* A divisor of one word makes the loop read the word before its array.
KnuthStep(s, i, nv, before) ==
    LET vlen == Len(nv)
        word(a, k) == IF k >= 0 THEN a[k + 1] ELSE before
    IN  SubtractQhat(s, i, nv,
            Qhat(Base * s.nu[i + vlen + 1] + s.nu[i + vlen], nv[vlen], word(nv, vlen - 2),
                 word(s.nu, i + vlen - 2)))

KnuthResult(done, sign, vlen, shift) ==
    [res |-> [sign |-> sign, mag |-> Normalize(done.q)],
     rem |-> [sign |-> sign, mag |-> Normalize(ShiftRight(SubSeq(done.nu, 1, vlen), shift))],
     doubt |-> done.doubt]

\* The dividend is one word longer, or two when the shift moves bits out.
ShiftedDividend(u, shift) ==
    ShiftLeft(u, shift) \o (IF NumberOfLeadingZerosU32(Last(u)) < shift
                            THEN <<Last(u) \div 2^(WordBits - shift), 0>> ELSE <<0>>)

KnuthLoop(u, v, sign, shift, before) ==
    LET n == Len(u) - Len(v) + 1
        step(s, k) == KnuthStep(s, n - k, ShiftLeft(v, shift), before)
    IN  KnuthResult(Loop(step, [nu |-> ShiftedDividend(u, shift), q |-> Resize(<<>>, n),
                                    doubt |-> "none"], n),
                    sign, Len(v), shift)

Knuth(x, y, before) ==
    KnuthLoop(x.mag, y.mag, x.sign * y.sign, NumberOfLeadingZerosU32(Last(y.mag)), before)

\* The remainder takes the sign of the quotient.
Exactly(res, rem) == [res |-> res, rem |-> rem, doubt |-> "none"]

DivideUint64(u, v, sign) == Exactly(AssignInt64(sign * (u \div v)), AssignInt64(sign * (u % v)))

DivideBy(x, y, before, compRes, resSign) ==
    CASE compRes = 0  -> Exactly(AssignInt64(resSign), BigZero)
      [] compRes = -1 -> Exactly(BigZero, x)
      [] compRes = 1 /\ GetBitLength(y) = 1 -> Exactly([x EXCEPT !.sign = resSign], BigZero)
      [] compRes = 1 /\ GetBitLength(y) > 1 /\ Len(x.mag) <= 2 ->
            DivideUint64(MagValue(x.mag), MagValue(y.mag), resSign)
      [] OTHER -> Knuth(x, y, before)

Divide(x, y, before) == DivideBy(x, y, before, Compare(x, y, TRUE), x.sign * y.sign)

-----------------------------------------------------------------------------
(***************************************************************************)
(* Texts.                                                                  *)
(***************************************************************************)

Minus    == 10
Plus     == 11
Point    == 12
Exponent == 13

\* A uint64 in a stream, and filled with zeroes to a width.
RECURSIVE Digits(_)
Digits(n) == IF n < 10 THEN <<n>> ELSE Append(Digits(n \div 10), n % 10)

Filled(n, width) == [i \in 1 .. width - Len(Digits(n)) |-> 0] \o Digits(n)

\* The value of digits: the reference.
DigitsValue(digits) == FoldLeft(LAMBDA acc, c : 10 * acc + c, 0, digits)

\* The values of the parts of a positive number, least significant first.
MaxResultDigits == UINT64_MAX_PRECISION - 1

ByMaxPower(x, before) == Divide(x, AssignUint64(TenPowerU64(MaxResultDigits)), before)
Positive(x)           == [x EXCEPT !.sign = 1]

RECURSIVE PartsFrom(_, _)
PartsFrom(by, before) ==
    <<ToInt64(Positive(by.rem)) % (Base^2)>>
    \o (IF IsZero(by.res) THEN <<>> ELSE PartsFrom(ByMaxPower(Positive(by.res), before), before))

TextOfParts(vals) ==
    Digits(Last(vals)) \o FlattenSeq([i \in 1 .. Len(vals) - 1 |->
                                         Filled(vals[Len(vals) - i], MaxResultDigits)])

BigText(x, before) ==
    IF IsZero(x) THEN <<0>>
    ELSE (IF x.sign < 0 THEN <<Minus>> ELSE <<>>)
         \o TextOfParts(PartsFrom(ByMaxPower(x, before), before))

\* A part of a text into a number, once it is large or the text is at its
\* end.
PartAdded(x, part, partDigits) == Add(Multiply(x, GetPowerOfTen(partDigits)), part)

\* The loop of operator>> over the digits of a text: they are gathered in
\* an integer until it is as large as the limit, or the text at its end.
PartLength(digits) ==
    Min({Len(digits)} \cup {i \in DOMAIN digits :
            DigitsValue(SubSeq(digits, 1, i)) >= TenPowerU64(UINT64_MAX_PRECISION - 2)})

RECURSIVE ReadPart(_, _, _)
ReadPart(x, digits, n) ==
    IF n = 0 THEN x
    ELSE LET rest == SubSeq(digits, n + 1, Len(digits))
         IN  ReadPart(PartAdded(x, DigitsValue(SubSeq(digits, 1, n)), n), rest, PartLength(rest))

ReadDigits(digits) == ReadPart(BigZero, digits, PartLength(digits))

Unsigned(text) == IF text # <<>> /\ Head(text) \in {Minus, Plus} THEN Tail(text) ELSE text

\* Digits up to the first character that is none.
Signed(text, x) == IF text # <<>> /\ Head(text) = Minus THEN Negate(x) ELSE x

BigOfText(text) ==
    LET rest == Unsigned(text)
        stop == Min({Len(rest) + 1} \cup {i \in DOMAIN rest : rest[i] > 9})
    IN  Signed(text, ReadDigits(SubSeq(rest, 1, stop - 1)))
-----------------------------------------------------------------------------
(***************************************************************************)
(* Decimals.                                                               *)
(***************************************************************************)

Decimal(x, scale) == [x |-> x, scale |-> scale]

\* What is in res when the scale is already the one asked for stays there.
SetScale(dec, newScale, res, before) ==
    LET diff == dec.scale - newScale
    IN  CASE diff = 0 -> res
          [] diff > 0 -> Decimal(Divide(dec.x, GetPowerOfTen(diff), before).res, newScale)
          [] OTHER    -> Decimal(Multiply(dec.x, GetPowerOfTen(-diff)), newScale)

DecimalToInt64(dec, before) ==
    IF dec.scale = 0 THEN ToInt64(dec.x)
    ELSE ToInt64(SetScale(dec, 0, Decimal(BigZero, 0), before).x)

DecimalCompare(a, b, before) ==
    LET scaled(dec, s) == SetScale(dec, s, Decimal(BigZero, 0), before).x
    IN  CASE IsZero(a.x) /\ IsZero(b.x) -> 0
          [] ~(IsZero(a.x) /\ IsZero(b.x)) /\ a.scale = b.scale -> Compare(a.x, b.x, FALSE)
          [] ~(IsZero(a.x) /\ IsZero(b.x)) /\ a.scale > b.scale ->
                Compare(a.x, scaled(b, a.scale), FALSE)
          [] OTHER -> Compare(scaled(a, b.scale), b.x, FALSE)

\* Zeroes at the end of a fraction are left out, and zeroes put before a
\* fraction that is shorter than its scale.
PlainText(sign, digits, scale) ==
    LET last == Max({i \in DOMAIN digits : digits[i] # 0})
        dot  == Len(digits) - scale
    IN  sign \o (IF dot <= 0 THEN <<0, Point>> \o [i \in 1 .. -dot |-> 0] \o SubSeq(digits, 1, last)
                 ELSE SubSeq(digits, 1, dot)
                      \o (IF last > dot THEN <<Point>> \o SubSeq(digits, dot + 1, last) ELSE <<>>))

DecimalText(dec, before) ==
    CASE IsZero(dec.x) -> <<0>>
      [] ~IsZero(dec.x) /\ dec.scale <= 0 ->
            BigText(dec.x, before) \o [i \in 1 .. -dec.scale |-> 0]
      [] OTHER -> PlainText(IF dec.x.sign < 0 THEN <<Minus>> ELSE <<>>,
                            Unsigned(BigText(dec.x, before)), dec.scale)

\* Digits with one point among them, then an exponent.
ExponentOf(e) ==
    IF e # <<>> /\ Head(e) = Minus THEN -DigitsValue(Unsigned(e)) ELSE DigitsValue(Unsigned(e))

DecimalOfRest(text, rest, point, stop) ==
    Decimal(Signed(text, ReadDigits(SelectSeq(SubSeq(rest, 1, stop - 1), LAMBDA c : c # Point))),
            (IF point < stop THEN stop - 1 - point ELSE 0)
            - (IF stop <= Len(rest) /\ rest[stop] = Exponent
               THEN ExponentOf(SubSeq(rest, stop + 1, Len(rest))) ELSE 0))

DecimalOfText(text) ==
    LET rest  == Unsigned(text)
        point == Min({Len(rest) + 1} \cup {i \in DOMAIN rest : rest[i] = Point})
        stop  == Min({Len(rest) + 1} \cup {i \in DOMAIN rest : rest[i] > 9 /\ i # point})
    IN  DecimalOfRest(text, rest, point, stop)

\* The structure PutDecimal fills for SQL_C_NUMERIC: sixteen bytes, the
\* least significant first, of the number at scale 0.
SQL_MAX_NUMERIC_LEN == 16

NumericOf(unscaled, bytes) ==
        [val       |-> [i \in 1 .. SQL_MAX_NUMERIC_LEN |->
                           IF i <= Len(bytes) THEN bytes[Len(bytes) + 1 - i] ELSE 0],
         sign      |-> IF unscaled.sign < 0 THEN 0 ELSE 1,
         precision |-> GetPrecision(unscaled),
         result    |-> IF Len(bytes) > SQL_MAX_NUMERIC_LEN THEN "FRACTIONAL_TRUNCATED" ELSE "SUCCESS"]

NumericOfUnscaled(unscaled) == NumericOf(unscaled, MagnitudeToBytes(unscaled))

NumericStruct(dec, before) == NumericOfUnscaled(SetScale(dec, 0, Decimal(BigZero, 0), before).x)

-----------------------------------------------------------------------------
(***************************************************************************)
(* The machine: a number is made of an int64, a text or bytes, and is then *)
(* operated on.                                                            *)
(***************************************************************************)

\* The BigInteger that has the value of an integer.
RECURSIVE Words(_)
Words(n) == IF n = 0 THEN <<>> ELSE <<n % Base>> \o Words(n \div Base)

OfInteger(n) == [sign |-> IF n < 0 THEN -1 ELSE 1, mag |-> Words(Abs(n))]

Init ==
    /\ d = Decimal(BigZero, 0)
    /\ num = 0
    /\ ops = 0
    /\ heap \in HeapWords
    /\ doubt = "none"

Becomes(dec, n) ==
    /\ ops < MaxOps
    /\ doubt = "none"
    /\ d' = dec
    /\ num' = n
    /\ ops' = ops + 1
    /\ UNCHANGED heap

\* The constructors from a BigInteger and a scale, and from a text.
FromInteger(n, scale) == ops = 0 /\ Becomes(Decimal(OfInteger(n), scale), n) /\ UNCHANGED doubt

AssignString(text) == Becomes(DecimalOfText(text.chars), text.num) /\ UNCHANGED doubt

\* The constructor from a magnitude in bytes, which drops the sign of a scale.
FromMagnitude(bigEndian) ==
    LET bytes == MagnitudeToBytes(d.x)
    IN  /\ d.scale >= 0
        /\ Becomes(Decimal(FromBytes(IF bigEndian THEN bytes ELSE Reverse(bytes), d.x.sign, bigEndian),
                           d.scale), num)
        /\ UNCHANGED doubt

DoMultiply(n) ==
    /\ n # 0 => Abs(num) < MaxValue \div Abs(n)
    /\ Becomes(Decimal(Multiply(d.x, OfInteger(n)), d.scale), num * n)
    /\ UNCHANGED doubt

Divided(by, n) == Becomes(Decimal(by.res, d.scale), Quot(num, n)) /\ doubt' = by.doubt

DoDivide(n) ==
    /\ n # 0
    /\ Divided(Divide(d.x, OfInteger(n), heap), n)

MaxPowBase == 1000

DoPow(exp) ==
    /\ num # 0 /\ Abs(num) <= MaxPowBase
    /\ Abs(num)^exp < MaxValue
    /\ Becomes(Decimal(Pow(d.x, exp), d.scale), num^exp)
    /\ UNCHANGED doubt

DoSetScale(scale) ==
    LET diff == d.scale - scale
    IN  /\ diff < 0 => Abs(num) < MaxValue \div 10^(-diff)
        /\ Becomes(SetScale(d, scale, d, heap), IF diff > 0 THEN Quot(num, 10^diff) ELSE num * 10^(-diff))
        /\ doubt' = IF diff > 0 THEN Divide(d.x, GetPowerOfTen(diff), heap).doubt ELSE doubt

Next ==
    \/ \E n \in Operands, scale \in Scales : FromInteger(n, scale)
    \/ \E text \in Texts : AssignString(text)
    \/ \E bigEndian \in BOOLEAN : FromMagnitude(bigEndian)
    \/ \E n \in Operands : DoMultiply(n) \/ DoDivide(n)
    \/ \E exp \in 0 .. 3 : DoPow(exp)
    \/ \E scale \in Scales : DoSetScale(scale)

Spec == Init /\ [][Next]_numVars

-----------------------------------------------------------------------------
(***************************************************************************)
(* Properties.                                                             *)
(***************************************************************************)

\* Nothing has spoilt the number: no division borrowed, and the word read
\* before an array was zero, as it is with glibc.
Unspoilt(how) == how = "none" \/ (how = "outside" /\ heap = 0)
Sound         == Unspoilt(doubt)

\* The value is the one that the arithmetic of the integers gives.  Every
\* operation keeps the magnitude without zero words at its end, which
\* Compare and IsZero rely on.
ValueIsExact ==
    Sound => /\ Value(d.x) = num
             /\ Normalize(d.x.mag) = d.x.mag

\* Only a divisor of three words or more makes the division borrow: a
\* divisor that fits in a uint64 never does, and printing divides by such.
BorrowNeedsThreeWords ==
    \A n \in Operands \ {0} : Divide(d.x, OfInteger(n), heap).doubt = "borrowed" => Abs(n) >= Base^2

\* The text that operator<< writes is read by operator>> as an equal number.
ReadAsEqual(read) == DecimalCompare(read, d, heap) = 0

TextIsRead ==
    Sound => /\ ReadAsEqual(DecimalOfText(DecimalText(d, heap)))
             /\ Value(BigOfText(BigText(d.x, heap))) = num

\* GetPrecision is the number of decimal digits, DigitLength that of a uint64.
PrecisionIsDigits ==
    Sound => /\ GetPrecision(d.x) = Len(Digits(Abs(num)))
             /\ Abs(num) < Base^2 => DigitLength(Abs(num)) = Len(Digits(Abs(num)))

\* The order of the numbers is that of the integers, but for a negative
\* zero, which a product with zero leaves.
OrderIsExact ==
    Sound /\ ~(num = 0 /\ d.x.sign < 0) =>
        \A n \in Operands :
            Compare(d.x, OfInteger(n), FALSE) = IF num > n THEN 1 ELSE IF num < n THEN -1 ELSE 0

Int64Holds(x) ==
    /\ Value(x) \in -(Base^2 \div 2) .. Base^2 \div 2 - 1
    /\ x.sign < 0 => Value(x) # 0 /\ (Len(x.mag) = 2 => x.mag[1] = 0)

\* A number that fits is converted to itself, unless it is a negative zero
\* or a negative number of two words with something in the lower one; one
\* with a fraction is converted to its integer part.
Int64IsExact ==
    /\ Int64Holds(d.x) => ToInt64(d.x) = Value(d.x)
    /\ /\ Sound
       /\ d.scale > 0
       /\ Unspoilt(Divide(d.x, GetPowerOfTen(d.scale), heap).doubt)
       /\ Int64Holds(OfInteger(Quot(num, 10^d.scale)))
       => DecimalToInt64(d, heap) = Quot(num, 10^d.scale)

StructHolds(struct, n) ==
    /\ FoldRight(LAMBDA b, acc : b + 2^ByteBits * acc, struct.val, 0)
       = Abs(n) % 2^(ByteBits * SQL_MAX_NUMERIC_LEN)
    /\ n # 0 => struct.sign = IF n < 0 THEN 0 ELSE 1
    /\ struct.precision = Len(Digits(Abs(n)))
    /\ struct.result = "SUCCESS" <=> Abs(n) < 2^(ByteBits * SQL_MAX_NUMERIC_LEN)

NumericHolds == StructHolds(NumericStruct(d, heap), Quot(num, 10^d.scale))

\* SQL_NUMERIC_STRUCT holds the integer part of a number with a fraction,
\* and tells when it does not fit.
NumericIsInteger ==
    /\ Sound
    /\ d.scale > 0
    /\ Unspoilt(Divide(d.x, GetPowerOfTen(d.scale), heap).doubt)
    => NumericHolds

\* SetScale: "Result is placed here": the structure holds the integer part
\* of every number, of one at scale 0 also.
ScaledIsPlaced == Sound /\ d.scale >= 0 => NumericHolds
=============================================================================
