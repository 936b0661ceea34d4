------------------------------- MODULE Encodings -------------------------------
(***************************************************************************)
(* Numbers and strings as the library writes them and reads them back:     *)
(* varints, strings with their length ahead of them, checksums, decimals   *)
(* and the text of numbers, the values of tags, versions, and the ids of   *)
(* features.                                                               *)
(*                                                                         *)
(* A character is its distance from "0", so that a digit is its own value. *)
(* The widths of the code (128 values in 7 bits, 16-bit parts of versions, *)
(* 59-bit mantissas) are constants.                                        *)
(***************************************************************************)
EXTENDS Integers, Sequences, FiniteSets, SequencesExt, FiniteSetsExt

CONSTANTS
  GroupSize,        \* values of the part of a byte that is not its highest bit: 128
  MaxMantissa,      \* of a Decimal that is parsed: 2^59 - 1
  MaxScale,         \* of a Decimal, and the last of POWERS_OF_10: 15
  MinNumber, MaxNarrow, MaxWide, MaxWideScale,   \* TagValues: -256, 65279, 2^30 - 257, 3
  MaxPart,          \* of a version: 65535
  Jobs              \* [task, item]: what is written and read

EncodingsAssumption ==
  /\ GroupSize \in {2, 4, 8, 16, 32, 64, 128} /\ MaxScale \in Nat /\ MaxWideScale \in 0 .. MaxScale
  /\ MinNumber <= 0 /\ 0 <= MaxNarrow /\ MaxNarrow <= MaxWide /\ MaxPart \in Nat

VARIABLES job, encoded, cursor, passed, decoded, phase
vars == <<job, encoded, cursor, passed, decoded, phase>>

-----------------------------------------------------------------------------
(* Varints: the groups of a number, the lowest first.                      *)

writeVarint[v \in Nat] ==
  IF v < GroupSize THEN <<[low |-> v, more |-> FALSE]>>
  ELSE <<[low |-> v % GroupSize, more |-> TRUE]>> \o writeVarint[v \div GroupSize]

\* One byte for each complete or partial run of significant bits.
significantBits[v \in Nat] == IF v < 2 THEN 1 ELSE 1 + significantBits[v \div 2]
GroupBits == significantBits[GroupSize] - 1
varintSize(v) == (significantBits[v] + GroupBits - 1) \div GroupBits

\* The varint at p, and where it ends.
EndOf(bytes, p) == Min({i \in p .. Len(bytes) : ~bytes[i].more})
readVarint(bytes, p) ==
  FoldSet(LAMBDA i, value : value + bytes[i].low * GroupSize ^ (i - p), 0, p .. EndOf(bytes, p))

toZigzag(v) == IF v < 0 THEN -2 * v - 1 ELSE 2 * v
fromZigzag(v) == IF v % 2 = 1 THEN -(v \div 2) - 1 ELSE v \div 2

Ends(bytes) == {i \in DOMAIN bytes : ~bytes[i].more}
countVarints(bytes, p) == Cardinality({i \in Ends(bytes) : i >= p})
skipVarints(bytes, p, count) ==
  1 + CHOOSE i \in Ends(bytes) : i >= p /\ Cardinality({j \in Ends(bytes) : p <= j /\ j <= i}) = count
\* It looks at the byte before the one it moves to: a varint must precede it.
\* Wrong: the end of the varint that is passed counts.
SkipBackwardEarly(bytes, p, count) ==
  1 + CHOOSE i \in Ends(bytes) : i < p /\ Cardinality({j \in Ends(bytes) : i <= j /\ j < p}) = count
skipVarintsBackward(bytes, p, count) ==
  1 + CHOOSE i \in Ends(bytes) : i < p - 1 /\ Cardinality({j \in Ends(bytes) : i <= j /\ j < p - 1}) = count

-----------------------------------------------------------------------------
(* A ShortVarString: its length in one byte or two, and its characters.    *)

InitString(chars) ==
  [first |-> Len(chars) % GroupSize, two |-> Len(chars) >= GroupSize, second |-> Len(chars) \div GroupSize, chars |-> chars]
length(s) == IF s.two THEN s.second * GroupSize + s.first ELSE s.first
totalSize(s) == length(s) + IF s.two THEN 2 ELSE 1
Characters(s) == SubSeq(s.chars, 1, length(s))

\* memcmp() compares bytes, which are never negative.
FirstDifference(a, b, n) == Min({i \in 1 .. n : a[i] # b[i]} \cup {n + 1})
compare(a, b) ==
  LET n == Min({length(a), length(b)})  i == FirstDifference(a.chars, b.chars, n)
  IN  IF i > n THEN length(a) < length(b) ELSE a.chars[i] < b.chars[i]
equals(a, b) == length(a) = length(b) /\ FirstDifference(a.chars, b.chars, length(a)) > length(a)

-----------------------------------------------------------------------------
(* Checksums.  A word is the set of its bits that are one, and the sum of   *)
(* two words the bits in which they differ.                                *)

Polynomial == {3, 4, 5, 6, 8, 9, 11, 12, 13, 14, 16, 17, 20, 21, 22, 23, 25, 31}   \* 0x82F63B78
Ones == 0 .. 31
Xor(a, b) == (a \ b) \cup (b \ a)
Shift(word, n) == {i - n : i \in {j \in word : j >= n}}

Reduced(word) == IF 0 \in word THEN Xor(Shift(word, 1), Polynomial) ELSE Shift(word, 1)
CRC32C_TABLE == [byte \in SUBSET (0 .. 7) |-> FoldLeft(LAMBDA w, i : Reduced(w), byte, [i \in 1 .. 8 |-> i])]

\* Wrong: the byte that is shifted out is not taken away.
SoftRawUnshifted(bytes, seed) == FoldLeft(LAMBDA crc, byte : Xor(CRC32C_TABLE[Xor(crc, byte) \cap 0 .. 7], crc), seed, bytes)
softRaw(bytes, seed) ==
  FoldLeft(LAMBDA crc, byte : Xor(CRC32C_TABLE[Xor(crc, byte) \cap 0 .. 7], Shift(crc, 8)), seed, bytes)

\* What the instructions of a processor do with a word of some bytes.
Instruction(crc, bytes) ==
  FoldLeft(LAMBDA w, bit : IF (0 \in w) # bit THEN Xor(Shift(w, 1), Polynomial) ELSE Shift(w, 1), crc,
           [i \in 1 .. 8 * Len(bytes) |-> (i - 1) % 8 \in bytes[(i - 1) \div 8 + 1]])
\* Eight bytes at a time, then what is left in words of four, two and one.
Words(n) == [i \in 1 .. n \div 8 |-> 8] \o SelectSeq(<<4, 2, 1>>, LAMBDA w : (n % (2 * w)) \div w = 1)
processorRaw(bytes, seed) ==
  FoldLeft(LAMBDA r, n : [crc |-> Instruction(r.crc, SubSeq(bytes, r.at, r.at + n - 1)), at |-> r.at + n],
           [crc |-> seed, at |-> 1], Words(Len(bytes))).crc
finalize(crc) == Ones \ crc

-----------------------------------------------------------------------------
(* The text of numbers.                                                    *)

Minus == -3
Plus  == -5
Comma == -4
Dot   == -2
Slash == -1
Blank == -16
Digits == 0 .. 9

\* lldiv() cuts off towards zero.
Quot(a, b) == IF a < 0 THEN -((-a) \div b) ELSE a \div b
Rem(a, b) == a - b * Quot(a, b)
Abs(a) == IF a < 0 THEN -a ELSE a

unsignedInteger[d \in Int] ==
  IF Quot(d, 10) = 0 THEN <<Rem(d, 10)>> ELSE Append(unsignedInteger[Quot(d, 10)], Rem(d, 10))
integer(d) == (IF d < 0 THEN <<Minus>> ELSE <<>>) \o unsignedInteger[Abs(d)]
ZeroFilled(d, n) == [i \in 1 .. n |-> (d \div 10 ^ (n - i)) % 10]

\* integerNice() takes the digits of a negative number as they are.
integerNice(d) ==
  LET digits == unsignedInteger[d]
      n == Len(digits)
      grouped == FlattenSeq([i \in 1 .. n |-> IF i > 1 /\ (n - i + 1) % 3 = 0 THEN <<Comma, digits[i]>> ELSE <<digits[i]>>])
  IN  (IF d < 0 THEN <<Minus>> ELSE <<>>) \o grouped

\* HH:MM:SS.
Colon == 10
timer(s) == ZeroFilled(s \div 3600, 2) \o <<Colon>> \o ZeroFilled((s \div 60) % 60, 2) \o <<Colon>> \o ZeroFilled(s % 60, 2)

\* The time ago is told in the largest unit of which some has passed.
Units == <<[name |-> "second", from |-> 0, length |-> 1], [name |-> "minute", from |-> 60, length |-> 60],
           [name |-> "hour", from |-> 3600, length |-> 3600], [name |-> "yesterday", from |-> 86400, length |-> 86400],
           [name |-> "day", from |-> 172800, length |-> 86400], [name |-> "month", from |-> 2592000, length |-> 2592000],
           [name |-> "year", from |-> 31536000, length |-> 31536000]>>
\* Wrong: the next unit begins a second late.
TimeAgoLate(s) ==
  LET unit == Units[Max({i \in DOMAIN Units : Units[i].from < s} \cup {1})] IN [unit |-> unit, count |-> Quot(s, unit.length)]
timeAgo(s) ==
  LET unit == Units[Max({i \in DOMAIN Units : Units[i].from <= s} \cup {1})] IN [unit |-> unit, count |-> Quot(s, unit.length)]

(* A double is a mantissa and a scale: the number is mantissa / 10^scale.   *)
Number(m, s) == [mantissa |-> m, scale |-> s]
SameNumber(a, b) == a.mantissa * 10 ^ b.scale = b.mantissa * 10 ^ a.scale
NaN == Number(0, -1)

\* A number in units of 10^-precision, halves away from zero.
Rounded(d, precision) ==
  LET n == Abs(d.mantissa) * 10 ^ precision  unit == 10 ^ d.scale
  IN  (IF d.mantissa < 0 THEN -1 ELSE 1) * ((2 * n + unit) \div (2 * unit))

Fraction(n, precision, zeroFill) ==
  LET digits == ZeroFilled(n, precision)
      kept == IF zeroFill THEN precision ELSE Max({i \in 1 .. precision : digits[i] # 0} \cup {0})
  IN  IF kept = 0 THEN <<>> ELSE <<Dot>> \o SubSeq(digits, 1, kept)

\* doubleReverse() has the sign of the whole part, which may be 0;
\* formatDouble() that of the number.
DoubleReverse(d, precision) ==
  integer(Quot(Rounded(d, precision), 10 ^ precision)) \o Fraction(Abs(Rounded(d, precision)) % 10 ^ precision, precision, FALSE)
formatDouble(d, precision, zeroFill) ==
  (IF d.mantissa < 0 THEN <<Minus>> ELSE <<>>)
    \o unsignedInteger[Abs(Rounded(d, precision)) \div 10 ^ precision]
    \o Fraction(Abs(Rounded(d, precision)) % 10 ^ precision, precision, zeroFill)

\* A double at the start of a text, after blanks.  A fraction that is longer
\* than POWERS_OF_10 is read with what stands after that table: NoPower.
NoPower == Number(0, -2)
parseDouble(text) ==
  LET from == Min({i \in DOMAIN text : text[i] > Blank} \cup {Len(text) + 1})
      negative == from <= Len(text) /\ text[from] = Minus
      start == IF negative THEN from + 1 ELSE from
      stop == Min({i \in start .. Len(text) : text[i] \notin Digits \cup {Dot} \/ (text[i] = Dot /\ \E j \in start .. i - 1 : text[j] = Dot)}
                  \cup {Len(text) + 1})
      dots == {i \in start .. stop - 1 : text[i] = Dot}
      digits == SelectSeq(SubSeq(text, start, stop - 1), LAMBDA ch : ch # Dot)
      scale == IF dots = {} THEN 0 ELSE stop - 1 - Max(dots)
      value == FoldLeft(LAMBDA v, ch : 10 * v + ch, 0, digits)
  IN  IF digits = <<>> THEN NaN
      ELSE IF scale > MaxScale THEN NoPower
      ELSE Number(IF negative THEN -value ELSE value, scale)

-----------------------------------------------------------------------------
(* Decimals.                                                               *)

Invalid == Number(0, -1)
Unparsed == [stage |-> "whole", value |-> 0, scale |-> 0, seenZero |-> FALSE, seenNonZero |-> FALSE,
             leadingZeroes |-> FALSE, trailingNonNumeric |-> FALSE, seenDot |-> FALSE]

ParseDigit(r, ch) ==
  IF 10 * r.value + ch > MaxMantissa THEN [r EXCEPT !.stage = "overflow"]
  ELSE IF r.seenDot THEN [r EXCEPT !.value = 10 * @ + ch, !.scale = @ + 1]
  ELSE [r EXCEPT !.value = 10 * @ + ch, !.leadingZeroes = @ \/ (r.seenZero /\ ~r.seenNonZero),
                 !.seenZero = @ \/ ch = 0, !.seenNonZero = @ \/ ch # 0]
ParseCharacter(r, ch) ==
  CASE r.stage # "whole" -> r
    [] ch = Dot /\ ~r.seenDot -> [r EXCEPT !.seenDot = TRUE]
    [] ch \in Digits -> ParseDigit(r, ch)
    [] OTHER -> [r EXCEPT !.stage = "stopped", !.trailingNonNumeric = TRUE]

\* Wrong: zeroes ahead of the number are let pass.
IsCanonicalPadded(r, negative) ==
  /\ ~r.trailingNonNumeric
  /\ r.seenDot => r.scale > 0 /\ (r.seenZero \/ r.seenNonZero)
  /\ ~(r.value = 0 /\ negative)
IsCanonical(r, negative) ==
  /\ ~r.trailingNonNumeric
  /\ r.seenDot => r.scale > 0 /\ (r.seenZero \/ r.seenNonZero)
  /\ ~r.leadingZeroes
  /\ ~(r.value = 0 /\ negative)

parse(text, strict) ==
  LET signed == text # <<>> /\ text[1] \in {Minus, Plus}
      negative == signed /\ text[1] = Minus
      r == FoldLeft(ParseCharacter, Unparsed, IF signed THEN Tail(text) ELSE text)
  IN  IF \/ Len(text) = (IF signed THEN 1 ELSE 0)
         \/ strict /\ (~IsCanonical(r, negative) \/ (signed /\ ~negative))
         \/ r.stage = "overflow" \/ r.scale > MaxScale
      THEN Invalid
      ELSE Number(IF negative THEN -r.value ELSE r.value, r.scale)

FormatDecimal(d) ==
  LET digits == unsignedInteger[Abs(d.mantissa)]  whole == Len(digits) - d.scale
  IN  (IF d.mantissa < 0 THEN <<Minus>> ELSE <<>>) \o
      (IF d.scale = 0 THEN digits
       ELSE IF whole <= 0 THEN <<0, Dot>> \o [i \in 1 .. -whole |-> 0] \o digits
       ELSE SubSeq(digits, 1, whole) \o <<Dot>> \o SubSeq(digits, whole + 1, Len(digits)))

\* The whole part, the rest cut off.
ToInt64(d) == IF d = Invalid THEN -MaxMantissa ELSE Quot(d.mantissa, 10 ^ d.scale)

-----------------------------------------------------------------------------
(* The values of tags: a number in 16 bits, one in 32 with its scale, or a  *)
(* string.                                                                 *)

isNumericValue(d) == d # Invalid /\ d.scale <= MaxWideScale /\ MinNumber <= d.mantissa /\ d.mantissa <= MaxWide
isNarrowNumericValue(d) == d # Invalid /\ d.scale = 0 /\ MinNumber <= d.mantissa /\ d.mantissa <= MaxNarrow
narrowNumber(d) == d.mantissa - MinNumber
wideNumber(d) == (MaxWideScale + 1) * (d.mantissa - MinNumber) + d.scale

TagValue(type, raw, str) == [type |-> type, raw |-> raw, str |-> str]
\* How the value that a text stands for may be stored.
Stored(text) ==
  LET d == parse(text, TRUE)
  IN  {TagValue("local", 0, text), TagValue("global", 0, text)}
      \cup (IF isNarrowNumericValue(d) THEN {TagValue("narrow", narrowNumber(d), <<>>)} ELSE {})
      \cup (IF isNumericValue(d) THEN {TagValue("wide", wideNumber(d), <<>>)} ELSE {})

\* Wrong: the scale of a wide number is one more.
DecimalFromWideScaled(raw) == Number(raw \div (MaxWideScale + 1) + MinNumber, (raw % (MaxWideScale + 1)) + 1)
decimalFromWideNumber(raw) == Number(raw \div (MaxWideScale + 1) + MinNumber, raw % (MaxWideScale + 1))
intFromNarrowNumber(raw) == raw + MinNumber

IsString(v) == v.type \in {"local", "global"}
NumberOf(v) == IF v.type = "narrow" THEN Number(intFromNarrowNumber(v.raw), 0) ELSE decimalFromWideNumber(v.raw)
ToText(v) ==
  CASE IsString(v) -> v.str
    [] v.type = "narrow" -> integer(intFromNarrowNumber(v.raw))
    [] v.type = "wide" -> FormatDecimal(decimalFromWideNumber(v.raw))
\* A text that is not a number is 0, whatever TagValue.h, line 19, says.
ToDouble(v) ==
  CASE IsString(v) -> IF parseDouble(v.str) = NaN THEN Number(0, 0) ELSE parseDouble(v.str)
    [] OTHER -> NumberOf(v)
ToDecimal(v) == IF IsString(v) THEN parse(v.str, FALSE) ELSE NumberOf(v)
ToInt(v) == Quot(ToDouble(v).mantissa, 10 ^ ToDouble(v).scale)
No == <<62, 63>>
\* A decimal is compared with 0 by its whole part.
ToBool(v) == IF IsString(v) THEN v.str # <<>> /\ v.str # No ELSE ToInt64(NumberOf(v)) # 0
EqualsText(v, text) == ToText(v) = text
EqualsNumber(v, d) == SameNumber(ToDouble(v), d)
Below(v, w) == ToInt(v) < ToInt(w)
charCount(v) == Len(ToText(v))

\* What Python is given: a text, a number, or the one that the value is.
valueAsString(v) == ToText(v)
valueAsNumber(v) ==
  IF ~IsString(v) THEN NumberOf(v) ELSE IF parseDouble(v.str) = NaN THEN Number(0, 0) ELSE parseDouble(v.str)
valueAsObject(v) == IF IsString(v) THEN [text |-> v.str] ELSE [number |-> NumberOf(v)]

-----------------------------------------------------------------------------
(* Versions and ids.                                                       *)

\* A component ends at the first character that is no digit.
parseUnsignedLong(text) ==
  LET n == Min({i \in DOMAIN text : text[i] \notin Digits} \cup {Len(text) + 1}) - 1
  IN  FoldLeft(LAMBDA v, ch : 10 * v + ch, 0, SubSeq(text, 1, n))

Version(parts) ==
  IF \E i \in 1 .. 3 : parts[i] > MaxPart THEN <<0, 0, 0>> ELSE parts
\* What two points part a text into; nothing if there are not two.
Components(text) ==
  LET dots == {i \in DOMAIN text : text[i] = Dot}
  IN  IF Cardinality(dots) # 2 THEN <<>>
      ELSE <<SubSeq(text, 1, Min(dots) - 1), SubSeq(text, Min(dots) + 1, Max(dots) - 1), SubSeq(text, Max(dots) + 1, Len(text))>>
CutVersion(text) == SubSeq(text, 1, Min({i \in DOMAIN text : text[i] \in {Minus, Plus}} \cup {Len(text) + 1}) - 1)
parseVersion(text) ==
  LET parts == Components(CutVersion(text))
  IN  IF parts = <<>> \/ <<>> \in ToSet(parts) THEN <<0, 0, 0>>
      ELSE Version([i \in 1 .. 3 |-> parseUnsignedLong(parts[i])])
formatVersion(v) == integer(v[1]) \o <<Dot>> \o integer(v[2]) \o <<Dot>> \o integer(v[3])
pack(v) == (v[1] * (MaxPart + 1) + v[2]) * (MaxPart + 1) + v[3]

\* The type (0 to 2) of a feature and its id in one word, and as the header of a
\* feature has them, whose flags are cleared.
ofTypeAndId(type, id) == 4 * id + type
asIdBits(typedId) == (typedId \div 4) * 4096 + (typedId % 4) * 8
Header(type, id, flags) == id * 4096 + type * 8 + flags
idBits(header) == (header \div 4096) * 4096 + ((header \div 8) % 4) * 8
HighBits == 2 ^ 20      \* the place of the type's copy, above any id
Collated(typedId) == typedId + (typedId % 4) * HighBits

-----------------------------------------------------------------------------
(* A behaviour writes what its job has and reads it back.  Varints are read *)
(* and passed in any order, forward and back.                              *)

Init ==
  /\ job \in Jobs
  /\ encoded = <<>> /\ cursor = 1 /\ passed = 0 /\ decoded = <<>> /\ phase = "write"

WriteVarints ==
  /\ job.task = "varints" /\ phase = "write"
  /\ encoded' = FlattenSeq([i \in DOMAIN job.item |-> writeVarint[toZigzag(job.item[i])]])
  /\ phase' = "read" /\ UNCHANGED <<job, cursor, passed, decoded>>

ReadVarint ==
  /\ job.task = "varints" /\ phase = "read" /\ passed < Len(job.item)
  /\ decoded' = <<fromZigzag(readVarint(encoded, cursor))>>
  /\ cursor' = EndOf(encoded, cursor) + 1 /\ passed' = passed + 1
  /\ UNCHANGED <<job, encoded, phase>>

SkipVarints(count) ==
  /\ job.task = "varints" /\ phase = "read" /\ passed + count <= Len(job.item)
  /\ cursor' = skipVarints(encoded, cursor, count) /\ passed' = passed + count
  /\ decoded' = <<>> /\ UNCHANGED <<job, encoded, phase>>

\* One more must precede.
SkipBackward(count) ==
  /\ job.task = "varints" /\ phase = "read" /\ passed > count
  /\ cursor' = skipVarintsBackward(encoded, cursor, count) /\ passed' = passed - count
  /\ decoded' = <<>> /\ UNCHANGED <<job, encoded, phase>>

WriteNumber ==
  /\ job.task = "number" /\ phase = "write"
  /\ encoded' = formatDouble(job.item, job.precision, FALSE)
  /\ phase' = "read" /\ UNCHANGED <<job, cursor, passed, decoded>>
WriteVersion ==
  /\ job.task = "version" /\ phase = "write"
  /\ encoded' = formatVersion(job.item) \o job.suffix
  /\ phase' = "read" /\ UNCHANGED <<job, cursor, passed, decoded>>
\* A string is not written: it has been read, from a text or a store.
TakeText ==
  /\ job.task \in {"decimal", "strings", "checksum"} /\ phase = "write"
  /\ encoded' = job.item
  /\ phase' = "read" /\ UNCHANGED <<job, cursor, passed, decoded>>

ReadBack(task, text) ==
  CASE task = "number" -> parseDouble(text)
    [] task = "version" -> parseVersion(text)
    [] task = "decimal" -> parse(text, TRUE)
    [] task = "strings" -> [i \in DOMAIN text |-> Characters(InitString(text[i]))]
    [] task = "checksum" -> finalize(softRaw(text, Ones))
Read ==
  /\ job.task # "varints" /\ phase = "read"
  /\ decoded' = ReadBack(job.task, encoded)
  /\ phase' = "done" /\ UNCHANGED <<job, encoded, cursor, passed>>

Next ==
  \/ WriteVarints \/ ReadVarint \/ \E count \in 1 .. 2 : SkipVarints(count) \/ SkipBackward(count)
  \/ WriteNumber \/ WriteVersion \/ TakeText \/ Read

Spec == Init /\ [][Next]_vars

-----------------------------------------------------------------------------
(* Correctness.                                                            *)

Done(task) == job.task = task /\ phase = "done"

\* However varints have been read and passed, the next one is read from its
\* start, those left are counted, and each has as many bytes as varintSize()
\* says (varint.h).
Written(n) == FlattenSeq([i \in 1 .. n |-> writeVarint[toZigzag(job.item[i])]])
VarintsInStep ==
  job.task = "varints" /\ phase = "read" =>
    /\ cursor = Len(Written(passed)) + 1
    /\ countVarints(encoded, cursor) = Len(job.item) - passed
    /\ decoded # <<>> => decoded = <<job.item[passed]>>
    /\ \A i \in DOMAIN job.item : varintSize(toZigzag(job.item[i])) = Len(writeVarint[toZigzag(job.item[i])])

\* Strings keep their characters and are ordered as the characters are
\* (ShortVarString.h).
Prefix(s, t) == Len(s) < Len(t) /\ SubSeq(t, 1, Len(s)) = s
Earlier(s, t) == Prefix(s, t) \/ \E i \in DOMAIN s \cap DOMAIN t : s[i] < t[i] /\ SubSeq(s, 1, i - 1) = SubSeq(t, 1, i - 1)
StringsKept ==
  Done("strings") =>
    /\ decoded = job.item
    /\ \A i, j \in DOMAIN job.item :
         /\ compare(InitString(job.item[i]), InitString(job.item[j])) <=> Earlier(job.item[i], job.item[j])
         /\ equals(InitString(job.item[i]), InitString(job.item[j])) <=> job.item[i] = job.item[j]

\* A checksum is the same whether a table or the processor makes it, and
\* however the bytes are cut; a burst of at most 32 bits changes it (Crc32C.cpp).
Bursts(bytes) == {[i \in DOMAIN bytes |-> IF i \in at .. at + 3 THEN Xor(bytes[i], {0, bit}) ELSE bytes[i]] : at \in DOMAIN bytes, bit \in 0 .. 7}
ChecksumsAgree ==
  Done("checksum") =>
    /\ finalize(processorRaw(encoded, Ones)) = decoded
    /\ \A n \in 0 .. Len(encoded) :
         finalize(softRaw(SubSeq(encoded, n + 1, Len(encoded)), processorRaw(SubSeq(encoded, 1, n), Ones))) = decoded
    /\ \A other \in Bursts(encoded) : finalize(softRaw(other, Ones)) # decoded

\* Strict parsing takes a text for a decimal exactly if it is the one that the
\* decimal is written as: "in canonical form" (Decimal.h, lines 15-20).
DecimalsCanonical ==
  Done("decimal") => /\ decoded # Invalid => FormatDecimal(decoded) = encoded
                     /\ parse(encoded, FALSE) # Invalid /\ FormatDecimal(parse(encoded, FALSE)) = encoded => decoded # Invalid

\* A number is read back as it was rounded, its sign included (Format.cpp,
\* BufferWriter.cpp, Math.cpp).
NumbersReadBack == Done("number") => SameNumber(decoded, Number(Rounded(job.item, job.precision), job.precision))

\* A tag's value is the same text and the same number however it is stored
\* (TagValue.h, TagValues.h).
Same(d, e) == d = e \/ (d.scale >= 0 /\ e.scale >= 0 /\ SameNumber(d, e))
ValuesAgree ==
  Done("decimal") =>
    \A v, w \in Stored(encoded) :
      /\ EqualsText(v, encoded)
      /\ valueAsString(v) = valueAsString(w)
      /\ valueAsObject(v) \in {[text |-> encoded], [number |-> valueAsNumber(v)]}
      /\ decoded # Invalid => /\ Same(ToDouble(v), ToDouble(w)) /\ Same(valueAsNumber(v), ToDouble(w)) /\ ToInt(v) = ToInt(w)
                              /\ ToDecimal(v) = decoded /\ EqualsNumber(w, ToDouble(v)) /\ ~Below(v, w)

\* Versions are read back, without what follows them, and are ordered by their
\* components (SemanticVersion.h).
VersionsReadBack ==
  Done("version") =>
    /\ decoded = job.item
    /\ \A v \in {<<a, b, c>> : a, b, c \in 0 .. MaxPart} : pack(v) < pack(decoded) <=> Earlier(v, decoded)

\* A number's digits are grouped, and a time is told, so that they can be read
\* (Format.h); of an id, the word in the index and the header of the feature
\* have the same bits, and both are ordered by type and id (TypedFeatureId.h,
\* FeaturePtr.h).
Ages == {0, 1} \cup UNION {{Units[i].from - 1, Units[i].from, Units[i].from + 1} : i \in 2 .. Len(Units)}
Times == {0, 59, 60, 3599, 3600, 86399}
Ungrouped(text) == SelectSeq(text, LAMBDA ch : ch # Comma)
NumbersGrouped ==
  Done("number") /\ job.item.scale = 0 =>
    LET n == Abs(job.item.mantissa)
    IN  /\ Ungrouped(integerNice(n)) = integer(n)
        /\ \A t \in Times : LET s == timer(t) IN
              t = 3600 * (10 * s[1] + s[2]) + 60 * (10 * s[4] + s[5]) + 10 * s[7] + s[8]
        /\ \A t \in Ages \ {0} : LET told == timeAgo(t) IN
              /\ told.count >= 1 /\ told.count * told.unit.length <= t /\ t < (told.count + 1) * told.unit.length
              /\ \A i \in DOMAIN Units : Units[i].length <= t => Units[i].length <= told.unit.length
              /\ \A later \in {a \in Ages : a >= t} :
                    told.count * told.unit.length <= timeAgo(later).count * timeAgo(later).unit.length
        /\ \A type, other \in 0 .. 2, flags \in {0, 7, 4068} :
              /\ idBits(Header(type, n, (flags \div 32) * 32 + (flags % 8))) = asIdBits(ofTypeAndId(type, n))
              /\ Collated(ofTypeAndId(type, n)) < Collated(ofTypeAndId(other, n + 1)) <=> type <= other

EncodingsRight ==
  /\ VarintsInStep /\ StringsKept /\ ChecksumsAgree /\ DecimalsCanonical
  /\ NumbersReadBack /\ ValuesAgree /\ VersionsReadBack /\ NumbersGrouped

\* These do not hold.  TagValue converts to true "unless empty string, no, or a
\* numerical value of 0" (TagValue.h, line 23); to NaN "if the string value does
\* not start with a valid number" (line 19).
TrueUnlessZero == Done("decimal") => \A v \in Stored(encoded) : ~IsString(v) => (ToBool(v) <=> decoded.mantissa # 0)
NaNUnlessNumber == Done("decimal") => \A v \in Stored(encoded) : parseDouble(encoded) = NaN => ToDouble(v) = NaN
\* doubleReverse() and integerNice() write what is read back.
ReverseReadBack ==
  Done("number") => SameNumber(parseDouble(DoubleReverse(job.item, job.precision)), Number(Rounded(job.item, job.precision), job.precision))
NiceReadBack == Done("number") /\ job.item.scale = 0 => Ungrouped(integerNice(job.item.mantissa)) = integer(job.item.mantissa)
================================================================================
