--------------------------------- MODULE Qris ---------------------------------
(***************************************************************************)
(* The QR payload of a TemanQRIS charge: src/internal/payment/qris.go.     *)
(*                                                                         *)
(* A payload is a string of tags, each two digits of id, two of length and *)
(* the value; the last, 63, is a CRC over all that precedes its value.     *)
(* What the program does with it as a string is compared with what it is   *)
(* to do with the tags.                                                    *)
(***************************************************************************)
EXTENDS Naturals, Sequences, SequencesExt

CharAt(s, i) == SubSeq(s, i, i)

\* The characters from "0" to "Z" in their order in ASCII.
Ascii   == "0123456789:;<=>?@ABCDEFGHIJKLMNOPQRSTUVWXYZ"
Byte(c) == 47 + CHOOSE i \in 1..Len(Ascii) : CharAt(Ascii, i) = c

Digit(n) == CharAt("0123456789ABCDEF", n + 1)

\* %d, %02d of a length, and %04X of a CRC.
Decimal[n \in Nat] == IF n < 10 THEN Digit(n) ELSE Decimal[n \div 10] \o Digit(n % 10)
TwoDigits(n) == Digit(n \div 10) \o Digit(n % 10)
Hex(n) == Digit(n \div 4096) \o Digit((n \div 256) % 16)
            \o Digit((n \div 16) % 16) \o Digit(n % 16)

Occurrences(s, t) ==
  {i \in 1..(Len(t) + 1 - Len(s)) : SubSeq(t, i, i + Len(s) - 1) = s}

TrimSpace(s) ==
  LET ink == {i \in 1..Len(s) : CharAt(s, i) # " "}
  IN  IF ink = {} THEN "" ELSE SubSeq(s, Min(ink), Max(ink))

-----------------------------------------------------------------------------
(* The code *)

Xor[a, b \in Nat] ==
  IF a = 0 THEN b ELSE 2 * Xor[a \div 2, b \div 2] + ((a + b) % 2)

\* One shift of a uint16, and the eight of the inner loop.
Shift[crc \in Nat] ==
  IF crc >= 32768 THEN Xor[(crc * 2) % 65536, 4129] ELSE crc * 2

EightShifts[crc \in Nat] ==
  Shift[Shift[Shift[Shift[Shift[Shift[Shift[Shift[crc]]]]]]]]

crc16CCITT(s) ==
  LET crc[i \in 0..Len(s)] ==
        IF i = 0 THEN 65535
        ELSE EightShifts[Xor[crc[i - 1], Byte(CharAt(s, i)) * 256]]
  IN  crc[Len(s)]

\* Mutant: whatever its place, the last "6304" is taken for the CRC tag.
StripAnywhere(s) ==
  IF Occurrences("6304", s) = {} THEN s
  ELSE SubSeq(s, 1, Max(Occurrences("6304", s)) - 1)

\* The last "6304", if it is among the last eight characters.
StripCRC(s) ==
  LET idx == {i \in Occurrences("6304", s) : i + 7 >= Len(s)}
  IN  IF idx = {} THEN s ELSE SubSeq(s, 1, Max(idx) - 1)

NoQR == "error"

\* The first s of t, if there is one, becomes r.
ReplaceFirst(s, r, t) ==
  IF Occurrences(s, t) = {} THEN t
  ELSE SubSeq(t, 1, Min(Occurrences(s, t)) - 1) \o r
         \o SubSeq(t, Min(Occurrences(s, t)) + Len(s), Len(t))

\* The steps of StaticToDynamicQRIS, on the string that the one before left.
Stripped[s \in STRING] == ReplaceFirst("010211", "010212", StripCRC(s))

Priced[s \in STRING, amt \in STRING] ==
  ReplaceFirst("5802ID", "54" \o TwoDigits(Len(amt)) \o amt \o "5802ID", s)

WithCRC[s \in STRING] == s \o Hex(crc16CCITT(s))

StaticToDynamicQRIS(static, amount) ==
  IF \/ TrimSpace(static) = ""
     \/ amount = 0
     \/ Occurrences("5802ID", Stripped[TrimSpace(static)]) = {}
  THEN NoQR
  ELSE WithCRC[Priced[Stripped[TrimSpace(static)], Decimal[amount]] \o "6304"]

-----------------------------------------------------------------------------
(* What it is to do, on tags.  Polynomials over GF(2) are sets of exponents: *)
(* the CRC is the remainder of the message times x^16, with its first sixteen *)
(* bits inverted, on division by x^16 + x^12 + x^5 + 1.                      *)

SumOver[a, b \in SUBSET Nat] == (a \ b) \cup (b \ a)

Remainder[p \in SUBSET Nat] ==
  IF p = {} \/ Max(p) < 16 THEN p
  ELSE Remainder[SumOver[p, {Max(p) - 16 + e : e \in {16, 12, 5, 0}}]]

Value[p \in SUBSET Nat] == IF p = {} THEN 0 ELSE 2^Max(p) + Value[p \ {Max(p)}]

Bits(c) == {j \in 0..7 : (Byte(c) \div 2^j) % 2 = 1}

Check(s) ==
  LET division[i \in 0..Len(s)] ==
        IF i = 0 THEN 0..15
        ELSE Remainder[SumOver[{e + 8 : e \in division[i - 1]},
                               {j + 16 : j \in Bits(CharAt(s, i))}]]
  IN  Hex(Value[division[Len(s)]])

Tag(id, value) == [id |-> id, value |-> value]

Encode[tags \in Seq([id : STRING, value : STRING])] ==
  IF tags = <<>> THEN ""
  ELSE Encode[Front(tags)] \o Last(tags).id
         \o TwoDigits(Len(Last(tags).value)) \o Last(tags).value

Seal[s \in STRING] == s \o Check(s)

Sealed(tags) == Seal[Encode[tags] \o "6304"]

\* The merchant's static code, as it may stand in QRIS_STATIC_PAYLOAD.
Static(p) ==
  LET code == IF p.sealed THEN Sealed(p.tags) ELSE Encode[p.tags]
  IN  IF p.blanks THEN " " \o code \o " " ELSE code

\* A code for one payment: the same tags, the initiation method changed and
\* the amount before the country.
Dynamic(p, amount) ==
  LET Method(t) == IF t = Tag("01", "11") THEN Tag("01", "12") ELSE t
      countries == {i \in DOMAIN p.tags : p.tags[i] = Tag("58", "ID")}
      at        == Min(countries)
      renamed   == [i \in DOMAIN p.tags |-> Method(p.tags[i])]
  IN  IF countries = {} \/ amount = 0 THEN NoQR
      ELSE Sealed(InsertAt(renamed, at, Tag("54", Decimal[amount])))
=============================================================================
