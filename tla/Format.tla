------------------------------- MODULE Format -------------------------------
(***************************************************************************)
(* fmt::format (src/format.cpp, src/format.hpp) as the replies of the      *)
(* server and the lines of its files use it: texts and numbers take the    *)
(* places of the fields of a format string, {n} for the argument n and     *)
(* {n:x} for a number in hexadecimal digits.  The format strings of the    *)
(* program are literals: none is malformed, none leaves the index of an    *)
(* argument out or asks for a sign, a fill, a width or a precision, and    *)
(* no number is negative.                                                  *)
(***************************************************************************)
EXTENDS Integers, Sequences, SequencesExt

OpenBrace == 123  CloseBrace == 125  Colon == 58  LetterX == 120

\* Arguments, by what they are.
NumberArg(n) == [kind |-> "number", number |-> n]
TextArg(s) == [kind |-> "text", text |-> s]

-----------------------------------------------------------------------------
(* Numbers.                                                                *)

\* 64 - clz(n | 1), of the numbers that are checked.
BitLength(n) == 1 + Cardinality({ k \in 1..30 : n >= 2^k })

\* POWERS_OF_10: the first one lets 0 have a digit.
PowerOf10(t) == IF t = 0 THEN 0 ELSE 10^t

\* 1233 / 4096 is the logarithm of 2.  (The fault takes what is an upper bound
\* for the number.)
CountDigitsAtMost(n) == (BitLength(n) * 1233) \div 4096 + 1

CountDigits(n) ==
    LET t == (BitLength(n) * 1233) \div 4096
    IN  IF n < PowerOf10(t) THEN t ELSE t + 1

\* Two digits at a time, from the end; a number of 64 bits has 20 of them.
DigitPairs == 10
TwoDigits(n) == <<48 + (n \div 10), 48 + (n % 10)>>
NextPair(d) ==
    IF d.value < 100 THEN d
    ELSE [value |-> d.value \div 100, text |-> TwoDigits(d.value % 100) \o d.text]
Decimal(n) ==
    LET loop[i \in 0..DigitPairs] ==
            IF i = 0 THEN [value |-> n, text |-> <<>>] ELSE NextPair(loop[i - 1])
        rest == loop[DigitPairs].value
    IN  (IF rest < 10 THEN <<48 + rest>> ELSE TwoDigits(rest)) \o loop[DigitPairs].text

\* They are written to the end of the buffer; a byte in front that none is
\* written to is one of no text.
Unwritten == -1
FormatDecimal(n, size) ==
    LET digits == Decimal(n)
        skipped == Len(digits) - size
    IN  [i \in 1..size |->
            IF i + skipped \in DOMAIN digits THEN digits[i + skipped] ELSE Unwritten]

\* A digit at a time, from the end, and at least one; a number of 64 bits has
\* 16 of them.  (The fault is a loop that is tested at its head.)
HexTurns == 15
LowerHexDigit(n) == IF n < 10 THEN 48 + n ELSE 87 + n
AddHexDigit(d) ==
    [value |-> d.value \div 16, text |-> <<LowerHexDigit(d.value % 16)>> \o d.text]
NextHexDigit(d) == IF d.value = 0 THEN d ELSE AddHexDigit(d)
HexWhile(n) ==
    LET loop[i \in 0..HexTurns] ==
            IF i = 0 THEN [value |-> n, text |-> <<>>] ELSE NextHexDigit(loop[i - 1])
    IN  loop[HexTurns].text
Hexadecimal(n) ==
    LET loop[i \in 0..HexTurns] ==
            IF i = 0 THEN AddHexDigit([value |-> n, text |-> <<>>])
            ELSE NextHexDigit(loop[i - 1])
    IN  loop[HexTurns].text

WriteInt(n, type) ==
    IF type = <<LetterX>> THEN Hexadecimal(n) ELSE FormatDecimal(n, CountDigits(n))

\* A text comes as it is: what it has in braces is no field.
WriteArg(arg, type) ==
    IF arg.kind = "number" THEN WriteInt(arg.number, type) ELSE arg.text

-----------------------------------------------------------------------------
(* Format strings.                                                         *)

\* A field without its braces: the index, and the type behind a colon.
ParseNonnegativeInt(digits) ==
    LET value[i \in 0..Len(digits)] ==
            IF i = 0 THEN 0 ELSE value[i - 1] * 10 + digits[i] - 48
    IN  value[Len(digits)]

GetArg(args, index) == args[index + 1]

FormatField(field, args) ==
    LET colons == { i \in DOMAIN field : field[i] = Colon }
        index  == IF colons = {} THEN field ELSE SubSeq(field, 1, Min(colons) - 1)
        type   == SubSeq(field, Len(index) + 2, Len(field))
    IN  WriteArg(GetArg(args, ParseNonnegativeInt(index)), type)

\* From left to right, and once; a brace that is doubled stands for itself.
\* A turn of the loop takes at least one character of the format string.
NextPiece(format, args, d) ==
    LET braces == { i \in d.at..Len(format) : format[i] \in {OpenBrace, CloseBrace} }
        b == Min(braces)
        e == Min({ i \in b..Len(format) : format[i] = CloseBrace })
    IN  IF braces = {}
        THEN [at |-> Len(format) + 1, text |-> d.text \o SubSeq(format, d.at, Len(format))]
        ELSE IF b < Len(format) /\ format[b + 1] = format[b]
        THEN [at |-> b + 2, text |-> d.text \o SubSeq(format, d.at, b)]
        ELSE [at |-> e + 1,
              text |-> d.text \o SubSeq(format, d.at, b - 1)
                        \o FormatField(SubSeq(format, b + 1, e - 1), args)]

Format(format, args) ==
    LET loop[i \in 0..Len(format)] ==
            IF i = 0 THEN [at |-> 1, text |-> <<>>] ELSE NextPiece(format, args, loop[i - 1])
    IN  loop[Len(format)].text
=============================================================================
