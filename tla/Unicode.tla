------------------------------ MODULE Unicode ------------------------------
(***************************************************************************)
(* UTF-8 (src/utf8.hpp).  valid_utf8 and from_utf8 are one machine that    *)
(* takes a byte after the other; the second one appends the characters it  *)
(* completes to wide.  to_utf8 is the way back.  Masks and shifts are      *)
(* ranges, remainders and quotients here: ch & 0xe0 = 0xc0 says that ch is *)
(* one of 0xc0..0xdf.                                                      *)
(***************************************************************************)
EXTENDS Integers, Sequences

Bytes == 0..255

\* A character is a codepoint of at most 21 bits; 0x110000 and more are none
\* of Unicode's, but pass the decoder.
Codepoints == { ch \in Nat : ch < 2097152 }
IsUnicode(ch) == ch < 1114112

-----------------------------------------------------------------------------
(* to_utf8 of one character.                                               *)

\* A continuation byte has the six lowest bits of its argument.
Six(x) == 128 + (x % 64)

ToUtf8(ch) ==
    IF ch < 128 THEN <<ch>>
    ELSE IF ch < 2048 THEN <<192 + ch \div 64, Six(ch)>>
    ELSE IF ch < 65536 THEN <<224 + ch \div 4096, Six(ch \div 64), Six(ch)>>
    ELSE IF IsUnicode(ch)
         THEN <<240 + ch \div 262144, Six(ch \div 4096), Six(ch \div 64), Six(ch)>>
    ELSE <<63>>     \* '?'

-----------------------------------------------------------------------------
(* The decoder.                                                            *)

VARIABLES
    narrow,     \* the bytes so far
    remaining,  \* continuation bytes that are still to come
    codepoint,  \* what of the character is known
    lowerLimit, \* the least character that takes so many bytes
    wide,       \* the complete characters
    ok,         \* neither function has returned false yet
    again       \* to_utf8(wide)

decoder == <<narrow, remaining, codepoint, lowerLimit, wide, ok, again>>

DecoderInit ==
    /\ narrow = <<>> /\ wide = <<>> /\ again = <<>>
    /\ remaining = 0 /\ codepoint = 0 /\ lowerLimit = 0
    /\ ok = TRUE

Take(b) ==
    /\ ok
    /\ narrow' = Append(narrow, b)

Complete(ch) ==
    /\ wide' = Append(wide, ch)
    /\ again' = again \o ToUtf8(ch)

Ascii(b) ==
    /\ Take(b)
    /\ remaining = 0 /\ b < 128
    /\ Complete(b)
    /\ codepoint' = 0
    /\ UNCHANGED <<remaining, lowerLimit, ok>>

\* First byte of a character of n + 1 bytes: `payload' are its own bits.
Lead(b, n, payload, limit) ==
    /\ Take(b)
    /\ remaining = 0
    /\ remaining' = n
    /\ codepoint' = payload
    /\ lowerLimit' = limit
    /\ UNCHANGED <<wide, ok, again>>

LeadByte(b) ==
    \/ b \in 192..223 /\ Lead(b, 1, b - 192, 128)
    \/ b \in 224..239 /\ Lead(b, 2, b - 224, 2048)
    \/ b \in 240..247 /\ Lead(b, 3, b - 240, 65536)

Continuation(b) == b \in 128..191

\* (The fault takes what fits into fewer bytes.)
ContinueOverlong(b) ==
    /\ Take(b)
    /\ remaining > 0 /\ Continuation(b)
    /\ remaining' = remaining - 1
    /\ LET ch == codepoint * 64 + (b - 128)
       IN  /\ codepoint' = ch
           /\ IF remaining > 1 THEN UNCHANGED <<wide, again>> ELSE Complete(ch)
    /\ UNCHANGED <<lowerLimit, ok>>

Continue(b) ==
    /\ Take(b)
    /\ remaining > 0 /\ Continuation(b)
    /\ remaining' = remaining - 1
    /\ LET ch == codepoint * 64 + (b - 128)
       IN  /\ codepoint' = ch
           /\ IF remaining > 1 THEN UNCHANGED <<wide, again, ok>>
              ELSE IF ch < lowerLimit
                   THEN ok' = FALSE /\ UNCHANGED <<wide, again>>
                   ELSE Complete(ch) /\ UNCHANGED ok
    /\ UNCHANGED lowerLimit

Refuse(b) ==
    /\ Take(b)
    /\ \/ remaining = 0 /\ (Continuation(b) \/ b > 247)
       \/ remaining > 0 /\ ~Continuation(b)
    /\ ok' = FALSE
    /\ codepoint' = IF remaining = 0 THEN 0 ELSE codepoint
    /\ UNCHANGED <<remaining, lowerLimit, wide, again>>

Decode(b) == Ascii(b) \/ LeadByte(b) \/ Continue(b) \/ Refuse(b)

DecoderSpec == DecoderInit /\ [][\E b \in Bytes : Decode(b)]_decoder

-----------------------------------------------------------------------------
(* Properties.                                                             *)

\* Both functions count down from 3 at most, so that their cases 4 and 5 are
\* never taken, and no character needs more than 21 bits.
DecoderTypeOK ==
    /\ narrow \in Seq(Bytes)
    /\ remaining \in 0..3
    /\ codepoint \in Codepoints
    /\ lowerLimit \in {0, 128, 2048, 65536}
    /\ wide \in Seq(Codepoints)
    /\ ok \in BOOLEAN
    /\ again \in Seq(Bytes)

\* While a text is accepted, writing the characters that were read gives its
\* bytes back, but for those of a character that is not complete: no two
\* encodings of one character pass (utf8.hpp:137), and title case, which reads
\* and writes a text, changes nothing but case (diskrecord.cpp:288).
RoundTrip ==
    ok /\ (\A i \in DOMAIN wide : IsUnicode(wide[i])) =>
        /\ Len(again) <= Len(narrow)
        /\ Len(narrow) - Len(again) <= 3
        /\ \A i \in DOMAIN again : again[i] = narrow[i]
        /\ remaining = 0 => again = narrow
=============================================================================
