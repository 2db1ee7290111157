---------------------------- MODULE Texts_proofs ----------------------------
(***************************************************************************)
(* Proofs about Texts and the decoder of Unicode, for texts of any length, *)
(* any bytes and any C library: nothing that is accepted is lost, what the *)
(* importer compares does not depend on blanks and case, and what is       *)
(* written of a record is read back.                                       *)
(*                                                                         *)
(* Inductive are the types and encodings (TextsInv), that texts have no    *)
(* newlines (LinesInv), that what is stored has been cleaned once for all  *)
(* (StableInv), and how much of a record is back when the parser is at a   *)
(* byte of its file (ResumeInv).                                           *)
(***************************************************************************)
EXTENDS Texts, Format_proofs

(* The decoder. *)

AllUnicode == \A i \in DOMAIN wide : IsUnicode(wide[i])

\* Where in a character of two, three or four bytes the decoder is.
Within(limit, left, bound) ==
    lowerLimit = limit /\ remaining = left /\ codepoint < bound

Position ==
    \/ remaining = 0
    \/ Within(128, 1, 32)
    \/ Within(2048, 2, 16)  \/ Within(2048, 1, 1024)
    \/ Within(65536, 3, 8)  \/ Within(65536, 2, 512)  \/ Within(65536, 1, 32768)

\* The bytes of a character that is not complete: those its first bits have.
Pending ==
    IF remaining = 0 THEN <<>>
    ELSE IF lowerLimit = 128 THEN <<192 + codepoint>>
    ELSE IF lowerLimit = 2048
         THEN IF remaining = 2 THEN <<224 + codepoint>>
              ELSE <<224 + codepoint \div 64, Six(codepoint)>>
    ELSE IF remaining = 3 THEN <<240 + codepoint>>
    ELSE IF remaining = 2 THEN <<240 + codepoint \div 64, Six(codepoint)>>
    ELSE <<240 + codepoint \div 4096, Six(codepoint \div 64), Six(codepoint)>>

DecoderInv ==
    /\ DecoderTypeOK
    /\ ok => Position
    /\ ok /\ AllUnicode => narrow = again \o Pending

\* to_utf8 writes one to four bytes.
LEMMA Written ==
    ASSUME NEW ch \in Codepoints
    PROVE  ToUtf8(ch) \in Seq(Bytes)
<1>1. Six(ch) \in Bytes /\ Six(ch \div 64) \in Bytes /\ Six(ch \div 4096) \in Bytes
    BY SMT DEF Six, Bytes, Codepoints
<1>2. CASE ch < 128
    BY <1>2, SMT DEF ToUtf8, Bytes, Codepoints
<1>3. CASE 128 <= ch /\ ch < 2048
    <2>1. 192 + ch \div 64 \in Bytes
        BY <1>3, SMT DEF Bytes, Codepoints
    <2> QED BY <1>1, <1>3, <2>1, SMT DEF ToUtf8, Codepoints
<1>4. CASE 2048 <= ch /\ ch < 65536
    <2>1. 224 + ch \div 4096 \in Bytes
        BY <1>4, SMT DEF Bytes, Codepoints
    <2> QED BY <1>1, <1>4, <2>1, SMT DEF ToUtf8, Codepoints
<1>5. CASE 65536 <= ch /\ IsUnicode(ch)
    <2>1. 240 + ch \div 262144 \in Bytes
        BY <1>5, SMT DEF Bytes, Codepoints, IsUnicode
    <2> QED BY <1>1, <1>5, <2>1, SMT DEF ToUtf8, Codepoints
<1>6. CASE ~IsUnicode(ch)
    <2>1. ToUtf8(ch) = <<63>>
        BY <1>6, SMT DEF ToUtf8, Codepoints, IsUnicode
    <2> QED BY <2>1, SMT DEF Bytes
<1> QED BY <1>2, <1>3, <1>4, <1>5, <1>6, SMT DEF Codepoints, IsUnicode

LEMMA AppendBehind ==
    ASSUME NEW s \in Seq(Bytes), NEW t \in Seq(Bytes), NEW b \in Bytes
    PROVE  Append(s \o t, b) = s \o Append(t, b)
<1>1. /\ Append(s \o t, b) = (s \o t) \o <<b>>
      /\ Append(t, b) = t \o <<b>>
      /\ s \o t \in Seq(Bytes) /\ <<b>> \in Seq(Bytes)
    BY AppendProperties, ConcatProperties, SMT
<1>2. (s \o t) \o <<b>> = s \o (t \o <<b>>)
    BY <1>1, ConcatAssociative, SMTT(30)
<1> QED BY <1>1, <1>2

\* A character that is appended is one of Unicode's if all of them are.
LEMMA AllOfThem ==
    ASSUME NEW ch \in Codepoints, wide \in Seq(Codepoints),
           wide' = Append(wide, ch), AllUnicode'
    PROVE  AllUnicode /\ IsUnicode(ch)
<1>1. /\ DOMAIN wide' = 1..(Len(wide) + 1) /\ DOMAIN wide = 1..Len(wide)
      /\ \A i \in 1..Len(wide) : wide'[i] = wide[i]
      /\ wide'[Len(wide) + 1] = ch
      /\ Len(wide) \in Nat
    BY AppendProperties, SMT
<1> QED BY <1>1, SMT DEF AllUnicode

LEMMA PendingBytes ==
    ASSUME DecoderTypeOK, Position
    PROVE  Pending \in Seq(Bytes)
<1> USE DEF Within
<1>1. CASE remaining = 0
    BY <1>1, SMT DEF Pending
<1>2. CASE Within(128, 1, 32)
    <2>1. Pending = <<192 + codepoint>> /\ 192 + codepoint \in Bytes
        BY <1>2, SMT DEF Pending, DecoderTypeOK, Codepoints, Bytes
    <2> QED BY <2>1, SMT
<1>3. CASE Within(2048, 2, 16)
    <2>1. Pending = <<224 + codepoint>> /\ 224 + codepoint \in Bytes
        BY <1>3, SMT DEF Pending, DecoderTypeOK, Codepoints, Bytes
    <2> QED BY <2>1, SMT
<1>4. CASE Within(2048, 1, 1024)
    <2>1. Pending = <<224 + codepoint \div 64, Six(codepoint)>>
        BY <1>4, SMT DEF Pending
    <2>2. 224 + codepoint \div 64 \in Bytes /\ Six(codepoint) \in Bytes
        BY <1>4, SMT DEF DecoderTypeOK, Codepoints, Bytes, Six
    <2> QED BY <2>1, <2>2, SMT
<1>5. CASE Within(65536, 3, 8)
    <2>1. Pending = <<240 + codepoint>> /\ 240 + codepoint \in Bytes
        BY <1>5, SMT DEF Pending, DecoderTypeOK, Codepoints, Bytes
    <2> QED BY <2>1, SMT
<1>6. CASE Within(65536, 2, 512)
    <2>1. Pending = <<240 + codepoint \div 64, Six(codepoint)>>
        BY <1>6, SMT DEF Pending
    <2>2. 240 + codepoint \div 64 \in Bytes /\ Six(codepoint) \in Bytes
        BY <1>6, SMT DEF DecoderTypeOK, Codepoints, Bytes, Six
    <2> QED BY <2>1, <2>2, SMT
<1>7. CASE Within(65536, 1, 32768)
    <2>1. Pending = <<240 + codepoint \div 4096, Six(codepoint \div 64), Six(codepoint)>>
        BY <1>7, SMT DEF Pending
    <2>2. /\ 240 + codepoint \div 4096 \in Bytes
          /\ Six(codepoint \div 64) \in Bytes /\ Six(codepoint) \in Bytes
        BY <1>7, SMT DEF DecoderTypeOK, Codepoints, Bytes, Six
    <2> QED BY <2>1, <2>2, SMT
<1> QED BY <1>1, <1>2, <1>3, <1>4, <1>5, <1>6, <1>7 DEF Position

\* One more byte of a character that is not complete after it.
LEMMA MorePending ==
    ASSUME DecoderTypeOK, Position, remaining > 1,
           NEW b \in 128..191,
           remaining' = remaining - 1, lowerLimit' = lowerLimit,
           codepoint' = codepoint * 64 + (b - 128)
    PROVE  Position' /\ Pending' = Append(Pending, b)
<1> USE DEF Within
<1>0. codepoint \in Nat /\ codepoint < 32768
    BY SMT DEF DecoderTypeOK, Codepoints, Position
<1>s. codepoint' \div 64 = codepoint /\ Six(codepoint') = b
      /\ codepoint' \div 4096 = codepoint \div 64
    BY ONLY <1>0, b \in 128..191, codepoint' = codepoint * 64 + (b - 128), SMT DEF Six
<1>1. CASE Within(2048, 2, 16)
    <2>1. remaining' = 1 /\ lowerLimit' = 2048 /\ codepoint' < 1024
        BY <1>0, <1>1, SMT
    <2>3. Pending = <<224 + codepoint>> /\ Pending' = <<224 + codepoint, b>>
        BY <1>1, <2>1, <1>s, SMT DEF Pending
    <2> QED BY <2>1, <2>3, SMT DEF Position
<1>2. CASE Within(65536, 3, 8)
    <2>1. remaining' = 2 /\ lowerLimit' = 65536 /\ codepoint' < 512
        BY <1>0, <1>2, SMT
    <2>3. Pending = <<240 + codepoint>> /\ Pending' = <<240 + codepoint, b>>
        BY <1>2, <2>1, <1>s, SMT DEF Pending
    <2> QED BY <2>1, <2>3, SMT DEF Position
<1>3. CASE Within(65536, 2, 512)
    <2>1. remaining' = 1 /\ lowerLimit' = 65536 /\ codepoint' < 32768
        BY <1>0, <1>3, SMT
    <2>3. /\ Pending = <<240 + codepoint \div 64, Six(codepoint)>>
          /\ Pending' = <<240 + codepoint \div 64, Six(codepoint), b>>
        BY <1>3, <2>1, <1>s, SMT DEF Pending
    <2> QED BY <2>1, <2>3, SMT DEF Position
<1> QED BY <1>1, <1>2, <1>3, SMT DEF Position

\* The last byte of a character: to_utf8 writes the bytes it was read from.
LEMMA LastByte ==
    ASSUME DecoderTypeOK, Position, remaining = 1, NEW b \in 128..191,
           NEW ch, ch = codepoint * 64 + (b - 128)
    PROVE  /\ ch \in Codepoints
           /\ ch >= lowerLimit /\ IsUnicode(ch) => Append(Pending, b) = ToUtf8(ch)
<1> USE DEF Within
<1>0. codepoint \in Nat /\ codepoint < 32768
    BY SMT DEF DecoderTypeOK, Codepoints, Position
<1>s. /\ ch \in Codepoints /\ ch \div 64 = codepoint /\ Six(ch) = b
      /\ ch \div 4096 = codepoint \div 64
      /\ ch \div 262144 = codepoint \div 4096
    BY ONLY <1>0, b \in 128..191, ch = codepoint * 64 + (b - 128),
        SMT DEF Six, Codepoints
<1>1. CASE Within(128, 1, 32)
    <2>1. ch < 2048
        BY <1>0, <1>1, SMT
    <2>2. Pending = <<192 + codepoint>>
        BY <1>1, SMT DEF Pending
    <2>3. ch >= 128 => ToUtf8(ch) = <<192 + codepoint, b>>
        BY ONLY <2>1, <1>s, SMT DEF ToUtf8, Codepoints
    <2> QED BY <1>s, <1>1, <2>2, <2>3, SMT
<1>2. CASE Within(2048, 1, 1024)
    <2>1. ch < 65536
        BY <1>0, <1>2, SMT
    <2>2. Pending = <<224 + codepoint \div 64, Six(codepoint)>>
        BY <1>2, SMT DEF Pending
    <2>3. ch >= 2048 => ToUtf8(ch) = <<224 + codepoint \div 64, Six(codepoint), b>>
        BY ONLY <2>1, <1>s, SMT DEF ToUtf8, Codepoints
    <2> QED BY <1>s, <1>2, <2>2, <2>3, SMT
<1>3. CASE Within(65536, 1, 32768)
    <2>1. Pending = <<240 + codepoint \div 4096, Six(codepoint \div 64), Six(codepoint)>>
        BY <1>3, SMT DEF Pending
    <2>2. ch >= 65536 /\ IsUnicode(ch) => ToUtf8(ch)
            = <<240 + codepoint \div 4096, Six(codepoint \div 64), Six(codepoint), b>>
        BY ONLY <1>s, SMT DEF ToUtf8, Codepoints
    <2> QED BY <1>s, <1>3, <2>1, <2>2, SMT
<1> QED BY <1>1, <1>2, <1>3, SMT DEF Position

-----------------------------------------------------------------------------
\* The invariant of the decoder holds after every byte.
THEOREM DecoderInvariant == DecoderSpec => []DecoderInv
<1>1. DecoderInit => DecoderInv
    <2> SUFFICES ASSUME DecoderInit PROVE DecoderInv
        OBVIOUS
    <2>1. DecoderTypeOK /\ Position
        BY SMT DEF DecoderInit, DecoderTypeOK, Codepoints, Position
    <2>2. narrow = again \o Pending
        BY SMT DEF DecoderInit, Pending
    <2> QED BY <2>1, <2>2 DEF DecoderInv
<1>2. DecoderInv /\ [\E b \in Bytes : Decode(b)]_decoder => DecoderInv'
    <2> SUFFICES ASSUME DecoderInv, [\E b \in Bytes : Decode(b)]_decoder
                 PROVE  DecoderInv'
        OBVIOUS
    <2>0. DecoderTypeOK /\ (ok => Position) /\ (ok /\ AllUnicode => narrow = again \o Pending)
        BY DEF DecoderInv
    <2>1. CASE UNCHANGED decoder
        <3>1. UNCHANGED narrow /\ UNCHANGED remaining /\ UNCHANGED codepoint
              /\ UNCHANGED lowerLimit /\ UNCHANGED wide /\ UNCHANGED ok /\ UNCHANGED again
            BY <2>1 DEF decoder
        <3>2. DecoderTypeOK'
            BY <2>0, <3>1 DEF DecoderTypeOK
        <3>3. ok' => Position'
            BY <2>0, <3>1 DEF Position, Within
        <3>4. Pending' = Pending
            BY <3>1 DEF Pending
        <3>5. AllUnicode' => AllUnicode
            BY <3>1 DEF AllUnicode
        <3> QED BY <2>0, <3>1, <3>2, <3>3, <3>4, <3>5 DEF DecoderInv
    <2>2. ASSUME NEW b \in Bytes, Ascii(b) PROVE DecoderInv'
        <3>1. ok /\ Position /\ remaining = 0 /\ b < 128
            BY <2>0, <2>2 DEF Ascii, Take
        <3>2. b \in Codepoints /\ ToUtf8(b) = <<b>>
            BY <3>1, SMT DEF Codepoints, Bytes, ToUtf8
        <3>3. DecoderTypeOK'
            <4>1. narrow' \in Seq(Bytes)
                BY <2>0, <2>2, SMT DEF Ascii, Take, DecoderTypeOK
            <4>2. wide' \in Seq(Codepoints)
                BY <2>0, <2>2, <3>2, SMT DEF Ascii, Complete, DecoderTypeOK
            <4>3. again' \in Seq(Bytes)
                BY <2>0, <2>2, <3>2, ConcatProperties, Written
                DEF Ascii, Complete, DecoderTypeOK
            <4>4. remaining' \in 0..3 /\ codepoint' \in Codepoints
                  /\ lowerLimit' \in {0, 128, 2048, 65536} /\ ok' \in BOOLEAN
                BY <2>0, <2>2, SMT DEF Ascii, DecoderTypeOK, Codepoints
            <4> QED BY <4>1, <4>2, <4>3, <4>4 DEF DecoderTypeOK
        <3>4. Position' /\ Pending' = <<>> /\ Pending = <<>>
            BY <3>1, <2>2, SMT DEF Ascii, Position, Pending
        <3>5. AllUnicode' => narrow' = again'
            <4> SUFFICES ASSUME AllUnicode' PROVE narrow' = again'
                OBVIOUS
            <4>1. AllUnicode
                BY <2>0, <2>2, <3>2, AllOfThem DEF Ascii, Complete, DecoderTypeOK
            <4>2. narrow = again
                BY <2>0, <3>1, <3>4, <4>1, ConcatEmptySeq DEF DecoderTypeOK
            <4>3. narrow' = Append(narrow, b) /\ again' = again \o <<b>>
                BY <2>2, <3>2 DEF Ascii, Take, Complete
            <4> QED BY <2>0, <4>2, <4>3, AppendIsConcat DEF DecoderTypeOK
        <3>6. again' = again' \o Pending'
            BY <3>3, <3>4, ConcatEmptySeq DEF DecoderTypeOK
        <3> QED BY <3>3, <3>4, <3>5, <3>6 DEF DecoderInv
    <2>3. ASSUME NEW b \in Bytes, LeadByte(b) PROVE DecoderInv'
        <3>1. ok /\ Position /\ remaining = 0
            BY <2>0, <2>3 DEF LeadByte, Lead, Take
        <3>2. UNCHANGED <<wide, ok, again>> /\ narrow' = Append(narrow, b)
            BY <2>3 DEF LeadByte, Lead, Take
        <3>3. /\ Position' /\ Pending' = <<b>>
              /\ remaining' \in 0..3 /\ codepoint' \in Codepoints
              /\ lowerLimit' \in {0, 128, 2048, 65536}
            <4>1. CASE b \in 192..223 /\ Lead(b, 1, b - 192, 128)
                <5>1. remaining' = 1 /\ lowerLimit' = 128 /\ codepoint' = b - 192
                    BY <4>1 DEF Lead
                <5>2. Pending' = <<192 + (b - 192)>> /\ 192 + (b - 192) = b
                    BY <4>1, <5>1, SMT DEF Pending
                <5> QED BY <4>1, <5>1, <5>2, SMT DEF Position, Within, Codepoints
            <4>2. CASE b \in 224..239 /\ Lead(b, 2, b - 224, 2048)
                <5>1. remaining' = 2 /\ lowerLimit' = 2048 /\ codepoint' = b - 224
                    BY <4>2 DEF Lead
                <5>2. Pending' = <<224 + (b - 224)>> /\ 224 + (b - 224) = b
                    BY <4>2, <5>1, SMT DEF Pending
                <5> QED BY <4>2, <5>1, <5>2, SMT DEF Position, Within, Codepoints
            <4>3. CASE b \in 240..247 /\ Lead(b, 3, b - 240, 65536)
                <5>1. remaining' = 3 /\ lowerLimit' = 65536 /\ codepoint' = b - 240
                    BY <4>3 DEF Lead
                <5>2. Pending' = <<240 + (b - 240)>> /\ 240 + (b - 240) = b
                    BY <4>3, <5>1, SMT DEF Pending
                <5> QED BY <4>3, <5>1, <5>2, SMT DEF Position, Within, Codepoints
            <4> QED BY <2>3, <4>1, <4>2, <4>3 DEF LeadByte
        <3>4. DecoderTypeOK'
            <4>1. narrow' \in Seq(Bytes)
                BY <2>0, <3>2, SMT DEF DecoderTypeOK
            <4> QED BY <2>0, <3>2, <3>3, <4>1 DEF DecoderTypeOK
        <3>5. AllUnicode' => narrow' = again' \o Pending'
            <4> SUFFICES ASSUME AllUnicode' PROVE narrow' = again' \o Pending'
                OBVIOUS
            <4>1. Pending = <<>>
                BY <3>1, SMT DEF Pending
            <4>2. AllUnicode
                BY <3>2 DEF AllUnicode
            <4>3. narrow = again
                BY <2>0, <3>1, <4>1, <4>2, ConcatEmptySeq DEF DecoderTypeOK
            <4>4. Append(again, b) = again \o <<b>>
                BY <2>0, AppendIsConcat DEF DecoderTypeOK
            <4> QED BY <3>2, <3>3, <4>3, <4>4
        <3> QED BY <3>3, <3>4, <3>5 DEF DecoderInv
    <2>4. ASSUME NEW b \in Bytes, Continue(b) PROVE DecoderInv'
        <3> DEFINE ch == codepoint * 64 + (b - 128)
        <3>1. /\ ok /\ Position /\ remaining > 0 /\ b \in 128..191
              /\ narrow' = Append(narrow, b) /\ remaining' = remaining - 1
              /\ lowerLimit' = lowerLimit /\ codepoint' = ch
            BY <2>0, <2>4 DEF Continue, Take, Continuation
        <3>2. narrow' \in Seq(Bytes) /\ remaining' \in 0..3
            BY <2>0, <3>1, SMT DEF DecoderTypeOK
        <3>3. Pending \in Seq(Bytes) /\ again \in Seq(Bytes)
            BY <2>0, <3>1, PendingBytes DEF DecoderTypeOK
        <3>6. Append(again \o Pending, b) = again \o Append(Pending, b)
            BY <3>3, AppendBehind
        <3>4. CASE remaining > 1
            <4>1. UNCHANGED <<wide, again, ok>>
                BY <2>4, <3>4 DEF Continue
            <4>2. Position' /\ Pending' = Append(Pending, b)
                BY <2>0, <3>1, <3>4, MorePending
            <4>3. codepoint' \in Codepoints
                <5>1. codepoint \in Nat /\ codepoint < 32768
                    BY <2>0, <3>1, SMT DEF DecoderTypeOK, Codepoints, Position, Within
                <5> QED BY ONLY <3>1, <5>1, SMT DEF Codepoints
            <4>4. DecoderTypeOK'
                BY <2>0, <3>1, <3>2, <4>1, <4>3 DEF DecoderTypeOK
            <4>5. AllUnicode' => narrow' = again' \o Pending'
                <5> SUFFICES ASSUME AllUnicode' PROVE narrow' = again' \o Pending'
                    OBVIOUS
                <5>1. narrow = again \o Pending
                    BY <2>0, <3>1, <4>1 DEF AllUnicode
                <5> QED BY <3>1, <3>6, <4>1, <4>2, <5>1
            <4> QED BY <4>2, <4>4, <4>5 DEF DecoderInv
        <3>5. CASE remaining = 1
            <4>1. remaining' = 0
                BY <3>1, <3>5, SMT
            <4>2. Position' /\ Pending' = <<>>
                BY <4>1, SMT DEF Position, Pending
            <4>3. /\ ch \in Codepoints
                  /\ ch >= lowerLimit /\ IsUnicode(ch) => Append(Pending, b) = ToUtf8(ch)
                BY <2>0, <3>1, <3>5, LastByte
            <4>4. CASE ch < lowerLimit
                <5>1. ok' = FALSE /\ wide' = wide /\ again' = again
                    BY <2>4, <3>5, <4>4 DEF Continue
                <5>2. DecoderTypeOK'
                    <6>1. codepoint' \in Codepoints /\ lowerLimit' \in {0, 128, 2048, 65536}
                        BY <2>0, <3>1, <4>3 DEF DecoderTypeOK
                    <6>2. wide' \in Seq(Codepoints) /\ again' \in Seq(Bytes)
                        BY <2>0, <5>1 DEF DecoderTypeOK
                    <6>3. ok' \in BOOLEAN
                        BY <5>1, Zenon
                    <6> QED BY <3>2, <6>1, <6>2, <6>3 DEF DecoderTypeOK
                <5> QED BY <5>1, <5>2 DEF DecoderInv
            <4>5. CASE ~(ch < lowerLimit)
                <5>1. ok' = ok /\ wide' = Append(wide, ch) /\ again' = again \o ToUtf8(ch)
                    BY <2>4, <3>5, <4>5 DEF Continue, Complete
                <5>2. ch >= lowerLimit
                    <6> HIDE DEF ch
                    <6> QED BY <2>0, <4>3, <4>5, SMT DEF DecoderTypeOK, Codepoints
                <5>3. wide' \in Seq(Codepoints)
                    <6> HIDE DEF ch
                    <6> QED BY <2>0, <4>3, <5>1, SMT DEF DecoderTypeOK
                <5>4. again' \in Seq(Bytes)
                    <6> HIDE DEF ch
                    <6> QED BY <2>0, <4>3, <5>1, Written, ConcatProperties DEF DecoderTypeOK
                <5>5. DecoderTypeOK'
                    <6> HIDE DEF ch
                    <6> QED BY <2>0, <3>1, <3>2, <4>3, <5>1, <5>3, <5>4 DEF DecoderTypeOK
                <5>6. AllUnicode' => narrow' = again'
                    <6> HIDE DEF ch
                    <6> SUFFICES ASSUME AllUnicode' PROVE narrow' = again'
                        OBVIOUS
                    <6>1. AllUnicode /\ IsUnicode(ch)
                        BY <2>0, <4>3, <5>1, AllOfThem DEF DecoderTypeOK
                    <6>2. narrow = again \o Pending
                        BY <2>0, <3>1, <6>1
                    <6> QED BY <3>1, <3>6, <4>3, <5>1, <5>2, <6>1, <6>2
                <5>7. again' = again' \o Pending'
                    BY <4>2, <5>4, ConcatEmptySeq
                <5> QED BY <4>2, <5>5, <5>6, <5>7 DEF DecoderInv
            <4> QED BY <4>4, <4>5
        <3> QED BY <2>0, <3>1, <3>4, <3>5, SMT DEF DecoderTypeOK
    <2>5. ASSUME NEW b \in Bytes, Refuse(b) PROVE DecoderInv'
        <3>1. /\ ok' = FALSE /\ narrow' = Append(narrow, b)
              /\ codepoint' = 0 \/ codepoint' = codepoint
              /\ remaining' = remaining /\ lowerLimit' = lowerLimit
              /\ wide' = wide /\ again' = again
            BY <2>5 DEF Refuse, Take
        <3>2. narrow' \in Seq(Bytes)
            BY <2>0, <3>1, SMT DEF DecoderTypeOK
        <3>3. codepoint' \in Codepoints
            BY <2>0, <3>1, SMT DEF DecoderTypeOK, Codepoints
        <3>4. DecoderTypeOK'
            <4>1. /\ remaining' \in 0..3 /\ lowerLimit' \in {0, 128, 2048, 65536}
                  /\ wide' \in Seq(Codepoints) /\ again' \in Seq(Bytes)
                BY <2>0, <3>1 DEF DecoderTypeOK
            <4>2. ok' \in BOOLEAN
                BY <3>1, Zenon
            <4> QED BY <3>2, <3>3, <4>1, <4>2 DEF DecoderTypeOK
        <3> QED BY <3>1, <3>4 DEF DecoderInv
    <2> QED BY <2>1, <2>2, <2>3, <2>4, <2>5 DEF Decode
<1> QED BY <1>1, <1>2, PTL DEF DecoderSpec

\* Types, for any bytes: no case of the decoder is taken that needs more than
\* three continuation bytes (utf8.hpp:130).
THEOREM DecoderTypes == DecoderSpec => []DecoderTypeOK
<1>1. DecoderInv => DecoderTypeOK
    BY DEF DecoderInv
<1> QED BY <1>1, DecoderInvariant, PTL

\* A text that is accepted is written as it was read (utf8.hpp:153).
THEOREM NothingIsLost == DecoderSpec => []RoundTrip
<1>1. DecoderInv => RoundTrip
    <2> SUFFICES ASSUME DecoderInv, ok, AllUnicode
                 PROVE  /\ Len(again) <= Len(narrow)
                        /\ Len(narrow) - Len(again) <= 3
                        /\ \A i \in DOMAIN again : again[i] = narrow[i]
                        /\ remaining = 0 => again = narrow
        BY DEF RoundTrip, AllUnicode
    <2>1. DecoderTypeOK /\ Position /\ narrow = again \o Pending
        BY DEF DecoderInv
    <2>2. Pending \in Seq(Bytes)
        BY <2>1, PendingBytes
    <2>3. Len(Pending) <= 3
        BY SMT DEF Pending
    <2>4. /\ Len(narrow) = Len(again) + Len(Pending)
          /\ \A i \in 1..(Len(again) + Len(Pending)) :
                i <= Len(again) => narrow[i] = again[i]
          /\ Len(again) \in Nat /\ Len(Pending) \in Nat
          /\ DOMAIN again = 1..Len(again)
        BY <2>1, <2>2, ConcatProperties, SMT DEF DecoderTypeOK
    <2>5. remaining = 0 => again = narrow
        BY <2>1, ConcatEmptySeq DEF DecoderTypeOK, Pending
    <2> QED BY <2>3, <2>4, <2>5, SMT
<1> QED BY <1>1, DecoderInvariant, PTL
-----------------------------------------------------------------------------
(* Case. *)

\* The letters of ISO 8859-1 without their accents, in both cases.
LEMMA SubstCases ==
    ASSUME NEW ch \in 192..222
    PROVE  /\ Subst(ch) \in 65..90 \cup {Blank}
           /\ Subst(ch + 32) = IF Subst(ch) = Blank THEN Blank ELSE Subst(ch) + 32
BY SMT DEF Subst, Blank

\* What the lower case of a letter is, and that nothing else is looked up.
LEMMA LowerCase ==
    ASSUME NEW ch \in Upper
    PROVE  /\ ch \in Nat /\ LowerOf[ch] \in Nat /\ LowerOf[ch] > 64
           /\ ch \notin Ignored /\ LowerOf[ch] \notin Ignored
           /\ Lower(ch) = LowerOf[ch] /\ Lower(LowerOf[ch]) = LowerOf[ch]
           /\ ch < 256 => ch \in 65..90 \cup (192..222 \ {215}) /\ LowerOf[ch] = ch + 32
BY LibraryAssumption DEF Lower

LEMMA SameLower ==
    ASSUME NEW c, NEW d,
           ~(c < 48 \/ c \in 58..64), ~(d < 48 \/ d \in 58..64),
           Plain(c) \notin Ignored, Plain(d) \notin Ignored,
           Lower(Plain(c)) = Lower(Plain(d))
    PROVE  Normalized(c) = Normalized(d)
<1> DEFINE low(ch) == Lower(Plain(ch))
           left(ch) == ch < 48 \/ ch \in 58..64 \/ Plain(ch) \in Ignored
                        \/ low(ch) \in 91..96 \cup 123..191
<1>2. low(c) = low(d)
    OBVIOUS
<1>1. left(c) <=> left(d)
    <2>1. left(c) <=> low(c) \in 91..96 \cup 123..191
        <3> HIDE DEF low
        <3> QED  OBVIOUS
    <2>2. left(d) <=> low(d) \in 91..96 \cup 123..191
        <3> HIDE DEF low
        <3> QED  OBVIOUS
    <2> HIDE DEF low, left
    <2> QED  BY <1>2, <2>1, <2>2
<1>3. \A ch : Normalized(ch) = IF left(ch) THEN <<>> ELSE <<low(ch)>>
    BY Zenon DEF Normalized
<1> HIDE DEF low, left
<1> QED  BY <1>1, <1>2, <1>3, Zenon

\* A letter and its lower case are normalized to the same.
LEMMA CaseIsForgotten ==
    ASSUME NEW ch \in Upper, Normal(ch)
    PROVE  Normalized(LowerOf[ch]) = Normalized(ch)
<1> DEFINE l == LowerOf[ch]
<1>1. /\ ch \in Nat /\ l \in Nat /\ l > 64 /\ ch \notin Ignored /\ l \notin Ignored
      /\ Lower(ch) = l /\ Lower(l) = l
      /\ ch < 256 => ch \in 65..90 \cup (192..222 \ {215}) /\ l = ch + 32
    BY LowerCase
<1>2. ch > 255 => l \notin 192..255
    BY DEF Normal
<1> HIDE DEF l
<1>3. CASE ch \in 65..90 \/ ch > 255
    <2>1. Plain(ch) = ch /\ Plain(l) = l
        BY <1>1, <1>2, <1>3 DEF Plain
    <2>2. ~(ch < 48 \/ ch \in 58..64) /\ ~(l < 48 \/ l \in 58..64)
        BY <1>1, <1>3
    <2> QED  BY <1>1, <2>1, <2>2, SameLower DEF l
<1>4. CASE ch \in 192..222
    <2>1. l = ch + 32 /\ Plain(ch) = Subst(ch) /\ Plain(l) = Subst(ch + 32)
        BY <1>1, <1>4 DEF Plain
    <2>2. ~(ch < 48 \/ ch \in 58..64) /\ ~(l < 48 \/ l \in 58..64)
        BY <1>1, <1>4
    <2>3. CASE Subst(ch) = Blank
        <3>1. Plain(ch) = Blank /\ Plain(l) = Blank /\ Blank \in Ignored
            BY <1>4, <2>1, <2>3, SubstCases, LibraryAssumption DEF Blank
        <3> QED  BY <3>1 DEF Normalized, l
    <2>4. CASE Subst(ch) # Blank
        <3> DEFINE p == Subst(ch)
        <3>1. Plain(ch) = p /\ Plain(l) = p + 32 /\ p \in 65..90
            BY <1>4, <2>1, <2>4, SubstCases
        <3> HIDE DEF p
        <3>2. p \in Upper
            BY <3>1, LibraryAssumption
        <3>3. p < 256
            BY <3>1
        <3>4. /\ LowerOf[p] = p + 32 /\ Lower(p) = p + 32 /\ Lower(p + 32) = p + 32
              /\ p \notin Ignored /\ p + 32 \notin Ignored
            BY <3>2, <3>3, LowerCase
        <3>5. Plain(l) \notin Ignored /\ Plain(ch) \notin Ignored
            BY <3>1, <3>4
        <3>6. Lower(Plain(l)) = Lower(Plain(ch))
            BY <3>1, <3>4
        <3> QED  BY <2>2, <3>5, <3>6, SameLower DEF l
    <2> QED  BY <2>3, <2>4
<1>5. ch \in 65..90 \/ ch > 255 \/ ch \in 192..222
    BY <1>1
<1> QED  BY <1>3, <1>4, <1>5

\* Characters that differ by case are normalized to the same.
LEMMA SameButForCase ==
    ASSUME NEW c, NEW d, Normal(c), Normal(d), Lower(c) = Lower(d)
    PROVE  Normalized(c) = Normalized(d)
<1>1. Normalized(Lower(c)) = Normalized(c)
    BY CaseIsForgotten DEF Lower
<1>2. Normalized(Lower(d)) = Normalized(d)
    BY CaseIsForgotten DEF Lower
<1> QED  BY <1>1, <1>2

LEMMA SameTextsButForCase ==
    ASSUME NEW w, NEW v, Lowered(w) = Lowered(v),
           \A i \in DOMAIN w : Normal(w[i]),
           \A i \in DOMAIN v : Normal(v[i])
    PROVE  NormalizedChars(w) = NormalizedChars(v)
<1>1. DOMAIN w = DOMAIN v
    BY DEF Lowered
<1>2. \A i \in DOMAIN w : Lower(w[i]) = Lower(v[i])
    <2> TAKE i \in DOMAIN w
    <2>1. Lowered(w)[i] = Lower(w[i]) /\ Lowered(v)[i] = Lower(v[i])
        BY <1>1 DEF Lowered
    <2> QED  BY <2>1
<1>3. \A i \in DOMAIN w : Normalized(w[i]) = Normalized(v[i])
    BY <1>1, <1>2, SameButForCase
<1>4. [i \in DOMAIN w |-> Normalized(w[i])] = [i \in DOMAIN v |-> Normalized(v[i])]
    BY <1>1, <1>3
<1> QED  BY <1>4 DEF NormalizedChars

\* The characters of a text are among those of its record.
LEMMA CharsOfText ==
    ASSUME NEW r, NEW i \in DOMAIN TextsOf(r), NEW S,
           \A ch \in AllChars(r) : ch \in S
    PROVE  \A k \in DOMAIN FromUtf8(TextsOf(r)[i]) : FromUtf8(TextsOf(r)[i])[k] \in S
<1> TAKE k \in DOMAIN FromUtf8(TextsOf(r)[i])
<1>1. FromUtf8(TextsOf(r)[i])[k] \in ToSet(FromUtf8(TextsOf(r)[i]))
    BY DEF ToSet
<1>2. FromUtf8(TextsOf(r)[i])[k] \in AllChars(r)
    BY <1>1 DEF AllChars
<1> QED  BY <1>2

LEMMA CaseVersions ==
    ASSUME NEW r, NEW s, EqualLowercase(r, s), DOMAIN TextsOf(r) = DOMAIN TextsOf(s),
           \A ch \in AllChars(r) \cup AllChars(s) : Normal(ch)
    PROVE  NormalizedHash(r) = NormalizedHash(s)
<1> DEFINE R == TextsOf(r)  S == TextsOf(s)  N == {ch \in AllChars(r) \cup AllChars(s) : Normal(ch)}
<1>1. ASSUME NEW i \in DOMAIN R PROVE Normalize(R[i]) = Normalize(S[i])
    <2>1. Lowered(FromUtf8(R[i])) = Lowered(FromUtf8(S[i]))
        BY DEF EqualLowercase
    <2>2. \A ch \in AllChars(r) : ch \in N
        OBVIOUS
    <2>3. \A ch \in AllChars(s) : ch \in N
        OBVIOUS
    <2>4. \A ch \in N : Normal(ch)
        OBVIOUS
    <2> HIDE DEF N
    <2>5. \A k \in DOMAIN FromUtf8(R[i]) : Normal(FromUtf8(R[i])[k])
        BY <2>2, <2>4, CharsOfText
    <2>6. \A k \in DOMAIN FromUtf8(S[i]) : Normal(FromUtf8(S[i])[k])
        BY <2>3, <2>4, CharsOfText
    <2> QED  BY <2>1, <2>5, <2>6, SameTextsButForCase DEF Normalize
<1>2. [i \in DOMAIN R |-> Normalize(R[i])] = [i \in DOMAIN S |-> Normalize(S[i])]
    BY <1>1
<1> QED  BY <1>2 DEF NormalizedHash

\* As many songs are as many texts.
LEMMA TextsOfRecord ==
    ASSUME NEW r, r.songs \in Seq(Seq(Int))
    PROVE  /\ DOMAIN TextsOf(r) = 1..(Len(r.songs) + 2)
           /\ Len(TextsOf(r)) = Len(r.songs) + 2
           /\ TextsOf(r)[1] = r.artist /\ TextsOf(r)[2] = r.title
           /\ \A i \in 1..Len(r.songs) : TextsOf(r)[i + 2] = r.songs[i]
           /\ \A i \in 3..(Len(r.songs) + 2) : TextsOf(r)[i] = r.songs[i - 2]
<1> DEFINE q == r.songs  n == Len(q)  x == <<r.artist, r.title>> \o q
<1>1. n \in Nat
    OBVIOUS
<1>2. Len(x) = n + 2 /\ DOMAIN x = 1..(n + 2)
    OBVIOUS
<1>3. x[1] = r.artist /\ x[2] = r.title
    OBVIOUS
<1>4. \A i \in 3..(n + 2) : x[i] = q[i - 2]
    OBVIOUS
<1> HIDE DEF x, n, q
<1>5. \A i \in 1..n : x[i + 2] = q[i]
    <2> TAKE i \in 1..n
    <2>1. i + 2 \in 3..(n + 2) /\ (i + 2) - 2 = i
        BY <1>1
    <2> QED  BY <1>4, <2>1
<1>6. TextsOf(r) = x
    BY DEF TextsOf, x, q
<1> QED  BY <1>2, <1>3, <1>4, <1>5, <1>6 DEF n, q

-----------------------------------------------------------------------------
(* from_utf8. *)

\* What is known of the state of the machine.
States == [left: 0..3, bits: Nat, limit: Nat, chars: Seq(Int), good: BOOLEAN]

LEMMA FreshType == Fresh \in States
BY DEF Fresh, States

LEMMA StateFields ==
    ASSUME NEW d \in States
    PROVE  /\ d.left \in 0..3 /\ d.bits \in Nat /\ d.limit \in Nat
           /\ d.chars \in Seq(Int) /\ d.good \in BOOLEAN
BY DEF States

\* What the steps change of a state.
LEMMA RefusedType ==
    ASSUME NEW d \in States
    PROVE  /\ Refused(d) \in States
           /\ Refused(d).good = FALSE
BY DEF States, Refused

LEMMA WithChar ==
    ASSUME NEW d \in States, NEW b \in Int
    PROVE  /\ AddChar(d, b) \in States
           /\ AddChar(d, b).chars = Append(d.chars, b) /\ AddChar(d, b).good = d.good
           /\ AddChar(d, b).left = 0 /\ AddChar(d, b).bits = 0 /\ AddChar(d, b).limit = 0
<1>1. Append(d.chars, b) \in Seq(Int)
    BY StateFields
<1>2. AddChar(d, b) = [left |-> 0, bits |-> 0, limit |-> 0,
                       chars |-> Append(d.chars, b), good |-> d.good]
    BY DEF AddChar
<1> QED  BY <1>1, <1>2, StateFields DEF States

LEMMA FirstByteType ==
    ASSUME NEW d \in States, NEW n \in 1..3, NEW bits \in Nat, NEW limit \in Nat
    PROVE  /\ FirstByte(d, n, bits, limit) \in States
           /\ FirstByte(d, n, bits, limit).chars = d.chars
           /\ FirstByte(d, n, bits, limit).good = d.good
           /\ FirstByte(d, n, bits, limit).left = n
           /\ FirstByte(d, n, bits, limit).bits = bits
           /\ FirstByte(d, n, bits, limit).limit = limit
<1>1. FirstByte(d, n, bits, limit) =
        [left |-> n, bits |-> bits, limit |-> limit, chars |-> d.chars, good |-> d.good]
    BY DEF FirstByte
<1>2. n \in 0..3
    OBVIOUS
<1> QED  BY <1>1, <1>2, StateFields DEF States

LEMMA LaterByteType ==
    ASSUME NEW d \in States, NEW bits \in Nat, d.left > 0
    PROVE  /\ LaterByte(d, bits) \in States
           /\ d.left > 1 =>
                /\ LaterByte(d, bits).left = d.left - 1
                /\ LaterByte(d, bits).bits = bits
                /\ LaterByte(d, bits).limit = d.limit
                /\ LaterByte(d, bits).chars = d.chars
                /\ LaterByte(d, bits).good = d.good
           /\ d.left = 1 /\ bits < d.limit => LaterByte(d, bits).good = FALSE
           /\ d.left = 1 /\ bits >= d.limit => LaterByte(d, bits) = AddChar(d, bits)
<1>1. CASE d.left > 1
    <2>1. LaterByte(d, bits) = [d EXCEPT !.left = d.left - 1, !.bits = bits]
        BY <1>1 DEF LaterByte
    <2>2. d.left - 1 \in 0..3
        BY <1>1, StateFields
    <2>3. LaterByte(d, bits) =
            [left |-> d.left - 1, bits |-> bits, limit |-> d.limit,
             chars |-> d.chars, good |-> d.good]
        BY <2>1 DEF States
    <2> QED  BY <1>1, <2>3, <2>2, StateFields DEF States
<1>2. CASE d.left = 1 /\ bits < d.limit
    <2>1. LaterByte(d, bits) = Refused(d)
        BY <1>2 DEF LaterByte
    <2>2. ~(bits >= d.limit)
        BY <1>2, StateFields
    <2>3. ~(d.left > 1)
        BY <1>2
    <2> QED  BY <1>2, <2>1, <2>2, <2>3, RefusedType
<1>3. CASE d.left = 1 /\ ~(bits < d.limit)
    <2>1. ~(d.left > 1)
        BY <1>3
    <2>2. LaterByte(d, bits) = AddChar(d, bits)
        BY <1>3, <2>1 DEF LaterByte
    <2> QED  BY <1>3, <2>1, <2>2, WithChar
<1>4. d.left = 1 \/ d.left > 1
    BY StateFields
<1> QED  BY <1>1, <1>2, <1>3, <1>4

\* The step, case by case.
LEMMA NothingAfterRefusal ==
    ASSUME NEW d, ~d.good, NEW b
    PROVE  NextByte(d, b) = d
BY DEF NextByte

LEMMA NextFirstByte ==
    ASSUME NEW d, d.good, d.left = 0, NEW b \in Int
    PROVE  /\ b < 128 => NextByte(d, b) = AddChar(d, b)
           /\ b \in 192..223 => NextByte(d, b) = FirstByte(d, 1, b - 192, 128)
           /\ b \in 224..239 => NextByte(d, b) = FirstByte(d, 2, b - 224, 2048)
           /\ b \in 240..247 => NextByte(d, b) = FirstByte(d, 3, b - 240, 65536)
           /\ b >= 128 /\ b \notin 192..247 => NextByte(d, b) = Refused(d)
<1> DEFINE two == FirstByte(d, 1, b - 192, 128)
           three == FirstByte(d, 2, b - 224, 2048)
           four == FirstByte(d, 3, b - 240, 65536)
<1>1. NextByte(d, b) =
        IF b < 128 THEN AddChar(d, b) ELSE IF b \in 192..223 THEN two
        ELSE IF b \in 224..239 THEN three ELSE IF b \in 240..247 THEN four ELSE Refused(d)
    BY DEF NextByte
<1> HIDE DEF two, three, four
<1>2. /\ b < 128 => NextByte(d, b) = AddChar(d, b)
      /\ b \in 192..223 => NextByte(d, b) = two
      /\ b \in 224..239 => NextByte(d, b) = three
      /\ b \in 240..247 => NextByte(d, b) = four
      /\ b >= 128 /\ b \notin 192..247 => NextByte(d, b) = Refused(d)
    BY <1>1
<1> QED  BY <1>2 DEF two, three, four

LEMMA NextLaterByte ==
    ASSUME NEW d, d.good, d.left # 0, NEW b
    PROVE  NextByte(d, b) = IF Continuation(b) THEN LaterByte(d, d.bits * 64 + (b - 128))
                            ELSE Refused(d)
BY DEF NextByte

LEMMA NextByteType ==
    ASSUME NEW d \in States, NEW b \in Int
    PROVE  NextByte(d, b) \in States
<1>1. Refused(d) \in States
    BY RefusedType
<1>2. AddChar(d, b) \in States
    BY WithChar
<1>3. CASE ~d.good
    BY <1>3, NothingAfterRefusal
<1>4. CASE d.good /\ d.left = 0
    <2> DEFINE two == FirstByte(d, 1, b - 192, 128)
               three == FirstByte(d, 2, b - 224, 2048)
               four == FirstByte(d, 3, b - 240, 65536)
    <2>1. ASSUME b \in 192..223 PROVE two \in States
        <3>1. b - 192 \in Nat
            BY <2>1
        <3> QED  BY <3>1, FirstByteType
    <2>2. ASSUME b \in 224..239 PROVE three \in States
        <3>1. b - 224 \in Nat
            BY <2>2
        <3> QED  BY <3>1, FirstByteType
    <2>3. ASSUME b \in 240..247 PROVE four \in States
        <3>1. b - 240 \in Nat
            BY <2>3
        <3> QED  BY <3>1, FirstByteType
    <2>4. /\ b < 128 => NextByte(d, b) = AddChar(d, b)
          /\ b \in 192..223 => NextByte(d, b) = two
          /\ b \in 224..239 => NextByte(d, b) = three
          /\ b \in 240..247 => NextByte(d, b) = four
          /\ b >= 128 /\ b \notin 192..247 => NextByte(d, b) = Refused(d)
        BY <1>4, NextFirstByte
    <2> HIDE DEF two, three, four
    <2> QED  BY <1>1, <1>2, <2>1, <2>2, <2>3, <2>4
<1>5. CASE d.good /\ d.left # 0
    <2> DEFINE later == LaterByte(d, d.bits * 64 + (b - 128))
    <2>1. NextByte(d, b) = IF Continuation(b) THEN later ELSE Refused(d)
        BY <1>5, NextLaterByte
    <2>2. ASSUME Continuation(b) PROVE later \in States
        <3>1. d.bits * 64 + (b - 128) \in Nat /\ d.left > 0
            BY <1>5, <2>2, StateFields DEF Continuation
        <3> QED  BY <3>1, LaterByteType
    <2> HIDE DEF later
    <2> QED  BY <1>1, <2>1, <2>2
<1> QED  BY <1>3, <1>4, <1>5

\* The states after each byte.
DecodedUpTo(s) ==
    CHOOSE f : f = [i \in 0..Len(s) |-> IF i = 0 THEN Fresh ELSE NextByte(f[i - 1], s[i])]

\* The recursion over the bytes of a text is defined.
LEMMA DecodedRecursion ==
    ASSUME NEW s \in Text
    PROVE  /\ DecodedUpTo(s) \in [0..Len(s) -> States]
           /\ DecodedUpTo(s)[0] = Fresh
           /\ \A j \in 1..Len(s) :
                DecodedUpTo(s)[j] = NextByte(DecodedUpTo(s)[j - 1], s[j])
<1> DEFINE n == Len(s)
           V == States
           next(i, v) == NextByte(v, s[i])
           step == [p \in (1..n) \X V |-> next(p[1], p[2])]
           body(f, j) == IF j = 0 THEN Fresh ELSE next(j, f[j - 1])
<1>1. n \in Nat /\ Fresh \in V
    BY FreshType DEF Text
<1>2. ASSUME NEW i \in 1..n, NEW v \in V
      PROVE  next(i, v) \in V
    <2>1. s[i] \in Int
        BY DEF Text
    <2> QED  BY <2>1, NextByteType
<1> HIDE DEF next
<1>3. \A i \in 1..n, v \in V : step[<<i, v>>] = next(i, v)
    OBVIOUS
<1> HIDE DEF step
<1>4. StaysIn(V, n, step)
    BY <1>2, <1>3 DEF StaysIn
<1>5. PICK f \in [0..n -> V] : IsRecursion(f, n, Fresh, step)
    <2> HIDE DEF n, V
    <2> QED  BY <1>1, <1>4, RecursionExists
<1>6. ASSUME NEW j \in 0..n PROVE f[j] = body(f, j)
    <2>1. CASE j = 0
        BY <1>5, <2>1 DEF IsRecursion
    <2>2. CASE j # 0
        <3>1. j \in 1..n /\ j - 1 \in 0..n
            BY <1>1, <2>2
        <3>2. f[j] = step[<<j, f[j - 1]>>] /\ f[j - 1] \in V
            BY <1>5, <3>1 DEF IsRecursion
        <3> QED  BY <1>3, <2>2, <3>1, <3>2
    <2> QED  BY <2>1, <2>2
<1>7. DecodedUpTo(s) = CHOOSE g : g = [j \in 0..n |-> body(g, j)]
    BY DEF DecodedUpTo, next
<1> HIDE DEF body
<1>8. f = [j \in 0..n |-> body(f, j)]
    BY <1>6
<1>9. DecodedUpTo(s) = [j \in 0..n |-> body(DecodedUpTo(s), j)]
    BY <1>7, <1>8
<1> DEFINE F == DecodedUpTo(s)
<1> HIDE DEF F
<1>10. F = [j \in 0..n |-> body(F, j)]
    BY <1>9 DEF F
<1>11. \A j \in 0..n : F[j] = body(F, j)
    BY <1>10
<1>12. F[0] = Fresh
    BY <1>1, <1>11 DEF body
<1>13. ASSUME NEW j \in 1..n PROVE F[j] = next(j, F[j - 1])
    <2>1. j \in 0..n /\ j # 0
        BY <1>1
    <2> QED  BY <1>11, <2>1 DEF body
<1>14. \A j \in 0..n : F[j] \in V
    <2> DEFINE T == {j \in 0..n : F[j] \in V}
    <2> HIDE DEF V
    <2>1. 0 \in T
        BY <1>1, <1>12
    <2>2. ASSUME NEW j \in 1..n, j - 1 \in T PROVE j \in T
        BY <1>1, <1>2, <1>13, <2>2
    <2>3. \A j \in 0..n : j \in T
        <3> HIDE DEF T
        <3> QED  BY <1>1, <2>1, <2>2, InductionUpTo
    <2> QED  BY <2>3
<1>15. F \in [0..n -> V]
    BY <1>10, <1>14
<1> QED  BY <1>12, <1>13, <1>15 DEF next, F

LEMMA DecodedIs ==
    ASSUME NEW s
    PROVE  Decoded(s) = DecodedUpTo(s)[Len(s)]
BY DEF Decoded, DecodedUpTo

\* A text that is longer by a byte.
LEMMA DecodedAppend ==
    ASSUME NEW s \in Text, NEW b \in Int
    PROVE  Decoded(Append(s, b)) = NextByte(Decoded(s), b)
<1> DEFINE t == Append(s, b)  f == DecodedUpTo(s)  g == DecodedUpTo(t)  n == Len(s)
           T == {i \in 0..n : f[i] = g[i]}
<1>1. t \in Text /\ Len(t) = n + 1 /\ t[n + 1] = b /\ n \in Nat /\ \A i \in 1..n : t[i] = s[i]
    BY DEF Text
<1> HIDE DEF t
<1>2. f[0] = Fresh /\ \A i \in 1..n : f[i] = NextByte(f[i - 1], s[i])
    BY DecodedRecursion
<1>3. g[0] = Fresh /\ \A i \in 1..(n + 1) : g[i] = NextByte(g[i - 1], t[i])
    BY <1>1, DecodedRecursion
<1> HIDE DEF f, g, n
<1>4. 0 \in T
    BY <1>1, <1>2, <1>3
<1>5. ASSUME NEW i \in 1..n, i - 1 \in T PROVE i \in T
    BY <1>1, <1>2, <1>3, <1>5
<1>6. \A i \in 0..n : i \in T
    <2> HIDE DEF T
    <2> QED  BY <1>1, <1>4, <1>5, InductionUpTo
<1>7. g[n] = f[n]
    BY <1>1, <1>6
<1>8. g[n + 1] = NextByte(g[n], b)
    <2>1. n + 1 \in 1..(n + 1) /\ (n + 1) - 1 = n
        BY <1>1
    <2> QED  BY <1>1, <1>3, <2>1
<1>9. Decoded(t) = g[n + 1] /\ Decoded(s) = f[n]
    BY <1>1, DecodedIs DEF f, g, n
<1> QED  BY <1>7, <1>8, <1>9 DEF t

LEMMA DecodedEmpty == Decoded(<<>>) = Fresh
<1>1. <<>> \in Text /\ Len(<<>>) = 0
    BY DEF Text
<1>2. DecodedUpTo(<<>>)[0] = Fresh
    BY <1>1, DecodedRecursion
<1> QED  BY <1>1, <1>2, DecodedIs

LEMMA DecodedType ==
    ASSUME NEW s \in Text
    PROVE  Decoded(s) \in States /\ FromUtf8(s) \in Text
<1>1. DecodedUpTo(s) \in [0..Len(s) -> States] /\ Len(s) \in 0..Len(s)
    BY DecodedRecursion DEF Text
<1>2. Decoded(s) \in States
    BY <1>1, DecodedIs
<1> QED  BY <1>2 DEF FromUtf8, States, Text

-----------------------------------------------------------------------------
(* What is written is read back, character by character. *)

LEMMA ToUtf8Type ==
    ASSUME NEW ch \in Int
    PROVE  ToUtf8(ch) \in Text
<1>1. Six(ch) \in Int /\ Six(ch \div 64) \in Int /\ Six(ch \div 4096) \in Int
    BY DEF Six
<1>2. 192 + ch \div 64 \in Int /\ 224 + ch \div 4096 \in Int /\ 240 + ch \div 262144 \in Int
    OBVIOUS
<1> QED  BY <1>1, <1>2 DEF ToUtf8, Text

LEMMA WideAppend ==
    ASSUME NEW w \in Text, NEW ch \in Int
    PROVE  WideToUtf8(Append(w, ch)) = WideToUtf8(w) \o ToUtf8(ch)
<1> DEFINE v == Append(w, ch)
           ww == [i \in DOMAIN w |-> ToUtf8(w[i])]
           vv == [i \in DOMAIN v |-> ToUtf8(v[i])]
<1>1. /\ DOMAIN w = 1..Len(w) /\ DOMAIN v = 1..(Len(w) + 1) /\ Len(w) \in Nat
      /\ v[Len(w) + 1] = ch /\ \A i \in 1..Len(w) : v[i] = w[i] /\ w[i] \in Int
    BY DEF Text
<1>2. ToUtf8(ch) \in Text /\ \A i \in 1..Len(w) : ToUtf8(w[i]) \in Text
    BY <1>1, ToUtf8Type
<1>3. ww \in Seq(Text) /\ Len(ww) = Len(w)
    BY <1>1, <1>2
<1>4. vv = Append(ww, ToUtf8(ch))
    <2> HIDE DEF v
    <2>1. Append(ww, ToUtf8(ch)) = [i \in 1..(Len(w) + 1) |-> IF i = Len(w) + 1 THEN ToUtf8(ch) ELSE ww[i]]
        BY <1>2, <1>3, AppendProperties
    <2>2. \A i \in 1..(Len(w) + 1) : ToUtf8(v[i]) = IF i = Len(w) + 1 THEN ToUtf8(ch) ELSE ww[i]
        BY <1>1
    <2> QED  BY <1>1, <2>1, <2>2
<1> HIDE DEF ww, vv, v
<1>5. FlattenSeq(Append(ww, ToUtf8(ch))) = FlattenSeq(ww) \o ToUtf8(ch)
    BY <1>2, <1>3, FlattenAppend DEF Text
<1>6. WideToUtf8(w) = FlattenSeq(ww) /\ WideToUtf8(v) = FlattenSeq(vv)
    BY DEF WideToUtf8, ww, vv
<1> QED  BY <1>4, <1>5, <1>6 DEF v

LEMMA WideType ==
    ASSUME NEW w \in Text
    PROVE  WideToUtf8(w) \in Text
<1> DEFINE ww == [i \in DOMAIN w |-> ToUtf8(w[i])]
<1>1. DOMAIN w = 1..Len(w) /\ Len(w) \in Nat /\ \A i \in 1..Len(w) : w[i] \in Int
    BY DEF Text
<1>2. \A i \in 1..Len(w) : ToUtf8(w[i]) \in Text
    BY <1>1, ToUtf8Type
<1>3. ww \in Seq(Text)
    BY <1>1, <1>2
<1> HIDE DEF ww
<1>4. FlattenSeq(ww) \in Text
    BY <1>3, FlattenIs DEF Text
<1> QED  BY <1>4 DEF WideToUtf8, ww

LEMMA WideEmpty == WideToUtf8(<<>>) = <<>>
<1> DEFINE ww == [i \in DOMAIN <<>> |-> ToUtf8(<<>>[i])]
<1>1. ww = <<>>
    OBVIOUS
<1> HIDE DEF ww
<1>2. FlattenSeq(ww) = <<>>
    BY <1>1 DEF FlattenSeq
<1> QED  BY <1>2 DEF WideToUtf8, ww

LEMMA SixBits ==
    ASSUME NEW x \in Nat
    PROVE  Continuation(Six(x)) /\ (x \div 64) * 64 + (Six(x) - 128) = x
BY DEF Continuation, Six

\* The characters of two, three and four bytes.
LeastOfThree == 2048
LeastOfFour == 65536
Two(ch) == ch \in 128..2047
Three(ch) == ch \in Nat /\ ch >= LeastOfThree /\ ch < 65536
Four(ch) == ch \in Nat /\ ch >= LeastOfFour /\ ch < 1114112

\* The six lowest bits of a character are in its last byte.
Shifted(x, y) == y = x \div 64

\* The first byte of a character, one in the middle of it, and the last one.
LEMMA MiddleByte ==
    ASSUME NEW d \in States, d.good, d.left > 1, NEW x \in Nat,
           NEW y, Shifted(x, y), y = d.bits, NEW e, e = NextByte(d, Six(x))
    PROVE  /\ e \in States /\ e.good = d.good /\ e.left = d.left - 1 /\ e.bits = x
           /\ e.limit = d.limit /\ e.chars = d.chars
<1>1. d.left # 0 /\ d.left > 0
    BY StateFields
<1>2. Continuation(Six(x)) /\ d.bits * 64 + (Six(x) - 128) = x
    <2>1. Continuation(Six(x)) /\ y * 64 + (Six(x) - 128) = x
        BY SixBits DEF Shifted
    <2> QED  BY <2>1, Zenon
<1>3. NextByte(d, Six(x)) = LaterByte(d, x)
    <2>1. NextByte(d, Six(x)) = LaterByte(d, d.bits * 64 + (Six(x) - 128))
        BY <1>1, <1>2, NextLaterByte, Zenon
    <2> QED  BY <1>2, <2>1, Zenon
<1> DEFINE l == LaterByte(d, x)
<1>4. /\ l \in States
      /\ d.left > 1 =>
            /\ l.left = d.left - 1 /\ l.bits = x /\ l.limit = d.limit
            /\ l.chars = d.chars /\ l.good = d.good
    BY <1>1, LaterByteType, Zenon
<1>5. e = l
    BY <1>3, Zenon
<1> HIDE DEF l
<1> QED  BY <1>4, <1>5, Zenon

LEMMA FinalByte ==
    ASSUME NEW d \in States, d.good, d.left = 1, NEW x \in Nat,
           NEW y, Shifted(x, y), y = d.bits, x >= d.limit
    PROVE  NextByte(d, Six(x)) = AddChar(d, x)
<1>1. d.left # 0 /\ d.left > 0
    OBVIOUS
<1>2. Continuation(Six(x)) /\ d.bits * 64 + (Six(x) - 128) = x
    <2>1. Continuation(Six(x)) /\ y * 64 + (Six(x) - 128) = x
        BY SixBits DEF Shifted
    <2> QED  BY <2>1, Zenon
<1>3. NextByte(d, Six(x)) = LaterByte(d, x)
    <2>1. NextByte(d, Six(x)) = LaterByte(d, d.bits * 64 + (Six(x) - 128))
        BY <1>1, <1>2, NextLaterByte, Zenon
    <2> QED  BY <1>2, <2>1, Zenon
<1> QED  BY <1>1, <1>3, LaterByteType

LEMMA TwoBytesRead ==
    ASSUME NEW d \in States, d.good, d.left = 0, NEW ch, Two(ch)
    PROVE  NextByte(NextByte(d, 192 + ch \div 64), Six(ch)) = AddChar(d, ch)
<1> DEFINE y == ch \div 64  b == 192 + y  e == NextByte(d, b)
<1>1. b \in Int /\ b \in 192..223 /\ b - 192 = y /\ y \in Nat /\ Shifted(ch, y)
    BY DEF Two, Shifted
<1>2. ch >= 128 /\ ch \in Nat /\ 1 \in 1..3 /\ 128 \in Nat
    BY DEF Two
<1>0. Shifted(ch, y)
    BY DEF Shifted
<1> HIDE DEF b, y
<1>3. e = FirstByte(d, 1, y, 128)
    <2>1. e = FirstByte(d, 1, b - 192, 128)
        BY <1>1, NextFirstByte
    <2> QED  BY <1>1, <2>1
<1> HIDE DEF e
<1>4. /\ e \in States /\ e.chars = d.chars /\ e.good = d.good /\ e.left = 1
      /\ e.bits = y /\ e.limit = 128
    <2>1. e = [left |-> 1, bits |-> y, limit |-> 128, chars |-> d.chars, good |-> d.good]
        BY <1>3 DEF FirstByte
    <2> QED  BY <1>1, <2>1, StateFields DEF States
<1>5. NextByte(e, Six(ch)) = AddChar(e, ch)
    <2>1. e.good /\ ch >= e.limit /\ y = e.bits
        BY <1>2, <1>4
    <2> QED  BY <1>0, <1>2, <1>4, <2>1, FinalByte
<1>6. AddChar(e, ch) = AddChar(d, ch)
    BY <1>4 DEF AddChar
<1> QED  BY <1>5, <1>6 DEF e, b, y

LEMMA ThreeBytesRead ==
    ASSUME NEW d \in States, d.good, d.left = 0, NEW ch, Three(ch)
    PROVE  NextByte(NextByte(NextByte(d, 224 + ch \div 4096), Six(ch \div 64)), Six(ch))
                = AddChar(d, ch)
<1> DEFINE y == ch \div 4096  z == ch \div 64
           b == 224 + y  e == NextByte(d, b)  f == NextByte(e, Six(z))
<1>1. ch >= LeastOfThree /\ ch \in Nat /\ LeastOfThree \in Nat
    BY SMT DEF Three, LeastOfThree
<1>2. b \in Int /\ b \in 224..239 /\ b - 224 = y /\ y \in Nat /\ z \in Nat
    <2>1. y \in Nat /\ z \in Nat
        BY <1>1, SMT
    <2>2. y <= 15
        BY SMT DEF Three, LeastOfThree
    <2> HIDE DEF y, z
    <2> QED  BY <2>1, <2>2, SMT
<1>3. Shifted(z, y)
    BY <1>1, SMT DEF Shifted
<1>4. Shifted(ch, z)
    BY <1>1, SMT DEF Shifted
<1> HIDE DEF b, y, z
<1>5. e = FirstByte(d, 2, y, LeastOfThree)
    <2>1. e = FirstByte(d, 2, b - 224, LeastOfThree)
        BY <1>2, NextFirstByte, SMT DEF LeastOfThree
    <2> QED  BY <1>2, <2>1
<1> HIDE DEF e
<1>6. /\ e \in States /\ e.chars = d.chars /\ e.good = d.good /\ e.left = 2
      /\ e.bits = y /\ e.limit = LeastOfThree
    <2>1. e = [left |-> 2, bits |-> y, limit |-> LeastOfThree,
               chars |-> d.chars, good |-> d.good]
        BY <1>5 DEF FirstByte
    <2> QED  BY <1>1, <1>2, <2>1, StateFields DEF States
<1>7. /\ f \in States /\ f.good = d.good /\ f.left = 1 /\ f.bits = z
      /\ f.limit = LeastOfThree /\ f.chars = d.chars
    <2>1. e.good /\ e.left > 1 /\ y = e.bits
        BY <1>6
    <2>2. /\ f \in States /\ f.good = e.good /\ f.left = e.left - 1 /\ f.bits = z
          /\ f.limit = e.limit /\ f.chars = e.chars
        BY <1>2, <1>3, <1>6, <2>1, MiddleByte, Zenon
    <2> HIDE DEF f
    <2> QED  BY <1>6, <2>2
<1> HIDE DEF f
<1>8. NextByte(f, Six(ch)) = AddChar(f, ch)
    <2>1. f.good /\ ch >= f.limit /\ z = f.bits
        BY <1>1, <1>7
    <2> QED  BY <1>1, <1>4, <1>7, <2>1, FinalByte
<1>9. AddChar(f, ch) = AddChar(d, ch)
    BY <1>7 DEF AddChar
<1> QED  BY <1>8, <1>9 DEF e, b, f, y, z

LEMMA FourBytesRead ==
    ASSUME NEW d \in States, d.good, d.left = 0, NEW ch, Four(ch)
    PROVE  NextByte(NextByte(NextByte(NextByte(d, 240 + ch \div 262144),
                                      Six(ch \div 4096)), Six(ch \div 64)), Six(ch))
                = AddChar(d, ch)
<1> DEFINE u == ch \div 262144  y == ch \div 4096  z == ch \div 64
           b == 240 + u  e == NextByte(d, b)  f == NextByte(e, Six(y))
           g == NextByte(f, Six(z))
<1>2. ch >= LeastOfFour /\ ch \in Nat /\ 3 \in 1..3 /\ LeastOfFour \in Nat
    BY SMT DEF Four, LeastOfFour
<1>1. b \in Int /\ b \in 240..247 /\ b - 240 = u /\ u \in Nat /\ y \in Nat /\ z \in Nat
    <2>1. u \in Nat /\ y \in Nat /\ z \in Nat
        BY <1>2, SMT
    <2>2. u <= 7
        BY SMT DEF Four
    <2> HIDE DEF u, y, z
    <2> QED  BY <2>1, <2>2, SMT
<1>3. Shifted(y, u)
    BY <1>2, SMT DEF Shifted
<1>4. Shifted(z, y)
    BY <1>2, SMT DEF Shifted
<1>5. Shifted(ch, z)
    BY <1>2, SMT DEF Shifted
<1> HIDE DEF b, u, y, z
<1>6. e = FirstByte(d, 3, u, LeastOfFour)
    <2>1. e = FirstByte(d, 3, b - 240, LeastOfFour)
        BY <1>1, NextFirstByte, SMT DEF LeastOfFour
    <2> QED  BY <1>1, <2>1
<1> HIDE DEF e
<1>7. /\ e \in States /\ e.chars = d.chars /\ e.good = d.good /\ e.left = 3
      /\ e.bits = u /\ e.limit = LeastOfFour
    <2>1. e = [left |-> 3, bits |-> u, limit |-> LeastOfFour, chars |-> d.chars, good |-> d.good]
        BY <1>6 DEF FirstByte
    <2> QED  BY <1>1, <1>2, <2>1, StateFields DEF States
<1>8. /\ f \in States /\ f.good = d.good /\ f.left = 2 /\ f.bits = y
      /\ f.limit = LeastOfFour /\ f.chars = d.chars
    <2>1. e.good /\ e.left > 1 /\ u = e.bits
        BY <1>7
    <2>2. /\ f \in States /\ f.good = e.good /\ f.left = e.left - 1 /\ f.bits = y
          /\ f.limit = e.limit /\ f.chars = e.chars
        BY <1>1, <1>3, <1>7, <2>1, MiddleByte, Zenon
    <2> HIDE DEF f
    <2> QED  BY <1>7, <2>2
<1> HIDE DEF f
<1>9. /\ g \in States /\ g.good = d.good /\ g.left = 1 /\ g.bits = z
      /\ g.limit = LeastOfFour /\ g.chars = d.chars
    <2>1. f.good /\ f.left > 1 /\ y = f.bits
        BY <1>8
    <2>2. /\ g \in States /\ g.good = f.good /\ g.left = f.left - 1 /\ g.bits = z
          /\ g.limit = f.limit /\ g.chars = f.chars
        BY <1>1, <1>4, <1>8, <2>1, MiddleByte, Zenon
    <2> HIDE DEF g
    <2> QED  BY <1>8, <2>2
<1> HIDE DEF g
<1>10. NextByte(g, Six(ch)) = AddChar(g, ch)
    <2>1. g.good /\ ch >= g.limit /\ z = g.bits
        BY <1>2, <1>9
    <2> QED  BY <1>2, <1>5, <1>9, <2>1, FinalByte
<1>11. AddChar(g, ch) = AddChar(d, ch)
    BY <1>9 DEF AddChar
<1> QED  BY <1>10, <1>11 DEF e, b, f, g, u, y, z

\* One character after the other.
LEMMA OneMore ==
    ASSUME NEW s \in Text, NEW a \in Int
    PROVE  Decoded(s \o <<a>>) = NextByte(Decoded(s), a)
<1>1. s \o <<a>> = Append(s, a)
    BY DEF Text
<1> QED  BY <1>1, DecodedAppend

LEMMA TwoMore ==
    ASSUME NEW s \in Text, NEW a \in Int, NEW b \in Int
    PROVE  Decoded(s \o <<a, b>>) = NextByte(NextByte(Decoded(s), a), b)
<1> DEFINE t == s \o <<a>>
<1>1. t \in Text /\ s \o <<a, b>> = t \o <<b>>
    <2>1. <<a>> \in Text /\ <<b>> \in Text
        BY DEF Text
    <2>3. <<a, b>> = <<a>> \o <<b>>
        <3>1. Append(<<a>>, b) = <<a>> \o <<b>>
            BY <2>1, AppendIsConcat DEF Text
        <3>2. \A p, q : p = <<a, b>> /\ q = Append(<<a>>, b) => p = q
            OBVIOUS
        <3> QED  BY <3>1, <3>2
    <2>2. s \o (<<a>> \o <<b>>) = (s \o <<a>>) \o <<b>>
        BY <2>1, ConcatAssociative, SMTT(30) DEF Text
    <2>4. t \in Text
        BY <2>1 DEF Text
    <2> QED  BY <2>2, <2>3, <2>4
<1>2. Decoded(t) = NextByte(Decoded(s), a)
    BY OneMore
<1> HIDE DEF t
<1>3. Decoded(t \o <<b>>) = NextByte(Decoded(t), b)
    BY <1>1, OneMore
<1> QED  BY <1>1, <1>2, <1>3

LEMMA ThreeMore ==
    ASSUME NEW s \in Text, NEW a \in Int, NEW b \in Int, NEW c \in Int
    PROVE  Decoded(s \o <<a, b, c>>) = NextByte(NextByte(NextByte(Decoded(s), a), b), c)
<1> DEFINE t == s \o <<a, b>>
<1>1. t \in Text /\ s \o <<a, b, c>> = t \o <<c>>
    <2>1. <<a, b, c>> = <<a, b>> \o <<c>>
        OBVIOUS
    <2>2. <<a, b>> \in Text /\ <<c>> \in Text
        BY DEF Text
    <2>3. Associates(s, <<a, b>>, <<c>>) /\ t \in Text
        BY <2>2, ConcatTexts, ConcatType
    <2> QED  BY <2>1, <2>3 DEF Associates
<1>2. Decoded(t) = NextByte(NextByte(Decoded(s), a), b)
    BY TwoMore
<1> HIDE DEF t
<1>3. Decoded(t \o <<c>>) = NextByte(Decoded(t), c)
    BY <1>1, OneMore
<1> QED  BY <1>1, <1>2, <1>3

LEMMA FourMore ==
    ASSUME NEW s \in Text, NEW a \in Int, NEW b \in Int, NEW c \in Int, NEW d \in Int
    PROVE  Decoded(s \o <<a, b, c, d>>) =
                NextByte(NextByte(NextByte(NextByte(Decoded(s), a), b), c), d)
<1> DEFINE t == s \o <<a, b, c>>
<1>1. t \in Text /\ s \o <<a, b, c, d>> = t \o <<d>>
    <2>1. <<a, b, c>> \in Text /\ <<d>> \in Text
        BY DEF Text
    <2>3. <<a, b, c, d>> = <<a, b, c>> \o <<d>>
        OBVIOUS
    <2>2. s \o (<<a, b, c>> \o <<d>>) = (s \o <<a, b, c>>) \o <<d>>
        BY <2>1, ConcatAssociative, SMTT(30) DEF Text
    <2>4. t \in Text
        BY <2>1 DEF Text
    <2> QED  BY <2>2, <2>3, <2>4
<1>2. Decoded(t) = NextByte(NextByte(NextByte(Decoded(s), a), b), c)
    BY ThreeMore
<1> HIDE DEF t
<1>3. Decoded(t \o <<d>>) = NextByte(Decoded(t), d)
    BY <1>1, OneMore
<1> QED  BY <1>1, <1>2, <1>3

LEMMA CharIsRead ==
    ASSUME NEW s \in Text, Decoded(s).good, Decoded(s).left = 0,
           NEW ch \in Int, IsUnicode(ch)
    PROVE  Decoded(s \o ToUtf8(ch)) = AddChar(Decoded(s), ch)
<1> DEFINE d == Decoded(s)
<1>1. d \in States /\ d.good /\ d.left = 0
    BY DecodedType
<1>2. Six(ch) \in Int /\ Six(ch \div 64) \in Int /\ Six(ch \div 4096) \in Int
    BY SMT DEF Six
<1>3. /\ 192 + ch \div 64 \in Int /\ 224 + ch \div 4096 \in Int
      /\ 240 + ch \div 262144 \in Int /\ ch \in Int
    BY SMT
<1>4. CASE ch < 128
    <2>1. ToUtf8(ch) = <<ch>>
        BY <1>4, SMT DEF ToUtf8
    <2>2. NextByte(d, ch) = AddChar(d, ch)
        BY <1>1, <1>3, <1>4, NextFirstByte
    <2> QED  BY <1>3, <2>1, <2>2, OneMore
<1>5. CASE Two(ch)
    <2>1. ToUtf8(ch) = <<192 + ch \div 64, Six(ch)>>
        BY <1>5, SMT DEF ToUtf8, Two
    <2>2. NextByte(NextByte(d, 192 + ch \div 64), Six(ch)) = AddChar(d, ch)
        BY <1>1, <1>5, TwoBytesRead, SMT
    <2> QED  BY <1>2, <1>3, <2>1, <2>2, TwoMore
<1>6. CASE Three(ch)
    <2>1. ToUtf8(ch) = <<224 + ch \div 4096, Six(ch \div 64), Six(ch)>>
        BY <1>6, SMT DEF ToUtf8, Three, LeastOfThree
    <2>2. NextByte(NextByte(NextByte(d, 224 + ch \div 4096), Six(ch \div 64)), Six(ch))
            = AddChar(d, ch)
        BY <1>1, <1>6, ThreeBytesRead, SMT
    <2> QED  BY <1>2, <1>3, <2>1, <2>2, ThreeMore
<1>7. CASE Four(ch)
    <2>1. ToUtf8(ch) =
            <<240 + ch \div 262144, Six(ch \div 4096), Six(ch \div 64), Six(ch)>>
        BY <1>7, SMT DEF ToUtf8, Four, LeastOfFour
    <2>2. NextByte(NextByte(NextByte(NextByte(d, 240 + ch \div 262144),
                        Six(ch \div 4096)), Six(ch \div 64)), Six(ch)) = AddChar(d, ch)
        BY <1>1, <1>7, FourBytesRead, SMT
    <2> QED  BY <1>2, <1>3, <2>1, <2>2, FourMore
<1>8. ch < 128 \/ Two(ch) \/ Three(ch) \/ Four(ch)
    BY SMT DEF Two, Three, Four, LeastOfThree, LeastOfFour, IsUnicode
<1> QED  BY <1>4, <1>5, <1>6, <1>7, <1>8

\* A character that Unicode does not have is written as another one.
LEMMA CharIsWritten ==
    ASSUME NEW s \in Text, Decoded(s).good, Decoded(s).left = 0, NEW ch \in Int
    PROVE  Decoded(s \o ToUtf8(ch)) = AddChar(Decoded(s), IF IsUnicode(ch) THEN ch ELSE 63)
<1>1. CASE IsUnicode(ch)
    BY <1>1, CharIsRead
<1>2. CASE ~IsUnicode(ch)
    <2>1. ToUtf8(ch) = <<63>>
        BY <1>2, SMT DEF ToUtf8, IsUnicode
    <2>2. NextByte(Decoded(s), 63) = AddChar(Decoded(s), 63)
        BY NextFirstByte
    <2>3. Decoded(s \o <<63>>) = NextByte(Decoded(s), 63)
        BY OneMore
    <2> QED  BY <1>2, <2>1, <2>2, <2>3
<1> QED  BY <1>1, <1>2

\* What is written is UTF-8, and is read back where Unicode has its characters.
LEMMA WrittenIsRead ==
    ASSUME NEW w \in Text
    PROVE  /\ WideToUtf8(w) \in Text
           /\ Decoded(WideToUtf8(w)).good /\ Decoded(WideToUtf8(w)).left = 0
           /\ (\A i \in DOMAIN w : IsUnicode(w[i])) => FromUtf8(WideToUtf8(w)) = w
<1> DEFINE pre(i) == SubSeq(w, 1, i)
           d(i) == Decoded(WideToUtf8(pre(i)))
           uni == \A i \in DOMAIN w : IsUnicode(w[i])
           T == {i \in 0..Len(w) : /\ d(i).good /\ d(i).left = 0
                                   /\ uni => d(i).chars = pre(i)}
<1>1. Len(w) \in Nat /\ DOMAIN w = 1..Len(w)
    BY DEF Text
<1>2. 0 \in T
    <2>1. pre(0) = <<>>
        BY WholePrefix DEF Text
    <2>2. d(0) = Fresh
        BY <2>1, WideEmpty, DecodedEmpty
    <2> HIDE DEF pre, d
    <2> QED  BY <1>1, <2>1, <2>2 DEF Fresh
<1>3. ASSUME NEW i \in 1..Len(w), i - 1 \in T PROVE i \in T
    <2>1. pre(i - 1) \in Text /\ pre(i) = Append(pre(i - 1), w[i]) /\ w[i] \in Int
        BY PrefixGrows DEF Text
    <2> DEFINE s == WideToUtf8(pre(i - 1))  ch == IF IsUnicode(w[i]) THEN w[i] ELSE 63
    <2>2. WideToUtf8(pre(i)) = s \o ToUtf8(w[i])
        BY <2>1, WideAppend
    <2>3. s \in Text
        BY <2>1, WideType
    <2>4. Decoded(s).good /\ Decoded(s).left = 0 /\ (uni => Decoded(s).chars = pre(i - 1))
        BY <1>3
    <2>5. d(i) = AddChar(Decoded(s), ch)
        <3> HIDE DEF s
        <3>1. Decoded(s \o ToUtf8(w[i])) = AddChar(Decoded(s), ch)
            BY <2>1, <2>3, <2>4, CharIsWritten
        <3> QED  BY <2>2, <3>1
    <2>6. Decoded(s) \in States
        BY <2>3, DecodedType
    <2>7. uni => ch = w[i]
        BY <1>1
    <2> HIDE DEF s, ch, pre, d, uni
    <2>8. /\ d(i).good = Decoded(s).good /\ d(i).left = 0
          /\ d(i).chars = Append(Decoded(s).chars, ch)
        BY <2>5 DEF AddChar
    <2>9. d(i).good /\ d(i).left = 0 /\ (uni => d(i).chars = pre(i))
        <3>1. CASE uni
            BY <3>1, <2>1, <2>4, <2>7, <2>8
        <3>2. CASE ~uni
            BY <3>2, <2>4, <2>8
        <3> QED  BY <3>1, <3>2
    <2>10. i \in 0..Len(w)
        BY <1>1
    <2> QED  BY <2>9, <2>10
<1>4. \A i \in 0..Len(w) : i \in T
    <2> HIDE DEF T
    <2> QED  BY <1>1, <1>2, <1>3, InductionUpTo
<1>5. Len(w) \in T
    BY <1>1, <1>4
<1>6. pre(Len(w)) = w
    BY WholePrefix DEF Text
<1>7. WideToUtf8(w) \in Text
    BY WideType
<1> HIDE DEF pre
<1> QED  BY <1>1, <1>5, <1>6, <1>7 DEF FromUtf8

-----------------------------------------------------------------------------
(* Blanks that are left out. *)

\* What is kept after each byte.
Kept(s) ==
    CHOOSE f : f = [i \in 0..Len(s) |->
        IF i = 0 THEN <<>>
        ELSE IF s[i] = Blank /\ i > 1 /\ s[i - 1] = Blank THEN f[i - 1]
        ELSE Append(f[i - 1], s[i])]

LEMMA KeptRecursion ==
    ASSUME NEW s \in Text
    PROVE  /\ Kept(s) \in [0..Len(s) -> Text]
           /\ Kept(s)[0] = <<>>
           /\ \A j \in 1..Len(s) :
                Kept(s)[j] = IF s[j] = Blank /\ j > 1 /\ s[j - 1] = Blank THEN Kept(s)[j - 1] ELSE Append(Kept(s)[j - 1], s[j])
<1> DEFINE n == Len(s)
           V == Text
           next(i, v) == IF s[i] = Blank /\ i > 1 /\ s[i - 1] = Blank THEN v ELSE Append(v, s[i])
           step == [p \in (1..n) \X V |-> next(p[1], p[2])]
           body(f, j) == IF j = 0 THEN <<>> ELSE next(j, f[j - 1])
<1>1. n \in Nat /\ <<>> \in V
    BY DEF Text
<1>2. ASSUME NEW i \in 1..n, NEW v \in V
      PROVE  next(i, v) \in V
    <2>1. s[i] \in Int /\ v \in Seq(Int)
        BY DEF Text
    <2>2. Append(v, s[i]) \in Text
        BY <2>1 DEF Text
    <2> QED  BY <2>2
<1> HIDE DEF next
<1>3. \A i \in 1..n, v \in V : step[<<i, v>>] = next(i, v)
    OBVIOUS
<1> HIDE DEF step
<1>4. StaysIn(V, n, step)
    BY <1>2, <1>3 DEF StaysIn
<1>5. PICK f \in [0..n -> V] : IsRecursion(f, n, <<>>, step)
    <2> HIDE DEF n, V
    <2> QED  BY <1>1, <1>4, RecursionExists
<1>6. ASSUME NEW j \in 0..n PROVE f[j] = body(f, j)
    <2>1. CASE j = 0
        BY <1>5, <2>1 DEF IsRecursion
    <2>2. CASE j # 0
        <3>1. j \in 1..n /\ j - 1 \in 0..n
            BY <1>1, <2>2
        <3>2. f[j] = step[<<j, f[j - 1]>>] /\ f[j - 1] \in V
            BY <1>5, <3>1 DEF IsRecursion
        <3> QED  BY <1>3, <2>2, <3>1, <3>2
    <2> QED  BY <2>1, <2>2
<1>7. Kept(s) = CHOOSE g : g = [j \in 0..n |-> body(g, j)]
    BY DEF Kept, next
<1> HIDE DEF body
<1>8. f = [j \in 0..n |-> body(f, j)]
    BY <1>6
<1>9. Kept(s) = [j \in 0..n |-> body(Kept(s), j)]
    BY <1>7, <1>8
<1> DEFINE F == Kept(s)
<1> HIDE DEF F
<1>10. F = [j \in 0..n |-> body(F, j)]
    BY <1>9 DEF F
<1>11. \A j \in 0..n : F[j] = body(F, j)
    BY <1>10
<1>12. F[0] = <<>>
    BY <1>1, <1>11 DEF body
<1>13. ASSUME NEW j \in 1..n PROVE F[j] = next(j, F[j - 1])
    <2>1. j \in 0..n /\ j # 0
        BY <1>1
    <2> QED  BY <1>11, <2>1 DEF body
<1>14. \A j \in 0..n : F[j] \in V
    <2> DEFINE T == {j \in 0..n : F[j] \in V}
    <2> HIDE DEF V
    <2>1. 0 \in T
        BY <1>1, <1>12
    <2>2. ASSUME NEW j \in 1..n, j - 1 \in T PROVE j \in T
        BY <1>1, <1>2, <1>13, <2>2
    <2>3. \A j \in 0..n : j \in T
        <3> HIDE DEF T
        <3> QED  BY <1>1, <2>1, <2>2, InductionUpTo
    <2> QED  BY <2>3
<1>15. F \in [0..n -> V]
    BY <1>10, <1>14
<1> QED  BY <1>12, <1>13, <1>15 DEF next, F


LEMMA TrimMultipleIs ==
    ASSUME NEW s
    PROVE  TrimMultiple(s) = Kept(s)[Len(s)]
BY DEF TrimMultiple, Kept

\* A text and what is left of it have the same characters, but for blanks.
Like(d, e) ==
    d.good =>
        /\ e.good /\ e.left = d.left
        /\ d.left > 0 => e.bits = d.bits /\ e.limit = d.limit
        /\ \A k \in DOMAIN e.chars : e.chars[k] \in ToSet(d.chars)
        /\ NormalizedChars(e.chars) = NormalizedChars(d.chars)

LEMMA NormalizedAppend ==
    ASSUME NEW w \in Text, NEW ch \in Int
    PROVE  /\ NormalizedChars(Append(w, ch)) = NormalizedChars(w) \o Normalized(ch)
           /\ Normalized(ch) = <<>> => NormalizedChars(Append(w, ch)) = NormalizedChars(w)
<1> DEFINE v == Append(w, ch)
           ww == [i \in DOMAIN w |-> Normalized(w[i])]
           vv == [i \in DOMAIN v |-> Normalized(v[i])]
           S == UNION { ToSet(Normalized(c)) : c \in Int }
<1>1. /\ DOMAIN w = 1..Len(w) /\ DOMAIN v = 1..(Len(w) + 1) /\ Len(w) \in Nat
      /\ v[Len(w) + 1] = ch /\ \A i \in 1..Len(w) : v[i] = w[i] /\ w[i] \in Int
    BY DEF Text
<1>2. \A c \in Int : Normalized(c) \in Seq(S)
    <2> TAKE c \in Int
    <2>1. CASE Normalized(c) = <<>>
        <3> HIDE DEF S
        <3> QED  BY <2>1
    <2>2. CASE Normalized(c) = <<Lower(Plain(c))>>
        <3>1. Lower(Plain(c)) \in ToSet(Normalized(c))
            BY <2>2 DEF ToSet
        <3>2. Lower(Plain(c)) \in S
            BY <3>1
        <3> HIDE DEF S
        <3> QED  BY <2>2, <3>2
    <2> QED  BY <2>1, <2>2 DEF Normalized
<1> HIDE DEF S
<1>3. ww \in Seq(Seq(S)) /\ Len(ww) = Len(w)
    BY <1>1, <1>2
<1>4. vv = Append(ww, Normalized(ch))
    <2> DEFINE x == Normalized(ch)  Q == Seq(S)  p == Append(ww, x)
    <2>1. vv \in Seq(Q) /\ Len(vv) = Len(w) + 1
        <3> HIDE DEF v
        <3>0. \A i \in 1..(Len(w) + 1) : v[i] \in Int
            BY <1>1
        <3>1. \A i \in 1..(Len(w) + 1) : Normalized(v[i]) \in Seq(S)
            BY <1>2, <3>0
        <3> QED  BY <1>1, <3>1
    <2>2. \A i \in 1..(Len(w) + 1) : vv[i] = IF i = Len(w) + 1 THEN x ELSE ww[i]
        <3> HIDE DEF v
        <3> QED  BY <1>1
    <2>3. ww \in Seq(Q) /\ x \in Q
        BY <1>2, <1>3
    <2> HIDE DEF ww, vv, v, x, Q
    <2>4. p \in Seq(Q) /\ Len(p) = Len(w) + 1 /\ p[Len(w) + 1] = x
          /\ \A i \in 1..Len(w) : p[i] = ww[i]
        BY <1>3, <2>3, AppendProperties
    <2> HIDE DEF p
    <2>5. \A i \in 1..Len(vv) : vv[i] = p[i]
        BY <1>1, <2>1, <2>2, <2>4
    <2>6. Len(vv) = Len(p)
        BY <2>1, <2>4
    <2>7. vv = p
        BY <2>1, <2>4, <2>5, <2>6, SeqEqual
    <2> QED  BY <2>7 DEF p, x
<1> HIDE DEF ww, vv, v
<1>5. FlattenSeq(Append(ww, Normalized(ch))) = FlattenSeq(ww) \o Normalized(ch)
    BY <1>2, <1>3, FlattenAppend
<1>6. NormalizedChars(w) = FlattenSeq(ww) /\ NormalizedChars(v) = FlattenSeq(vv)
    BY DEF NormalizedChars, ww, vv
<1>7. FlattenSeq(ww) \o <<>> = FlattenSeq(ww)
    BY <1>3, FlattenIs, ConcatEmptySeq
<1> QED  BY <1>4, <1>5, <1>6, <1>7 DEF v

LEMMA CharAppended ==
    ASSUME NEW w \in Text, NEW ch \in Int
    PROVE  ch \in ToSet(Append(w, ch)) /\ \A x \in ToSet(w) : x \in ToSet(Append(w, ch))
<1> DEFINE v == Append(w, ch)
<1>1. /\ DOMAIN w = 1..Len(w) /\ DOMAIN v = 1..(Len(w) + 1) /\ Len(w) \in Nat
      /\ v[Len(w) + 1] = ch /\ \A i \in 1..Len(w) : v[i] = w[i]
    BY DEF Text
<1>2. ToSet(v) = {v[i] : i \in DOMAIN v} /\ ToSet(w) = {w[i] : i \in DOMAIN w}
    BY DEF ToSet
<1> HIDE DEF v
<1>3. Len(w) + 1 \in DOMAIN v /\ \A i \in DOMAIN w : i \in DOMAIN v
    BY <1>1
<1>4. ch \in ToSet(v)
    BY <1>1, <1>2, <1>3
<1>5. \A x \in ToSet(w) : x \in ToSet(v)
    BY <1>1, <1>2, <1>3
<1> QED  BY <1>4, <1>5 DEF v

\* What a later byte does.
LEMMA NotTheLast ==
    ASSUME NEW d \in States, NEW x \in Nat, d.left > 1, NEW e, e = LaterByte(d, x)
    PROVE  /\ e.left = d.left - 1 /\ e.bits = x /\ e.limit = d.limit
           /\ e.chars = d.chars /\ e.good = d.good
<1>1. d.left > 0
    BY StateFields
<1> DEFINE l == LaterByte(d, x)
<1>2. /\ l.left = d.left - 1 /\ l.bits = x /\ l.limit = d.limit
      /\ l.chars = d.chars /\ l.good = d.good
    BY <1>1, LaterByteType
<1> HIDE DEF l
<1> QED  BY <1>2 DEF l

LEMMA TheLast ==
    ASSUME NEW d \in States, NEW x \in Nat, d.left = 1, LaterByte(d, x).good
    PROVE  x >= d.limit /\ LaterByte(d, x) = AddChar(d, x)
<1>1. d.left > 0 /\ d.limit \in Nat
    BY StateFields
<1>2. ~(x < d.limit)
    BY <1>1, LaterByteType
<1>3. x >= d.limit
    BY <1>1, <1>2
<1> QED  BY <1>1, <1>3, LaterByteType

LEMMA LikeItself ==
    ASSUME NEW d
    PROVE  Like(d, d)
BY DEF Like, ToSet

LEMMA LikeAdded ==
    ASSUME NEW d \in States, NEW e \in States, Like(d, e), d.good, NEW ch \in Int
    PROVE  Like(AddChar(d, ch), AddChar(e, ch))
<1> DEFINE D == AddChar(d, ch)  E == AddChar(e, ch)
<1>1. /\ d.chars \in Text /\ e.chars \in Text /\ e.good
      /\ \A k \in DOMAIN e.chars : e.chars[k] \in ToSet(d.chars)
      /\ NormalizedChars(e.chars) = NormalizedChars(d.chars)
    BY StateFields DEF Like, Text
<1>2. D.chars = Append(d.chars, ch) /\ E.chars = Append(e.chars, ch)
      /\ D.good = d.good /\ E.good = e.good /\ D.left = 0 /\ E.left = 0
    BY DEF AddChar
<1> HIDE DEF D, E
<1>3. NormalizedChars(E.chars) = NormalizedChars(D.chars)
    <2>1. NormalizedChars(E.chars) = NormalizedChars(e.chars) \o Normalized(ch)
        BY <1>1, <1>2, NormalizedAppend
    <2>2. NormalizedChars(D.chars) = NormalizedChars(d.chars) \o Normalized(ch)
        BY <1>1, <1>2, NormalizedAppend
    <2> QED  BY <1>1, <2>1, <2>2
<1>4. ASSUME NEW k \in DOMAIN E.chars PROVE E.chars[k] \in ToSet(D.chars)
    <2>1. ch \in ToSet(D.chars) /\ \A x \in ToSet(d.chars) : x \in ToSet(D.chars)
        BY <1>1, <1>2, CharAppended
    <2>2. E.chars[k] = ch \/ (k \in DOMAIN e.chars /\ E.chars[k] = e.chars[k])
        BY <1>1, <1>2 DEF Text
    <2> QED  BY <1>1, <2>1, <2>2
<1>5. Like(D, E)
    BY <1>1, <1>2, <1>3, <1>4 DEF Like
<1> QED  BY <1>5 DEF D, E

\* The same byte on both sides.
LEMMA LikeStep ==
    ASSUME NEW d \in States, NEW e \in States, Like(d, e), NEW b \in Int
    PROVE  Like(NextByte(d, b), NextByte(e, b))
<1> DEFINE D == NextByte(d, b)  E == NextByte(e, b)
<1> SUFFICES ASSUME D.good PROVE Like(D, E)
    BY DEF Like
<1>1. d.good
    BY NothingAfterRefusal
<1>2. /\ e.good /\ e.left = d.left
      /\ d.left > 0 => e.bits = d.bits /\ e.limit = d.limit
      /\ \A k \in DOMAIN e.chars : e.chars[k] \in ToSet(d.chars)
      /\ NormalizedChars(e.chars) = NormalizedChars(d.chars)
    BY <1>1 DEF Like
<1>3. Like(AddChar(d, b), AddChar(e, b))
    BY <1>1, LikeAdded
<1>4. ~Refused(d).good
    BY RefusedType
<1>5. \A n, y, limit : Like(FirstByte(d, n, y, limit), FirstByte(e, n, y, limit))
    BY <1>1, <1>2 DEF FirstByte, Like
<1>6. CASE d.left = 0
    <2>1. CASE b < 128
        <3>1. D = AddChar(d, b) /\ E = AddChar(e, b)
            BY <1>1, <1>2, <1>6, <2>1, NextFirstByte
        <3> QED  BY <1>3, <3>1
    <2>2. CASE b \in 192..223
        <3>1. D = FirstByte(d, 1, b - 192, 128) /\ E = FirstByte(e, 1, b - 192, 128)
            BY <1>1, <1>2, <1>6, <2>2, NextFirstByte
        <3> QED  BY <1>5, <3>1
    <2>3. CASE b \in 224..239
        <3>1. D = FirstByte(d, 2, b - 224, 2048) /\ E = FirstByte(e, 2, b - 224, 2048)
            BY <1>1, <1>2, <1>6, <2>3, NextFirstByte
        <3> QED  BY <1>5, <3>1
    <2>4. CASE b \in 240..247
        <3>1. D = FirstByte(d, 3, b - 240, 65536) /\ E = FirstByte(e, 3, b - 240, 65536)
            BY <1>1, <1>2, <1>6, <2>4, NextFirstByte, SMT
        <3> QED  BY <1>5, <3>1
    <2>5. CASE b >= 128 /\ b \notin 192..247
        <3>1. D = Refused(d)
            BY <1>1, <1>6, <2>5, NextFirstByte
        <3> QED  BY <1>4, <3>1
    <2> QED  BY <2>1, <2>2, <2>3, <2>4, <2>5, SMT
<1>7. CASE d.left # 0
    <2> DEFINE x == d.bits * 64 + (b - 128)
    <2>1. Continuation(b) /\ D = LaterByte(d, x)
        BY <1>1, <1>4, <1>7, NextLaterByte
    <2>2. d.left > 0
        BY <1>7, StateFields
    <2>3. E = LaterByte(e, x)
        <3>1. E = LaterByte(e, e.bits * 64 + (b - 128))
            BY <1>2, <1>7, <2>1, NextLaterByte
        <3> QED  BY <1>2, <2>2, <3>1
    <2>4. x \in Nat /\ x \in Int
        BY <2>1, StateFields DEF Continuation
    <2> HIDE DEF x
    <2>5. CASE d.left > 1
        <3>1. /\ D.left = d.left - 1 /\ D.bits = x /\ D.limit = d.limit
              /\ D.chars = d.chars
            <4> HIDE DEF D, E
            <4>1. D = LaterByte(d, x)
                BY <2>1
            <4> QED  BY <2>4, <2>5, <4>1, NotTheLast
        <3>2. e.left > 1
            BY <1>2, <2>5
        <3>3. /\ E.left = e.left - 1 /\ E.bits = x /\ E.limit = e.limit
              /\ E.chars = e.chars /\ E.good = e.good
            <4> HIDE DEF D, E
            <4> QED  BY <2>3, <2>4, <3>2, NotTheLast
        <3> HIDE DEF D, E
        <3> QED  BY <1>2, <2>2, <3>1, <3>3 DEF Like
    <2>6. CASE d.left = 1
        <3> HIDE DEF D, E
        <3>1. LaterByte(d, x).good
            BY <2>1
        <3>2. x >= d.limit /\ D = AddChar(d, x)
            BY <2>1, <2>4, <2>6, <3>1, TheLast
        <3>3. E = AddChar(e, x)
            <4>1. ~(e.left > 1) /\ ~(x < e.limit)
                <5>1. e.left = 1 /\ x >= e.limit
                    BY <1>2, <2>2, <2>6, <3>2
                <5>2. e.limit \in Nat
                    BY StateFields
                <5> QED  BY <2>4, <5>1, <5>2
            <4> QED  BY <2>3, <4>1 DEF LaterByte
        <3> QED  BY <1>1, <2>4, <3>2, <3>3, LikeAdded
    <2> QED  BY <2>2, <2>5, <2>6, StateFields
<1> QED  BY <1>6, <1>7

\* A blank on one side only.
LEMMA BlankAdded ==
    ASSUME NEW d \in States, NextByte(d, Blank).good
    PROVE  d.good /\ d.left = 0 /\ NextByte(d, Blank) = AddChar(d, Blank)
<1>1. d.good
    BY NothingAfterRefusal
<1>2. Blank \in Int /\ Blank < 128 /\ ~Continuation(Blank)
    BY DEF Blank, Continuation
<1>3. d.left = 0
    <2> SUFFICES ASSUME d.left # 0 PROVE FALSE
        OBVIOUS
    <2>1. NextByte(d, Blank) = Refused(d)
        BY <1>1, <1>2, NextLaterByte
    <2> QED  BY <2>1, RefusedType
<1> QED  BY <1>1, <1>2, <1>3, NextFirstByte

LEMMA LikeWithoutBlank ==
    ASSUME NEW d \in States, NEW e \in States, Like(d, e)
    PROVE  Like(NextByte(d, Blank), e)
<1> DEFINE D == NextByte(d, Blank)
<1> SUFFICES ASSUME D.good PROVE Like(D, e)
    BY DEF Like
<1>1. d.good /\ d.left = 0 /\ D = AddChar(d, Blank) /\ Blank \in Int
    BY BlankAdded DEF Blank
<1>2. /\ e.good /\ e.left = d.left
      /\ \A k \in DOMAIN e.chars : e.chars[k] \in ToSet(d.chars)
      /\ NormalizedChars(e.chars) = NormalizedChars(d.chars)
    BY <1>1 DEF Like
<1>3. D.chars = Append(d.chars, Blank) /\ D.left = 0 /\ D.good
    BY <1>1 DEF AddChar
<1> HIDE DEF D
<1>4. d.chars \in Text
    BY StateFields DEF Text
<1>5. NormalizedChars(D.chars) = NormalizedChars(d.chars)
    <2>1. Normalized(Blank) = <<>>
        BY DEF Normalized, Blank
    <2> QED  BY <1>1, <1>3, <1>4, <2>1, NormalizedAppend
<1>6. \A k \in DOMAIN e.chars : e.chars[k] \in ToSet(D.chars)
    <2>1. \A x \in ToSet(d.chars) : x \in ToSet(D.chars)
        BY <1>1, <1>3, <1>4, CharAppended
    <2> QED  BY <1>2, <2>1
<1> QED  BY <1>1, <1>2, <1>3, <1>5, <1>6 DEF Like

\* Blanks that are left out one by one.
LeavesBlanksOut(t, kept) ==
    /\ kept[0] = <<>>
    /\ \A i \in 0..Len(t) : kept[i] \in Text
    /\ \A i \in 1..Len(t) :
        \/ kept[i] = kept[i - 1] /\ t[i] = Blank
        \/ kept[i] = Append(kept[i - 1], t[i])

LEMMA BlanksLeftOut ==
    ASSUME NEW t \in Text, NEW kept, LeavesBlanksOut(t, kept)
    PROVE  Like(Decoded(t), Decoded(kept[Len(t)]))
<1> DEFINE n == Len(t)
           pre(i) == SubSeq(t, 1, i)
           T == {i \in 0..n : Like(Decoded(pre(i)), Decoded(kept[i]))}
<1>1. n \in Nat
    BY DEF Text
<1>2. 0 \in T
    <2>1. pre(0) = <<>>
        BY WholePrefix DEF Text
    <2> HIDE DEF pre
    <2> QED  BY <1>1, <2>1, LikeItself DEF LeavesBlanksOut
<1>3. ASSUME NEW i \in 1..n, i - 1 \in T PROVE i \in T
    <2>1. pre(i - 1) \in Text /\ pre(i) = Append(pre(i - 1), t[i]) /\ t[i] \in Int
        BY PrefixGrows DEF Text
    <2> DEFINE d == Decoded(pre(i - 1))  e == Decoded(kept[i - 1])
    <2>2. i - 1 \in 0..n /\ i \in 0..n
        BY <1>1
    <2>3. kept[i - 1] \in Text
        BY <2>2 DEF LeavesBlanksOut
    <2>4. d \in States /\ e \in States
        BY <2>1, <2>3, DecodedType
    <2>5. Like(d, e)
        BY <1>3
    <2>6. Decoded(pre(i)) = NextByte(d, t[i])
        BY <2>1, DecodedAppend
    <2>7. CASE kept[i] = kept[i - 1] /\ t[i] = Blank
        <3>1. Like(NextByte(d, Blank), e)
            <4> HIDE DEF d, e
            <4> QED  BY <2>4, <2>5, LikeWithoutBlank
        <3> QED  BY <2>2, <2>6, <2>7, <3>1
    <2>8. CASE kept[i] = Append(kept[i - 1], t[i])
        <3>1. Decoded(kept[i]) = NextByte(e, t[i])
            BY <2>1, <2>3, <2>8, DecodedAppend
        <3>2. Like(NextByte(d, t[i]), NextByte(e, t[i]))
            <4> HIDE DEF d, e, pre
            <4> QED  BY <2>1, <2>4, <2>5, LikeStep
        <3> QED  BY <2>2, <2>6, <3>1, <3>2
    <2> QED  BY <2>7, <2>8 DEF LeavesBlanksOut
<1>4. \A i \in 0..n : i \in T
    <2> HIDE DEF T
    <2> QED  BY <1>1, <1>2, <1>3, InductionUpTo
<1>5. n \in T
    BY <1>1, <1>4
<1>6. pre(n) = t
    BY WholePrefix DEF Text
<1> QED  BY <1>5, <1>6

\* What is cut off at the ends of a text are blanks.
LEMMA TrimRightIs ==
    ASSUME NEW t \in Text
    PROVE  \E n \in 0..Len(t) :
                /\ TrimRight(t) = SubSeq(t, 1, n)
                /\ n = 0 \/ t[n] # Blank
                /\ \A i \in 1..Len(t) : i > n => t[i] = Blank
<1> DEFINE last == {k \in 0..Len(t) : k = 0 \/ t[k] # Blank}
           n == CHOOSE k \in last : \A j \in last : j <= k
<1>1. Len(t) \in Nat
    BY DEF Text
<1>2. \E k \in last : \A j \in last : j <= k
    <2> DEFINE back == {Len(t) - k : k \in last}
    <2>1. Len(t) \in back /\ back \in SUBSET Nat
        BY <1>1
    <2>2. back # {}
        BY <2>1
    <2>3. PICK m \in back : \A y \in back : m <= y
        <3> HIDE DEF back
        <3> QED  BY <2>1, <2>2, LeastNatural
    <2>4. PICK k \in last : m = Len(t) - k
        BY <2>3
    <2>5. ASSUME NEW j \in last PROVE j <= k
        <3>1. Len(t) - j \in back
            OBVIOUS
        <3>2. Len(t) - k <= Len(t) - j
            BY <2>3, <2>4, <3>1
        <3> QED  BY <1>1, <2>4, <3>2
    <2> QED  BY <2>4, <2>5
<1>3. n \in last /\ \A j \in last : j <= n
    <2> HIDE DEF last
    <2> QED  BY <1>2
<1>4. n \in 0..Len(t) /\ \A i \in 1..Len(t) : i > n => t[i] = Blank
    <2>1. n \in 0..Len(t)
        BY <1>3
    <2>2. ASSUME NEW i \in 1..Len(t), i > n PROVE t[i] = Blank
        <3>1. ~(i <= n)
            BY <1>1, <2>1, <2>2
        <3>2. i \notin last
            BY <1>3, <3>1
        <3> QED  BY <1>1, <3>2
    <2> QED  BY <2>1, <2>2
<1>5. TrimRight(t) = SubSeq(t, 1, n) /\ (n = 0 \/ t[n] # Blank)
    BY <1>3 DEF TrimRight
<1> HIDE DEF n
<1> QED  BY <1>4, <1>5

LEMMA TrimLeftIs ==
    ASSUME NEW t \in Text
    PROVE  \E n \in 1..(Len(t) + 1) :
                /\ TrimLeft(t) = SubSeq(t, n, Len(t))
                /\ n > Len(t) \/ t[n] # Blank
                /\ \A i \in 1..Len(t) : i < n => t[i] = Blank
<1> DEFINE first == {k \in 1..(Len(t) + 1) : k > Len(t) \/ t[k] # Blank}
           n == CHOOSE k \in first : \A j \in first : k <= j
<1>1. Len(t) \in Nat
    BY DEF Text
<1>2. \E k \in first : \A j \in first : k <= j
    <2>1. Len(t) + 1 \in first /\ first \in SUBSET Nat
        BY <1>1
    <2> HIDE DEF first
    <2> QED  BY <2>1, LeastNatural
<1>3. n \in first /\ \A j \in first : n <= j
    <2> HIDE DEF first
    <2> QED  BY <1>2
<1>4. n \in 1..(Len(t) + 1) /\ \A i \in 1..Len(t) : i < n => t[i] = Blank
    <2>1. n \in 1..(Len(t) + 1)
        BY <1>3
    <2>2. ASSUME NEW i \in 1..Len(t), i < n PROVE t[i] = Blank
        <3>1. ~(n <= i)
            BY <1>1, <2>1, <2>2
        <3>2. i \notin first
            BY <1>3, <3>1
        <3> QED  BY <1>1, <3>2
    <2> QED  BY <2>1, <2>2
<1>5. TrimLeft(t) = SubSeq(t, n, Len(t)) /\ (n > Len(t) \/ t[n] # Blank)
    BY <1>3 DEF TrimLeft
<1> HIDE DEF n
<1> QED  BY <1>4, <1>5

\* The three ways to trim a text leave blanks out.
LEMMA TrimRightLeavesOut ==
    ASSUME NEW t \in Text
    PROVE  TrimRight(t) \in Text /\ Like(Decoded(t), Decoded(TrimRight(t)))
<1>1. Len(t) \in Nat
    BY DEF Text
<1>2. PICK n \in 0..Len(t) : /\ TrimRight(t) = SubSeq(t, 1, n)
                             /\ \A i \in 1..Len(t) : i > n => t[i] = Blank
    BY TrimRightIs
<1> DEFINE kept == [i \in 0..Len(t) |-> SubSeq(t, 1, IF i <= n THEN i ELSE n)]
<1>3. LeavesBlanksOut(t, kept)
    <2>1. kept[0] = <<>>
        BY <1>1, <1>2, WholePrefix DEF Text
    <2>2. ASSUME NEW i \in 0..Len(t) PROVE kept[i] \in Text
        BY <1>1, <1>2 DEF Text
    <2>3. ASSUME NEW i \in 1..Len(t)
          PROVE  \/ kept[i] = kept[i - 1] /\ t[i] = Blank
                 \/ kept[i] = Append(kept[i - 1], t[i])
        <3>0. i \in 0..Len(t) /\ i - 1 \in 0..Len(t)
            BY <1>1
        <3>1. CASE i <= n
            <4>1. kept[i] = SubSeq(t, 1, i) /\ kept[i - 1] = SubSeq(t, 1, i - 1)
                BY <1>1, <1>2, <3>0, <3>1
            <4>2. SubSeq(t, 1, i) = Append(SubSeq(t, 1, i - 1), t[i])
                BY PrefixGrows DEF Text
            <4> QED  BY <4>1, <4>2
        <3>2. CASE i > n
            <4>1. kept[i] = SubSeq(t, 1, n)
                BY <1>1, <1>2, <3>0, <3>2
            <4>2. kept[i - 1] = SubSeq(t, 1, n)
                <5>1. CASE i - 1 <= n
                    <6>1. i - 1 = n
                        BY <1>1, <1>2, <3>2, <5>1
                    <6> QED  BY <3>0, <6>1
                <5>2. CASE ~(i - 1 <= n)
                    BY <3>0, <5>2
                <5> QED  BY <5>1, <5>2
            <4> QED  BY <1>2, <3>2, <4>1, <4>2
        <3>3. i <= n \/ i > n
            BY <1>1, <1>2
        <3> QED  BY <3>1, <3>2, <3>3, Zenon
    <2> HIDE DEF kept
    <2> QED  BY <2>1, <2>2, <2>3 DEF LeavesBlanksOut
<1>4. kept[Len(t)] = SubSeq(t, 1, n)
    BY <1>1, <1>2
<1>5. SubSeq(t, 1, n) \in Text
    BY <1>1, <1>2 DEF Text
<1> HIDE DEF kept
<1> QED  BY <1>2, <1>3, <1>4, <1>5, BlanksLeftOut

LEMMA TrimLeftLeavesOut ==
    ASSUME NEW t \in Text
    PROVE  TrimLeft(t) \in Text /\ Like(Decoded(t), Decoded(TrimLeft(t)))
<1>1. Len(t) \in Nat
    BY DEF Text
<1>2. PICK n \in 1..(Len(t) + 1) : /\ TrimLeft(t) = SubSeq(t, n, Len(t))
                                   /\ \A i \in 1..Len(t) : i < n => t[i] = Blank
    BY TrimLeftIs
<1> DEFINE kept == [i \in 0..Len(t) |-> SubSeq(t, n, i)]
<1>3. LeavesBlanksOut(t, kept)
    <2>1. kept[0] = <<>>
        BY <1>1, <1>2, SubSeqEmpty DEF Text
    <2>2. ASSUME NEW i \in 0..Len(t) PROVE kept[i] \in Text
        BY <1>1, <1>2 DEF Text
    <2>3. ASSUME NEW i \in 1..Len(t)
          PROVE  \/ kept[i] = kept[i - 1] /\ t[i] = Blank
                 \/ kept[i] = Append(kept[i - 1], t[i])
        <3>0. i \in 0..Len(t) /\ i - 1 \in 0..Len(t)
            BY <1>1
        <3>1. kept[i] = SubSeq(t, n, i) /\ kept[i - 1] = SubSeq(t, n, i - 1)
            BY <1>1, <1>2, <3>0
        <3>2. CASE i >= n
            <4>1. t \in Seq(Int) /\ n \in 1..i /\ i \in 1..Len(t)
                BY <1>1, <1>2, <3>2 DEF Text
            <4>2. SubSeq(t, n, i) = Append(SubSeq(t, n, i - 1), t[i])
                BY <4>1
            <4> QED  BY <3>1, <4>2
        <3>3. CASE i < n
            <4>1. SubSeq(t, n, i) = <<>> /\ SubSeq(t, n, i - 1) = <<>>
                BY <1>1, <1>2, <3>3, SubSeqEmpty DEF Text
            <4> QED  BY <1>2, <3>1, <3>3, <4>1
        <3>4. i >= n \/ i < n
            BY <1>1, <1>2
        <3> QED  BY <3>2, <3>3, <3>4, Zenon
    <2> HIDE DEF kept
    <2> QED  BY <2>1, <2>2, <2>3 DEF LeavesBlanksOut
<1>4. kept[Len(t)] = SubSeq(t, n, Len(t))
    BY <1>1, <1>2
<1>5. SubSeq(t, n, Len(t)) \in Text
    BY <1>1, <1>2 DEF Text
<1> HIDE DEF kept
<1> QED  BY <1>2, <1>3, <1>4, <1>5, BlanksLeftOut

LEMMA TrimMultipleLeavesOut ==
    ASSUME NEW t \in Text
    PROVE  TrimMultiple(t) \in Text /\ Like(Decoded(t), Decoded(TrimMultiple(t)))
<1>1. Len(t) \in Nat
    BY DEF Text
<1>2. /\ Kept(t) \in [0..Len(t) -> Text] /\ Kept(t)[0] = <<>>
      /\ \A j \in 1..Len(t) :
            Kept(t)[j] = IF t[j] = Blank /\ j > 1 /\ t[j - 1] = Blank THEN Kept(t)[j - 1]
                         ELSE Append(Kept(t)[j - 1], t[j])
    BY KeptRecursion
<1>3. LeavesBlanksOut(t, Kept(t))
    BY <1>2 DEF LeavesBlanksOut
<1>4. Kept(t)[Len(t)] \in Text
    BY <1>1, <1>2
<1> QED  BY <1>3, <1>4, TrimMultipleIs, BlanksLeftOut

LEMMA LikeTransitive ==
    ASSUME NEW d, NEW e, NEW f, Like(d, e), Like(e, f)
    PROVE  Like(d, f)
<1> SUFFICES ASSUME d.good PROVE Like(d, f)
    BY DEF Like
<1>1. /\ e.good /\ e.left = d.left
      /\ d.left > 0 => e.bits = d.bits /\ e.limit = d.limit
      /\ \A k \in DOMAIN e.chars : e.chars[k] \in ToSet(d.chars)
      /\ NormalizedChars(e.chars) = NormalizedChars(d.chars)
    BY DEF Like
<1>2. /\ f.good /\ f.left = e.left
      /\ e.left > 0 => f.bits = e.bits /\ f.limit = e.limit
      /\ \A k \in DOMAIN f.chars : f.chars[k] \in ToSet(e.chars)
      /\ NormalizedChars(f.chars) = NormalizedChars(e.chars)
    BY <1>1 DEF Like
<1>3. ASSUME NEW k \in DOMAIN f.chars PROVE f.chars[k] \in ToSet(d.chars)
    <2>1. PICK j \in DOMAIN e.chars : f.chars[k] = e.chars[j]
        BY <1>2 DEF ToSet
    <2> QED  BY <1>1, <2>1
<1> QED  BY <1>1, <1>2, <1>3 DEF Like

\* What trimming does to an accepted text.
LEMMA Trimmed ==
    ASSUME NEW t \in Text, Decoded(t).good
    PROVE  /\ TrimAll(t) \in Text /\ Decoded(TrimAll(t)).good
           /\ \A k \in DOMAIN FromUtf8(TrimAll(t)) :
                FromUtf8(TrimAll(t))[k] \in ToSet(FromUtf8(t))
           /\ Normalize(TrimAll(t)) = Normalize(t)
<1> DEFINE u == TrimRight(t)  v == TrimLeft(u)  w == TrimMultiple(v)
<1>1. u \in Text /\ Like(Decoded(t), Decoded(u))
    BY TrimRightLeavesOut
<1> HIDE DEF u
<1>2. v \in Text /\ Like(Decoded(u), Decoded(v))
    BY <1>1, TrimLeftLeavesOut
<1> HIDE DEF v
<1>3. w \in Text /\ Like(Decoded(v), Decoded(w))
    BY <1>2, TrimMultipleLeavesOut
<1> HIDE DEF w
<1>4. Like(Decoded(t), Decoded(v))
    BY <1>1, <1>2, LikeTransitive
<1>5. Like(Decoded(t), Decoded(w))
    BY <1>3, <1>4, LikeTransitive
<1>6. w = TrimAll(t)
    BY DEF w, v, u, TrimAll
<1> QED  BY <1>3, <1>5, <1>6 DEF Like, Normalize, FromUtf8

-----------------------------------------------------------------------------
(* Texts that are cut. *)

\* A prefix of an accepted text is accepted.
LEMMA PrefixAccepted ==
    ASSUME NEW t \in Text, Decoded(t).good, NEW m \in 0..Len(t)
    PROVE  SubSeq(t, 1, m) \in Text /\ Decoded(SubSeq(t, 1, m)).good
<1> DEFINE n == Len(t)
           pre(i) == SubSeq(t, 1, i)
           T == {i \in 0..n : i < m \/ ~Decoded(pre(i)).good}
<1>1. n \in Nat
    BY DEF Text
<1>2. pre(m) \in Text
    BY <1>1 DEF Text
<1> SUFFICES ASSUME ~Decoded(pre(m)).good PROVE FALSE
    BY <1>2
<1>3. 0 \in T
    BY <1>1
<1>4. ASSUME NEW i \in 1..n, i - 1 \in T PROVE i \in T
    <2>1. pre(i - 1) \in Text /\ pre(i) = Append(pre(i - 1), t[i]) /\ t[i] \in Int
        BY PrefixGrows DEF Text
    <2>2. i \in 0..n
        BY <1>1
    <2>3. CASE i < m
        BY <2>2, <2>3
    <2>4. CASE i = m
        BY <2>2, <2>4
    <2>5. CASE i > m
        <3>1. ~Decoded(pre(i - 1)).good
            BY <1>4, <2>5
        <3>2. Decoded(pre(i)) = NextByte(Decoded(pre(i - 1)), t[i])
            BY <2>1, DecodedAppend
        <3>3. Decoded(pre(i)) = Decoded(pre(i - 1))
            <4> HIDE DEF pre
            <4> QED  BY <3>1, <3>2, NothingAfterRefusal
        <3> QED  BY <2>2, <3>1, <3>3
    <2> QED  BY <1>1, <2>3, <2>4, <2>5
<1>5. \A i \in 0..n : i \in T
    <2> HIDE DEF T
    <2> QED  BY <1>1, <1>3, <1>4, InductionUpTo
<1>6. n \in T /\ ~(n < m)
    BY <1>1, <1>5
<1>7. pre(n) = t
    BY WholePrefix DEF Text
<1> QED  BY <1>6, <1>7

\* What stands behind a complete character is read on its own.
Behind(d, e, w) ==
    d.good =>
        /\ e.good /\ e.left = d.left
        /\ d.left > 0 => e.bits = d.bits /\ e.limit = d.limit
        /\ d.chars = w \o e.chars

LEMMA BehindAdded ==
    ASSUME NEW w \in Text, NEW d \in States, NEW e \in States, Behind(d, e, w), d.good,
           NEW ch \in Int
    PROVE  Behind(AddChar(d, ch), AddChar(e, ch), w)
<1>1. e.chars \in Text /\ d.chars = w \o e.chars /\ e.good
    BY StateFields DEF Behind, Text
<1>2. Append(w \o e.chars, ch) = w \o Append(e.chars, ch)
    BY <1>1, AppendConcat
<1> QED  BY <1>1, <1>2 DEF AddChar, Behind

LEMMA BehindStep ==
    ASSUME NEW w \in Text, NEW d \in States, NEW e \in States, Behind(d, e, w),
           NEW b \in Int
    PROVE  Behind(NextByte(d, b), NextByte(e, b), w)
<1> DEFINE D == NextByte(d, b)  E == NextByte(e, b)
<1> SUFFICES ASSUME D.good PROVE Behind(D, E, w)
    BY DEF Behind
<1>1. d.good
    BY NothingAfterRefusal
<1>2. /\ e.good /\ e.left = d.left
      /\ d.left > 0 => e.bits = d.bits /\ e.limit = d.limit
      /\ d.chars = w \o e.chars
    BY <1>1 DEF Behind
<1>3. Behind(AddChar(d, b), AddChar(e, b), w)
    BY <1>1, BehindAdded
<1>4. ~Refused(d).good
    BY RefusedType
<1>5. \A n, y, limit : Behind(FirstByte(d, n, y, limit), FirstByte(e, n, y, limit), w)
    BY <1>1, <1>2 DEF FirstByte, Behind
<1>6. CASE d.left = 0
    <2>1. CASE b < 128
        <3>1. D = AddChar(d, b) /\ E = AddChar(e, b)
            BY <1>1, <1>2, <1>6, <2>1, NextFirstByte
        <3> QED  BY <1>3, <3>1
    <2>2. CASE b \in 192..223
        <3>1. D = FirstByte(d, 1, b - 192, 128) /\ E = FirstByte(e, 1, b - 192, 128)
            BY <1>1, <1>2, <1>6, <2>2, NextFirstByte
        <3> QED  BY <1>5, <3>1
    <2>3. CASE b \in 224..239
        <3>1. D = FirstByte(d, 2, b - 224, 2048) /\ E = FirstByte(e, 2, b - 224, 2048)
            BY <1>1, <1>2, <1>6, <2>3, NextFirstByte
        <3> QED  BY <1>5, <3>1
    <2>4. CASE b \in 240..247
        <3>1. D = FirstByte(d, 3, b - 240, 65536) /\ E = FirstByte(e, 3, b - 240, 65536)
            BY <1>1, <1>2, <1>6, <2>4, NextFirstByte, SMT
        <3> QED  BY <1>5, <3>1
    <2>5. CASE b >= 128 /\ b \notin 192..247
        <3>1. D = Refused(d)
            BY <1>1, <1>6, <2>5, NextFirstByte
        <3> QED  BY <1>4, <3>1
    <2> QED  BY <2>1, <2>2, <2>3, <2>4, <2>5, SMT
<1>7. CASE d.left # 0
    <2> DEFINE x == d.bits * 64 + (b - 128)
    <2>1. Continuation(b) /\ D = LaterByte(d, x)
        BY <1>1, <1>4, <1>7, NextLaterByte
    <2>2. d.left > 0
        BY <1>7, StateFields
    <2>3. E = LaterByte(e, x)
        <3>1. E = LaterByte(e, e.bits * 64 + (b - 128))
            BY <1>2, <1>7, <2>1, NextLaterByte
        <3> QED  BY <1>2, <2>2, <3>1
    <2>4. x \in Nat /\ x \in Int
        BY <2>1, StateFields DEF Continuation
    <2> HIDE DEF x
    <2>5. CASE d.left > 1
        <3>1. /\ D.left = d.left - 1 /\ D.bits = x /\ D.limit = d.limit
              /\ D.chars = d.chars
            <4> HIDE DEF D, E
            <4>1. D = LaterByte(d, x)
                BY <2>1
            <4> QED  BY <2>4, <2>5, <4>1, NotTheLast
        <3>2. e.left > 1
            BY <1>2, <2>5
        <3>3. /\ E.left = e.left - 1 /\ E.bits = x /\ E.limit = e.limit
              /\ E.chars = e.chars /\ E.good = e.good
            <4> HIDE DEF D, E
            <4> QED  BY <2>3, <2>4, <3>2, NotTheLast
        <3> HIDE DEF D, E
        <3> QED  BY <1>2, <2>2, <3>1, <3>3 DEF Behind
    <2>6. CASE d.left = 1
        <3> HIDE DEF D, E
        <3>1. LaterByte(d, x).good
            BY <2>1
        <3>2. x >= d.limit /\ D = AddChar(d, x)
            BY <2>1, <2>4, <2>6, <3>1, TheLast
        <3>3. E = AddChar(e, x)
            <4>1. ~(e.left > 1) /\ ~(x < e.limit)
                <5>1. e.left = 1 /\ x >= e.limit
                    BY <1>2, <2>2, <2>6, <3>2
                <5>2. e.limit \in Nat
                    BY StateFields
                <5> QED  BY <2>4, <5>1, <5>2
            <4> QED  BY <2>3, <4>1 DEF LaterByte
        <3> QED  BY <1>1, <2>4, <3>2, <3>3, BehindAdded
    <2> QED  BY <2>2, <2>5, <2>6, StateFields
<1> QED  BY <1>6, <1>7

LEMMA ReadBehind ==
    ASSUME NEW p \in Text, Decoded(p).good, Decoded(p).left = 0, NEW q \in Text
    PROVE  Behind(Decoded(p \o q), Decoded(q), FromUtf8(p))
<1> DEFINE n == Len(q)
           pre(i) == SubSeq(q, 1, i)
           w == FromUtf8(p)
           T == {i \in 0..n : Behind(Decoded(p \o pre(i)), Decoded(pre(i)), w)}
<1>1. n \in Nat
    BY DEF Text
<1>2. w \in Text
    BY DecodedType
<1>3. 0 \in T
    <2>1. pre(0) = <<>> /\ p \o <<>> = p
        BY WholePrefix, ConcatEmptySeq DEF Text
    <2>2. w \o <<>> = w
        BY <1>2, ConcatEmptySeq DEF Text
    <2>3. Behind(Decoded(p), Fresh, w)
        <3>1. Fresh.good /\ Fresh.left = 0 /\ Fresh.chars = <<>>
            BY DEF Fresh
        <3>2. Decoded(p).chars = w
            BY DEF FromUtf8
        <3> HIDE DEF w
        <3> QED  BY <2>2, <3>1, <3>2 DEF Behind
    <2>4. 0 \in 0..n
        BY <1>1
    <2> HIDE DEF pre, w, n
    <2> QED  BY <2>1, <2>3, <2>4, DecodedEmpty
<1>4. ASSUME NEW i \in 1..n, i - 1 \in T PROVE i \in T
    <2>1. pre(i - 1) \in Text /\ pre(i) = Append(pre(i - 1), q[i]) /\ q[i] \in Int
        BY PrefixGrows DEF Text
    <2> DEFINE d == Decoded(p \o pre(i - 1))  e == Decoded(pre(i - 1))
    <2> HIDE DEF w
    <2>2. Behind(d, e, w)
        BY <1>4
    <2> HIDE DEF pre
    <2>3. p \o pre(i - 1) \in Text
        BY <2>1 DEF Text
    <2>4. p \o pre(i) = Append(p \o pre(i - 1), q[i])
        <3> DEFINE c == q[i]  u == pre(i - 1)
        <3> HIDE DEF c, u
        <3>1. u \in Text /\ c \in Int
            BY <2>1 DEF c, u
        <3>2. Append(p \o u, c) = p \o Append(u, c)
            BY <3>1, AppendConcat
        <3> QED  BY <2>1, <3>2 DEF c, u
    <2>5. Decoded(p \o pre(i)) = NextByte(d, q[i]) /\ Decoded(pre(i)) = NextByte(e, q[i])
        BY <2>1, <2>3, <2>4, DecodedAppend
    <2>6. d \in States /\ e \in States
        BY <2>1, <2>3, DecodedType
    <2> HIDE DEF d, e
    <2>7. Behind(NextByte(d, q[i]), NextByte(e, q[i]), w)
        BY <1>2, <2>1, <2>2, <2>6, BehindStep
    <2> QED  BY <1>1, <2>5, <2>7
<1>5. \A i \in 0..n : i \in T
    <2> HIDE DEF T
    <2> QED  BY <1>1, <1>3, <1>4, InductionUpTo
<1>6. n \in T
    BY <1>1, <1>5
<1>7. pre(n) = q
    BY WholePrefix DEF Text
<1> QED  BY <1>6, <1>7

\* A blank ends a character.
LEMMA BlankIsComplete ==
    ASSUME NEW s \in Text, Decoded(Append(s, Blank)).good
    PROVE  Decoded(Append(s, Blank)).left = 0
<1>1. Blank \in Int
    BY DEF Blank
<1>2. Decoded(Append(s, Blank)) = NextByte(Decoded(s), Blank)
    BY <1>1, DecodedAppend
<1>3. Decoded(s) \in States
    BY DecodedType
<1>4. NextByte(Decoded(s), Blank) = AddChar(Decoded(s), Blank)
    BY <1>2, <1>3, BlankAdded
<1> QED  BY <1>2, <1>4 DEF AddChar

\* Nothing but a part of the characters is left of a text that is cut behind a
\* blank.
LEMMA SuffixAccepted ==
    ASSUME NEW t \in Text, Decoded(t).good, NEW m \in 1..Len(t), t[m] = Blank
    PROVE  LET q == SubSeq(t, m + 1, Len(t))
           IN  /\ q \in Text /\ Decoded(q).good
               /\ \A k \in DOMAIN FromUtf8(q) : FromUtf8(q)[k] \in ToSet(FromUtf8(t))
<1> DEFINE q == SubSeq(t, m + 1, Len(t))  p == SubSeq(t, 1, m)
<1>1. Len(t) \in Nat
    BY DEF Text
<1>2. q \in Text /\ p \o q = t
    BY <1>1 DEF Text
<1>3. p \in Text /\ Decoded(p).good
    BY <1>1, PrefixAccepted
<1>4. Decoded(p).left = 0
    <2>1. SubSeq(t, 1, m - 1) \in Text /\ p = Append(SubSeq(t, 1, m - 1), Blank)
        BY PrefixGrows DEF Text
    <2> HIDE DEF p
    <2> QED  BY <1>3, <2>1, BlankIsComplete
<1> HIDE DEF p, q
<1>5. Behind(Decoded(t), Decoded(q), FromUtf8(p))
    BY <1>2, <1>3, <1>4, ReadBehind
<1>6. Decoded(q).good /\ FromUtf8(t) = FromUtf8(p) \o FromUtf8(q)
    BY <1>5 DEF Behind, FromUtf8
<1>7. FromUtf8(p) \in Text /\ FromUtf8(q) \in Text
    BY <1>2, <1>3, DecodedType
<1>8. ASSUME NEW k \in DOMAIN FromUtf8(q) PROVE FromUtf8(q)[k] \in ToSet(FromUtf8(t))
    <2> DEFINE a == FromUtf8(p)  b == FromUtf8(q)
    <2> HIDE DEF a, b
    <2>1. a \in Seq(Int) /\ b \in Seq(Int) /\ FromUtf8(t) = a \o b /\ k \in DOMAIN b
        BY <1>6, <1>7 DEF a, b, Text
    <2>2. Len(a) + k \in DOMAIN (a \o b) /\ (a \o b)[Len(a) + k] = b[k]
        BY <2>1
    <2>3. b[k] \in ToSet(a \o b)
        BY <2>2 DEF ToSet
    <2> QED  BY <2>1, <2>3 DEF b
<1> QED  BY <1>2, <1>6, <1>8 DEF q

-----------------------------------------------------------------------------
(* Title case. *)

\* A character of a title is one of the text, or its lower case.
LEMMA TitledChars ==
    ASSUME NEW w \in Text
    PROVE  /\ Titled(w) \in Text /\ DOMAIN Titled(w) = DOMAIN w
           /\ \A i \in DOMAIN w :
                Titled(w)[i] = w[i] \/ (w[i] \in Upper /\ Titled(w)[i] = LowerOf[w[i]])
<1>1. DOMAIN w = 1..Len(w) /\ Len(w) \in Nat /\ \A i \in DOMAIN w : w[i] \in Int
    BY DEF Text
<1> DEFINE l(i) == w[i] \in Alnum \cap Upper /\ ~StartsWord(w, i) /\ ~IsCD(w, i)
           v == ToTitleCase(w)
<1>2. v = [i \in DOMAIN w |-> IF l(i) THEN LowerOf[w[i]] ELSE w[i]]
    BY DEF ToTitleCase
<1>3. ASSUME NEW i \in DOMAIN w
      PROVE  v[i] \in Int /\ (v[i] = w[i] \/ (w[i] \in Upper /\ v[i] = LowerOf[w[i]]))
    <2>1. CASE l(i)
        <3>1. w[i] \in Upper
            BY <2>1
        <3>2. v[i] = LowerOf[w[i]]
            BY <1>2, <2>1
        <3>3. LowerOf[w[i]] \in Nat
            BY <3>1, LowerCase
        <3> QED  BY <3>1, <3>2, <3>3
    <2>2. CASE ~l(i)
        <3>1. v[i] = w[i]
            BY <1>2, <2>2
        <3> QED  BY <1>1, <3>1
    <2> QED  BY <2>1, <2>2
<1> HIDE DEF l
<1>4. DOMAIN v = DOMAIN w
    BY <1>2
<1>5. v \in Text
    <2>1. v = [i \in 1..Len(w) |-> v[i]]
        BY <1>1, <1>2
    <2> HIDE DEF v
    <2> QED  BY <1>1, <1>3, <2>1 DEF Text
<1>6. Titled(w) = IF MostlyUppercase(w) THEN v ELSE w
    BY DEF Titled
<1> HIDE DEF v
<1> QED  BY <1>3, <1>4, <1>5, <1>6

LEMMA LowerIsUnicode ==
    ASSUME NEW ch \in Upper
    PROVE  /\ IsUnicode(LowerOf[ch]) /\ LowerOf[ch] \in Nat
           /\ LowerOf[ch] \in Upper => LowerOf[LowerOf[ch]] = LowerOf[ch]
BY LibraryAssumption

LEMMA TitledUnicode ==
    ASSUME NEW w \in Text, \A i \in DOMAIN w : IsUnicode(w[i])
    PROVE  \A i \in DOMAIN Titled(w) : IsUnicode(Titled(w)[i])
<1> TAKE i \in DOMAIN Titled(w)
<1>1. i \in DOMAIN w
    BY TitledChars
<1>2. CASE Titled(w)[i] = w[i]
    BY <1>1, <1>2
<1>3. CASE w[i] \in Upper /\ Titled(w)[i] = LowerOf[w[i]]
    <2>1. IsUnicode(LowerOf[w[i]])
        BY <1>3, LowerIsUnicode
    <2> QED  BY <1>3, <2>1
<1> QED  BY <1>1, <1>2, <1>3, TitledChars

LEMMA TitledNormalized ==
    ASSUME NEW w \in Text, \A i \in DOMAIN w : Normal(w[i])
    PROVE  NormalizedChars(Titled(w)) = NormalizedChars(w)
<1> DEFINE v == Titled(w)
<1>1. /\ DOMAIN v = DOMAIN w
      /\ \A i \in DOMAIN w : v[i] = w[i] \/ (w[i] \in Upper /\ v[i] = LowerOf[w[i]])
    BY TitledChars
<1> HIDE DEF v
<1>2. ASSUME NEW i \in DOMAIN w PROVE Lower(v[i]) = Lower(w[i])
    <2>1. CASE w[i] \in Upper /\ v[i] = LowerOf[w[i]]
        <3>1. Lower(w[i]) = LowerOf[w[i]] /\ Lower(LowerOf[w[i]]) = LowerOf[w[i]]
            BY <2>1, LowerCase
        <3> QED  BY <2>1, <3>1
    <2> QED  BY <1>1, <2>1
<1>3. ASSUME NEW i \in DOMAIN w PROVE Normal(v[i])
    <2>1. CASE w[i] \in Upper /\ v[i] = LowerOf[w[i]]
        <3> DEFINE l == LowerOf[w[i]]
        <3>1. IsUnicode(l) /\ l \in Nat
            BY <2>1, LowerIsUnicode
        <3>2. ASSUME l \in Upper PROVE LowerOf[l] = l
            BY <2>1, <3>2, LowerIsUnicode
        <3>3. ASSUME l \in Upper, l > 255 PROVE LowerOf[l] \notin 192..255
            BY <3>1, <3>2, <3>3
        <3>4. Normal(l)
            BY <3>1, <3>3 DEF Normal
        <3> QED  BY <2>1, <3>4
    <2> QED  BY <1>1, <2>1
<1>4. Lowered(w) = Lowered(v)
    BY <1>1, <1>2 DEF Lowered
<1>5. NormalizedChars(w) = NormalizedChars(v)
    BY <1>1, <1>3, <1>4, SameTextsButForCase
<1> QED  BY <1>5 DEF v

LEMMA TitleCaseIsRead ==
    ASSUME NEW t \in Text, Decoded(t).good
    PROVE  /\ ConvertToTitlecase(t) \in Text /\ Decoded(ConvertToTitlecase(t)).good
           /\ (\A i \in DOMAIN FromUtf8(t) : IsUnicode(FromUtf8(t)[i]))
                => FromUtf8(ConvertToTitlecase(t)) = Titled(FromUtf8(t))
<1> DEFINE w == FromUtf8(t)  v == Titled(w)
<1>1. w \in Text
    BY DecodedType
<1> HIDE DEF w
<1>2. v \in Text
    BY <1>1, TitledChars
<1>3. (\A i \in DOMAIN w : IsUnicode(w[i])) => \A i \in DOMAIN v : IsUnicode(v[i])
    BY <1>1, TitledUnicode
<1>4. ConvertToTitlecase(t) = IF v # w THEN WideToUtf8(v) ELSE t
    BY DEF ConvertToTitlecase, w
<1> HIDE DEF v
<1>5. /\ WideToUtf8(v) \in Text /\ Decoded(WideToUtf8(v)).good
      /\ (\A i \in DOMAIN v : IsUnicode(v[i])) => FromUtf8(WideToUtf8(v)) = v
    BY <1>2, WrittenIsRead
<1>6. CASE v # w
    BY <1>3, <1>4, <1>5, <1>6 DEF v, w
<1>7. CASE v = w
    BY <1>4, <1>7 DEF v, w
<1> QED  BY <1>6, <1>7

\* A text after cleanup().
LEMMA Cleaned ==
    ASSUME NEW t \in Text, Decoded(t).good
    PROVE  /\ Clean(t) \in Text /\ Decoded(Clean(t)).good
           /\ (\A ch \in ToSet(FromUtf8(t)) : IsUnicode(ch))
                => FromUtf8(Clean(t)) = Titled(FromUtf8(TrimAll(t)))
           /\ (\A ch \in ToSet(FromUtf8(t)) : Normal(ch))
                => Normalize(Clean(t)) = Normalize(t)
<1> DEFINE u == TrimAll(t)
<1>1. /\ u \in Text /\ Decoded(u).good /\ Normalize(u) = Normalize(t)
      /\ \A k \in DOMAIN FromUtf8(u) : FromUtf8(u)[k] \in ToSet(FromUtf8(t))
    BY Trimmed
<1>2. Clean(t) = ConvertToTitlecase(u)
    BY DEF Clean
<1> HIDE DEF u
<1>3. /\ Clean(t) \in Text /\ Decoded(Clean(t)).good
      /\ (\A i \in DOMAIN FromUtf8(u) : IsUnicode(FromUtf8(u)[i]))
            => FromUtf8(Clean(t)) = Titled(FromUtf8(u))
    BY <1>1, <1>2, TitleCaseIsRead
<1>4. ASSUME \A ch \in ToSet(FromUtf8(t)) : IsUnicode(ch)
      PROVE  FromUtf8(Clean(t)) = Titled(FromUtf8(u))
    BY <1>1, <1>3, <1>4
<1>5. ASSUME \A ch \in ToSet(FromUtf8(t)) : Normal(ch)
      PROVE  Normalize(Clean(t)) = Normalize(t)
    <2>1. \A ch \in ToSet(FromUtf8(t)) : IsUnicode(ch)
        BY <1>5 DEF Normal
    <2>2. FromUtf8(Clean(t)) = Titled(FromUtf8(u))
        BY <1>4, <2>1
    <2>3. \A i \in DOMAIN FromUtf8(u) : Normal(FromUtf8(u)[i])
        BY <1>1, <1>5
    <2>4. FromUtf8(u) \in Text
        BY <1>1, DecodedType
    <2>5. NormalizedChars(Titled(FromUtf8(u))) = NormalizedChars(FromUtf8(u))
        BY <2>3, <2>4, TitledNormalized
    <2> QED  BY <1>1, <2>2, <2>5 DEF Normalize
<1> QED  BY <1>3, <1>4, <1>5 DEF u

-----------------------------------------------------------------------------
(* What Format writes into a file is a text. *)

\* A line: its key, the equals sign, its value and the newline.
IsLine(l, key, value) ==
    /\ l \in Text /\ Len(l) = Len(key) + Len(value) + 2
    /\ \A i \in 1..Len(key) : l[i] = key[i]
    /\ l[Len(key) + 1] = 61
    /\ \A i \in (Len(key) + 2)..(Len(key) + Len(value) + 1) :
            l[i] = value[i - Len(key) - 1]
    /\ l[Len(key) + Len(value) + 2] = 10

LEMMA TextLineIs ==
    ASSUME NEW key \in Text, NEW value \in Text
    PROVE  IsLine(TextLine(key, value), key, value)
<1> DEFINE l == TextLine(key, value)  m == Len(key)  n == Len(value)
<1> DEFINE equals == <<61>>  newline == <<10>>
           a == key \o equals  c == a \o value
<1>0. /\ equals \in Text /\ Len(equals) = 1 /\ equals[1] = 61
      /\ newline \in Text /\ Len(newline) = 1 /\ newline[1] = 10
      /\ m \in Nat /\ n \in Nat
    BY OneByte DEF Text
<1>1. l = c \o newline
    BY DEF TextLine, Equals, LineFeed
<1> HIDE DEF equals, newline, l
<1>2. /\ a \in Text /\ Len(a) = m + 1
      /\ \A i \in 1..m : a[i] = key[i]
      /\ a[m + 1] = 61
    <2> HIDE DEF a
    <2>1. /\ a \in Text /\ Len(a) = Len(key) + Len(equals)
          /\ \A i \in 1..Len(key) : a[i] = key[i]
          /\ \A i \in (Len(key) + 1)..(Len(key) + Len(equals)) : a[i] = equals[i - Len(key)]
        <3>1. a = key \o equals
            BY DEF a
        <3>2. IsConcat(a, key, equals)
            BY <1>0, <3>1, ConcatIs, Zenon
        <3> QED  BY <3>2 DEF IsConcat
    <2>2. a[m + 1] = equals[(m + 1) - m]
        BY <1>0, <2>1
    <2> QED  BY <1>0, <2>1, <2>2
<1> HIDE DEF a
<1>3. /\ c \in Text /\ Len(c) = m + 1 + n
      /\ \A i \in 1..(m + 1) : c[i] = a[i]
      /\ \A i \in (m + 2)..(m + 1 + n) : c[i] = value[i - m - 1]
    <2> HIDE DEF c
    <2>1. /\ c \in Text /\ Len(c) = Len(a) + Len(value)
          /\ \A i \in 1..Len(a) : c[i] = a[i]
          /\ \A i \in (Len(a) + 1)..(Len(a) + Len(value)) : c[i] = value[i - Len(a)]
        <3>1. c = a \o value
            BY DEF c
        <3>2. IsConcat(c, a, value)
            BY <1>2, <3>1, ConcatIs, Zenon
        <3> QED  BY <3>2 DEF IsConcat
    <2>2. ASSUME NEW i \in (m + 2)..(m + 1 + n) PROVE c[i] = value[i - m - 1]
        <3>1. c[i] = value[i - Len(a)]
            BY <1>0, <1>2, <2>1
        <3>2. i - Len(a) = i - m - 1
            BY <1>0, <1>2
        <3> QED  BY <3>1, <3>2
    <2> QED  BY <1>0, <1>2, <2>1, <2>2
<1> HIDE DEF c
<1>4. /\ l \in Text /\ Len(l) = Len(c) + Len(newline)
      /\ \A i \in 1..Len(c) : l[i] = c[i]
      /\ \A i \in (Len(c) + 1)..(Len(c) + Len(newline)) : l[i] = newline[i - Len(c)]
    <2>1. IsConcat(l, c, newline)
        BY <1>0, <1>1, <1>3, ConcatIs, Zenon
    <2> QED  BY <2>1 DEF IsConcat
<1>5. l[m + n + 2] = newline[(m + n + 2) - (m + 1 + n)]
    <2>1. Len(c) + 1 = m + n + 2 /\ m + n + 2 \in (Len(c) + 1)..(Len(c) + Len(newline))
        BY <1>0, <1>3
    <2> QED  BY <1>3, <1>4, <2>1
<1>6. l[m + n + 2] = 10
    BY <1>0, <1>5
<1>7. /\ l \in Text /\ Len(l) = m + n + 2
    BY <1>0, <1>3, <1>4
<1>8. ASSUME NEW i \in 1..m PROVE l[i] = key[i]
    BY <1>0, <1>2, <1>3, <1>4
<1>9. l[m + 1] = 61
    BY <1>0, <1>2, <1>3, <1>4
<1>10. ASSUME NEW i \in (m + 2)..(m + n + 1) PROVE l[i] = value[i - m - 1]
    BY <1>0, <1>3, <1>4
<1> QED  BY <1>6, <1>7, <1>8, <1>9, <1>10 DEF IsLine, l

LEMMA FieldsAre ==
    /\ FirstField \in Text /\ Len(FirstField) = 3
    /\ FirstField[1] = 123 /\ FirstField[2] = 48 /\ FirstField[3] = 125
    /\ SecondField \in Text /\ Len(SecondField) = 3
    /\ SecondField[1] = 123 /\ SecondField[2] = 49 /\ SecondField[3] = 125
    /\ Slash \in Text /\ Len(Slash) = 3
    /\ Slash[1] = 32 /\ Slash[2] = 47 /\ Slash[3] = 32
BY DEF FirstField, SecondField, Slash, OpenBrace, CloseBrace, Text

LEMMA KeysAre ==
    /\ TitleKey \in Text /\ Len(TitleKey) = 6
    /\ TitleKey[1] = 68 /\ TitleKey[2] = 84 /\ TitleKey[3] = 73
    /\ TitleKey[4] = 84 /\ TitleKey[5] = 76 /\ TitleKey[6] = 69
    /\ GenreKey \in Text /\ Len(GenreKey) = 6
    /\ GenreKey[1] = 68 /\ GenreKey[2] = 71 /\ GenreKey[3] = 69
    /\ GenreKey[4] = 78 /\ GenreKey[5] = 82 /\ GenreKey[6] = 69
    /\ SongKey \in Text /\ Len(SongKey) = 6
    /\ SongKey[1] = 84 /\ SongKey[2] = 84 /\ SongKey[3] = 73
    /\ SongKey[4] = 84 /\ SongKey[5] = 76 /\ SongKey[6] = 69
BY DEF TitleKey, GenreKey, SongKey, Text

\* The three lines of a file: where their fields are.
LEMMA TitleLineIs ==
    /\ TitleLine \in Text /\ Len(TitleLine) = 17
    /\ TitleLine[1] = 68 /\ TitleLine[2] = 84 /\ TitleLine[3] = 73 /\ TitleLine[4] = 84
    /\ TitleLine[5] = 76 /\ TitleLine[6] = 69 /\ TitleLine[7] = 61 /\ TitleLine[8] = 123
    /\ TitleLine[9] = 48 /\ TitleLine[10] = 125 /\ TitleLine[11] = 32 /\ TitleLine[12] = 47
    /\ TitleLine[13] = 32 /\ TitleLine[14] = 123 /\ TitleLine[15] = 49 /\ TitleLine[16] = 125
    /\ TitleLine[17] = 10
<1> DEFINE head == FirstField \o Slash  value == head \o SecondField
           l == TitleLine
<1>1. l = TextLine(TitleKey, value)
    BY DEF TitleLine
<1> HIDE DEF l
<1>2. /\ value \in Text /\ Len(value) = Len(head) + Len(SecondField)
      /\ \A i \in 1..Len(head) : value[i] = head[i]
      /\ \A i \in (Len(head) + 1)..(Len(head) + Len(SecondField)) :
            value[i] = SecondField[i - Len(head)]
      /\ head \in Text /\ Len(head) = Len(FirstField) + Len(Slash)
      /\ \A i \in 1..Len(FirstField) : head[i] = FirstField[i]
      /\ \A i \in (Len(FirstField) + 1)..(Len(FirstField) + Len(Slash)) :
            head[i] = Slash[i - Len(FirstField)]
    <2> HIDE DEF head, value
    <2>1. /\ head \in Text /\ Len(head) = Len(FirstField) + Len(Slash)
          /\ \A i \in 1..Len(FirstField) : head[i] = FirstField[i]
          /\ \A i \in (Len(FirstField) + 1)..(Len(FirstField) + Len(Slash)) :
                head[i] = Slash[i - Len(FirstField)]
        <3>1. head = FirstField \o Slash
            BY DEF head
        <3>2. IsConcat(head, FirstField, Slash)
            BY <3>1, FieldsAre, ConcatIs, Zenon
        <3> QED  BY <3>2 DEF IsConcat
    <2>2. /\ value \in Text /\ Len(value) = Len(head) + Len(SecondField)
          /\ \A i \in 1..Len(head) : value[i] = head[i]
          /\ \A i \in (Len(head) + 1)..(Len(head) + Len(SecondField)) :
                value[i] = SecondField[i - Len(head)]
        <3>1. value = head \o SecondField
            BY DEF value
        <3>2. IsConcat(value, head, SecondField)
            BY <2>1, <3>1, FieldsAre, ConcatIs, Zenon
        <3> QED  BY <3>2 DEF IsConcat
    <2> QED  BY <2>1, <2>2
<1> HIDE DEF head, value
<1>3. Len(head) = 6 /\ Len(value) = 9
    BY <1>2, FieldsAre
<1>4. /\ value[1] = 123 /\ value[2] = 48 /\ value[3] = 125
      /\ value[4] = 32 /\ value[5] = 47 /\ value[6] = 32
    <2>1. /\ head[1] = 123 /\ head[2] = 48 /\ head[3] = 125
        BY <1>2, FieldsAre
    <2>2. head[4] = Slash[1] /\ head[5] = Slash[2] /\ head[6] = Slash[3]
        BY <1>2, FieldsAre
    <2> QED  BY <1>2, <1>3, <2>1, <2>2, FieldsAre
<1>5. value[7] = 123 /\ value[8] = 49 /\ value[9] = 125
    <2>1. value[7] = SecondField[1] /\ value[8] = SecondField[2] /\ value[9] = SecondField[3]
        BY <1>2, <1>3, FieldsAre
    <2> QED  BY <2>1, FieldsAre
<1>6. /\ l \in Text /\ Len(l) = 6 + 9 + 2
      /\ \A i \in 1..6 : l[i] = TitleKey[i]
      /\ l[6 + 1] = 61
      /\ \A i \in (6 + 2)..(6 + 9 + 1) : l[i] = value[i - 6 - 1]
      /\ l[6 + 9 + 2] = 10
    <2>1. IsLine(l, TitleKey, value)
        BY <1>1, <1>2, <1>3, KeysAre, TextLineIs, Zenon
    <2>2. Len(TitleKey) = 6 /\ Len(value) = 9
        BY <1>3, KeysAre
    <2> QED  BY <2>1, <2>2 DEF IsLine
<1>7. /\ l[8] = value[1] /\ l[9] = value[2] /\ l[10] = value[3]
      /\ l[11] = value[4] /\ l[12] = value[5] /\ l[13] = value[6]
      /\ l[14] = value[7] /\ l[15] = value[8] /\ l[16] = value[9]
    BY <1>6
<1>8. /\ l[1] = TitleKey[1] /\ l[2] = TitleKey[2] /\ l[3] = TitleKey[3]
      /\ l[4] = TitleKey[4] /\ l[5] = TitleKey[5] /\ l[6] = TitleKey[6]
    BY <1>6
<1> QED  BY <1>4, <1>5, <1>6, <1>7, <1>8, KeysAre DEF l

LEMMA GenreLineIs ==
    /\ GenreLine \in Text /\ Len(GenreLine) = 11
    /\ GenreLine[1] = 68 /\ GenreLine[2] = 71 /\ GenreLine[3] = 69 /\ GenreLine[4] = 78
    /\ GenreLine[5] = 82 /\ GenreLine[6] = 69 /\ GenreLine[7] = 61 /\ GenreLine[8] = 123
    /\ GenreLine[9] = 48 /\ GenreLine[10] = 125 /\ GenreLine[11] = 10
<1> DEFINE l == GenreLine
<1>1. l = TextLine(GenreKey, FirstField)
    BY DEF GenreLine
<1> HIDE DEF l
<1>2. /\ l \in Text /\ Len(l) = 6 + 3 + 2
      /\ \A i \in 1..6 : l[i] = GenreKey[i]
      /\ l[6 + 1] = 61
      /\ \A i \in (6 + 2)..(6 + 3 + 1) : l[i] = FirstField[i - 6 - 1]
      /\ l[6 + 3 + 2] = 10
    <2>1. IsLine(l, GenreKey, FirstField)
        BY <1>1, KeysAre, FieldsAre, TextLineIs, Zenon
    <2>2. Len(GenreKey) = 6 /\ Len(FirstField) = 3
        BY KeysAre, FieldsAre
    <2> QED  BY <2>1, <2>2 DEF IsLine
<1>3. l[8] = FirstField[1] /\ l[9] = FirstField[2] /\ l[10] = FirstField[3]
    BY <1>2
<1> QED  BY <1>2, <1>3, KeysAre, FieldsAre DEF l

LEMMA SongLineIs ==
    /\ SongLine \in Text /\ Len(SongLine) = 14
    /\ SongLine[1] = 84 /\ SongLine[2] = 84 /\ SongLine[3] = 73 /\ SongLine[4] = 84
    /\ SongLine[5] = 76 /\ SongLine[6] = 69 /\ SongLine[7] = 123 /\ SongLine[8] = 48
    /\ SongLine[9] = 125 /\ SongLine[10] = 61 /\ SongLine[11] = 123 /\ SongLine[12] = 49
    /\ SongLine[13] = 125 /\ SongLine[14] = 10
<1> DEFINE l == SongLine  key == SongKey \o FirstField
<1>1. l = TextLine(key, SecondField)
    BY DEF SongLine
<1> HIDE DEF l, key
<1>2. /\ key \in Text /\ Len(key) = Len(SongKey) + Len(FirstField)
      /\ \A i \in 1..Len(SongKey) : key[i] = SongKey[i]
      /\ \A i \in (Len(SongKey) + 1)..(Len(SongKey) + Len(FirstField)) :
            key[i] = FirstField[i - Len(SongKey)]
    <2>1. key = SongKey \o FirstField
        BY DEF key
    <2>2. IsConcat(key, SongKey, FirstField)
        BY <2>1, KeysAre, FieldsAre, ConcatIs, Zenon
    <2> QED  BY <2>2 DEF IsConcat
<1>3. /\ Len(key) = 9
      /\ key[1] = SongKey[1] /\ key[2] = SongKey[2] /\ key[3] = SongKey[3]
      /\ key[4] = SongKey[4] /\ key[5] = SongKey[5] /\ key[6] = SongKey[6]
      /\ key[7] = FirstField[1] /\ key[8] = FirstField[2] /\ key[9] = FirstField[3]
    BY <1>2, KeysAre, FieldsAre
<1>4. /\ l \in Text /\ Len(l) = 9 + 3 + 2
      /\ \A i \in 1..9 : l[i] = key[i]
      /\ l[9 + 1] = 61
      /\ \A i \in (9 + 2)..(9 + 3 + 1) : l[i] = SecondField[i - 9 - 1]
      /\ l[9 + 3 + 2] = 10
    <2>1. IsLine(l, key, SecondField)
        BY <1>1, <1>2, <1>3, FieldsAre, TextLineIs, Zenon
    <2>2. Len(key) = 9 /\ Len(SecondField) = 3
        BY <1>3, FieldsAre
    <2> QED  BY <2>1, <2>2 DEF IsLine
<1>5. l[11] = SecondField[1] /\ l[12] = SecondField[2] /\ l[13] = SecondField[3]
    BY <1>4
<1> QED  BY <1>3, <1>4, <1>5, KeysAre, FieldsAre DEF l

\* A part of one character.
LEMMA OneCharacter ==
    ASSUME NEW s \in Text, NEW i \in 1..Len(s)
    PROVE  SubSeq(s, i, i) = <<s[i]>>
<1> DEFINE t == SubSeq(s, i, i)
<1>1. t \in Text /\ Len(t) = 1 /\ t[1] = s[i]
    BY DEF Text
<1>2. \A u \in Text : Len(u) = 1 => u = <<u[1]>>
    BY DEF Text
<1> HIDE DEF t
<1>3. t = <<s[i]>>
    BY <1>1, <1>2
<1> QED  BY <1>3 DEF t

-----------------------------------------------------------------------------
(* What Format makes of the lines of a file, to the last character.        *)

\* The loop stays at the end of the format string.
LEMMA EndOfFormat ==
    ASSUME NEW format \in Text, NEW args, NEW at \in Nat, at = Len(format) + 1,
           NEW t \in Text
    PROVE  NextPiece(format, args, [at |-> at, text |-> t]) = [at |-> at, text |-> t]
<1> DEFINE d == [at |-> at, text |-> t]  part == SubSeq(format, at, Len(format))
           n == Len(format)
<1>1. { i \in d.at..n : format[i] \in {OpenBrace, CloseBrace} } = {}
    OBVIOUS
<1>2. NextPiece(format, args, d) = [at |-> n + 1, text |-> t \o part]
    BY <1>1 DEF NextPiece
<1>3. t \o part = t
    <2>1. n \in Nat /\ n < at
        BY DEF Text
    <2>2. part = <<>>
        <3> HIDE DEF n
        <3>1. at \in Int /\ n \in Int
            BY <2>1
        <3>2. SubSeq(format, at, n) = <<>>
            BY <2>1, <3>1, SubSeqEmpty
        <3> QED  BY <3>2 DEF n
    <2> HIDE DEF part
    <2> QED  BY <2>2, ConcatEmptySeq DEF Text
<1> QED  BY <1>2, <1>3

EndsAt(f, format, k) == f[Len(format)].text = f[k].text

LEMMA LoopAtEnd ==
    ASSUME NEW format \in Text, NEW args, NEW Stops, Stops \subseteq Nat, NEW f,
           ArePieces(f, format, args, Stops),
           NEW k \in 0..Len(format), f[k].at = Len(format) + 1
    PROVE  EndsAt(f, format, k)
<1> DEFINE n == Len(format)
           T == {j \in 0..n : j >= k => f[j] = f[k]}
<1>1. n \in Nat
    BY DEF Text
<1>2. /\ f \in [0..n -> [at: Stops, text: Text]]
      /\ \A j \in 1..n : f[j] = NextPiece(format, args, f[j - 1])
    BY DEF ArePieces
<1>3. 0 \in T
    BY <1>1
<1>4. ASSUME NEW j \in 1..n, j - 1 \in T PROVE j \in T
    <2>1. CASE j <= k
        <3> HIDE DEF n
        <3> QED  BY <1>1, <2>1
    <2>2. CASE j > k
        <3>1. j - 1 \in 0..n /\ k \in 0..n /\ j \in 1..n /\ j \in 0..n
            BY <1>1, <2>2
        <3>2. f[j - 1] = f[k]
            BY <1>4, <2>2, <3>1
        <3> DEFINE d == f[k]
        <3>3. d \in [at: Stops, text: Text]
            BY <1>2, <3>1
        <3>4. f[j] = NextPiece(format, args, d)
            BY <1>2, <3>1, <3>2
        <3>5. d.at = n + 1
            OBVIOUS
        <3> HIDE DEF d, n
        <3>6. d = [at |-> d.at, text |-> d.text] /\ d.at \in Nat /\ d.text \in Text
            BY <3>3
        <3>7. NextPiece(format, args, [at |-> d.at, text |-> d.text])
                    = [at |-> d.at, text |-> d.text]
            BY <3>5, <3>6, EndOfFormat DEF n
        <3>8. f[j] = d
            BY <3>4, <3>6, <3>7
        <3> QED  BY <3>1, <3>8 DEF d
    <2> HIDE DEF T
    <2> QED  BY <1>1, <2>1, <2>2
<1>5. n \in T
    <2> HIDE DEF T
    <2>1. \A j \in 0..n : j \in T
        BY <1>1, <1>3, <1>4, InductionUpTo
    <2> QED  BY <1>1, <2>1
<1> QED  BY <1>1, <1>5 DEF EndsAt

\* What stands for the fields {0} and {1}.
LEMMA FieldIs ==
    ASSUME NEW args, NEW n \in 0..1, NEW field, field = <<48 + n>>
    PROVE  /\ args[n + 1].kind = "text" => FormatField(field, args) = args[n + 1].text
           /\ args[n + 1].kind = "number" =>
                FormatField(field, args) =
                    FormatDecimal(args[n + 1].number, CountDigits(args[n + 1].number))
<1> DEFINE type == SubSeq(field, Len(field) + 2, Len(field))
           arg == args[n + 1]
<1>1. Len(field) = 1 /\ field[1] = 48 + n
    OBVIOUS
<1>2. { i \in DOMAIN field : field[i] = Colon } = {}
    <2>1. ASSUME NEW i \in DOMAIN field PROVE field[i] # Colon
        BY DEF Colon
    <2> QED  BY <2>1
<1>3. GetArg(args, ParseNonnegativeInt(field)) = arg
    <2>1. ParseNonnegativeInt(field) = n
        BY OneDigit
    <2> QED  BY <2>1 DEF GetArg
<1>4. FormatField(field, args) = WriteArg(arg, type)
    <2> HIDE DEF arg
    <2> QED  BY <1>2, <1>3 DEF FormatField
<1>5. type # <<LetterX>>
    <2>1. Len(type) = 0
        BY <1>1
    <2>2. Len(<<LetterX>>) = 1
        OBVIOUS
    <2> QED  BY <2>1, <2>2
<1> HIDE DEF type, arg
<1>6. arg.kind = "text" => WriteArg(arg, type) = arg.text
    BY DEF WriteArg
<1>7. arg.kind = "number" =>
        WriteArg(arg, type) = FormatDecimal(arg.number, CountDigits(arg.number))
    BY <1>5 DEF WriteArg, WriteInt
<1> QED  BY <1>4, <1>6, <1>7 DEF arg

\* A format string with two fields, and no other braces.
TwoFields(format, b1, e1, b2, e2) ==
    /\ FieldAt(format, 1, b1, e1) /\ FieldAt(format, e1 + 1, b2, e2)
    /\ \A i \in (e2 + 1)..Len(format) : format[i] \notin {OpenBrace, CloseBrace}
    /\ b1 \in 1..Len(format) /\ e1 \in b1..Len(format)
    /\ b2 \in (e1 + 1)..Len(format) /\ e2 \in b2..Len(format)

Between(format, b, e) == SubSeq(format, b + 1, e - 1)

IsPiece(format, args, at, t, next, new) ==
    NextPiece(format, args, [at |-> at, text |-> t]) = [at |-> next, text |-> new]

LEMMA FieldIsPiece ==
    ASSUME NEW format \in Text, NEW args, NEW at \in Nat \ {0}, NEW t \in Text,
           NEW b \in Nat, NEW e \in Nat, FieldAt(format, at, b, e)
    PROVE  IsPiece(format, args, at, t, e + 1,
                   (t \o SubSeq(format, at, b - 1)) \o FormatField(Between(format, b, e), args))
<1>1. FieldTurn(format, args, at, t, b, e)
    BY FieldPiece, Zenon
<1> QED  BY <1>1 DEF FieldTurn, IsPiece, Between

LEMMA LastPiece ==
    ASSUME NEW format \in Text, NEW args, NEW at \in Nat \ {0}, NEW t \in Text,
           \A i \in at..Len(format) : format[i] \notin {OpenBrace, CloseBrace}
    PROVE  IsPiece(format, args, at, t, Len(format) + 1,
                   t \o SubSeq(format, at, Len(format)))
<1> DEFINE d == [at |-> at, text |-> t]
<1>1. { i \in d.at..Len(format) : format[i] \in {OpenBrace, CloseBrace} } = {}
    OBVIOUS
<1>2. NextPiece(format, args, d) =
        [at |-> Len(format) + 1, text |-> t \o SubSeq(format, at, Len(format))]
    BY <1>1 DEF NextPiece
<1> QED  BY <1>2 DEF IsPiece

StopsOf(format, e1, e2) == {1, e1 + 1, e2 + 1, Len(format) + 1}

LEMMA StopsStay ==
    ASSUME NEW format \in Text, NEW args, NEW b1, NEW e1, NEW b2, NEW e2,
           TwoFields(format, b1, e1, b2, e2),
           FormatField(Between(format, b1, e1), args) \in Text,
           FormatField(Between(format, b2, e2), args) \in Text
    PROVE  StaysAt(format, args, StopsOf(format, e1, e2))
<1> DEFINE n == Len(format)  Stops == StopsOf(format, e1, e2)
<1>1. /\ n \in Nat /\ b1 \in Nat /\ e1 \in Nat /\ b2 \in Nat /\ e2 \in Nat
      /\ 1 \in Nat \ {0} /\ e1 + 1 \in Nat \ {0} /\ e2 + 1 \in Nat \ {0} /\ n + 1 \in Nat \ {0}
      /\ b1 - 1 <= n /\ b2 - 1 <= n /\ b1 - 1 \in Int /\ b2 - 1 \in Int
    BY DEF TwoFields, Text
<1>2. ASSUME NEW t \in Text, NEW at \in Stops
      PROVE  NextPiece(format, args, [at |-> at, text |-> t]) \in [at: Stops, text: Text]
    <2> DEFINE Made(next, new) == IsPiece(format, args, at, t, next, new)
               Part(a, b) == SubSeq(format, a, b)
               first == FormatField(Between(format, b1, e1), args)
               second == FormatField(Between(format, b2, e2), args)
    <2>1. ASSUME NEW next \in Stops, NEW new \in Text, Made(next, new)
          PROVE  NextPiece(format, args, [at |-> at, text |-> t]) \in [at: Stops, text: Text]
        <3> HIDE DEF Stops
        <3> QED  BY <2>1 DEF IsPiece
    <2>2. CASE at = 1
        <3> DEFINE part == Part(1, b1 - 1)  new == (t \o part) \o first
        <3>1. IsPiece(format, args, 1, t, e1 + 1, new)
            BY <1>1, FieldIsPiece DEF TwoFields
        <3>2. part \in Text
            BY <1>1, PartType
        <3>3. t \o part \in Text
            <4> HIDE DEF part
            <4> QED  BY <3>2, ConcatType
        <3>4. new \in Text
            <4> DEFINE u == t \o part
            <4> HIDE DEF u, first
            <4>1. u \in Text /\ first \in Text
                BY <3>3 DEF u, first
            <4>2. u \o first \in Text
                BY <4>1, ConcatType
            <4> QED  BY <4>2 DEF u
        <3> HIDE DEF new
        <3>5. e1 + 1 \in Stops
            BY DEF StopsOf
        <3> QED  BY <2>1, <2>2, <3>1, <3>4, <3>5
    <2>3. CASE at = e1 + 1
        <3> DEFINE part == Part(e1 + 1, b2 - 1)  new == (t \o part) \o second
        <3>1. IsPiece(format, args, e1 + 1, t, e2 + 1, new)
            BY <1>1, FieldIsPiece DEF TwoFields
        <3>2. part \in Text
            BY <1>1, PartType
        <3>3. t \o part \in Text
            <4> HIDE DEF part
            <4> QED  BY <3>2, ConcatType
        <3>4. new \in Text
            <4> DEFINE u == t \o part
            <4> HIDE DEF u, second
            <4>1. u \in Text /\ second \in Text
                BY <3>3 DEF u, second
            <4>2. u \o second \in Text
                BY <4>1, ConcatType
            <4> QED  BY <4>2 DEF u
        <3> HIDE DEF new
        <3>5. e2 + 1 \in Stops
            BY DEF StopsOf
        <3> QED  BY <2>1, <2>3, <3>1, <3>4, <3>5
    <2>4. CASE at \in {e2 + 1, n + 1}
        <3> DEFINE part == Part(at, n)  new == t \o part
        <3>1. \A i \in at..n : format[i] \notin {OpenBrace, CloseBrace}
            BY <1>1, <2>4 DEF TwoFields
        <3>2. at \in Nat \ {0}
            BY <1>1, <2>4
        <3>3. IsPiece(format, args, at, t, n + 1, new)
            BY <3>1, <3>2, LastPiece
        <3>4. part \in Text
            BY <1>1, <3>2, PartType
        <3>5. new \in Text
            <4> HIDE DEF part
            <4> QED  BY <3>4, ConcatType
        <3> HIDE DEF new
        <3>6. n + 1 \in Stops
            BY DEF StopsOf
        <3> QED  BY <2>1, <3>3, <3>5, <3>6
    <2> QED  BY <2>2, <2>3, <2>4 DEF StopsOf
<1>3. ASSUME NEW d \in [at: Stops, text: Text]
      PROVE  NextPiece(format, args, d) \in [at: Stops, text: Text]
    <2>1. d.at \in Stops /\ d.text \in Text /\ d = [at |-> d.at, text |-> d.text]
        OBVIOUS
    <2> HIDE DEF Stops
    <2>2. NextPiece(format, args, [at |-> d.at, text |-> d.text]) \in [at: Stops, text: Text]
        BY <1>2, <2>1
    <2> QED  BY <2>1, <2>2
<1> QED  BY <1>3 DEF StaysAt

\* The text is what stands around the fields, and what stands for them.
FormatsTo(format, args, b1, e1, b2, e2, one, two) ==
    Format(format, args) =
        (((((<<>> \o SubSeq(format, 1, b1 - 1)) \o one)
            \o SubSeq(format, e1 + 1, b2 - 1)) \o two)
            \o SubSeq(format, e2 + 1, Len(format)))

LEMMA TwoFieldsAre ==
    ASSUME NEW format \in Text, NEW args, NEW b1, NEW e1, NEW b2, NEW e2,
           TwoFields(format, b1, e1, b2, e2),
           NEW one \in Text, FormatField(Between(format, b1, e1), args) = one,
           NEW two \in Text, FormatField(Between(format, b2, e2), args) = two
    PROVE  FormatsTo(format, args, b1, e1, b2, e2, one, two)
<1> DEFINE n == Len(format)  Stops == StopsOf(format, e1, e2)  f == PiecesOf(format, args)
           t1 == (<<>> \o SubSeq(format, 1, b1 - 1)) \o one
           t2 == (t1 \o SubSeq(format, e1 + 1, b2 - 1)) \o two
           t3 == t2 \o SubSeq(format, e2 + 1, n)
<1>1. /\ n \in Nat /\ b1 \in Nat /\ e1 \in Nat /\ b2 \in Nat /\ e2 \in Nat
      /\ 1 \in Nat \ {0} /\ e1 + 1 \in Nat \ {0} /\ e2 + 1 \in Nat \ {0} /\ n + 1 \in Nat \ {0}
      /\ b1 - 1 <= n /\ b2 - 1 <= n /\ b1 - 1 \in Int /\ b2 - 1 \in Int
      /\ b1 < e1 /\ e1 < b2 /\ b2 < e2 /\ e2 <= n /\ b1 >= 1
    <2>1. n \in Nat /\ b1 \in 1..n /\ e1 \in b1..n /\ b2 \in (e1 + 1)..n /\ e2 \in b2..n
        BY DEF TwoFields, Text
    <2>2. b1 # e1 /\ b2 # e2
        <3>1. /\ format[b1] = OpenBrace /\ format[e1] = CloseBrace
              /\ format[b2] = OpenBrace /\ format[e2] = CloseBrace
            BY DEF TwoFields, FieldAt
        <3>2. OpenBrace # CloseBrace
            BY DEF OpenBrace, CloseBrace
        <3> QED  BY <3>1, <3>2
    <2> HIDE DEF n
    <2> QED  BY <2>1, <2>2
<1>2. ArePieces(f, format, args, Stops)
    <2>1. StaysAt(format, args, Stops)
        BY StopsStay
    <2>2. 1 \in Stops
        BY DEF StopsOf
    <2> HIDE DEF Stops
    <2> QED  BY <2>1, <2>2, PiecesAre
<1>3. Format(format, args) = f[n].text
    BY DEF Format, PiecesOf
<1> HIDE DEF f
<1>4. /\ f[0] = [at |-> 1, text |-> <<>>]
      /\ f[1] = NextPiece(format, args, f[0])
      /\ f[2] = NextPiece(format, args, f[1])
      /\ f[3] = NextPiece(format, args, f[2])
    <2>1. 1 \in 1..n /\ 2 \in 1..n /\ 3 \in 1..n /\ 1 - 1 = 0 /\ 2 - 1 = 1 /\ 3 - 1 = 2
        BY <1>1
    <2>2. f[0] = [at |-> 1, text |-> <<>>] /\ \A j \in 1..n : f[j] = NextPiece(format, args, f[j - 1])
        BY <1>2 DEF ArePieces
    <2> HIDE DEF n
    <2>3. /\ f[1] = NextPiece(format, args, f[1 - 1])
          /\ f[2] = NextPiece(format, args, f[2 - 1])
          /\ f[3] = NextPiece(format, args, f[3 - 1])
        BY <2>1, <2>2
    <2> QED  BY <2>1, <2>2, <2>3
<1>5. <<>> \in Text /\ t1 \in Text /\ t2 \in Text
    <2>1. <<>> \in Text
        BY DEF Text
    <2> DEFINE p1 == SubSeq(format, 1, b1 - 1)  p2 == SubSeq(format, e1 + 1, b2 - 1)
    <2>2. p1 \in Text /\ p2 \in Text
        BY <1>1, PartType
    <2> HIDE DEF p1, p2
    <2>3. <<>> \o p1 \in Text
        BY <2>1, <2>2, ConcatType
    <2>4. (<<>> \o p1) \o one \in Text
        <3> DEFINE u == <<>> \o p1
        <3> HIDE DEF u
        <3>1. u \in Text
            BY <2>3 DEF u
        <3>2. u \o one \in Text
            BY <3>1, ConcatType
        <3> QED  BY <3>2 DEF u
    <2>5. t1 \in Text
        BY <2>4 DEF p1
    <2> HIDE DEF t1
    <2>6. t1 \o p2 \in Text
        BY <2>2, <2>5, ConcatType
    <2>7. (t1 \o p2) \o two \in Text
        <3> DEFINE u == t1 \o p2
        <3> HIDE DEF u
        <3>1. u \in Text
            BY <2>6 DEF u
        <3>2. u \o two \in Text
            BY <3>1, ConcatType
        <3> QED  BY <3>2 DEF u
    <2> QED  BY <2>1, <2>5, <2>7 DEF p2
<1>6. f[1] = [at |-> e1 + 1, text |-> t1]
    <2>1. FieldAt(format, 1, b1, e1)
        BY DEF TwoFields
    <2>2. IsPiece(format, args, 1, <<>>, e1 + 1,
                   (<<>> \o SubSeq(format, 1, b1 - 1)) \o FormatField(Between(format, b1, e1), args))
        BY <1>1, <1>5, <2>1, FieldIsPiece
    <2> QED  BY <1>4, <2>2 DEF IsPiece
<1> HIDE DEF t1
<1>7. f[2] = [at |-> e2 + 1, text |-> t2]
    <2>1. FieldAt(format, e1 + 1, b2, e2)
        BY DEF TwoFields
    <2>2. IsPiece(format, args, e1 + 1, t1, e2 + 1,
                   (t1 \o SubSeq(format, e1 + 1, b2 - 1)) \o FormatField(Between(format, b2, e2), args))
        BY <1>1, <1>5, <2>1, FieldIsPiece
    <2> QED  BY <1>4, <1>6, <2>2 DEF IsPiece
<1> HIDE DEF t2
<1>8. f[3] = [at |-> n + 1, text |-> t3]
    <2>1. \A i \in (e2 + 1)..Len(format) : format[i] \notin {OpenBrace, CloseBrace}
        BY DEF TwoFields
    <2>2. IsPiece(format, args, e2 + 1, t2, Len(format) + 1,
                   t2 \o SubSeq(format, e2 + 1, Len(format)))
        BY <1>1, <1>5, <2>1, LastPiece
    <2> QED  BY <1>4, <1>7, <2>2 DEF IsPiece
<1>9. f[n].text = f[3].text
    <2>1. 3 \in 0..n /\ f[3].at = n + 1
        BY <1>1, <1>8
    <2>2. Stops \subseteq Nat
        BY <1>1 DEF StopsOf
    <2> DEFINE k == 3
    <2>3. k \in 0..Len(format) /\ f[k].at = Len(format) + 1
        BY <2>1
    <2> HIDE DEF Stops, k
    <2>4. EndsAt(f, format, k)
        BY <1>2, <2>2, <2>3, LoopAtEnd
    <2> QED  BY <2>4 DEF k, EndsAt
<1> HIDE DEF t3
<1>10. Format(format, args) = t3
    BY <1>3, <1>8, <1>9
<1> QED  BY <1>10 DEF t1, t2, t3, FormatsTo

OneFieldFormats(format, args, b, e, one) ==
    Format(format, args) =
        (((<<>> \o SubSeq(format, 1, b - 1)) \o one) \o SubSeq(format, e + 1, Len(format)))

LEMMA OneFieldIs ==
    ASSUME NEW format \in Text, NEW args, NEW b, NEW e,
           FieldAt(format, 1, b, e), b \in 1..Len(format), e \in b..Len(format),
           \A i \in (e + 1)..Len(format) : format[i] \notin {OpenBrace, CloseBrace},
           NEW one \in Text, FormatField(Between(format, b, e), args) = one
    PROVE  OneFieldFormats(format, args, b, e, one)
<1> DEFINE n == Len(format)  Stops == {1, e + 1, n + 1}  f == PiecesOf(format, args)
           t1 == (<<>> \o SubSeq(format, 1, b - 1)) \o one
           t2 == t1 \o SubSeq(format, e + 1, n)
<1>1. /\ n \in Nat /\ b \in Nat /\ e \in Nat /\ 1 \in Nat \ {0} /\ e + 1 \in Nat \ {0}
      /\ n + 1 \in Nat \ {0} /\ b - 1 <= n /\ b - 1 \in Int /\ b < e /\ e <= n /\ b >= 1
    <2>1. n \in Nat /\ b \in 1..n /\ e \in b..n
        BY DEF Text
    <2>2. b # e
        <3>1. format[b] = OpenBrace /\ format[e] = CloseBrace
            BY DEF FieldAt
        <3>2. OpenBrace # CloseBrace
            BY DEF OpenBrace, CloseBrace
        <3> QED  BY <3>1, <3>2
    <2> HIDE DEF n
    <2> QED  BY <2>1, <2>2
<1>2. ASSUME NEW t \in Text
      PROVE  (t \o SubSeq(format, 1, b - 1)) \o one \in Text
    <2> DEFINE part == SubSeq(format, 1, b - 1)  u == t \o part
    <2>1. part \in Text
        BY <1>1, PartType
    <2> HIDE DEF part
    <2>2. u \in Text
        BY <2>1, ConcatType
    <2> HIDE DEF u
    <2>3. u \o one \in Text
        BY <2>2, ConcatType
    <2> QED  BY <2>3 DEF u, part
<1>3. ASSUME NEW t \in Text, NEW at \in Nat \ {0}
      PROVE  t \o SubSeq(format, at, n) \in Text
    <2> DEFINE part == SubSeq(format, at, n)
    <2>1. part \in Text
        BY <1>1, PartType
    <2> HIDE DEF part
    <2>2. t \o part \in Text
        BY <2>1, ConcatType
    <2> QED  BY <2>2 DEF part
<1>4. ASSUME NEW t \in Text
      PROVE  IsPiece(format, args, 1, t, e + 1, (t \o SubSeq(format, 1, b - 1)) \o one)
    BY <1>1, FieldIsPiece
<1>5. ASSUME NEW t \in Text, NEW at \in {e + 1, n + 1}
      PROVE  IsPiece(format, args, at, t, n + 1, t \o SubSeq(format, at, n))
    <2>1. at \in Nat \ {0} /\ \A i \in at..n : format[i] \notin {OpenBrace, CloseBrace}
        BY <1>1
    <2> QED  BY <2>1, LastPiece
<1>6. StaysAt(format, args, Stops)
    <2>1. ASSUME NEW t \in Text, NEW at \in Stops
          PROVE  NextPiece(format, args, [at |-> at, text |-> t]) \in [at: Stops, text: Text]
        <3>1. ASSUME NEW next \in Stops, NEW new \in Text, IsPiece(format, args, at, t, next, new)
              PROVE  NextPiece(format, args, [at |-> at, text |-> t]) \in [at: Stops, text: Text]
            <4> HIDE DEF Stops
            <4> QED  BY <3>1 DEF IsPiece
        <3>2. CASE at = 1
            <4> DEFINE new == (t \o SubSeq(format, 1, b - 1)) \o one
            <4>1. new \in Text /\ IsPiece(format, args, 1, t, e + 1, new)
                BY <1>2, <1>4
            <4> HIDE DEF new
            <4> QED  BY <3>1, <3>2, <4>1
        <3>3. CASE at \in {e + 1, n + 1}
            <4> DEFINE new == t \o SubSeq(format, at, n)
            <4>1. at \in Nat \ {0}
                BY <1>1, <3>3
            <4>2. new \in Text /\ IsPiece(format, args, at, t, n + 1, new)
                BY <1>3, <1>5, <3>3, <4>1
            <4> HIDE DEF new
            <4> QED  BY <3>1, <4>2
        <3> QED  BY <3>2, <3>3
    <2>2. ASSUME NEW d \in [at: Stops, text: Text]
          PROVE  NextPiece(format, args, d) \in [at: Stops, text: Text]
        <3>1. d.at \in Stops /\ d.text \in Text /\ d = [at |-> d.at, text |-> d.text]
            OBVIOUS
        <3> HIDE DEF Stops
        <3>2. NextPiece(format, args, [at |-> d.at, text |-> d.text]) \in [at: Stops, text: Text]
            BY <2>1, <3>1
        <3> QED  BY <3>1, <3>2
    <2> HIDE DEF Stops
    <2> QED  BY <2>2 DEF StaysAt
<1>7. ArePieces(f, format, args, Stops)
    <2>1. 1 \in Stops
        OBVIOUS
    <2> HIDE DEF Stops
    <2> QED  BY <1>6, <2>1, PiecesAre
<1>8. Format(format, args) = f[n].text
    BY DEF Format, PiecesOf
<1> HIDE DEF f
<1>9. /\ f[0] = [at |-> 1, text |-> <<>>]
      /\ f[1] = NextPiece(format, args, f[0])
      /\ f[2] = NextPiece(format, args, f[1])
    <2>1. 1 \in 1..n /\ 2 \in 1..n /\ 1 - 1 = 0 /\ 2 - 1 = 1
        BY <1>1
    <2>2. f[0] = [at |-> 1, text |-> <<>>] /\ \A j \in 1..n : f[j] = NextPiece(format, args, f[j - 1])
        BY <1>7 DEF ArePieces
    <2> HIDE DEF n
    <2>3. /\ f[1] = NextPiece(format, args, f[1 - 1])
          /\ f[2] = NextPiece(format, args, f[2 - 1])
        BY <2>1, <2>2
    <2> QED  BY <2>1, <2>2, <2>3
<1>10. <<>> \in Text
    BY DEF Text
<1>11. t1 \in Text
    BY <1>2, <1>10
<1>12. f[1] = [at |-> e + 1, text |-> t1]
    <2>1. IsPiece(format, args, 1, <<>>, e + 1, t1)
        BY <1>4, <1>10
    <2> QED  BY <1>9, <2>1 DEF IsPiece
<1> HIDE DEF t1
<1>13. f[2] = [at |-> n + 1, text |-> t2]
    <2>1. IsPiece(format, args, e + 1, t1, n + 1, t2)
        BY <1>5, <1>11
    <2> QED  BY <1>9, <1>12, <2>1 DEF IsPiece
<1>14. f[n].text = f[2].text
    <2> DEFINE k == 2
    <2>1. k \in 0..Len(format) /\ f[k].at = Len(format) + 1
        BY <1>1, <1>13
    <2>2. Stops \subseteq Nat
        BY <1>1
    <2> HIDE DEF Stops, k
    <2>3. EndsAt(f, format, k)
        BY <1>7, <2>1, <2>2, LoopAtEnd
    <2> QED  BY <2>3 DEF k, EndsAt
<1> HIDE DEF t2
<1>15. Format(format, args) = t2
    BY <1>8, <1>13, <1>14
<1> QED  BY <1>15 DEF t1, t2, OneFieldFormats

\* A text is put together of these.
LEMMA SameElements ==
    ASSUME NEW s \in Text, NEW t \in Text, Len(s) = Len(t),
           \A i \in 1..Len(s) : s[i] = t[i]
    PROVE  s = t
BY SeqEqual DEF Text

LEMMA NothingBefore ==
    ASSUME NEW s \in Text
    PROVE  <<>> \o s = s
BY ConcatEmptySeq DEF Text

\* "DTITLE={0} / {1}\n", "DGENRE={0}\n" and "TTITLE{0}={1}\n" are lines.
LEMMA TitleLineWritten ==
    ASSUME NEW a \in Text, NEW t \in Text
    PROVE  Format(TitleLine, <<TextArg(a), TextArg(t)>>) = TextLine(TitleKey, (a \o Slash) \o t)
<1> DEFINE l == TitleLine  args == <<TextArg(a), TextArg(t)>>
           p == SubSeq(l, 1, 8 - 1)  s == SubSeq(l, 10 + 1, 14 - 1)  n == SubSeq(l, 16 + 1, 17)
           E == <<Equals>>  N == <<LineFeed>>
<1>1. l \in Text /\ Len(l) = 17
    BY TitleLineIs
<1>2. TwoFields(l, 8, 10, 14, 16)
    <2>1. /\ l[1] = 68 /\ l[2] = 84 /\ l[3] = 73 /\ l[4] = 84
          /\ l[5] = 76 /\ l[6] = 69 /\ l[7] = 61 /\ l[8] = 123
          /\ l[9] = 48 /\ l[10] = 125 /\ l[11] = 32 /\ l[12] = 47
          /\ l[13] = 32 /\ l[14] = 123 /\ l[15] = 49 /\ l[16] = 125
          /\ l[17] = 10
        BY TitleLineIs
    <2> HIDE DEF l
    <2>2. FieldAt(l, 1, 8, 10)
        BY <1>1, <2>1 DEF FieldAt, OpenBrace, CloseBrace
    <2>3. FieldAt(l, 10 + 1, 14, 16)
        BY <1>1, <2>1 DEF FieldAt, OpenBrace, CloseBrace
    <2>4. \A i \in (16 + 1)..Len(l) : l[i] \notin {OpenBrace, CloseBrace}
        BY <1>1, <2>1 DEF OpenBrace, CloseBrace
    <2>5. 8 \in 1..Len(l) /\ 10 \in 8..Len(l) /\ 14 \in (10 + 1)..Len(l) /\ 16 \in 14..Len(l)
        BY <1>1
    <2> QED  BY <2>2, <2>3, <2>4, <2>5 DEF TwoFields
<1>3. Between(l, 8, 10) = <<48>> /\ Between(l, 14, 16) = <<49>>
    <2>1. l[9] = 48 /\ l[15] = 49
        BY TitleLineIs
    <2> HIDE DEF l
    <2>2. 9 \in 1..Len(l) /\ 15 \in 1..Len(l)
        BY <1>1
    <2>3. SubSeq(l, 9, 9) = <<l[9]>> /\ SubSeq(l, 15, 15) = <<l[15]>>
        BY <1>1, <2>2, OneCharacter
    <2> QED  BY <2>1, <2>3 DEF Between
<1>4. /\ FormatField(Between(l, 8, 10), args) = a
      /\ FormatField(Between(l, 14, 16), args) = t
    <2>1. args[1].kind = "text" /\ args[1].text = a /\ args[2].kind = "text" /\ args[2].text = t
        BY DEF TextArg
    <2> HIDE DEF args, l
    <2>2. 0 \in 0..1 /\ 1 \in 0..1 /\ 0 + 1 = 1 /\ 1 + 1 = 2 /\ 48 + 0 = 48 /\ 48 + 1 = 49
        OBVIOUS
    <2>3. FormatField(<<48 + 0>>, args) = a
        BY <2>1, <2>2, FieldIs
    <2>4. FormatField(<<48 + 1>>, args) = t
        BY <2>1, <2>2, FieldIs
    <2> QED  BY <1>3, <2>2, <2>3, <2>4
<1>5. Format(l, args) = (((((<<>> \o p) \o a) \o s) \o t) \o n)
    <2> DEFINE b1 == 8  e1 == 10  b2 == 14  e2 == 16
    <2>1. TwoFields(l, b1, e1, b2, e2) /\ FormatField(Between(l, b1, e1), args) = a
            /\ FormatField(Between(l, b2, e2), args) = t
        BY <1>2, <1>4
    <2> HIDE DEF b1, e1, b2, e2, args, l
    <2>2. FormatsTo(l, args, b1, e1, b2, e2, a, t)
        BY <1>1, <2>1, TwoFieldsAre
    <2>3. Format(l, args) =
                (((((<<>> \o SubSeq(l, 1, b1 - 1)) \o a)
                    \o SubSeq(l, e1 + 1, b2 - 1)) \o t)
                    \o SubSeq(l, e2 + 1, Len(l)))
        BY <2>2 DEF FormatsTo
    <2> QED  BY <1>1, <2>3 DEF b1, e1, b2, e2
<1>6. p \in Text /\ s \in Text /\ n \in Text
    <2>1. 8 - 1 <= Len(l) /\ 14 - 1 <= Len(l) /\ 17 <= Len(l) /\ 8 - 1 \in Int
            /\ 14 - 1 \in Int /\ 17 \in Int /\ 1 \in Nat \ {0} /\ 10 + 1 \in Nat \ {0}
            /\ 16 + 1 \in Nat \ {0}
        BY <1>1
    <2> HIDE DEF l
    <2> QED  BY <1>1, <2>1, PartType
<1>7. p = TitleKey \o E /\ s = Slash /\ n = N
    <2>1. TitleKey \in Text /\ E \in Text /\ Slash \in Text /\ N \in Text
        BY KeysAre, FieldsAre DEF Text, Equals, LineFeed
    <2> DEFINE k == TitleKey  q == k \o E
    <2>2. q \in Text /\ Len(q) = 7 /\ q[1] = 68 /\ q[2] = 84 /\ q[3] = 73 /\ q[4] = 84
            /\ q[5] = 76 /\ q[6] = 69 /\ q[7] = 61
        <3>1. Len(k) = 6 /\ k[1] = 68 /\ k[2] = 84 /\ k[3] = 73 /\ k[4] = 84
                /\ k[5] = 76 /\ k[6] = 69 /\ Len(E) = 1 /\ E[1] = 61
            BY KeysAre DEF Equals
        <3>2. IsConcat(q, k, E)
            BY <2>1, ConcatIs
        <3> HIDE DEF k, E, q
        <3> QED  BY <3>1, <3>2 DEF IsConcat
    <2>3. Len(p) = 7 /\ \A i \in 1..7 : p[i] = l[i]
        <3> HIDE DEF l
        <3> QED  BY <1>1
    <2>4. Len(s) = 3 /\ \A i \in 1..3 : s[i] = l[i + 10]
        <3> HIDE DEF l
        <3> QED  BY <1>1
    <2>5. Len(n) = 1 /\ n[1] = l[17]
        <3> HIDE DEF l
        <3> QED  BY <1>1
    <2> HIDE DEF p, s, n, q, E, N
    <2>6. p = q
        <3>1. \A i \in 1..Len(p) : p[i] = q[i]
            BY <2>2, <2>3, TitleLineIs
        <3>2. p \in Text /\ q \in Text /\ Len(p) = Len(q)
            BY <1>6, <2>2, <2>3
        <3> QED  BY <3>1, <3>2, SameElements
    <2>7. s = Slash
        <3>1. \A i \in 1..Len(s) : s[i] = Slash[i]
            BY <2>4, TitleLineIs, FieldsAre
        <3>2. Len(s) = Len(Slash)
            BY <2>4, FieldsAre
        <3> QED  BY <1>6, <2>1, <3>1, <3>2, SameElements
    <2>8. n = N
        <3>1. Len(N) = 1 /\ N[1] = 10
            BY DEF N, LineFeed
        <3>2. \A i \in 1..1 : n[i] = N[i]
            BY <2>5, <3>1, TitleLineIs
        <3> QED  BY <1>6, <2>1, <2>5, <3>1, <3>2, SameElements
    <2> QED  BY <2>6, <2>7, <2>8 DEF q
<1> HIDE DEF p, s, n, E, N
<1> DEFINE S == Slash
<1>8. (((((<<>> \o p) \o a) \o S) \o t) \o N) = ((p \o ((a \o S) \o t)) \o N)
    <2>1. S \in Text
        BY FieldsAre
    <2> HIDE DEF S
    <2>2. <<>> \o p = p
        BY <1>6, NothingBefore
    <2>3. a \o S \in Text /\ p \o a \in Text
        BY <1>6, <2>1, ConcatType
    <2>4. Associates(p, a, S)
        BY <1>6, <2>1, ConcatTexts
    <2> DEFINE u == a \o S
    <2>5. u \in Text
        BY <2>3
    <2>6. (p \o a) \o S = p \o u
        BY <2>4 DEF Associates
    <2> HIDE DEF u
    <2>7. Associates(p, u, t)
        BY <1>6, <2>5, ConcatTexts
    <2>8. (p \o u) \o t = p \o (u \o t)
        BY <2>7 DEF Associates
    <2> QED  BY <2>2, <2>6, <2>8 DEF u
<1>9. Format(l, args) = ((p \o ((a \o Slash) \o t)) \o N)
    BY <1>5, <1>7, <1>8
<1>10. Format(l, args) = ((TitleKey \o E) \o ((a \o Slash) \o t)) \o N
    BY <1>7, <1>9
<1> HIDE DEF l, args
<1>11. Format(l, args) = TextLine(TitleKey, (a \o Slash) \o t)
    BY <1>10 DEF TextLine, E, N
<1> QED  BY <1>11 DEF l, args


LEMMA GenreLineWritten ==
    ASSUME NEW g \in Text
    PROVE  Format(GenreLine, <<TextArg(g)>>) = TextLine(GenreKey, g)
<1> DEFINE l == GenreLine  args == <<TextArg(g)>>
           p == SubSeq(l, 1, 8 - 1)  n == SubSeq(l, 10 + 1, 11)
           E == <<Equals>>  N == <<LineFeed>>
<1>1. l \in Text /\ Len(l) = 11
    BY GenreLineIs
<1>2. /\ FieldAt(l, 1, 8, 10) /\ 8 \in 1..Len(l) /\ 10 \in 8..Len(l)
      /\ \A i \in (10 + 1)..Len(l) : l[i] \notin {OpenBrace, CloseBrace}
    <2>1. /\ l[1] = 68 /\ l[2] = 71 /\ l[3] = 69 /\ l[4] = 78
          /\ l[5] = 82 /\ l[6] = 69 /\ l[7] = 61 /\ l[8] = 123
          /\ l[9] = 48 /\ l[10] = 125 /\ l[11] = 10
        BY GenreLineIs
    <2> HIDE DEF l
    <2>2. FieldAt(l, 1, 8, 10)
        BY <1>1, <2>1 DEF FieldAt, OpenBrace, CloseBrace
    <2>3. \A i \in (10 + 1)..Len(l) : l[i] \notin {OpenBrace, CloseBrace}
        BY <1>1, <2>1 DEF OpenBrace, CloseBrace
    <2> QED  BY <1>1, <2>2, <2>3
<1>3. Between(l, 8, 10) = <<48>>
    <2>1. l[9] = 48
        BY GenreLineIs
    <2> HIDE DEF l
    <2>2. 9 \in 1..Len(l)
        BY <1>1
    <2>3. SubSeq(l, 9, 9) = <<l[9]>>
        BY <1>1, <2>2, OneCharacter
    <2> QED  BY <2>1, <2>3 DEF Between
<1>4. FormatField(Between(l, 8, 10), args) = g
    <2>1. args[1].kind = "text" /\ args[1].text = g
        BY DEF TextArg
    <2> HIDE DEF args, l
    <2>2. 0 \in 0..1 /\ 0 + 1 = 1 /\ 48 + 0 = 48
        OBVIOUS
    <2>3. FormatField(<<48 + 0>>, args) = g
        BY <2>1, <2>2, FieldIs
    <2> QED  BY <1>3, <2>2, <2>3
<1>5. Format(l, args) = (((<<>> \o p) \o g) \o n)
    <2> DEFINE b == 8  e == 10
    <2>1. /\ FieldAt(l, 1, b, e) /\ b \in 1..Len(l) /\ e \in b..Len(l)
          /\ \A i \in (e + 1)..Len(l) : l[i] \notin {OpenBrace, CloseBrace}
          /\ FormatField(Between(l, b, e), args) = g
        BY <1>2, <1>4
    <2> HIDE DEF b, e, args, l
    <2>2. OneFieldFormats(l, args, b, e, g)
        BY <1>1, <2>1, OneFieldIs
    <2>3. Format(l, args) =
                (((<<>> \o SubSeq(l, 1, b - 1)) \o g) \o SubSeq(l, e + 1, Len(l)))
        BY <2>2 DEF OneFieldFormats
    <2> QED  BY <1>1, <2>3 DEF b, e
<1>6. p \in Text /\ n \in Text
    <2>1. 8 - 1 <= Len(l) /\ 11 <= Len(l) /\ 8 - 1 \in Int
            /\ 11 \in Int /\ 1 \in Nat \ {0} /\ 10 + 1 \in Nat \ {0}
        BY <1>1
    <2> HIDE DEF l
    <2> QED  BY <1>1, <2>1, PartType
<1>7. p = GenreKey \o E /\ n = N
    <2>1. GenreKey \in Text /\ E \in Text /\ N \in Text
        BY KeysAre DEF Text, Equals, LineFeed
    <2> DEFINE k == GenreKey  q == k \o E
    <2>2. q \in Text /\ Len(q) = 7 /\ q[1] = 68 /\ q[2] = 71 /\ q[3] = 69 /\ q[4] = 78
            /\ q[5] = 82 /\ q[6] = 69 /\ q[7] = 61
        <3>1. Len(k) = 6 /\ k[1] = 68 /\ k[2] = 71 /\ k[3] = 69 /\ k[4] = 78
                /\ k[5] = 82 /\ k[6] = 69 /\ Len(E) = 1 /\ E[1] = 61
            BY KeysAre DEF Equals
        <3>2. IsConcat(q, k, E)
            BY <2>1, ConcatIs
        <3> HIDE DEF k, E, q
        <3> QED  BY <3>1, <3>2 DEF IsConcat
    <2>3. Len(p) = 7 /\ \A i \in 1..7 : p[i] = l[i]
        <3> HIDE DEF l
        <3> QED  BY <1>1
    <2>5. Len(n) = 1 /\ n[1] = l[11]
        <3> HIDE DEF l
        <3> QED  BY <1>1
    <2> HIDE DEF p, n, q, E, N
    <2>6. p = q
        <3>1. \A i \in 1..Len(p) : p[i] = q[i]
            BY <2>2, <2>3, GenreLineIs
        <3>2. p \in Text /\ q \in Text /\ Len(p) = Len(q)
            BY <1>6, <2>2, <2>3
        <3> QED  BY <3>1, <3>2, SameElements
    <2>8. n = N
        <3>1. Len(N) = 1 /\ N[1] = 10
            BY DEF N, LineFeed
        <3>2. \A i \in 1..1 : n[i] = N[i]
            BY <2>5, <3>1, GenreLineIs
        <3> QED  BY <1>6, <2>1, <2>5, <3>1, <3>2, SameElements
    <2> QED  BY <2>6, <2>8 DEF q
<1> HIDE DEF p, n, E, N
<1>8. <<>> \o p = p
    BY <1>6, NothingBefore
<1>9. Format(l, args) = ((GenreKey \o E) \o g) \o N
    BY <1>5, <1>7, <1>8
<1> HIDE DEF l, args
<1>10. Format(l, args) = TextLine(GenreKey, g)
    BY <1>9 DEF TextLine, E, N
<1> QED  BY <1>10 DEF l, args

LEMMA SongLineWritten ==
    ASSUME NEW m \in Nat, NEW d \in Text, FormatDecimal(m, CountDigits(m)) = d,
           NEW t \in Text
    PROVE  Format(SongLine, <<NumberArg(m), TextArg(t)>>) = TextLine(SongKey \o d, t)
<1> DEFINE l == SongLine  args == <<NumberArg(m), TextArg(t)>>
           p == SubSeq(l, 1, 7 - 1)  s == SubSeq(l, 9 + 1, 11 - 1)  n == SubSeq(l, 13 + 1, 14)
           E == <<Equals>>  N == <<LineFeed>>
<1>1. l \in Text /\ Len(l) = 14
    BY SongLineIs
<1>2. TwoFields(l, 7, 9, 11, 13)
    <2>1. /\ l[1] = 84 /\ l[2] = 84 /\ l[3] = 73 /\ l[4] = 84
          /\ l[5] = 76 /\ l[6] = 69 /\ l[7] = 123 /\ l[8] = 48
          /\ l[9] = 125 /\ l[10] = 61 /\ l[11] = 123 /\ l[12] = 49
          /\ l[13] = 125 /\ l[14] = 10
        BY SongLineIs
    <2> HIDE DEF l
    <2>2. FieldAt(l, 1, 7, 9)
        BY <1>1, <2>1 DEF FieldAt, OpenBrace, CloseBrace
    <2>3. FieldAt(l, 9 + 1, 11, 13)
        BY <1>1, <2>1 DEF FieldAt, OpenBrace, CloseBrace
    <2>4. \A i \in (13 + 1)..Len(l) : l[i] \notin {OpenBrace, CloseBrace}
        BY <1>1, <2>1 DEF OpenBrace, CloseBrace
    <2>5. 7 \in 1..Len(l) /\ 9 \in 7..Len(l) /\ 11 \in (9 + 1)..Len(l) /\ 13 \in 11..Len(l)
        BY <1>1
    <2> QED  BY <2>2, <2>3, <2>4, <2>5 DEF TwoFields
<1>3. Between(l, 7, 9) = <<48>> /\ Between(l, 11, 13) = <<49>>
    <2>1. l[8] = 48 /\ l[12] = 49
        BY SongLineIs
    <2> HIDE DEF l
    <2>2. 8 \in 1..Len(l) /\ 12 \in 1..Len(l)
        BY <1>1
    <2>3. SubSeq(l, 8, 8) = <<l[8]>> /\ SubSeq(l, 12, 12) = <<l[12]>>
        BY <1>1, <2>2, OneCharacter
    <2> QED  BY <2>1, <2>3 DEF Between
<1>4. /\ FormatField(Between(l, 7, 9), args) = d
      /\ FormatField(Between(l, 11, 13), args) = t
    <2>1. args[1].kind = "number" /\ args[1].number = m /\ args[2].kind = "text" /\ args[2].text = t
        BY DEF TextArg, NumberArg
    <2> HIDE DEF args, l
    <2>2. 0 \in 0..1 /\ 1 \in 0..1 /\ 0 + 1 = 1 /\ 1 + 1 = 2 /\ 48 + 0 = 48 /\ 48 + 1 = 49
        OBVIOUS
    <2>3. FormatField(<<48 + 0>>, args) = d
        BY <2>1, <2>2, FieldIs
    <2>4. FormatField(<<48 + 1>>, args) = t
        BY <2>1, <2>2, FieldIs
    <2> QED  BY <1>3, <2>2, <2>3, <2>4
<1>5. Format(l, args) = (((((<<>> \o p) \o d) \o s) \o t) \o n)
    <2> DEFINE b1 == 7  e1 == 9  b2 == 11  e2 == 13
    <2>1. TwoFields(l, b1, e1, b2, e2) /\ FormatField(Between(l, b1, e1), args) = d
            /\ FormatField(Between(l, b2, e2), args) = t
        BY <1>2, <1>4
    <2> HIDE DEF b1, e1, b2, e2, args, l
    <2>2. FormatsTo(l, args, b1, e1, b2, e2, d, t)
        BY <1>1, <2>1, TwoFieldsAre
    <2>3. Format(l, args) =
                (((((<<>> \o SubSeq(l, 1, b1 - 1)) \o d)
                    \o SubSeq(l, e1 + 1, b2 - 1)) \o t)
                    \o SubSeq(l, e2 + 1, Len(l)))
        BY <2>2 DEF FormatsTo
    <2> QED  BY <1>1, <2>3 DEF b1, e1, b2, e2
<1>6. p \in Text /\ s \in Text /\ n \in Text
    <2>1. 7 - 1 <= Len(l) /\ 11 - 1 <= Len(l) /\ 14 <= Len(l) /\ 7 - 1 \in Int
            /\ 11 - 1 \in Int /\ 14 \in Int /\ 1 \in Nat \ {0} /\ 9 + 1 \in Nat \ {0}
            /\ 13 + 1 \in Nat \ {0}
        BY <1>1
    <2> HIDE DEF l
    <2> QED  BY <1>1, <2>1, PartType
<1>7. p = SongKey /\ s = E /\ n = N
    <2>1. SongKey \in Text /\ E \in Text /\ N \in Text
        BY KeysAre DEF Text, Equals, LineFeed
    <2>2. Len(p) = 6 /\ \A i \in 1..6 : p[i] = l[i]
        <3> HIDE DEF l
        <3> QED  BY <1>1
    <2>3. Len(s) = 1 /\ s[1] = l[10]
        <3> HIDE DEF l
        <3> QED  BY <1>1
    <2>4. Len(n) = 1 /\ n[1] = l[14]
        <3> HIDE DEF l
        <3> QED  BY <1>1
    <2> DEFINE k == SongKey
    <2>5. k \in Text /\ Len(k) = 6 /\ k[1] = 84 /\ k[2] = 84 /\ k[3] = 73 /\ k[4] = 84
            /\ k[5] = 76 /\ k[6] = 69
        BY KeysAre
    <2> HIDE DEF p, s, n, k, E, N
    <2>6. p = k
        <3>1. \A i \in 1..Len(p) : p[i] = k[i]
            BY <2>2, <2>5, SongLineIs
        <3>2. p \in Text /\ k \in Text /\ Len(p) = Len(k)
            BY <1>6, <2>2, <2>5
        <3> QED  BY <3>1, <3>2, SameElements
    <2>7. s = E
        <3>1. Len(E) = 1 /\ E[1] = 61
            BY DEF E, Equals
        <3>2. \A i \in 1..Len(s) : s[i] = E[i]
            BY <2>3, <3>1, SongLineIs
        <3>3. s \in Text /\ E \in Text /\ Len(s) = Len(E)
            BY <1>6, <2>1, <2>3, <3>1
        <3> QED  BY <3>2, <3>3, SameElements
    <2>8. n = N
        <3>1. Len(N) = 1 /\ N[1] = 10
            BY DEF N, LineFeed
        <3>2. \A i \in 1..1 : n[i] = N[i]
            BY <2>4, <3>1, SongLineIs
        <3> QED  BY <1>6, <2>1, <2>4, <3>1, <3>2, SameElements
    <2> QED  BY <2>6, <2>7, <2>8 DEF k
<1> HIDE DEF p, s, n, E, N
<1>8. <<>> \o p = p
    BY <1>6, NothingBefore
<1>9. Format(l, args) = ((((SongKey \o d) \o E) \o t) \o N)
    BY <1>5, <1>7, <1>8
<1> HIDE DEF l, args
<1>10. Format(l, args) = TextLine(SongKey \o d, t)
    BY <1>9 DEF TextLine, E, N
<1> QED  BY <1>10 DEF l, args

LEMMA SongLineType ==
    ASSUME NEW n \in Nat, NEW s \in Text
    PROVE  Format(SongLine, <<NumberArg(n), TextArg(s)>>) \in Text
<1> DEFINE d == FormatDecimal(n, CountDigits(n))  k == SongKey \o d
<1>1. d \in Text
    BY FormatDecimalType
<1>2. Format(SongLine, <<NumberArg(n), TextArg(s)>>) = TextLine(k, s)
    <2> HIDE DEF d
    <2> QED  BY <1>1, SongLineWritten DEF d
<1>3. k \in Text
    <2> HIDE DEF d
    <2> QED  BY <1>1, KeysAre, ConcatType
<1> HIDE DEF k
<1>4. IsLine(TextLine(k, s), k, s)
    BY <1>3, TextLineIs
<1> QED  BY <1>2, <1>4 DEF IsLine

LEMMA TitleLineType ==
    ASSUME NEW s1 \in Text, NEW s2 \in Text
    PROVE  Format(TitleLine, <<TextArg(s1), TextArg(s2)>>) \in Text
<1> DEFINE v == (s1 \o Slash) \o s2
<1>1. Format(TitleLine, <<TextArg(s1), TextArg(s2)>>) = TextLine(TitleKey, v)
    BY TitleLineWritten
<1>2. v \in Text
    <2>1. s1 \o Slash \in Text
        BY FieldsAre, ConcatType
    <2> QED  BY <2>1 DEF Text
<1> HIDE DEF v
<1>3. IsLine(TextLine(TitleKey, v), TitleKey, v)
    BY <1>2, KeysAre, TextLineIs
<1> QED  BY <1>1, <1>3 DEF IsLine

LEMMA GenreLineType ==
    ASSUME NEW s \in Text
    PROVE  Format(GenreLine, <<TextArg(s)>>) \in Text
<1>1. IsLine(TextLine(GenreKey, s), GenreKey, s)
    BY KeysAre, TextLineIs
<1> QED  BY <1>1, GenreLineWritten DEF IsLine

\* cddb_file() of any texts is a text.
LEMMA CddbFileType ==
    ASSUME NEW r, r.artist \in Text, r.title \in Text, r.genre \in Text,
           r.songs \in Seq(Text)
    PROVE  CddbFile(r) \in Text
<1> DEFINE n == Len(r.songs)
           song(i) == Format(SongLine, <<NumberArg(i - 1), TextArg(r.songs[i])>>)
           songs == [i \in DOMAIN r.songs |-> song(i)]
           head == <<Hash, LineFeed>>
           title == Format(TitleLine, <<TextArg(r.artist), TextArg(r.title)>>)
           genre == Format(GenreLine, <<TextArg(r.genre)>>)
<1>1. n \in Nat /\ DOMAIN r.songs = 1..n
    BY DEF Text
<1>2. ASSUME NEW i \in 1..n PROVE song(i) \in Text
    <2>1. i - 1 \in Nat /\ r.songs[i] \in Text
        BY <1>1
    <2> QED  BY <2>1, SongLineType
<1> HIDE DEF song
<1>3. songs \in Seq(Seq(Int))
    <2>1. \A i \in 1..n : song(i) \in Seq(Int)
        BY <1>2 DEF Text
    <2> QED  BY <1>1, <2>1
<1>4. FlattenSeq(songs) \in Text
    <2> HIDE DEF songs
    <2> QED  BY <1>3, FlattenIs DEF Text
<1>5. title \in Text /\ genre \in Text
    BY TitleLineType, GenreLineType
<1>6. head \in Text
    BY DEF Text, Hash, LineFeed
<1>7. CddbFile(r) = head \o title \o genre \o FlattenSeq(songs)
    BY DEF CddbFile, song
<1> HIDE DEF head, title, genre, songs
<1>8. head \o title \in Text
    BY <1>5, <1>6, ConcatType
<1>9. head \o title \o genre \in Text
    BY <1>5, <1>8, ConcatType
<1> QED  BY <1>4, <1>7, <1>9, ConcatType

-----------------------------------------------------------------------------
(* The invariant: what is stored of a file has passed the check of its     *)
(* encoding, or was written as UTF-8.                                      *)

Accepted == {s \in Text : Decoded(s).good}

IsRecord(r) ==
    /\ r = [artist |-> r.artist, title |-> r.title, genre |-> r.genre,
            songs |-> r.songs, base |-> r.base]
    /\ r.artist \in Accepted /\ r.title \in Accepted /\ r.genre \in Accepted
    /\ r.songs \in Seq(Accepted)

LineStates == {"Start", "Comment", "Key", "Limiter", "Start2", "Value", "Skip"}

InputInv ==
    /\ file \in Text
    /\ pos \in Nat \ {0}
    /\ line \in [state: LineStates, key: Text, value: Text]
    /\ phase \in {"reading", "checking", "done"}

\* valid_utf8 is where the decoder is after so many bytes of the value.
CheckInv ==
    /\ ok \in BOOLEAN
    /\ narrow \in Text /\ Len(narrow) <= Len(line.value)
    /\ narrow = SubSeq(line.value, 1, Len(narrow))
    /\ phase # "checking" => narrow = <<>> /\ ok
    /\ ok => /\ Decoded(narrow).good
             /\ Decoded(narrow).left = remaining
             /\ remaining > 0 => /\ Decoded(narrow).bits = codepoint
                                 /\ Decoded(narrow).limit = lowerLimit

RecordInv ==
    /\ IsRecord(rec)
    /\ earlier # <<>> => IsRecord(earlier[1].texts)
    /\ phase = "done" =>
        /\ IsRecord(taken)
        /\ rec = Cleanup(taken) /\ measured = CleanupEntropy(taken)

TextsInv == InputInv /\ CheckInv /\ RecordInv

LEMMA AcceptedText ==
    ASSUME NEW s \in Accepted
    PROVE  s \in Text /\ Decoded(s).good
BY Zenon DEF Accepted

LEMMA TextAccepted ==
    ASSUME NEW s \in Text, Decoded(s).good
    PROVE  s \in Accepted
BY Zenon DEF Accepted

LEMMA EmptyAccepted == <<>> \in Accepted
<1>1. <<>> \in Text
    BY DEF Text
<1>2. Decoded(<<>>).good = TRUE
    BY DecodedEmpty DEF Fresh
<1> QED  BY <1>1, <1>2, TextAccepted

LEMMA EmptyRecordIs == IsRecord(EmptyRecord)
<1>1. <<>> \in Seq(Accepted)
    OBVIOUS
<1> QED  BY <1>1, EmptyAccepted DEF IsRecord, EmptyRecord

LEMMA AcceptedSongs ==
    ASSUME NEW songs \in Seq(Accepted)
    PROVE  songs \in Seq(Text) /\ songs \in Seq(Seq(Int))
<1>1. Accepted \subseteq Text
    BY Zenon DEF Accepted
<1>2. songs \in Seq(Text)
    BY <1>1
<1> QED  BY <1>2 DEF Text

\* The part of a text that stands behind a blank.
LEMMA BehindBlank ==
    ASSUME NEW t \in Accepted, NEW m \in 1..Len(t), t[m] = Blank
    PROVE  /\ SubSeq(t, m + 1, Len(t)) \in Accepted
           /\ \A ch \in ToSet(FromUtf8(SubSeq(t, m + 1, Len(t)))) : ch \in ToSet(FromUtf8(t))
<1> DEFINE q == SubSeq(t, m + 1, Len(t))
<1>1. t \in Text /\ Decoded(t).good
    BY AcceptedText
<1>2. /\ q \in Text /\ Decoded(q).good
      /\ \A k \in DOMAIN FromUtf8(q) : FromUtf8(q)[k] \in ToSet(FromUtf8(t))
    BY <1>1, SuffixAccepted
<1> HIDE DEF q
<1>3. q \in Accepted
    BY <1>2, TextAccepted
<1>4. ASSUME NEW ch \in ToSet(FromUtf8(q)) PROVE ch \in ToSet(FromUtf8(t))
    <2> PICK k \in DOMAIN FromUtf8(q) : FromUtf8(q)[k] = ch
        BY DEF ToSet
    <2> QED  BY <1>2
<1> QED  BY <1>3, <1>4 DEF q

\* A line of artist and title, cut at a slash.
LEMMA TitlePieces ==
    ASSUME NEW value \in Accepted, NEW p \in FindSlash(value)
    PROVE  /\ SubSeq(value, 1, p - 1) \in Accepted
           /\ SubSeq(value, p + 3, Len(value)) \in Accepted
<1>1. value \in Text /\ Decoded(value).good /\ Len(value) \in Nat
    BY AcceptedText DEF Text
<1>2. p \in 1..(Len(value) - 2) /\ SubSeq(value, p, p + 2) = Slash
    BY DEF FindSlash
<1>3. value[p + 2] = Blank
    <2>1. SubSeq(value, p, p + 2)[3] = value[p + 2]
        BY <1>1, <1>2 DEF Text
    <2>2. Slash[3] = Blank
        BY DEF Slash, Blank
    <2> QED  BY <1>2, <2>1, <2>2
<1>4. SubSeq(value, 1, p - 1) \in Accepted
    <2>1. p - 1 \in 0..Len(value)
        BY <1>1, <1>2
    <2>2. SubSeq(value, 1, p - 1) \in Text /\ Decoded(SubSeq(value, 1, p - 1)).good
        BY <1>1, <2>1, PrefixAccepted, Zenon
    <2> QED  BY <2>2, TextAccepted
<1>5. SubSeq(value, (p + 2) + 1, Len(value)) \in Accepted
    <2>1. p + 2 \in 1..Len(value)
        BY <1>1, <1>2
    <2> QED  BY <1>3, <2>1, BehindBlank, Zenon
<1>6. (p + 2) + 1 = p + 3
    BY <1>2
<1> QED  BY <1>4, <1>5, <1>6

LEMMA TakeTitleType ==
    ASSUME NEW r, IsRecord(r), NEW value \in Accepted
    PROVE  IsRecord(TakeTitle(r, value))
<1>1. CASE FindSlash(value) = {}
    <2>1. TakeTitle(r, value) = [r EXCEPT !.artist = value, !.title = value]
        BY <1>1 DEF TakeTitle
    <2> QED  BY <2>1 DEF IsRecord
<1>2. CASE FindSlash(value) # {}
    <2> DEFINE p == CHOOSE p \in FindSlash(value) : \A q \in FindSlash(value) : p <= q
               artist == SubSeq(value, 1, p - 1)  title == SubSeq(value, p + 3, Len(value))
    <2>1. TakeTitle(r, value) = [r EXCEPT !.artist = artist, !.title = title]
        BY <1>2 DEF TakeTitle
    <2>2. p \in FindSlash(value)
        <3>1. FindSlash(value) \subseteq Nat
            BY DEF FindSlash
        <3>2. \E m \in FindSlash(value) : \A q \in FindSlash(value) : m <= q
            <4> HIDE DEF p
            <4> QED  BY <1>2, <3>1, LeastNatural
        <3> QED  BY <3>2
    <2> HIDE DEF p
    <2>3. artist \in Accepted /\ title \in Accepted
        BY <2>2, TitlePieces
    <2> HIDE DEF artist, title
    <2> QED  BY <2>1, <2>3 DEF IsRecord
<1> QED  BY <1>1, <1>2

LEMMA TakeSongType ==
    ASSUME NEW r, IsRecord(r), NEW value \in Accepted, NEW number
    PROVE  IsRecord(TakeSong(r, number, value))
<1> DEFINE base == IF r.songs = <<>> THEN number ELSE r.base
           songs == IF Len(r.songs) = number - base THEN Append(r.songs, value) ELSE r.songs
<1>1. TakeSong(r, number, value) = [r EXCEPT !.base = base, !.songs = songs]
    BY DEF TakeSong, IsRecord
<1>2. songs \in Seq(Accepted)
    BY DEF IsRecord
<1> HIDE DEF songs, base
<1> QED  BY <1>1, <1>2 DEF IsRecord

\* A song without its artist.
LEMMA WithoutArtistType ==
    ASSUME NEW song \in Accepted, NEW artist \in Accepted
    PROVE  /\ WithoutArtist(song, artist) \in Accepted
           /\ \A ch \in ToSet(FromUtf8(WithoutArtist(song, artist))) :
                ch \in ToSet(FromUtf8(song))
<1>1. CASE ~IsPrefix(artist \o Slash, song)
    BY <1>1 DEF WithoutArtist
<1>2. CASE IsPrefix(artist \o Slash, song)
    <2> DEFINE head == artist \o Slash  m == Len(artist) + 3
    <2>1. song \in Text /\ artist \in Text /\ Slash \in Text /\ Len(Slash) = 3
             /\ Slash[3] = Blank
        BY AcceptedText, FieldsAre DEF Blank
    <2>2. IsConcat(head, artist, Slash)
        BY <2>1, ConcatIs
    <2> HIDE DEF head
    <2>3. Len(artist) \in Nat /\ Len(song) \in Nat
        BY <2>1 DEF Text
    <2>4. Len(head) = m /\ head[m] = Blank
        <3>1. head[m] = Slash[m - Len(artist)]
            BY <2>1, <2>2, <2>3 DEF IsConcat
        <3> QED  BY <2>1, <2>2, <2>3, <3>1 DEF IsConcat
    <2>5. Len(head) <= Len(song) /\ \A i \in 1..Len(head) : head[i] = song[i]
        <3>1. Len(head) \in Nat /\ head \in Text
            BY <2>2, <2>3, <2>4 DEF IsConcat
        <3>2. Len(head) <= Len(song) /\ head = SubSeq(song, 1, Len(head))
            BY <1>2, <2>1, <3>1 DEF IsPrefix, head
        <3> QED  BY <2>1, <2>3, <3>1, <3>2 DEF Text
    <2>6. m \in 1..Len(song) /\ song[m] = Blank
        BY <2>3, <2>4, <2>5
    <2>7. WithoutArtist(song, artist) = SubSeq(song, m + 1, Len(song))
        <3>1. Len(artist) + 4 = m + 1
            BY <2>3
        <3> HIDE DEF m
        <3> QED  BY <1>2, <3>1 DEF WithoutArtist
    <2> HIDE DEF m
    <2> QED  BY <2>6, <2>7, BehindBlank
<1> QED  BY <1>1, <1>2

\* cleanup() takes the artist away and cleans each of the texts.
Stripped(r) ==
    [r EXCEPT !.songs = [i \in DOMAIN @ |-> WithoutArtist(@[i], r.artist)]]

LEMMA StrippedIs ==
    ASSUME NEW r, IsRecord(r)
    PROVE  /\ IsRecord(Stripped(r))
           /\ Stripped(r).artist = r.artist /\ Stripped(r).title = r.title
           /\ Stripped(r).genre = r.genre
           /\ Len(Stripped(r).songs) = Len(r.songs)
           /\ \A i \in 1..Len(r.songs) :
                Stripped(r).songs[i] = WithoutArtist(r.songs[i], r.artist)
<1> DEFINE songs == [i \in DOMAIN r.songs |-> WithoutArtist(r.songs[i], r.artist)]
<1>1. r.songs \in Seq(Accepted) /\ r.artist \in Accepted
    BY DEF IsRecord
<1>2. \A i \in 1..Len(r.songs) : WithoutArtist(r.songs[i], r.artist) \in Accepted
    <2> TAKE i \in 1..Len(r.songs)
    <2>1. r.songs[i] \in Accepted
        BY <1>1
    <2> QED  BY <1>1, <2>1, WithoutArtistType
<1>3. songs \in Seq(Accepted) /\ Len(songs) = Len(r.songs)
    BY <1>1, <1>2
<1>4. \A i \in 1..Len(r.songs) : songs[i] = WithoutArtist(r.songs[i], r.artist)
    BY <1>1
<1>5. Stripped(r) = [r EXCEPT !.songs = songs]
    BY DEF Stripped
<1> HIDE DEF songs
<1>6. Stripped(r) = [artist |-> r.artist, title |-> r.title, genre |-> r.genre,
                     songs |-> songs, base |-> r.base]
    BY <1>5 DEF IsRecord
<1> QED  BY <1>3, <1>4, <1>6 DEF IsRecord

LEMMA CleanType ==
    ASSUME NEW t \in Accepted
    PROVE  Clean(t) \in Accepted
<1>1. t \in Text /\ Decoded(t).good
    BY AcceptedText
<1>2. Clean(t) \in Text /\ Decoded(Clean(t)).good
    BY <1>1, Cleaned
<1> QED  BY <1>2, TextAccepted

LEMMA CleanupIs ==
    ASSUME NEW r, IsRecord(r)
    PROVE  /\ IsRecord(Cleanup(r))
           /\ Cleanup(r).artist = Clean(r.artist) /\ Cleanup(r).title = Clean(r.title)
           /\ Len(Cleanup(r).songs) = Len(r.songs)
           /\ \A i \in 1..Len(r.songs) :
                Cleanup(r).songs[i] = Clean(WithoutArtist(r.songs[i], r.artist))
<1> DEFINE song(i) == WithoutArtist(r.songs[i], r.artist)
           songs == [i \in DOMAIN r.songs |-> Clean(song(i))]
           artist == Clean(r.artist)  title == Clean(r.title)  genre == Clean(r.genre)
<1>1. /\ r.songs \in Seq(Accepted) /\ r.artist \in Accepted
      /\ r.title \in Accepted /\ r.genre \in Accepted
    BY DEF IsRecord
<1>2. \A i \in 1..Len(r.songs) : Clean(song(i)) \in Accepted
    <2> TAKE i \in 1..Len(r.songs)
    <2>1. r.songs[i] \in Accepted
        BY <1>1
    <2>2. song(i) \in Accepted
        BY <1>1, <2>1, WithoutArtistType
    <2> HIDE DEF song
    <2> QED  BY <2>2, CleanType
<1>3. songs \in Seq(Accepted) /\ Len(songs) = Len(r.songs)
    <2> HIDE DEF song
    <2> QED  BY <1>1, <1>2
<1>4. \A i \in 1..Len(r.songs) : songs[i] = Clean(WithoutArtist(r.songs[i], r.artist))
    BY <1>1
<1>5. artist \in Accepted /\ title \in Accepted /\ genre \in Accepted
    BY <1>1, CleanType
<1>6. Cleanup(r) = [r EXCEPT !.artist = artist, !.title = title, !.genre = genre,
                             !.songs = songs]
    BY DEF Cleanup, IsRecord
<1> HIDE DEF songs, artist, title, genre
<1>7. Cleanup(r) = [artist |-> artist, title |-> title, genre |-> genre,
                    songs |-> songs, base |-> r.base]
    BY <1>6 DEF IsRecord
<1>8. artist = Clean(r.artist) /\ title = Clean(r.title)
    BY DEF artist, title
<1> QED  BY <1>3, <1>4, <1>5, <1>7, <1>8 DEF IsRecord

\* A value that is taken passed the check, or was written as UTF-8.
LEMMA ValueAccepted ==
    ASSUME TextsInv, ~ok \/ Len(narrow) = Len(line.value)
    PROVE  Encoded(line.value, ok) \in Accepted
<1>1. line.value \in Text /\ ok \in BOOLEAN
    BY DEF TextsInv, InputInv, CheckInv
<1>2. CASE ok
    <2>1. narrow = SubSeq(line.value, 1, Len(line.value)) /\ Decoded(narrow).good
        BY <1>2 DEF TextsInv, CheckInv
    <2>2. narrow = line.value
        BY <1>1, <2>1, WholePrefix DEF Text
    <2>3. line.value \in Accepted
        BY <1>1, <2>1, <2>2, TextAccepted, Zenon
    <2> QED  BY <1>2, <2>3 DEF Encoded
<1>3. CASE ~ok
    <2>1. Encoded(line.value, ok) = WideToUtf8(line.value)
        BY <1>3 DEF Encoded
    <2>2. WideToUtf8(line.value) \in Accepted
        BY <1>1, WrittenIsRead, TextAccepted
    <2> QED  BY <2>1, <2>2
<1> QED  BY <1>1, <1>2, <1>3

\* A step of the decoder is a step of Decoded.
LEMMA CheckStep ==
    ASSUME NEW d \in States, d.good = TRUE, d.left = remaining, NEW b \in Int,
           remaining > 0 => d.bits = codepoint /\ d.limit = lowerLimit,
           Decode(b), ok', NEW e, e = NextByte(d, b)
    PROVE  /\ e.good = TRUE /\ e.left = remaining'
           /\ remaining' > 0 => e.bits = codepoint' /\ e.limit = lowerLimit'
<1>1. /\ d = [left |-> d.left, bits |-> d.bits, limit |-> d.limit,
              chars |-> d.chars, good |-> d.good]
      /\ remaining \in 0..3 /\ d.bits \in Nat
    BY DEF States
<1>2. CASE Ascii(b)
    <2>1. remaining = 0 /\ b < 128 /\ remaining' = 0
        BY <1>2 DEF Ascii
    <2>2. e = AddChar(d, b)
        BY <2>1 DEF NextByte
    <2> QED  BY <2>1, <2>2 DEF AddChar
<1>3. CASE LeadByte(b)
    <2> DEFINE Case2 == b \in 192..223 /\ Lead(b, 1, b - 192, 128)
               Case3 == b \in 224..239 /\ Lead(b, 2, b - 224, 2048)
               Case4 == b \in 240..247 /\ Lead(b, 3, b - 240, 65536)
               Done == /\ e.good = TRUE /\ e.left = remaining'
                       /\ remaining' > 0 => e.bits = codepoint' /\ e.limit = lowerLimit'
    <2>1. ASSUME Case2 PROVE Done
        <3>1. /\ remaining = 0 /\ remaining' = 1 /\ codepoint' = b - 192
              /\ lowerLimit' = 128
            BY <2>1, SMT DEF Lead
        <3>2. e = FirstByte(d, 1, b - 192, 128)
            BY <2>1, <3>1, SMT DEF NextByte
        <3> QED  BY <3>1, <3>2, SMT DEF FirstByte
    <2>2. ASSUME Case3 PROVE Done
        <3>1. /\ remaining = 0 /\ remaining' = 2 /\ codepoint' = b - 224
              /\ lowerLimit' = 2048
            BY <2>2, SMT DEF Lead
        <3>2. e = FirstByte(d, 2, b - 224, 2048)
            BY <2>2, <3>1, SMT DEF NextByte
        <3> QED  BY <3>1, <3>2, SMT DEF FirstByte
    <2>3. ASSUME Case4 PROVE Done
        <3>1. /\ remaining = 0 /\ remaining' = 3 /\ codepoint' = b - 240
              /\ lowerLimit' = 65536
            BY <2>3, SMT DEF Lead
        <3>2. e = FirstByte(d, 3, b - 240, 65536)
            BY <2>3, <3>1, SMT DEF NextByte
        <3> QED  BY <3>1, <3>2, SMT DEF FirstByte
    <2>4. Case2 \/ Case3 \/ Case4
        BY <1>3, SMT DEF LeadByte
    <2> HIDE DEF Case2, Case3, Case4
    <2>6. Done
        <3> HIDE DEF Done
        <3> QED  BY <2>1, <2>2, <2>3, <2>4, Zenon
    <2> QED  BY <2>6, Zenon
<1>4. CASE Continue(b)
    <2> DEFINE bits == codepoint * 64 + (b - 128)
    <2>1. /\ remaining > 0 /\ Continuation(b) /\ remaining' = remaining - 1
          /\ codepoint' = bits /\ lowerLimit' = lowerLimit
          /\ remaining > 1 \/ ~(bits < lowerLimit)
        <3>1. /\ remaining > 0 /\ Continuation(b) /\ remaining' = remaining - 1
              /\ codepoint' = bits
              /\ IF remaining > 1 THEN UNCHANGED <<wide, again, ok>>
                 ELSE IF bits < lowerLimit
                      THEN ok' = FALSE /\ UNCHANGED <<wide, again>>
                      ELSE Complete(bits) /\ UNCHANGED ok
              /\ UNCHANGED lowerLimit
            BY <1>4, Zenon DEF Continue
        <3> HIDE DEF bits
        <3> QED  BY <3>1
    <2>2. d.bits = codepoint /\ d.limit = lowerLimit
        BY <2>1
    <2>3. e = LaterByte(d, bits)
        BY <1>1, <2>1, <2>2 DEF NextByte
    <2> HIDE DEF bits
    <2>4. CASE remaining > 1
        <3>1. e = [d EXCEPT !.left = @ - 1, !.bits = bits]
            BY <2>3, <2>4 DEF LaterByte
        <3> QED  BY <1>1, <2>1, <2>2, <3>1
    <2>5. CASE remaining = 1
        <3>1. ~(bits < d.limit)
            BY <2>1, <2>2, <2>5
        <3>2. e = AddChar(d, bits)
            BY <2>3, <2>5, <3>1 DEF LaterByte
        <3> QED  BY <2>1, <2>5, <3>2 DEF AddChar
    <2>6. remaining > 1 \/ remaining = 1
        BY <1>1, <2>1
    <2> QED  BY <2>4, <2>5, <2>6, Zenon
<1>5. CASE Refuse(b)
    BY <1>5 DEF Refuse
<1> QED  BY <1>2, <1>3, <1>4, <1>5 DEF Decode

\* While a line is read the decoder waits.
LEMMA DecoderWaits ==
    ASSUME TextsInv, phase = "reading", UNCHANGED decoder,
           line' \in [state: LineStates, key: Text, value: Text]
    PROVE  CheckInv'
<1>1. narrow = <<>> /\ ok = TRUE /\ narrow' = <<>> /\ ok' = ok
           /\ remaining' = remaining /\ codepoint' = codepoint /\ lowerLimit' = lowerLimit
    BY DEF TextsInv, CheckInv, decoder
<1>2. /\ Decoded(narrow).good /\ Decoded(narrow).left = remaining
      /\ remaining > 0 => /\ Decoded(narrow).bits = codepoint
                          /\ Decoded(narrow).limit = lowerLimit
    BY <1>1, Zenon DEF TextsInv, CheckInv
<1>3. narrow' = narrow
    BY <1>1
<1>4. /\ Decoded(narrow').good /\ Decoded(narrow').left = remaining'
      /\ remaining' > 0 => /\ Decoded(narrow').bits = codepoint'
                           /\ Decoded(narrow').limit = lowerLimit'
    BY <1>1, <1>2, <1>3, Zenon
<1>5. /\ narrow' \in Text /\ Len(narrow') <= Len(line'.value)
      /\ narrow' = SubSeq(line'.value, 1, Len(narrow'))
    BY <1>1 DEF Text
<1>6. ok' \in BOOLEAN /\ (phase' # "checking" => narrow' = <<>> /\ ok')
    BY <1>1
<1> QED  BY <1>4, <1>5, <1>6, Zenon DEF CheckInv

LEMMA RecordKept ==
    ASSUME TextsInv, UNCHANGED <<rec, earlier>>, phase' # "done"
    PROVE  RecordInv'
BY DEF TextsInv, RecordInv

\* The bytes of a line.
LEMMA FeedKeeps ==
    ASSUME TextsInv, NEW state, Feed(state),
           line' \in [state: LineStates, key: Text, value: Text]
    PROVE  TextsInv'
<1>1. /\ phase = "reading" /\ phase' = phase /\ file' = file /\ pos' = pos + 1
      /\ UNCHANGED decoder /\ UNCHANGED <<rec, earlier>>
    BY DEF Feed
<1>2. InputInv'
    BY <1>1 DEF TextsInv, InputInv
<1>3. CheckInv'
    BY <1>1, DecoderWaits
<1>4. RecordInv'
    BY <1>1, RecordKept
<1> QED  BY <1>2, <1>3, <1>4 DEF TextsInv

LEMMA ByteOfFile ==
    ASSUME TextsInv, NEW state, Feed(state)
    PROVE  /\ Ch \in Int /\ line \in [state: LineStates, key: Text, value: Text]
           /\ line = [state |-> line.state, key |-> line.key, value |-> line.value]
           /\ line.key \in Text /\ line.value \in Text
<1>1. file \in Text /\ pos \in Nat \ {0} /\ pos <= Len(file)
           /\ line \in [state: LineStates, key: Text, value: Text]
    BY DEF TextsInv, InputInv, Feed
<1>2. Ch \in Int
    BY <1>1 DEF Ch, Text
<1> QED  BY <1>1, <1>2

\* A file is a text.
LEMMA FileIsText ==
    ASSUME NEW f \in Seq(Bytes)
    PROVE  f \in Text
<1>1. \A x \in Bytes : x \in Int
    BY DEF Bytes
<1>2. Len(f) \in Nat /\ f = [i \in 1..Len(f) |-> f[i]]
    OBVIOUS
<1>3. \A i \in 1..Len(f) : f[i] \in Int
    BY <1>1
<1> QED  BY <1>2, <1>3 DEF Text

LEMMA TextsInvInit == Init => TextsInv
<1> SUFFICES ASSUME Init PROVE TextsInv
    OBVIOUS
<1>1. file \in Text
    BY FilesAssumption, FileIsText DEF Init
<1>2. InputInv
    <2>1. <<>> \in Text
        BY DEF Text
    <2>2. "Start" \in LineStates
        BY DEF LineStates
    <2>3. EmptyLine \in [state: LineStates, key: Text, value: Text]
        BY <2>1, <2>2 DEF EmptyLine
    <2> QED  BY <1>1, <2>3 DEF Init, InputInv
<1>3. CheckInv
    <2>1. narrow = <<>> /\ ok = TRUE /\ remaining = 0 /\ line.value = <<>>
        BY DEF Init, DecoderInit, EmptyLine
    <2>2. Decoded(narrow) = Fresh
        BY <2>1, DecodedEmpty
    <2>3. Decoded(narrow).good = TRUE /\ Decoded(narrow).left = 0
        BY <2>2 DEF Fresh
    <2>4. /\ narrow \in Text /\ Len(narrow) <= Len(line.value)
          /\ narrow = SubSeq(line.value, 1, Len(narrow))
        BY <2>1 DEF Text
    <2>5. ~(remaining > 0)
        BY <2>1
    <2>6. ok \in BOOLEAN /\ ok
        BY <2>1
    <2> QED  BY <2>1, <2>3, <2>4, <2>5, <2>6, Zenon DEF CheckInv
<1>4. RecordInv
    BY EmptyRecordIs DEF Init, RecordInv
<1> QED  BY <1>2, <1>3, <1>4 DEF TextsInv

\* What the alternatives of the decoder have in common.
LEMMA DecodeTakes ==
    ASSUME NEW b, Decode(b)
    PROVE  Take(b) /\ (ok \in BOOLEAN => ok' \in BOOLEAN)
<1>1. CASE Ascii(b)
    BY <1>1 DEF Ascii
<1>2. CASE LeadByte(b)
    <2>1. \E n, bits, limit : Lead(b, n, bits, limit)
        BY <1>2, SMT DEF LeadByte
    <2> QED  BY <2>1, SMT DEF Lead
<1>3. CASE Continue(b)
    <2> DEFINE ch == codepoint * 64 + (b - 128)
    <2>1. Take(b) /\ (IF remaining > 1 THEN UNCHANGED <<wide, again, ok>>
                      ELSE IF ch < lowerLimit
                           THEN ok' = FALSE /\ UNCHANGED <<wide, again>>
                           ELSE Complete(ch) /\ UNCHANGED ok)
        BY <1>3, Zenon DEF Continue
    <2> HIDE DEF ch
    <2>2. CASE remaining > 1
        BY <2>1, <2>2
    <2>3. CASE ~(remaining > 1) /\ ch < lowerLimit
        BY <2>1, <2>3
    <2>4. CASE ~(remaining > 1) /\ ~(ch < lowerLimit)
        BY <2>1, <2>4
    <2> QED  BY <2>2, <2>3, <2>4
<1>4. CASE Refuse(b)
    BY <1>4 DEF Refuse
<1> QED  BY <1>1, <1>2, <1>3, <1>4, Zenon DEF Decode

LEMMA CheckByteKeeps ==
    ASSUME TextsInv, CheckByte
    PROVE  TextsInv'
<1> DEFINE b == line.value[Len(narrow) + 1]  value == line.value
           d == Decoded(narrow)  e == NextByte(d, b)
<1>1. /\ phase = "checking" /\ Len(narrow) < Len(value) /\ Decode(b)
      /\ UNCHANGED <<file, pos, line, rec, taken, measured, phase, earlier>>
    BY DEF CheckByte
<1>2. /\ narrow \in Text /\ value \in Text /\ ok \in BOOLEAN
      /\ narrow = SubSeq(value, 1, Len(narrow))
    BY DEF TextsInv, InputInv, CheckInv
<1>3. InputInv'
    BY <1>1 DEF TextsInv, InputInv
<1>4. RecordInv'
    BY <1>1, RecordKept
<1>5. ok /\ narrow' = Append(narrow, b)
    BY <1>1, DecodeTakes DEF Take
<1>6. Len(narrow) + 1 \in 1..Len(value) /\ Len(narrow) \in Nat
    BY <1>1, <1>2 DEF Text
<1>7. b \in Int
    BY <1>2, <1>6 DEF Text
<1>8. /\ narrow' \in Text /\ Len(narrow') = Len(narrow) + 1
      /\ narrow' = SubSeq(value, 1, Len(narrow'))
    <2> DEFINE n == Len(narrow) + 1
    <2>1. SubSeq(value, 1, n) = Append(SubSeq(value, 1, n - 1), value[n])
        <3> HIDE DEF n
        <3> QED  BY <1>2, <1>6, PrefixGrows DEF Text, n
    <2>2. n - 1 = Len(narrow)
        BY <1>6
    <2>3. Append(narrow, b) \in Text /\ Len(Append(narrow, b)) = Len(narrow) + 1
        <3> HIDE DEF b
        <3> QED  BY <1>2, <1>7 DEF Text
    <2> QED  BY <1>2, <1>5, <2>1, <2>2, <2>3
<1>9. ok' \in BOOLEAN
    BY <1>1, <1>2, DecodeTakes
<1>10. line' = line /\ phase' = phase
    BY <1>1
<1>11. ASSUME ok'
       PROVE  /\ Decoded(narrow').good
              /\ Decoded(narrow').left = remaining'
              /\ remaining' > 0 => /\ Decoded(narrow').bits = codepoint'
                                   /\ Decoded(narrow').limit = lowerLimit'
    <2>1. d \in States
        BY <1>2, DecodedType
    <2>2. d.good /\ d.left = remaining
             /\ (remaining > 0 => d.bits = codepoint /\ d.limit = lowerLimit)
        BY <1>5, Zenon DEF TextsInv, CheckInv
    <2>3. Decoded(narrow') = e
        <3>1. Decoded(Append(narrow, b)) = e
            <4> HIDE DEF b
            <4> QED  BY <1>2, <1>7, DecodedAppend
        <3> QED  BY <1>5, <3>1
    <2> HIDE DEF d, b
    <2>4. d.good = TRUE
        BY <2>1, <2>2 DEF States
    <2>5. e = NextByte(d, b)
        OBVIOUS
    <2> HIDE DEF e
    <2>6. /\ e.good = TRUE /\ e.left = remaining'
          /\ remaining' > 0 => e.bits = codepoint' /\ e.limit = lowerLimit'
        BY <1>1, <1>7, <1>11, <2>1, <2>2, <2>4, <2>5, CheckStep, Zenon
    <2>7. e.good
        BY <2>6
    <2> QED  BY <2>3, <2>6, <2>7, Zenon
<1>12. CheckInv'
    <2>1. Len(narrow') <= Len(line'.value) /\ narrow' = SubSeq(line'.value, 1, Len(narrow'))
        BY <1>6, <1>8, <1>10
    <2>2. phase' = "checking"
        BY <1>1, <1>10
    <2> QED  BY <1>8, <1>9, <1>11, <2>1, <2>2, Zenon DEF CheckInv
<1> QED  BY <1>3, <1>4, <1>12 DEF TextsInv

\* The actions that read a line.
LEMMA BeginLineKeeps ==
    ASSUME TextsInv, BeginLine
    PROVE  TextsInv'
<1>1. Feed("Start")
    BY DEF BeginLine
<1>2. Ch \in Int /\ line \in [state: LineStates, key: Text, value: Text]
    BY <1>1, ByteOfFile
<1>3. line' = IF Ch = Hash THEN [line EXCEPT !.state = "Comment"]
              ELSE IF Ch \in Spaces THEN line
              ELSE [line EXCEPT !.state = "Key", !.key = <<Ch>>]
    BY DEF BeginLine
<1>4. <<Ch>> \in Text
    BY <1>2, OneByte
<1>5. line' \in [state: LineStates, key: Text, value: Text]
    BY <1>2, <1>3, <1>4 DEF LineStates
<1> QED  BY <1>1, <1>5, FeedKeeps

LEMMA AppendType ==
    ASSUME NEW s \in Text, NEW b \in Int
    PROVE  Append(s, b) \in Text
BY DEF Text

LEMMA ReadKeyKeeps ==
    ASSUME TextsInv, ReadKey
    PROVE  TextsInv'
<1>1. Feed("Key")
    BY DEF ReadKey
<1>2. Ch \in Int /\ line \in [state: LineStates, key: Text, value: Text]
          /\ line.key \in Text
    BY <1>1, ByteOfFile
<1> DEFINE key == Append(line.key, Ch)
<1>3. line' = IF Ch \in Spaces THEN [line EXCEPT !.state = "Limiter"]
              ELSE IF Ch = Equals THEN [line EXCEPT !.state = "Start2"]
              ELSE [line EXCEPT !.key = key]
    BY DEF ReadKey
<1>4. key \in Text
    BY <1>2, AppendType
<1> HIDE DEF key
<1>5. line' \in [state: LineStates, key: Text, value: Text]
    BY <1>2, <1>3, <1>4 DEF LineStates
<1> QED  BY <1>1, <1>5, FeedKeeps

LEMMA ReadLimiterKeeps ==
    ASSUME TextsInv, ReadLimiter
    PROVE  TextsInv'
<1>1. Feed("Limiter")
    BY DEF ReadLimiter
<1>2. line \in [state: LineStates, key: Text, value: Text]
    BY <1>1, ByteOfFile
<1>3. line' = IF Ch \in Spaces THEN line
              ELSE [line EXCEPT !.state = IF Ch = Equals THEN "Start2" ELSE "Skip"]
    BY DEF ReadLimiter
<1>4. line' \in [state: LineStates, key: Text, value: Text]
    BY <1>2, <1>3 DEF LineStates
<1> QED  BY <1>1, <1>4, FeedKeeps

LEMMA BeginValueKeeps ==
    ASSUME TextsInv, BeginValue
    PROVE  TextsInv'
<1>1. Feed("Start2")
    BY DEF BeginValue
<1>2. Ch \in Int /\ line \in [state: LineStates, key: Text, value: Text]
    BY <1>1, ByteOfFile
<1>3. line' = IF Ch \in Spaces THEN line
              ELSE [line EXCEPT !.state = "Value", !.value = <<Ch>>]
    BY DEF BeginValue
<1>4. <<Ch>> \in Text
    BY <1>2, OneByte
<1>5. line' \in [state: LineStates, key: Text, value: Text]
    BY <1>2, <1>3, <1>4 DEF LineStates
<1> QED  BY <1>1, <1>5, FeedKeeps

LEMMA ReadValueKeeps ==
    ASSUME TextsInv, ReadValue
    PROVE  TextsInv'
<1>1. Feed("Value")
    BY DEF ReadValue
<1>2. Ch \in Int /\ line \in [state: LineStates, key: Text, value: Text]
          /\ line.value \in Text
    BY <1>1, ByteOfFile
<1> DEFINE value == Append(line.value, Ch)
<1>3. line' = line \/ line' = [line EXCEPT !.value = value]
    BY DEF ReadValue
<1>4. value \in Text
    BY <1>2, AppendType
<1> HIDE DEF value
<1>5. line' \in [state: LineStates, key: Text, value: Text]
    BY <1>2, <1>3, <1>4
<1> QED  BY <1>1, <1>5, FeedKeeps

LEMMA ReadRestKeeps ==
    ASSUME TextsInv, ReadRest
    PROVE  TextsInv'
<1>1. PICK state : Feed(state)
    BY DEF ReadRest
<1>2. line \in [state: LineStates, key: Text, value: Text] /\ line' = line
    BY <1>1, ByteOfFile DEF ReadRest
<1> QED  BY <1>1, <1>2, FeedKeeps

LEMMA EmptyLineType == EmptyLine \in [state: LineStates, key: Text, value: Text]
<1>1. <<>> \in Text
    BY DEF Text
<1> QED  BY <1>1 DEF EmptyLine, LineStates

LEMMA EndLineKeeps ==
    ASSUME TextsInv, EndLine
    PROVE  TextsInv'
<1> DEFINE value == TrimRight(line.value)
<1>1. /\ phase = "reading" /\ pos' = pos + 1 /\ file' = file
      /\ UNCHANGED decoder /\ UNCHANGED <<rec, earlier>>
      /\ \/ phase' = "checking" /\ line' = [line EXCEPT !.value = value]
         \/ phase' = phase /\ line' = EmptyLine
    BY DEF EndLine
<1>2. /\ line \in [state: LineStates, key: Text, value: Text] /\ line.value \in Text
      /\ file \in Text /\ pos \in Nat \ {0}
    BY DEF TextsInv, InputInv
<1>3. value \in Text
    BY <1>2, TrimRightLeavesOut
<1> HIDE DEF value
<1>4. line' \in [state: LineStates, key: Text, value: Text]
    BY <1>1, <1>2, <1>3, EmptyLineType
<1>5. InputInv'
    BY <1>1, <1>2, <1>4 DEF InputInv
<1>6. CheckInv'
    BY <1>1, <1>4, DecoderWaits
<1>7. RecordInv'
    BY <1>1, RecordKept
<1> QED  BY <1>5, <1>6, <1>7 DEF TextsInv

\* An empty decoder is one that has read nothing.
LEMMA DecoderEmpty ==
    ASSUME narrow' = <<>>, ok' = TRUE, remaining' = 0, line'.value \in Text
    PROVE  CheckInv'
<1>1. Decoded(narrow') = Fresh
    BY DecodedEmpty
<1>2. Decoded(narrow').good = TRUE /\ Decoded(narrow').left = 0
    BY <1>1 DEF Fresh
<1>3. /\ narrow' \in Text /\ Len(narrow') <= Len(line'.value)
      /\ narrow' = SubSeq(line'.value, 1, Len(narrow'))
    BY DEF Text
<1>4. ok' \in BOOLEAN /\ ok' /\ ~(remaining' > 0)
    OBVIOUS
<1> QED  BY <1>2, <1>3, <1>4, Zenon DEF CheckInv

LEMMA TakeValueKeeps ==
    ASSUME TextsInv, TakeValue
    PROVE  TextsInv'
<1> DEFINE value == Encoded(line.value, ok)
<1>1. /\ ~ok \/ Len(narrow) = Len(line.value)
      /\ line' = EmptyLine /\ phase' = "reading"
      /\ narrow' = <<>> /\ remaining' = 0 /\ ok' = TRUE
      /\ UNCHANGED <<file, pos, taken, measured, earlier>>
    BY DEF TakeValue
<1>2. value \in Accepted
    BY <1>1, ValueAccepted
<1>3. \/ rec' = TakeTitle(rec, value)
      \/ rec' = [rec EXCEPT !.genre = value]
      \/ rec' = TakeSong(rec, SongNumber(line.key), value)
      \/ rec' = rec
    <2>1. rec' = CASE line.key = TitleKey -> TakeTitle(rec, value)
                   [] line.key = GenreKey -> [rec EXCEPT !.genre = value]
                   [] IsPrefix(SongKey, line.key) ->
                            TakeSong(rec, SongNumber(line.key), value)
                   [] OTHER -> rec
        BY DEF TakeValue
    <2> HIDE DEF value
    <2> QED  BY <2>1
<1> HIDE DEF value
<1>4. IsRecord(rec)
    BY DEF TextsInv, RecordInv
<1>5. IsRecord(rec')
    <2>1. CASE rec' = TakeTitle(rec, value)
        BY <1>2, <1>4, <2>1, TakeTitleType
    <2>2. CASE rec' = [rec EXCEPT !.genre = value]
        BY <1>2, <1>4, <2>2 DEF IsRecord
    <2>3. CASE rec' = TakeSong(rec, SongNumber(line.key), value)
        BY <1>2, <1>4, <2>3, TakeSongType
    <2>4. CASE rec' = rec
        BY <1>4, <2>4
    <2> QED  BY <1>3, <2>1, <2>2, <2>3, <2>4
<1>6. InputInv'
    BY <1>1, EmptyLineType DEF TextsInv, InputInv
<1>7. CheckInv'
    <2>1. line'.value \in Text
        BY <1>1, EmptyLineType
    <2> QED  BY <1>1, <2>1, DecoderEmpty
<1>8. RecordInv'
    BY <1>1, <1>5 DEF TextsInv, RecordInv
<1> QED  BY <1>6, <1>7, <1>8 DEF TextsInv

LEMMA FinishKeeps ==
    ASSUME TextsInv, Finish
    PROVE  TextsInv'
<1>1. /\ phase = "reading" /\ phase' = "done"
      /\ taken' = rec /\ rec' = Cleanup(rec) /\ measured' = CleanupEntropy(rec)
      /\ UNCHANGED <<file, pos, line, earlier>> /\ UNCHANGED decoder
    BY DEF Finish
<1>2. InputInv'
    BY <1>1 DEF TextsInv, InputInv
<1>3. CheckInv'
    BY <1>1, <1>2, DecoderWaits DEF InputInv
<1>4. RecordInv'
    <2>1. IsRecord(rec) /\ (earlier # <<>> => IsRecord(earlier[1].texts))
        BY DEF TextsInv, RecordInv
    <2>2. IsRecord(Cleanup(rec))
        BY <2>1, CleanupIs
    <2> QED  BY <1>1, <2>1, <2>2 DEF RecordInv
<1> QED  BY <1>2, <1>3, <1>4 DEF TextsInv

LEMMA NextFileKeeps ==
    ASSUME TextsInv, NextFile
    PROVE  TextsInv'
<1>1. /\ phase = "done" /\ phase' = "reading" /\ pos' = 1 /\ line' = EmptyLine
      /\ rec' = EmptyRecord /\ UNCHANGED decoder
      /\ earlier' = <<[texts |-> rec, measured |-> measured]>>
      /\ file' \in {CddbFile(rec)} \cup (IF file \in Versions THEN Versions ELSE {})
    BY DEF NextFile
<1>2. IsRecord(rec)
    BY DEF TextsInv, RecordInv
<1>3. file' \in Text
    <2>1. CddbFile(rec) \in Text
        <3>1. rec.artist \in Text /\ rec.title \in Text /\ rec.genre \in Text
            BY <1>2, AcceptedText DEF IsRecord
        <3>2. rec.songs \in Seq(Text)
            BY <1>2, AcceptedSongs DEF IsRecord
        <3> QED  BY <3>1, <3>2, CddbFileType
    <2>2. \A f \in Versions : f \in Text
        BY FilesAssumption, FileIsText
    <2> QED  BY <1>1, <2>1, <2>2
<1>4. InputInv'
    BY <1>1, <1>3, EmptyLineType DEF InputInv
<1>5. CheckInv'
    <2>1. narrow = <<>> /\ ok = TRUE /\ remaining = 0
        <3>1. narrow = <<>> /\ ok = TRUE
            BY <1>1 DEF TextsInv, CheckInv
        <3>2. Decoded(narrow) = Fresh
            BY <3>1, DecodedEmpty
        <3>3. Decoded(narrow).left = remaining
            BY <3>1, Zenon DEF TextsInv, CheckInv
        <3> QED  BY <3>1, <3>2, <3>3 DEF Fresh
    <2>2. line'.value \in Text
        BY <1>1, EmptyLineType
    <2> QED  BY <1>1, <2>1, <2>2, DecoderEmpty DEF decoder
<1>6. RecordInv'
    <2>1. earlier'[1].texts = rec
        BY <1>1
    <2> QED  BY <1>1, <1>2, <2>1, EmptyRecordIs DEF RecordInv
<1> QED  BY <1>4, <1>5, <1>6 DEF TextsInv

\* What is stored of any file is encoded as UTF-8, whatever the file is
\* encoded in, and so is a file that is written of it.
THEOREM TextsInvariant == Spec => []TextsInv
<1>1. Init => TextsInv
    BY TextsInvInit
<1>2. TextsInv /\ [Next]_vars => TextsInv'
    <2> SUFFICES ASSUME TextsInv, [Next]_vars PROVE TextsInv'
        OBVIOUS
    <2>1. CASE BeginLine
        BY <2>1, BeginLineKeeps
    <2>2. CASE ReadKey
        BY <2>2, ReadKeyKeeps
    <2>3. CASE ReadLimiter
        BY <2>3, ReadLimiterKeeps
    <2>4. CASE BeginValue
        BY <2>4, BeginValueKeeps
    <2>5. CASE ReadValue
        BY <2>5, ReadValueKeeps
    <2>6. CASE ReadRest
        BY <2>6, ReadRestKeeps
    <2>7. CASE EndLine
        BY <2>7, EndLineKeeps
    <2>8. CASE CheckByte
        BY <2>8, CheckByteKeeps
    <2>9. CASE TakeValue
        BY <2>9, TakeValueKeeps
    <2>10. CASE Finish
        BY <2>10, FinishKeeps
    <2>11. CASE NextFile
        BY <2>11, NextFileKeeps
    <2>12. CASE UNCHANGED vars
        BY <2>12 DEF vars, decoder, TextsInv, InputInv, CheckInv, RecordInv
    <2> QED  BY <2>1, <2>2, <2>3, <2>4, <2>5, <2>6, <2>7, <2>8, <2>9, <2>10, <2>11,
                <2>12 DEF Next
<1> QED  BY <1>1, <1>2, PTL DEF Spec

-----------------------------------------------------------------------------
(* What follows of the invariant.                                          *)

\* The texts of a record that is cleaned, one by one.
LEMMA TextsOfCleanup ==
    ASSUME NEW r, IsRecord(r)
    PROVE  /\ DOMAIN TextsOf(Cleanup(r)) = DOMAIN TextsOf(Stripped(r))
           /\ \A i \in DOMAIN TextsOf(Stripped(r)) :
                /\ TextsOf(Stripped(r))[i] \in Accepted
                /\ TextsOf(Cleanup(r))[i] = Clean(TextsOf(Stripped(r))[i])
                /\ \A ch \in ToSet(FromUtf8(TextsOf(Stripped(r))[i])) : ch \in AllChars(r)
<1> DEFINE c == Cleanup(r)  s == Stripped(r)  n == Len(r.songs)
<1>1. /\ IsRecord(c) /\ c.artist = Clean(r.artist) /\ c.title = Clean(r.title)
      /\ Len(c.songs) = n
      /\ \A i \in 1..n : c.songs[i] = Clean(WithoutArtist(r.songs[i], r.artist))
    BY CleanupIs
<1>2. /\ IsRecord(s) /\ s.artist = r.artist /\ s.title = r.title
      /\ Len(s.songs) = n
      /\ \A i \in 1..n : s.songs[i] = WithoutArtist(r.songs[i], r.artist)
    BY StrippedIs
<1> HIDE DEF c, s
<1>3. /\ r.songs \in Seq(Accepted) /\ s.songs \in Seq(Accepted)
      /\ r.songs \in Seq(Seq(Int)) /\ s.songs \in Seq(Seq(Int)) /\ c.songs \in Seq(Seq(Int))
    <2>1. r.songs \in Seq(Accepted) /\ s.songs \in Seq(Accepted) /\ c.songs \in Seq(Accepted)
        BY <1>1, <1>2 DEF IsRecord
    <2> QED  BY <2>1, AcceptedSongs
<1>4. n \in Nat
    BY <1>3
<1>5. /\ DOMAIN TextsOf(c) = 1..(n + 2)
      /\ TextsOf(c)[1] = c.artist /\ TextsOf(c)[2] = c.title
      /\ \A i \in 3..(n + 2) : TextsOf(c)[i] = c.songs[i - 2]
    BY <1>1, <1>3, TextsOfRecord
<1>6. /\ DOMAIN TextsOf(s) = 1..(n + 2)
      /\ TextsOf(s)[1] = s.artist /\ TextsOf(s)[2] = s.title
      /\ \A i \in 3..(n + 2) : TextsOf(s)[i] = s.songs[i - 2]
    BY <1>2, <1>3, TextsOfRecord
<1>7. /\ DOMAIN TextsOf(r) = 1..(n + 2)
      /\ TextsOf(r)[1] = r.artist /\ TextsOf(r)[2] = r.title
      /\ \A i \in 3..(n + 2) : TextsOf(r)[i] = r.songs[i - 2]
    BY <1>3, TextsOfRecord
<1>8. ASSUME NEW i \in 1..(n + 2)
      PROVE  /\ TextsOf(s)[i] \in Accepted
             /\ TextsOf(c)[i] = Clean(TextsOf(s)[i])
             /\ \A ch \in ToSet(FromUtf8(TextsOf(s)[i])) : ch \in ToSet(FromUtf8(TextsOf(r)[i]))
    <2>1. CASE i \in 1..2
        <3>1. TextsOf(s)[i] = TextsOf(r)[i] /\ TextsOf(c)[i] = Clean(TextsOf(s)[i])
            BY <1>1, <1>2, <1>5, <1>6, <1>7, <2>1
        <3>2. TextsOf(s)[i] \in Accepted
            BY <1>2, <1>6, <2>1 DEF IsRecord
        <3> QED  BY <3>1, <3>2
    <2>2. CASE i \notin 1..2
        <3> DEFINE k == i - 2
        <3>1. i \in 3..(n + 2) /\ k \in 1..n
            BY <1>4, <2>2
        <3>2. /\ TextsOf(c)[i] = c.songs[k] /\ TextsOf(s)[i] = s.songs[k]
              /\ TextsOf(r)[i] = r.songs[k]
            BY <1>5, <1>6, <1>7, <3>1
        <3> HIDE DEF k
        <3>3. r.songs[k] \in Accepted /\ r.artist \in Accepted
            BY <1>3, <3>1 DEF IsRecord
        <3>4. s.songs[k] = WithoutArtist(r.songs[k], r.artist)
              /\ c.songs[k] = Clean(s.songs[k])
            BY <1>1, <1>2, <3>1
        <3>5. /\ s.songs[k] \in Accepted
              /\ \A ch \in ToSet(FromUtf8(s.songs[k])) : ch \in ToSet(FromUtf8(r.songs[k]))
            BY <3>3, <3>4, WithoutArtistType
        <3> QED  BY <3>2, <3>4, <3>5
    <2> QED  BY <2>1, <2>2
<1>9. ASSUME NEW i \in 1..(n + 2), NEW ch \in ToSet(FromUtf8(TextsOf(r)[i]))
      PROVE  ch \in AllChars(r)
    BY <1>7 DEF AllChars
<1>10. ASSUME NEW i \in 1..(n + 2)
       PROVE  \A ch \in ToSet(FromUtf8(TextsOf(s)[i])) : ch \in AllChars(r)
    BY <1>8, <1>9, Zenon
<1>11. DOMAIN TextsOf(c) = DOMAIN TextsOf(s)
    BY <1>5, <1>6
<1>12. \A i \in DOMAIN TextsOf(s) :
            /\ TextsOf(s)[i] \in Accepted
            /\ TextsOf(c)[i] = Clean(TextsOf(s)[i])
            /\ \A ch \in ToSet(FromUtf8(TextsOf(s)[i])) : ch \in AllChars(r)
    BY <1>6, <1>8, <1>10, Zenon
<1> QED  BY <1>11, <1>12, Zenon DEF c, s

LEMMA StrippedTexts ==
    ASSUME NEW r, IsRecord(r)
    PROVE  TextsOf(Stripped(r)) = <<r.artist, r.title>> \o
                [i \in DOMAIN r.songs |-> WithoutArtist(r.songs[i], r.artist)]
<1> DEFINE songs == [i \in DOMAIN r.songs |-> WithoutArtist(r.songs[i], r.artist)]
<1>1. Stripped(r) = [r EXCEPT !.songs = songs]
    BY DEF Stripped
<1> HIDE DEF songs
<1>2. Stripped(r).artist = r.artist /\ Stripped(r).title = r.title
        /\ Stripped(r).songs = songs
    BY <1>1 DEF IsRecord
<1> QED  BY <1>2 DEF TextsOf, songs

\* The entropy that the parser counts in cleanup() is that of the record it
\* leaves.
LEMMA EntropyOfCleanup ==
    ASSUME NEW r, IsRecord(r), \A ch \in AllChars(r) : IsUnicode(ch)
    PROVE  CalcEntropy(Cleanup(r)) = CleanupEntropy(r)
<1> DEFINE c == Cleanup(r)  s == Stripped(r)
           titled == [i \in DOMAIN TextsOf(s) |-> Titled(FromUtf8(TrimAll(TextsOf(s)[i])))]
<1>1. DOMAIN TextsOf(c) = DOMAIN TextsOf(s)
    BY TextsOfCleanup
<1>2. ASSUME NEW i \in DOMAIN TextsOf(s)
      PROVE  FromUtf8(TextsOf(c)[i]) = Titled(FromUtf8(TrimAll(TextsOf(s)[i])))
    <2> DEFINE t == TextsOf(s)[i]
    <2>1. /\ t \in Accepted /\ TextsOf(c)[i] = Clean(t)
          /\ \A ch \in ToSet(FromUtf8(t)) : ch \in AllChars(r)
        BY TextsOfCleanup
    <2> HIDE DEF c, s, t
    <2>2. \A ch \in ToSet(FromUtf8(t)) : IsUnicode(ch)
        BY <2>1
    <2>3. FromUtf8(Clean(t)) = Titled(FromUtf8(TrimAll(t)))
        BY <2>1, <2>2, AcceptedText, Cleaned
    <2> QED  BY <2>1, <2>3 DEF t
<1>3. Wides(TextsOf(c)) = titled
    <2> HIDE DEF c, s
    <2> QED  BY <1>1, <1>2 DEF Wides
<1>4. CleanupEntropy(r) = Measure(titled)
    <2> DEFINE texts == <<r.artist, r.title>> \o
                [i \in DOMAIN r.songs |-> WithoutArtist(r.songs[i], r.artist)]
    <2>1. CleanupEntropy(r)
            = Measure([i \in DOMAIN texts |-> Titled(FromUtf8(TrimAll(texts[i])))])
        BY DEF CleanupEntropy
    <2>2. TextsOf(s) = texts
        BY StrippedTexts
    <2> HIDE DEF texts, s
    <2>3. [i \in DOMAIN texts |-> Titled(FromUtf8(TrimAll(texts[i])))] = titled
        BY <2>2
    <2> QED  BY <2>1, <2>3
<1> QED  BY <1>3, <1>4 DEF CalcEntropy

\* cleanup() keeps the normalized text.
LEMMA HashOfCleanup ==
    ASSUME NEW r, IsRecord(r), \A ch \in AllChars(r) : Normal(ch)
    PROVE  NormalizedHash(Cleanup(r)) = NormalizedHash(Stripped(r))
<1> DEFINE c == Cleanup(r)  s == Stripped(r)
<1>1. DOMAIN TextsOf(c) = DOMAIN TextsOf(s)
    BY TextsOfCleanup
<1>2. ASSUME NEW i \in DOMAIN TextsOf(s)
      PROVE  Normalize(TextsOf(c)[i]) = Normalize(TextsOf(s)[i])
    <2> DEFINE t == TextsOf(s)[i]
    <2>1. /\ t \in Accepted /\ TextsOf(c)[i] = Clean(t)
          /\ \A ch \in ToSet(FromUtf8(t)) : ch \in AllChars(r)
        BY TextsOfCleanup
    <2> HIDE DEF c, s, t
    <2>2. \A ch \in ToSet(FromUtf8(t)) : Normal(ch)
        BY <2>1
    <2>3. Normalize(Clean(t)) = Normalize(t)
        BY <2>1, <2>2, AcceptedText, Cleaned
    <2> QED  BY <2>1, <2>3 DEF t
<1> HIDE DEF c, s
<1>3. [i \in DOMAIN TextsOf(c) |-> Normalize(TextsOf(c)[i])]
        = [i \in DOMAIN TextsOf(s) |-> Normalize(TextsOf(s)[i])]
    BY <1>1, <1>2
<1>4. NormalizedHash(c) = NormalizedHash(s)
    BY <1>3 DEF NormalizedHash
<1> QED  BY <1>4 DEF c, s

\* A record of the database has the entropy of the file it was imported from
\* (cddbupdater.cpp:427), for all files whose characters Unicode has.
THEOREM RowKeepsEntropy == Spec => []RowHasEntropyOfFile
<1>1. TextsInv => RowHasEntropyOfFile
    <2> SUFFICES ASSUME TextsInv, phase = "done", \A ch \in AllChars(taken) : IsUnicode(ch)
                 PROVE  CalcEntropy(rec) = measured
        BY DEF RowHasEntropyOfFile
    <2>1. IsRecord(taken) /\ rec = Cleanup(taken) /\ measured = CleanupEntropy(taken)
        BY DEF TextsInv, RecordInv
    <2> QED  BY <2>1, EntropyOfCleanup
<1> QED  BY <1>1, TextsInvariant, PTL

\* cleanup() changes nothing of the text that the importer hashes, for all
\* files and all locales that LibraryAssumption allows (diskrecord.cpp:318).
THEOREM CleanTextsHashTheSame == Spec => []CleanupKeepsHash
<1>1. TextsInv => CleanupKeepsHash
    <2> SUFFICES ASSUME TextsInv, phase = "done", \A ch \in AllChars(taken) : Normal(ch)
                 PROVE  NormalizedHash(rec) = NormalizedHash(Stripped(taken))
        BY DEF CleanupKeepsHash, Stripped
    <2>1. IsRecord(taken) /\ rec = Cleanup(taken)
        BY DEF TextsInv, RecordInv
    <2> QED  BY <2>1, HashOfCleanup
<1> QED  BY <1>1, TextsInvariant, PTL

\* Two versions of a disc that differ in letter case only have the same
\* normalized text, by which the importer finds the one when it reads the
\* other (cddbupdater.cpp:447).
THEOREM CaseVersionsAlwaysMeet == Spec => []CaseVersionsMeet
<1>1. TextsInv => CaseVersionsMeet
    <2> DEFINE old == earlier[1].texts
    <2> SUFFICES ASSUME TextsInv, earlier # <<>>, EqualLowercase(rec, old),
                        \A ch \in AllChars(rec) \cup AllChars(old) : Normal(ch)
                 PROVE  NormalizedHash(rec) = NormalizedHash(old)
        BY DEF CaseVersionsMeet
    <2>1. IsRecord(rec) /\ IsRecord(old)
        BY DEF TextsInv, RecordInv
    <2> HIDE DEF old
    <2>2. rec.songs \in Seq(Seq(Int)) /\ old.songs \in Seq(Seq(Int))
        BY <2>1, AcceptedSongs DEF IsRecord
    <2>3. Len(rec.songs) = Len(old.songs)
        BY DEF EqualLowercase
    <2>4. DOMAIN TextsOf(rec) = 1..(Len(rec.songs) + 2)
          /\ DOMAIN TextsOf(old) = 1..(Len(old.songs) + 2)
        BY <2>2, TextsOfRecord
    <2>5. DOMAIN TextsOf(rec) = DOMAIN TextsOf(old)
        BY <2>3, <2>4
    <2> QED  BY <2>5, CaseVersions
<1> QED  BY <1>1, TextsInvariant, PTL

-----------------------------------------------------------------------------
(* Similarity: which n-grams are found. *)

\* An n-gram is found at the first place that is free.
Free(mine, used, gram) == { i \in DOMAIN mine \ used : mine[i] = gram }
Find(mine, used, gram) ==
    IF Free(mine, used, gram) = {} THEN used
    ELSE used \cup {Min(Free(mine, used, gram))}

\* The places that are found with so many n-grams of the other text.
Found(mine, theirs) ==
    CHOOSE f : f = [k \in 0..Len(theirs) |->
        IF k = 0 THEN {} ELSE Find(mine, f[k - 1], theirs[k])]

LEMMA CompareIs ==
    ASSUME NEW s, NEW t
    PROVE  Compare(s, t) =
            IF Grams(s) = <<>> THEN 0
            ELSE (Cardinality(Found(Grams(s), Grams(t))[Len(Grams(t))]) * 100)
                    \div Len(Grams(s))
BY DEF Compare, Found, Find, Free

\* A place that is found is free, and has the n-gram.
LEMMA FindIs ==
    ASSUME NEW mine \in Seq(Text), NEW used \in SUBSET (1..Len(mine)), NEW gram
    PROVE  \/ /\ Find(mine, used, gram) = used
              /\ \A i \in 1..Len(mine) : mine[i] = gram => i \in used
           \/ \E i \in 1..Len(mine) :
                /\ i \notin used /\ mine[i] = gram
                /\ Find(mine, used, gram) = used \cup {i}
<1> DEFINE free == Free(mine, used, gram)
<1>0. DOMAIN mine = 1..Len(mine) /\ Len(mine) \in Nat
    OBVIOUS
<1>1. CASE free = {}
    BY <1>0, <1>1 DEF Find, Free
<1>2. CASE free # {}
    <2>1. free \in SUBSET Nat
        BY <1>0 DEF Free
    <2>2. PICK i \in free : \A k \in free : i <= k
        <3> HIDE DEF free
        <3> QED  BY <1>2, <2>1, LeastNatural
    <2>3. Min(free) = i
        <3> free \subseteq Int
            BY <2>1
        <3> HIDE DEF free
        <3> QED  BY <2>2, LeastOf
    <2>4. i \in 1..Len(mine) /\ i \notin used /\ mine[i] = gram
        BY <1>0, <2>2 DEF Free
    <2>5. Find(mine, used, gram) = used \cup {i}
        BY <1>2, <2>3 DEF Find
    <2> QED  BY <2>4, <2>5
<1> QED  BY <1>1, <1>2

LEMMA FoundRecursion ==
    ASSUME NEW mine \in Seq(Text), NEW theirs \in Seq(Text)
    PROVE  /\ Found(mine, theirs) \in [0..Len(theirs) -> SUBSET (1..Len(mine))]
           /\ Found(mine, theirs)[0] = {}
           /\ \A j \in 1..Len(theirs) :
                Found(mine, theirs)[j] = Find(mine, Found(mine, theirs)[j - 1], theirs[j])
<1> DEFINE n == Len(theirs)
           V == SUBSET (1..Len(mine))
           next(i, v) == Find(mine, v, theirs[i])
           step == [p \in (1..n) \X V |-> next(p[1], p[2])]
           body(f, j) == IF j = 0 THEN {} ELSE next(j, f[j - 1])
<1>1. n \in Nat /\ {} \in V
    OBVIOUS
<1>2. ASSUME NEW i \in 1..n, NEW v \in V
      PROVE  next(i, v) \in V
    <2>1. \/ next(i, v) = v
          \/ \E j \in 1..Len(mine) : next(i, v) = v \cup {j}
        BY FindIs
    <2> QED  BY <2>1
<1> HIDE DEF next
<1>3. \A i \in 1..n, v \in V : step[<<i, v>>] = next(i, v)
    OBVIOUS
<1> HIDE DEF step
<1>4. StaysIn(V, n, step)
    BY <1>2, <1>3 DEF StaysIn
<1>5. PICK f \in [0..n -> V] : IsRecursion(f, n, {}, step)
    <2> HIDE DEF n, V
    <2> QED  BY <1>1, <1>4, RecursionExists
<1>6. ASSUME NEW j \in 0..n PROVE f[j] = body(f, j)
    <2>1. CASE j = 0
        BY <1>5, <2>1 DEF IsRecursion
    <2>2. CASE j # 0
        <3>1. j \in 1..n /\ j - 1 \in 0..n
            BY <1>1, <2>2
        <3>2. f[j] = step[<<j, f[j - 1]>>] /\ f[j - 1] \in V
            BY <1>5, <3>1 DEF IsRecursion
        <3> QED  BY <1>3, <2>2, <3>1, <3>2
    <2> QED  BY <2>1, <2>2
<1>7. Found(mine, theirs) = CHOOSE g : g = [j \in 0..n |-> body(g, j)]
    BY DEF Found, next
<1> HIDE DEF body
<1>8. f = [j \in 0..n |-> body(f, j)]
    BY <1>6
<1>9. Found(mine, theirs) = [j \in 0..n |-> body(Found(mine, theirs), j)]
    BY <1>7, <1>8
<1> DEFINE F == Found(mine, theirs)
<1> HIDE DEF F
<1>10. F = [j \in 0..n |-> body(F, j)]
    BY <1>9 DEF F
<1>11. \A j \in 0..n : F[j] = body(F, j)
    BY <1>10
<1>12. F[0] = {}
    BY <1>1, <1>11 DEF body
<1>13. ASSUME NEW j \in 1..n PROVE F[j] = next(j, F[j - 1])
    <2>1. j \in 0..n /\ j # 0
        BY <1>1
    <2> QED  BY <1>11, <2>1 DEF body
<1>14. \A j \in 0..n : F[j] \in V
    <2> DEFINE T == {j \in 0..n : F[j] \in V}
    <2> HIDE DEF V
    <2>1. 0 \in T
        BY <1>1, <1>12
    <2>2. ASSUME NEW j \in 1..n, j - 1 \in T PROVE j \in T
        BY <1>1, <1>2, <1>13, <2>2
    <2>3. \A j \in 0..n : j \in T
        <3> HIDE DEF T
        <3> QED  BY <1>1, <2>1, <2>2, InductionUpTo
    <2> QED  BY <2>3
<1>15. F \in [0..n -> V]
    BY <1>10, <1>14
<1> QED  BY <1>12, <1>13, <1>15 DEF next, F

\* The places of equal n-grams up to k, and a place found for each of them.
Equal(mine, theirs, k) == { i \in 1..k : i <= Len(mine) /\ mine[i] = theirs[i] }
Matching(mine, theirs, k, f) ==
    /\ f \in Injection(Equal(mine, theirs, k), Found(mine, theirs)[k])
    /\ \A i \in Equal(mine, theirs, k) : mine[f[i]] = mine[i]

LEMMA MatchingGrows ==
    ASSUME NEW mine \in Seq(Text), NEW theirs \in Seq(Text), NEW k \in 1..Len(theirs),
           NEW f, Matching(mine, theirs, k - 1, f)
    PROVE  \E g : Matching(mine, theirs, k, g)
<1> DEFINE E == Equal(mine, theirs, k - 1)  D == Equal(mine, theirs, k)
           F == Found(mine, theirs)[k - 1]  G == Found(mine, theirs)[k]
           m == Len(mine)
<1>1. /\ F \in SUBSET (1..m) /\ G = Find(mine, F, theirs[k])
    <2> DEFINE found == Found(mine, theirs)
    <2>1. k - 1 \in 0..Len(theirs)
        OBVIOUS
    <2>2. /\ found \in [0..Len(theirs) -> SUBSET (1..m)]
          /\ found[k] = Find(mine, found[k - 1], theirs[k])
        BY FoundRecursion
    <2> HIDE DEF found, m
    <2>3. found[k - 1] \in SUBSET (1..m)
        BY <2>1, <2>2
    <2> QED  BY <2>2, <2>3 DEF found
<1>2. /\ E \subseteq 1..m /\ D \subseteq 1..m /\ k \notin E
      /\ D = E \cup (IF k <= m /\ mine[k] = theirs[k] THEN {k} ELSE {})
    BY DEF Equal
<1>3. /\ f \in [E -> F] /\ \A a, b \in E : f[a] = f[b] => a = b
      /\ \A i \in E : mine[f[i]] = mine[i]
    <2>1. f \in Injection(E, F) /\ \A i \in E : mine[f[i]] = mine[i]
        BY DEF Matching
    <2> HIDE DEF E, F
    <2> QED  BY <2>1 DEF Injection, IsInjective
<1>4. ASSUME NEW g, g \in [D -> G], \A a, b \in D : g[a] = g[b] => a = b,
             \A i \in D : mine[g[i]] = mine[i]
      PROVE  \E h : Matching(mine, theirs, k, h)
    <2>1. g \in Injection(D, G)
        <3> HIDE DEF D, G
        <3> QED  BY <1>4 DEF Injection, IsInjective
    <2>2. Matching(mine, theirs, k, g)
        BY <1>4, <2>1 DEF Matching
    <2> QED  BY <2>2
<1>5. (/\ G = F /\ \A i \in 1..m : mine[i] = theirs[k] => i \in F)
      \/ \E i \in 1..m : i \notin F /\ mine[i] = theirs[k] /\ G = F \cup {i}
    <2> HIDE DEF F, G
    <2>1. \/ /\ Find(mine, F, theirs[k]) = F
             /\ \A i \in 1..Len(mine) : mine[i] = theirs[k] => i \in F
          \/ \E i \in 1..Len(mine) :
                /\ i \notin F /\ mine[i] = theirs[k]
                /\ Find(mine, F, theirs[k]) = F \cup {i}
        BY <1>1, FindIs
    <2> QED  BY <1>1, <2>1
<1> HIDE DEF E, D, F, G, m
<1>6. CASE D = E
    <2>1. f \in [D -> G]
        BY <1>3, <1>5, <1>6
    <2> QED  BY <1>3, <1>4, <1>6, <2>1
<1>7. CASE D = E \cup {k} /\ k \in 1..m /\ mine[k] = theirs[k]
           /\ G = F /\ \A i \in 1..m : mine[i] = theirs[k] => i \in F
    <2> DEFINE g == [i \in D |-> IF mine[i] = theirs[k] THEN i ELSE f[i]]
    <2>1. ASSUME NEW i \in D, mine[i] = theirs[k] PROVE g[i] = i /\ i \in G
        BY <1>2, <1>7, <2>1
    <2>2. ASSUME NEW i \in D, mine[i] # theirs[k]
          PROVE  g[i] = f[i] /\ i \in E /\ f[i] \in G /\ mine[f[i]] = mine[i]
        BY <1>3, <1>7, <2>2
    <2>3. g \in [D -> G]
        BY <2>1, <2>2
    <2>4. \A i \in D : mine[g[i]] = mine[i]
        BY <2>1, <2>2
    <2> HIDE DEF g
    <2>5. ASSUME NEW a \in D, NEW b \in D, g[a] = g[b] PROVE a = b
        <3>1. mine[a] = mine[b]
            BY <2>4, <2>5
        <3>2. CASE mine[a] = theirs[k]
            BY <2>1, <2>5, <3>1, <3>2
        <3>3. CASE mine[a] # theirs[k]
            BY <1>3, <2>2, <2>5, <3>1, <3>3
        <3> QED  BY <3>2, <3>3
    <2> QED  BY <1>4, <2>3, <2>4, <2>5
<1>8. CASE D = E \cup {k} /\ k \in 1..m /\ mine[k] = theirs[k]
           /\ \E i \in 1..m : i \notin F /\ mine[i] = theirs[k] /\ G = F \cup {i}
    <2> PICK j \in 1..m : j \notin F /\ mine[j] = theirs[k] /\ G = F \cup {j}
        BY <1>8
    <2> DEFINE g == [i \in D |-> IF i = k THEN j ELSE f[i]]
    <2>1. g[k] = j /\ k \in D
        BY <1>8
    <2>2. ASSUME NEW i \in E PROVE g[i] = f[i] /\ f[i] \in F /\ i # k
        BY <1>2, <1>3, <1>8
    <2>3. D = E \cup {k}
        BY <1>8
    <2>4. g \in [D -> G]
        BY <2>1, <2>2, <2>3
    <2> HIDE DEF g
    <2>5. \A i \in D : mine[g[i]] = mine[i]
        BY <1>3, <1>8, <2>1, <2>2, <2>3
    <2>6. \A a, b \in D : g[a] = g[b] => a = b
        BY <1>3, <2>1, <2>2, <2>3
    <2> QED  BY <1>4, <2>4, <2>5, <2>6
<1> QED
    <2>1. D = E \/ (D = E \cup {k} /\ k \in 1..m /\ mine[k] = theirs[k])
        BY <1>2 DEF m
    <2> QED  BY <1>5, <1>6, <1>7, <1>8, <2>1

\* At least as many are found as are equal, and no more than there are.
LEMMA FoundBounds ==
    ASSUME NEW mine \in Seq(Text), NEW theirs \in Seq(Text)
    PROVE  /\ IsFiniteSet(Found(mine, theirs)[Len(theirs)])
           /\ Cardinality(Found(mine, theirs)[Len(theirs)]) \in 0..Len(mine)
           /\ Cardinality(Equal(mine, theirs, Len(theirs)))
                <= Cardinality(Found(mine, theirs)[Len(theirs)])
<1> DEFINE n == Len(theirs)  m == Len(mine)  F == Found(mine, theirs)
           T == {k \in 0..n : \E f : Matching(mine, theirs, k, f)}
<1>0. n \in Nat /\ m \in Nat
    OBVIOUS
<1>1. 0 \in T
    <2> DEFINE f == [i \in {} |-> 0]
    <2>1. Equal(mine, theirs, 0) = {}
        BY DEF Equal
    <2>2. f \in Injection({}, F[0])
        BY DEF Injection, IsInjective
    <2> HIDE DEF f, F
    <2>3. Matching(mine, theirs, 0, f)
        BY <2>1, <2>2 DEF Matching, F
    <2> QED  BY <1>0, <2>3
<1>2. ASSUME NEW k \in 1..n, k - 1 \in T PROVE k \in T
    <2>1. PICK f : Matching(mine, theirs, k - 1, f)
        BY <1>2
    <2>2. \E g : Matching(mine, theirs, k, g)
        BY <2>1, MatchingGrows
    <2> QED  BY <2>2
<1>3. n \in T
    <2> HIDE DEF T, n
    <2>1. \A k \in 0..n : k \in T
        BY <1>0, <1>1, <1>2, InductionUpTo
    <2> QED  BY <1>0, <2>1
<1>4. PICK f : Matching(mine, theirs, n, f)
    BY <1>3
<1>5. F[n] \in SUBSET (1..m)
    <2>1. F \in [0..n -> SUBSET (1..m)]
        BY FoundRecursion
    <2> HIDE DEF F, n, m
    <2> QED  BY <1>0, <2>1
<1>6. f \in Injection(Equal(mine, theirs, n), F[n])
    BY <1>4 DEF Matching
<1> HIDE DEF F, n, m
<1>7. IsFiniteSet(1..m) /\ Cardinality(1..m) = m
    BY <1>0, FS_Interval
<1>8. IsFiniteSet(F[n]) /\ Cardinality(F[n]) <= m
    BY <1>5, <1>7, FS_Subset
<1>9. Cardinality(F[n]) \in Nat
    BY <1>8, FS_CardinalityType
<1>10. Cardinality(Equal(mine, theirs, n)) <= Cardinality(F[n])
    BY <1>6, <1>8, FS_Injection
<1> QED  BY <1>0, <1>8, <1>9, <1>10 DEF F, n, m

\* The n-grams of a text.
LEMMA GramsAre ==
    ASSUME NEW s \in Text
    PROVE  /\ Grams(s) \in Seq(Text) /\ Len(Grams(s)) = NumberOfGrams(s)
           /\ NumberOfGrams(s) \in Nat
           /\ \A i \in 1..NumberOfGrams(s) :
                Grams(s)[i] =
                    [k \in 1..((IF i >= NumberOfGrams(s) - 2 THEN Len(s) ELSE i + 2) - i + 1)
                        |-> s[i + k - 1] % 256]
<1> DEFINE n == NumberOfGrams(s)
           last(i) == IF i >= n - 2 THEN Len(s) ELSE i + 2
           gram(i) == [k \in 1..(last(i) - i + 1) |-> s[i + k - 1] % 256]
<1>1. n \in Nat /\ Len(s) \in Nat /\ (n > 0 => Len(s) = n + 2)
    BY DEF NumberOfGrams, Text
<1>2. Grams(s) = [i \in 1..n |-> gram(i)]
    BY DEF Grams
<1> HIDE DEF n
<1>3. ASSUME NEW i \in 1..n PROVE gram(i) \in Text
    <2> DEFINE m == last(i) - i + 1
    <2>1. m \in Nat
        BY <1>1
    <2>2. ASSUME NEW k \in 1..m PROVE s[i + k - 1] % 256 \in Int
        <3>1. i + k - 1 \in 1..Len(s)
            BY <1>1
        <3>2. s[i + k - 1] \in Int
            BY <3>1 DEF Text
        <3> QED  BY <3>2
    <2> HIDE DEF m
    <2>3. [k \in 1..m |-> s[i + k - 1] % 256] \in Seq(Int)
        BY <2>1, <2>2
    <2> QED  BY <2>3 DEF m, Text
<1>4. \A i \in 1..n : Grams(s)[i] = gram(i)
    BY <1>2
<1> HIDE DEF gram
<1>5. Grams(s) \in Seq(Text) /\ Len(Grams(s)) = n
    BY <1>1, <1>2, <1>3
<1> QED  BY <1>1, <1>4, <1>5 DEF n, gram

GramLength(n, l, i) == (IF i >= n - 2 THEN l ELSE i + 2) - i + 1

LEMMA GramIs ==
    ASSUME NEW s \in Text, NEW n, n = NumberOfGrams(s), NEW l, l = Len(s), NEW i \in 1..n
    PROVE  Grams(s)[i] = [k \in 1..GramLength(n, l, i) |-> s[i + k - 1] % 256]
<1>1. \A j \in 1..NumberOfGrams(s) :
        Grams(s)[j] =
            [k \in 1..((IF j >= NumberOfGrams(s) - 2 THEN Len(s) ELSE j + 2) - j + 1)
                |-> s[j + k - 1] % 256]
    BY GramsAre
<1> QED  BY <1>1, Zenon DEF GramLength

GramOf(s, i, m) == Grams(s)[i] = [k \in 1..m |-> s[i + k - 1] % 256]

LEMMA GramOfIs ==
    ASSUME NEW s \in Text, NEW i \in 1..NumberOfGrams(s), NEW m,
           m = GramLength(NumberOfGrams(s), Len(s), i)
    PROVE  GramOf(s, i, m)
BY GramIs DEF GramOf

\* No text is more than 100 % like another one.
LEMMA AtMostItself ==
    ASSUME NEW s \in Text, NEW t \in Text
    PROVE  Compare(s, t) <= 100
<1> DEFINE mine == Grams(s)  theirs == Grams(t)
           c == Cardinality(Found(mine, theirs)[Len(theirs)])  n == Len(mine)
<1>1. mine \in Seq(Text) /\ theirs \in Seq(Text)
    BY GramsAre
<1>2. CASE mine = <<>>
    BY <1>2, CompareIs
<1>3. CASE mine # <<>>
    <2>1. Compare(s, t) = (c * 100) \div n
        BY <1>3, CompareIs
    <2>2. c \in 0..n
        <3> HIDE DEF mine, theirs
        <3> QED  BY <1>1, FoundBounds
    <2>3. n \in Nat /\ n # 0
        <3> HIDE DEF mine
        <3> QED  BY <1>1, <1>3
    <2> HIDE DEF c, n
    <2>4. (c * 100) \div n <= 100
        <3> DEFINE x == c * 100
        <3>1. x \in Nat /\ x <= 100 * n
            BY <2>2, <2>3
        <3> HIDE DEF x
        <3>2. x \div n <= 100
            BY <2>3, <3>1
        <3> QED  BY <3>2 DEF x
    <2> QED  BY <2>1, <2>4
<1> QED  BY <1>2, <1>3

\* One letter is in three n-grams at most, so that of four or more one stays.
LEMMA OneLetterWrong ==
    ASSUME NEW s \in Text, NEW t \in Text, Len(s) = Len(t), Len(s) >= 6,
           NEW p \in 1..Len(s), \A i \in 1..Len(s) : i # p => s[i] = t[i]
    PROVE  Compare(s, t) >= 25
<1> DEFINE mine == Grams(s)  theirs == Grams(t)  l == Len(s)  n == l - 2
           q == IF p <= n THEN p ELSE n
           E == Equal(mine, theirs, n)  F == Found(mine, theirs)[Len(theirs)]
<1>1. l \in Nat /\ l >= 6 /\ n \in Nat /\ n >= 4 /\ q \in 1..n
    BY DEF Text
<1>2. NumberOfGrams(s) = n /\ NumberOfGrams(t) = n
    BY <1>1 DEF NumberOfGrams
<1>3. /\ mine \in Seq(Text) /\ theirs \in Seq(Text)
      /\ Len(mine) = n /\ Len(theirs) = n
    BY <1>2, GramsAre
<1>4. ASSUME NEW i \in 1..n, i \notin (q - 2)..q
      PROVE  mine[i] = theirs[i]
    <2> DEFINE m == GramLength(n, l, i)
    <2>1. /\ mine[i] = [k \in 1..m |-> s[i + k - 1] % 256]
          /\ theirs[i] = [k \in 1..m |-> t[i + k - 1] % 256]
        <3>1. n = NumberOfGrams(s) /\ n = NumberOfGrams(t) /\ l = Len(s) /\ l = Len(t)
            BY <1>2
        <3>2. /\ i \in 1..NumberOfGrams(s) /\ m = GramLength(NumberOfGrams(s), Len(s), i)
              /\ i \in 1..NumberOfGrams(t) /\ m = GramLength(NumberOfGrams(t), Len(t), i)
            BY <3>1
        <3> HIDE DEF n, l, m
        <3>3. GramOf(s, i, m) /\ GramOf(t, i, m)
            BY <3>2, GramOfIs
        <3> QED  BY <3>3 DEF GramOf, mine, theirs
    <2>2. ASSUME NEW k \in 1..m PROVE s[i + k - 1] = t[i + k - 1]
        <3>1. i + k - 1 \in 1..l /\ i + k - 1 # p
            BY <1>1, <1>4 DEF GramLength
        <3> QED  BY <3>1
    <2> HIDE DEF m, mine, theirs
    <2> QED  BY <2>1, <2>2
<1> HIDE DEF mine, theirs, l, n, q
<1>5. (1..n) \ ((q - 2)..q) \subseteq E
    BY <1>3, <1>4 DEF Equal
<1>6. Cardinality((1..n) \ ((q - 2)..q)) >= n - 3
    <2> DEFINE A == 1..n  B == (q - 2)..q
    <2>1. IsFiniteSet(A) /\ Cardinality(A) = n
        <3>1. 1 \in Int /\ n \in Int /\ ~(1 > n) /\ n - 1 + 1 = n
            BY <1>1
        <3> QED  BY <3>1, FS_Interval
    <2>2. IsFiniteSet(B) /\ Cardinality(B) = 3
        <3>1. q - 2 \in Int /\ q \in Int /\ q - (q - 2) + 1 = 3 /\ ~(q - 2 > q)
            BY <1>1
        <3> QED  BY <3>1, FS_Interval
    <2> HIDE DEF A, B
    <2>3. Cardinality(A \cap B) <= 3 /\ IsFiniteSet(A \cap B)
        <3> A \cap B \in SUBSET B
            OBVIOUS
        <3> QED  BY <2>2, FS_Subset
    <2>4. Cardinality(A \cap B) \in Nat
        BY <2>3, FS_CardinalityType
    <2>5. Cardinality(A \ B) = Cardinality(A) - Cardinality(A \cap B)
        BY <2>1, FS_Difference
    <2>6. Cardinality(A \ B) >= n - 3
        BY <1>1, <2>1, <2>3, <2>4, <2>5
    <2> QED  BY <2>6 DEF A, B
<1>7. IsFiniteSet(E) /\ Cardinality(E) >= n - 3 /\ Cardinality(E) \in Nat
    <2>1. IsFiniteSet(1..n)
        BY <1>1, FS_Interval
    <2>2. E \in SUBSET (1..n)
        BY DEF Equal
    <2>3. IsFiniteSet(E)
        BY <2>1, <2>2, FS_Subset
    <2> DEFINE D == (1..n) \ ((q - 2)..q)
    <2>4. Cardinality(D) <= Cardinality(E) /\ IsFiniteSet(D)
        <3> D \in SUBSET E
            BY <1>5
        <3> HIDE DEF D, E
        <3> QED  BY <2>3, FS_Subset
    <2>5. Cardinality(D) \in Nat /\ Cardinality(E) \in Nat
        BY <2>3, <2>4, FS_CardinalityType
    <2>6. Cardinality(D) >= n - 3
        BY <1>6
    <2> HIDE DEF D, E
    <2> QED  BY <1>1, <2>3, <2>4, <2>5, <2>6
<1>8. Cardinality(E) <= Cardinality(F) /\ Cardinality(F) \in 0..n
    BY <1>3, FoundBounds
<1>9. Compare(s, t) = (Cardinality(F) * 100) \div n
    <2>1. Grams(s) # <<>> /\ Len(Grams(s)) = n
        BY <1>1, <1>3 DEF mine
    <2> QED  BY <2>1, CompareIs DEF mine, theirs
<1> HIDE DEF E, F
<1> DEFINE x == Cardinality(F) * 100
<1>10. x \in Nat /\ x >= 25 * n
    BY <1>1, <1>7, <1>8
<1> HIDE DEF x
<1>11. x \div n >= 25
    BY <1>1, <1>10
<1> QED  BY <1>9, <1>11 DEF x

\* Texts that differ in one place at most.
LEMMA OneTypoIs ==
    ASSUME NEW s \in Text, NEW t \in Text, OneTypo(s, t), Len(s) > 0
    PROVE  \E p \in 1..Len(s) : \A i \in 1..Len(s) : i # p => s[i] = t[i]
<1> DEFINE S == { i \in DOMAIN s : s[i] # t[i] }
<1>1. DOMAIN s = 1..Len(s) /\ Len(s) \in Nat
    BY DEF Text
<1>2. Cardinality(S) <= 1
    BY DEF OneTypo
<1>3. IsFiniteSet(S)
    <2>1. IsFiniteSet(1..Len(s))
        BY <1>1, FS_Interval
    <2>2. S \in SUBSET (1..Len(s))
        BY <1>1
    <2> HIDE DEF S
    <2> QED  BY <2>1, <2>2, FS_Subset
<1>4. S = {} \/ \E p : S = {p}
    <2> HIDE DEF S
    <2>1. Cardinality(S) \in Nat
        BY <1>3, FS_CardinalityType
    <2>2. Cardinality(S) = 0 \/ Cardinality(S) = 1
        BY <1>2, <2>1
    <2> QED  BY <1>3, <2>2, FS_EmptySet, FS_Singleton
<1>5. CASE S = {}
    <2>1. \A i \in 1..Len(s) : s[i] = t[i]
        BY <1>1, <1>5
    <2>2. 1 \in 1..Len(s)
        BY <1>1
    <2> QED  BY <2>1, <2>2
<1>6. CASE \E p : S = {p}
    <2> PICK p : S = {p}
        BY <1>6
    <2>1. p \in 1..Len(s)
        BY <1>1
    <2>2. \A i \in 1..Len(s) : i # p => s[i] = t[i]
        BY <1>1
    <2> QED  BY <2>1, <2>2
<1> QED  BY <1>4, <1>5, <1>6


\* Normalized texts are texts.
LEMMA NormalizedType ==
    ASSUME NEW ch \in Int
    PROVE  Normalized(ch) \in Text
<1>1. Plain(ch) \in Int
    <2>1. CASE ch \in 192..222
        <3>1. Subst(ch) \in Int
            BY <2>1, SubstCases DEF Blank
        <3> QED  BY <2>1, <3>1 DEF Plain
    <2>2. CASE ch \in 223..255
        <3>1. Subst(ch) \in Int
            BY <2>2, SMT DEF Subst, Blank
        <3> QED  BY <2>2, <3>1 DEF Plain
    <2>3. CASE ch \notin 192..255
        BY <2>3 DEF Plain
    <2> QED  BY <2>1, <2>2, <2>3
<1>2. Lower(Plain(ch)) \in Int
    <2>1. CASE Plain(ch) \in Upper
        BY <2>1, LowerCase
    <2>2. CASE Plain(ch) \notin Upper
        BY <1>1, <2>2 DEF Lower
    <2> QED  BY <2>1, <2>2
<1>3. Normalized(ch) = <<>> \/ Normalized(ch) = <<Lower(Plain(ch))>>
    BY DEF Normalized
<1> DEFINE c == Lower(Plain(ch))
<1> HIDE DEF c
<1>4. Normalized(ch) = <<>> \/ Normalized(ch) = <<c>>
    BY <1>3 DEF c
<1>5. c \in Int
    BY <1>2 DEF c
<1>6. <<>> \in Text /\ <<c>> \in Text
    BY <1>5, OneByte DEF Text
<1> QED  BY <1>4, <1>6

LEMMA NormalizeType ==
    ASSUME NEW s \in Accepted
    PROVE  Normalize(s) \in Text
<1> DEFINE w == FromUtf8(s)  ww == [i \in DOMAIN w |-> Normalized(w[i])]
<1>1. w \in Text
    BY AcceptedText, DecodedType
<1>2. \A i \in DOMAIN w : Normalized(w[i]) \in Text
    <2> TAKE i \in DOMAIN w
    <2>1. w[i] \in Int
        BY <1>1 DEF Text
    <2> HIDE DEF w
    <2> QED  BY <2>1, NormalizedType
<1>3. DOMAIN w = 1..Len(w) /\ Len(w) \in Nat
    BY <1>1 DEF Text
<1> HIDE DEF w
<1>4. ww \in Seq(Text)
    BY <1>2, <1>3
<1>5. ww \in Seq(Seq(Int))
    BY <1>4 DEF Text
<1>6. FlattenSeq(ww) \in Text
    <2> HIDE DEF ww
    <2> QED  BY <1>5, FlattenIs DEF Text
<1> QED  BY <1>6 DEF Normalize, NormalizedChars, w

LEMMA LikeWithOneTypo ==
    ASSUME NEW s \in Accepted, NEW t \in Accepted,
           Len(Normalize(s)) >= 6, OneTypo(Normalize(s), Normalize(t))
    PROVE  CompareNormalized(t, s) >= 25
<1> DEFINE a == Normalize(s)  b == Normalize(t)
<1>1. a \in Text /\ b \in Text
    BY NormalizeType
<1>2. Len(a) >= 6 /\ OneTypo(a, b)
    OBVIOUS
<1>3. CompareNormalized(t, s) = Compare(b, a)
    BY DEF CompareNormalized
<1> HIDE DEF a, b
<1>4. Len(b) = Len(a) /\ Len(a) \in Nat
    BY <1>1, <1>2 DEF OneTypo, Text
<1>5. PICK p \in 1..Len(a) : \A i \in 1..Len(a) : i # p => a[i] = b[i]
    <2>1. Len(a) > 0
        BY <1>2, <1>4
    <2>2. OneTypo(a, b)
        BY <1>2
    <2> QED  BY <1>1, <2>1, <2>2, OneTypoIs
<1>6. Compare(b, a) >= 25
    <2>1. p \in 1..Len(b) /\ \A i \in 1..Len(b) : i # p => b[i] = a[i]
        BY <1>4, <1>5
    <2> QED  BY <1>1, <1>2, <1>4, <2>1, OneLetterWrong
<1> QED  BY <1>3, <1>6

\* The importer does not lose a disc to a typing error (cddbupdater.cpp:394):
\* whatever the texts of two records are, one wrong letter among six or more of
\* artist or title leaves them alike, and no two texts are more than 100 %
\* alike.
THEOREM TyposAreForgiven == Spec => []SimilarTitles
<1>1. TextsInv => SimilarTitles
    <2> DEFINE old == earlier[1].texts
    <2> SUFFICES ASSUME TextsInv, phase = "done", earlier # <<>>
        PROVE  /\ \A s, t \in {rec.title, old.title, rec.artist} :
                        CompareNormalized(s, t) <= 100
               /\ \/ Len(Normalize(rec.title)) >= 6
                        /\ OneTypo(Normalize(rec.title), Normalize(old.title))
                  \/ Len(Normalize(rec.artist)) >= 6
                        /\ OneTypo(Normalize(rec.artist), Normalize(old.artist))
                  => SameTitle(old, rec)
        BY Zenon DEF SimilarTitles
    <2>1. IsRecord(rec) /\ IsRecord(old)
        BY DEF TextsInv, RecordInv
    <2> HIDE DEF old
    <2>2. /\ rec.title \in Accepted /\ old.title \in Accepted
          /\ rec.artist \in Accepted /\ old.artist \in Accepted
        BY <2>1 DEF IsRecord
    <2>3. ASSUME NEW s \in {rec.title, old.title, rec.artist},
                 NEW t \in {rec.title, old.title, rec.artist}
          PROVE  CompareNormalized(s, t) <= 100
        <3>1. s \in Accepted /\ t \in Accepted
            BY <2>2
        <3> QED  BY <3>1, NormalizeType, AtMostItself DEF CompareNormalized
    <2>4. ASSUME Len(Normalize(rec.title)) >= 6,
                 OneTypo(Normalize(rec.title), Normalize(old.title))
          PROVE  SameTitle(old, rec)
        BY <2>2, <2>4, LikeWithOneTypo DEF SameTitle
    <2>5. ASSUME Len(Normalize(rec.artist)) >= 6,
                 OneTypo(Normalize(rec.artist), Normalize(old.artist))
          PROVE  SameTitle(old, rec)
        BY <2>2, <2>5, LikeWithOneTypo DEF SameTitle
    <2> QED  BY <2>3, <2>4, <2>5
<1> QED  BY <1>1, TextsInvariant, PTL

-----------------------------------------------------------------------------
(* What can be seen in the characters of a text and in its bytes.          *)

\* A byte of an accepted text is a character, a part of one that is still to
\* come, or the end of one that is none of ASCII.
Grows(d, b, e) ==
    \/ b < 128 /\ d.left = 0 /\ e.left = 0 /\ e.chars = Append(d.chars, b)
    \/ b >= 128 /\ e.left > 0 /\ e.limit >= 128 /\ e.chars = d.chars
    \/ /\ b >= 128 /\ d.left > 0 /\ e.left = 0
       /\ \E ch \in Nat : ch >= 128 /\ e.chars = Append(d.chars, ch)

LEMMA ByteGrows ==
    ASSUME NEW d \in States, NEW b \in Int, NextByte(d, b).good,
           d.left > 0 => d.limit >= 128
    PROVE  Grows(d, b, NextByte(d, b))
<1> DEFINE e == NextByte(d, b)
<1>1. d.good
    BY NothingAfterRefusal
<1>2. ~Refused(d).good
    BY RefusedType
<1>3. d.left \in 0..3 /\ d.bits \in Nat /\ d.limit \in Nat
    BY StateFields
<1>4. CASE d.left = 0
    <2>1. CASE b < 128
        <3>1. e = AddChar(d, b)
            BY <1>1, <1>4, <2>1, NextFirstByte
        <3>2. e.left = 0 /\ e.chars = Append(d.chars, b)
            BY <3>1, WithChar
        <3> HIDE DEF e
        <3>3. Grows(d, b, e)
            BY <1>4, <2>1, <3>2 DEF Grows
        <3> QED  BY <3>3 DEF e
    <2>2. ASSUME NEW n \in 1..3, NEW y \in Nat, NEW limit \in Nat, limit >= 128,
                 e = FirstByte(d, n, y, limit), b >= 128
          PROVE  Grows(d, b, e)
        <3> HIDE DEF e
        <3>1. /\ FirstByte(d, n, y, limit).left = n /\ FirstByte(d, n, y, limit).limit = limit
              /\ FirstByte(d, n, y, limit).chars = d.chars
            BY DEF FirstByte
        <3>2. e.left = n /\ e.limit = limit /\ e.chars = d.chars
            BY <2>2, <3>1
        <3> QED  BY <2>2, <3>2 DEF Grows
    <2>3. CASE b \in 192..223
        <3>1. e = FirstByte(d, 1, b - 192, 128)
            BY <1>1, <1>4, <2>3, NextFirstByte
        <3>2. b - 192 \in Nat /\ 1 \in 1..3 /\ 128 \in Nat /\ 128 >= 128 /\ b >= 128
            BY <2>3
        <3> HIDE DEF e
        <3>3. Grows(d, b, e)
            BY <2>2, <3>1, <3>2
        <3> QED  BY <3>3 DEF e
    <2>4. CASE b \in 224..239
        <3>1. e = FirstByte(d, 2, b - 224, 2048)
            BY <1>1, <1>4, <2>4, NextFirstByte
        <3>2. b - 224 \in Nat /\ 2 \in 1..3 /\ 2048 \in Nat /\ 2048 >= 128 /\ b >= 128
            BY <2>4
        <3> HIDE DEF e
        <3>3. Grows(d, b, e)
            BY <2>2, <3>1, <3>2
        <3> QED  BY <3>3 DEF e
    <2>5. CASE b \in 240..247
        <3>1. e = FirstByte(d, 3, b - 240, 65536)
            BY <1>1, <1>4, <2>5, NextFirstByte, SMT
        <3>2. b - 240 \in Nat /\ 3 \in 1..3 /\ 65536 \in Nat /\ 65536 >= 128 /\ b >= 128
            BY <2>5, SMT
        <3> HIDE DEF e
        <3>3. Grows(d, b, e)
            BY <2>2, <3>1, <3>2, SMT
        <3> QED  BY <3>3 DEF e
    <2>6. CASE b >= 128 /\ b \notin 192..247
        <3>1. e = Refused(d)
            BY <1>1, <1>4, <2>6, NextFirstByte
        <3> QED  BY <1>2, <3>1
    <2> QED  BY <2>1, <2>3, <2>4, <2>5, <2>6, SMT
<1>5. CASE d.left # 0
    <2> DEFINE x == d.bits * 64 + (b - 128)
    <2>1. Continuation(b) /\ e = LaterByte(d, x)
        BY <1>1, <1>2, <1>5, NextLaterByte
    <2>2. d.left > 0 /\ d.limit >= 128 /\ b >= 128
        BY <1>3, <1>5, <2>1 DEF Continuation
    <2>3. x \in Nat
        BY <1>3, <2>1 DEF Continuation
    <2> HIDE DEF x
    <2>4. CASE d.left > 1
        <3>1. e.left = d.left - 1 /\ e.limit = d.limit /\ e.chars = d.chars
            <4> HIDE DEF e
            <4> QED  BY <2>1, <2>3, <2>4, NotTheLast
        <3> HIDE DEF e
        <3>2. Grows(d, b, e)
            BY <1>3, <2>2, <2>4, <3>1 DEF Grows
        <3> QED  BY <3>2 DEF e
    <2>5. CASE d.left = 1
        <3>1. e.good
            OBVIOUS
        <3> HIDE DEF e
        <3>2. x >= d.limit /\ e = AddChar(d, x)
            BY <2>1, <2>3, <2>5, <3>1, TheLast
        <3>3. e.left = 0 /\ e.chars = Append(d.chars, x)
            <4>1. x \in Int
                BY <2>3
            <4>2. AddChar(d, x).left = 0 /\ AddChar(d, x).chars = Append(d.chars, x)
                BY <4>1, WithChar
            <4> QED  BY <3>2, <4>2
        <3>4. x >= 128
            BY <1>3, <2>2, <2>3, <3>2
        <3>5. Grows(d, b, e)
            BY <2>2, <2>3, <3>3, <3>4 DEF Grows
        <3> QED  BY <3>5 DEF e
    <2> QED  BY <1>3, <2>2, <2>4, <2>5
<1> QED  BY <1>3, <1>4, <1>5

\* A text that ends with a blank, one that ends with a blank and a slash, one
\* with " / " in it, and one that begins with a space.
Blanked(s) == Len(s) >= 1 /\ s[Len(s)] = 32
Slashed(s) == Len(s) >= 2 /\ s[Len(s) - 1] = 32 /\ s[Len(s)] = 47
HasSlash(s) == \E p \in 1..(Len(s) - 2) : s[p] = 32 /\ s[p + 1] = 47 /\ s[p + 2] = 32
Spaced(s) == Len(s) >= 1 /\ s[1] \in Spaces

LEMMA OneLonger ==
    ASSUME NEW s \in Text, NEW b \in Int
    PROVE  /\ Append(s, b) \in Text /\ Append(s, b) # <<>>
           /\ Blanked(Append(s, b)) <=> b = 32
           /\ Slashed(Append(s, b)) <=> (Blanked(s) /\ b = 47)
           /\ HasSlash(Append(s, b)) <=> (HasSlash(s) \/ (Slashed(s) /\ b = 32))
           /\ Spaced(Append(s, b)) <=> (IF s = <<>> THEN b \in Spaces ELSE Spaced(s))
<1> DEFINE t == Append(s, b)  n == Len(s)
<1>1. /\ n \in Nat /\ t \in Text /\ Len(t) = n + 1 /\ t[n + 1] = b
      /\ (s = <<>> <=> n = 0)
    BY DEF Text
<1>2. \A i \in 1..n : t[i] = s[i]
    BY DEF Text
<1> HIDE DEF t
<1>3. t # <<>>
    BY <1>1
<1>4. Blanked(t) <=> b = 32
    BY <1>1 DEF Blanked
<1>5. Slashed(t) <=> (Blanked(s) /\ b = 47)
    BY <1>1, <1>2 DEF Blanked, Slashed
<1>6. HasSlash(t) <=> (HasSlash(s) \/ (Slashed(s) /\ b = 32))
    <2>1. ASSUME HasSlash(t) PROVE HasSlash(s) \/ (Slashed(s) /\ b = 32)
        <3>1. PICK p \in 1..(n - 1) : t[p] = 32 /\ t[p + 1] = 47 /\ t[p + 2] = 32
            <4>1. Len(t) - 2 = n - 1
                BY <1>1
            <4> QED  BY <2>1, <4>1 DEF HasSlash
        <3>2. CASE p = n - 1
            BY <1>1, <1>2, <3>1, <3>2 DEF Slashed
        <3>3. CASE p # n - 1
            <4>1. p \in 1..(n - 2) /\ p \in 1..n /\ p + 1 \in 1..n /\ p + 2 \in 1..n
                BY <1>1, <3>3
            <4>2. s[p] = 32 /\ s[p + 1] = 47 /\ s[p + 2] = 32
                BY <1>2, <3>1, <4>1
            <4> QED  BY <4>1, <4>2 DEF HasSlash
        <3> QED  BY <3>2, <3>3
    <2>2. ASSUME HasSlash(s) PROVE HasSlash(t)
        <3>1. PICK p \in 1..(n - 2) : s[p] = 32 /\ s[p + 1] = 47 /\ s[p + 2] = 32
            BY <2>2 DEF HasSlash
        <3>2. /\ p \in 1..(Len(t) - 2)
              /\ p \in 1..n /\ p + 1 \in 1..n /\ p + 2 \in 1..n
            BY <1>1
        <3>3. t[p] = 32 /\ t[p + 1] = 47 /\ t[p + 2] = 32
            BY <1>2, <3>1, <3>2
        <3> QED  BY <3>2, <3>3 DEF HasSlash
    <2>3. ASSUME Slashed(s), b = 32 PROVE HasSlash(t)
        <3>1. n >= 2 /\ s[n - 1] = 32 /\ s[n] = 47
            BY <2>3 DEF Slashed
        <3> DEFINE p == n - 1
        <3>2. /\ p \in 1..(Len(t) - 2) /\ p \in 1..n /\ p + 1 = n /\ p + 2 = n + 1
              /\ n \in 1..n
            BY <1>1, <3>1
        <3>3. t[p] = 32 /\ t[p + 1] = 47 /\ t[p + 2] = 32
            BY <1>1, <1>2, <2>3, <3>1, <3>2
        <3> HIDE DEF p
        <3> QED  BY <3>2, <3>3 DEF HasSlash
    <2> QED  BY <2>1, <2>2, <2>3
<1>7. Spaced(t) <=> (IF s = <<>> THEN b \in Spaces ELSE Spaced(s))
    <2>1. n > 0 => t[1] = s[1]
        BY <1>1, <1>2
    <2> QED  BY <1>1, <2>1 DEF Spaced
<1> QED  BY <1>1, <1>3, <1>4, <1>5, <1>6, <1>7 DEF t

\* The characters w of a text t, up to a character of which bytes are missing.
FoundIn(w, t) == \A i \in 1..Len(w) : w[i] >= 128 \/ \E j \in 1..Len(t) : w[i] = t[j]
Mirrors(w, t, left) ==
    /\ FoundIn(w, t)
    /\ left = 0 => /\ Blanked(w) <=> Blanked(t)
                   /\ Slashed(w) <=> Slashed(t)
                   /\ w = <<>> <=> t = <<>>
    /\ left > 0 => ~Blanked(t) /\ ~Slashed(t) /\ t # <<>>
    /\ HasSlash(w) <=> HasSlash(t)
    /\ Spaced(w) <=> Spaced(t)

LEMMA SameEnds ==
    ASSUME NEW w \in Text, NEW t \in Text, FoundIn(w, t), NEW ch \in Int, NEW b \in Int
    PROVE  /\ FoundIn(w, Append(t, b))
           /\ ch >= 128 \/ ch = b => FoundIn(Append(w, ch), Append(t, b))
<1> DEFINE u == Append(t, b)  v == Append(w, ch)
<1>1. /\ Len(t) \in Nat /\ Len(u) = Len(t) + 1 /\ u[Len(t) + 1] = b
      /\ \A j \in 1..Len(t) : u[j] = t[j]
    BY DEF Text
<1>2. /\ Len(w) \in Nat /\ Len(v) = Len(w) + 1 /\ v[Len(w) + 1] = ch
      /\ \A i \in 1..Len(w) : v[i] = w[i]
    BY DEF Text
<1> HIDE DEF u, v
<1>3. ASSUME NEW i \in 1..Len(w)
      PROVE  w[i] >= 128 \/ \E j \in 1..Len(u) : w[i] = u[j]
    <2>1. CASE w[i] >= 128
        BY <2>1
    <2>2. ASSUME NEW j \in 1..Len(t), w[i] = t[j]
          PROVE  \E k \in 1..Len(u) : w[i] = u[k]
        <3>1. j \in 1..Len(u) /\ w[i] = u[j]
            BY <1>1, <2>2
        <3> QED  BY <3>1
    <2> QED  BY <2>1, <2>2 DEF FoundIn
<1>4. ASSUME ch >= 128 \/ ch = b, NEW i \in 1..Len(v)
      PROVE  v[i] >= 128 \/ \E j \in 1..Len(u) : v[i] = u[j]
    <2>1. CASE i \in 1..Len(w)
        <3>1. v[i] = w[i]
            BY <1>2, <2>1
        <3>2. w[i] >= 128 \/ \E j \in 1..Len(u) : w[i] = u[j]
            BY <1>3, <2>1
        <3> QED  BY <3>1, <3>2
    <2>2. CASE i = Len(w) + 1
        <3>1. v[i] = ch /\ Len(t) + 1 \in 1..Len(u)
            BY <1>1, <1>2, <2>2
        <3> QED  BY <1>1, <1>4, <3>1
    <2> QED  BY <1>2, <2>1, <2>2
<1> QED  BY <1>3, <1>4 DEF u, v, FoundIn

Longer(s, b, t) ==
    /\ t # <<>>
    /\ Blanked(t) <=> b = 32
    /\ Slashed(t) <=> (Blanked(s) /\ b = 47)
    /\ HasSlash(t) <=> (HasSlash(s) \/ (Slashed(s) /\ b = 32))
    /\ Spaced(t) <=> (IF s = <<>> THEN b \in Spaces ELSE Spaced(s))

LEMMA LongerIs ==
    ASSUME NEW s \in Text, NEW b \in Int, NEW t, t = Append(s, b)
    PROVE  Longer(s, b, t)
BY OneLonger DEF Longer

LEMMA MirrorsGrow ==
    ASSUME NEW w \in Text, NEW t \in Text, NEW left \in 0..3, Mirrors(w, t, left),
           NEW b \in Int, NEW d, d.chars = w, d.left = left,
           NEW e, Grows(d, b, e), e.left \in 0..3
    PROVE  Mirrors(e.chars, Append(t, b), e.left)
<1> DEFINE u == Append(t, b)
<1>1. \A x \in Spaces : x < 128
    BY DEF Spaces
<1>2. /\ u # <<>>
      /\ Blanked(u) <=> b = 32
      /\ Slashed(u) <=> (Blanked(t) /\ b = 47)
      /\ HasSlash(u) <=> (HasSlash(t) \/ (Slashed(t) /\ b = 32))
      /\ Spaced(u) <=> (IF t = <<>> THEN b \in Spaces ELSE Spaced(t))
    BY OneLonger
<1>3. ASSUME NEW ch \in Int, NEW v, v = Append(w, ch)
      PROVE  /\ v # <<>>
             /\ Blanked(v) <=> ch = 32
             /\ Slashed(v) <=> (Blanked(w) /\ ch = 47)
             /\ HasSlash(v) <=> (HasSlash(w) \/ (Slashed(w) /\ ch = 32))
             /\ Spaced(v) <=> (IF w = <<>> THEN ch \in Spaces ELSE Spaced(w))
    <2> HIDE DEF u
    <2>1. Longer(w, ch, v)
        BY <1>3, LongerIs
    <2> QED  BY <2>1 DEF Longer
<1>4. ~Spaced(<<>>)
    BY DEF Spaced
<1>5. CASE b < 128 /\ left = 0 /\ e.left = 0 /\ e.chars = Append(w, b)
    <2> DEFINE v == Append(w, b)
    <2>1. /\ v # <<>>
          /\ Blanked(v) <=> b = 32
          /\ Slashed(v) <=> (Blanked(w) /\ b = 47)
          /\ HasSlash(v) <=> (HasSlash(w) \/ (Slashed(w) /\ b = 32))
          /\ Spaced(v) <=> (IF w = <<>> THEN b \in Spaces ELSE Spaced(w))
        BY <1>3
    <2>2. FoundIn(v, u)
        BY SameEnds DEF Mirrors
    <2> HIDE DEF u, v
    <2>3. e.chars = v
        BY <1>5 DEF v
    <2>4. Mirrors(v, u, 0)
        BY <1>2, <1>5, <2>1, <2>2 DEF Mirrors
    <2> QED  BY <1>5, <2>3, <2>4 DEF u
<1>6. CASE b >= 128 /\ e.left > 0 /\ e.chars = w
    <2>1. FoundIn(w, u)
        BY SameEnds DEF Mirrors
    <2>2. b # 32 /\ b # 47 /\ b \notin Spaces
        BY <1>1, <1>6
    <2> HIDE DEF u
    <2>3. Mirrors(w, u, e.left)
        BY <1>2, <1>4, <1>6, <2>1, <2>2 DEF Mirrors
    <2> QED  BY <1>6, <2>3 DEF u
<1>7. ASSUME b >= 128, left > 0, e.left = 0,
             NEW ch \in Nat, ch >= 128, e.chars = Append(w, ch)
      PROVE  Mirrors(e.chars, u, e.left)
    <2> DEFINE v == Append(w, ch)
    <2>1. /\ v # <<>>
          /\ Blanked(v) <=> ch = 32
          /\ Slashed(v) <=> (Blanked(w) /\ ch = 47)
          /\ HasSlash(v) <=> (HasSlash(w) \/ (Slashed(w) /\ ch = 32))
          /\ Spaced(v) <=> (IF w = <<>> THEN ch \in Spaces ELSE Spaced(w))
        <3>1. ch \in Int
            BY <1>7
        <3> QED  BY <1>3, <3>1
    <2>2. FoundIn(v, u)
        <3>1. ch \in Int
            BY <1>7
        <3>2. FoundIn(w, t)
            BY DEF Mirrors
        <3>3. ch >= 128 \/ ch = b
            BY <1>7
        <3> QED  BY <3>1, <3>2, <3>3, SameEnds
    <2>3. b # 32 /\ b # 47 /\ b \notin Spaces /\ ch # 32 /\ ch # 47 /\ ch \notin Spaces
        BY <1>1, <1>7
    <2> HIDE DEF u, v
    <2>4. e.chars = v
        BY <1>7 DEF v
    <2>5. Mirrors(v, u, 0)
        BY <1>2, <1>4, <1>7, <2>1, <2>2, <2>3 DEF Mirrors
    <2> QED  BY <1>7, <2>4, <2>5
<1> QED  BY <1>5, <1>6, <1>7 DEF Grows

\* An accepted text, byte by byte.
LEMMA TextMirrored ==
    ASSUME NEW t \in Text, Decoded(t).good
    PROVE  Mirrors(FromUtf8(t), t, Decoded(t).left)
<1> DEFINE n == Len(t)  pre(i) == SubSeq(t, 1, i)  d(i) == Decoded(pre(i))
           T == {i \in 0..n : /\ Mirrors(d(i).chars, pre(i), d(i).left)
                              /\ d(i).left > 0 => d(i).limit >= 128}
<1>1. n \in Nat
    BY DEF Text
<1>2. \A i \in 0..n : pre(i) \in Text /\ d(i).good
    BY PrefixAccepted
<1>3. pre(0) = <<>> /\ pre(n) = t
    BY WholePrefix DEF Text
<1>4. \A i \in 1..n : t[i] \in Int /\ pre(i) = Append(pre(i - 1), t[i])
    BY PrefixGrows DEF Text
<1>5. \A i \in 0..n : d(i) \in States
    BY <1>2, DecodedType
<1>6. \A i \in 1..n : d(i) = NextByte(d(i - 1), t[i])
    <2> TAKE i \in 1..n
    <2> DEFINE p == pre(i - 1)  b == t[i]
    <2>1. p \in Text /\ b \in Int /\ pre(i) = Append(p, b)
        <3>1. i - 1 \in 0..n
            BY <1>1
        <3> QED  BY <1>2, <1>4, <3>1
    <2> HIDE DEF p, b
    <2>2. Decoded(pre(i)) = NextByte(Decoded(p), b)
        <3> HIDE DEF pre
        <3> QED  BY <2>1, DecodedAppend
    <2> QED  BY <2>2 DEF p, b
<1>7. 0 \in T
    <2>1. d(0) = Fresh
        BY <1>3, DecodedEmpty
    <2>2. d(0).left = 0 /\ d(0).chars = <<>>
        BY <2>1 DEF Fresh
    <2>3. Mirrors(<<>>, <<>>, 0)
        <3> DEFINE w == <<>>
        <3>1. Len(w) = 0
            OBVIOUS
        <3> HIDE DEF w
        <3>2. Mirrors(w, w, 0)
            BY <3>1 DEF Mirrors, FoundIn
        <3> QED  BY <3>2 DEF w
    <2> HIDE DEF d, pre
    <2> QED  BY <1>1, <1>3, <2>2, <2>3
<1>8. ASSUME NEW i \in 1..n, i - 1 \in T PROVE i \in T
    <2> DEFINE D == d(i - 1)  E == d(i)  p == pre(i - 1)  b == t[i]
    <2>1. /\ D \in States /\ E \in States /\ E.good /\ E = NextByte(D, b)
          /\ p \in Text /\ b \in Int /\ pre(i) = Append(p, b)
        <3>1. i - 1 \in 0..n /\ i \in 0..n
            BY <1>1
        <3> HIDE DEF d, pre
        <3> QED  BY <1>2, <1>4, <1>5, <1>6, <3>1
    <2>2. Mirrors(D.chars, p, D.left) /\ (D.left > 0 => D.limit >= 128)
        BY <1>8
    <2> HIDE DEF D, E, p, b, d, pre
    <2>3. Grows(D, b, E)
        BY <2>1, <2>2, ByteGrows
    <2>4. D.left \in 0..3 /\ D.chars \in Text /\ E.left \in 0..3
        BY <2>1, StateFields DEF Text
    <2>5. Mirrors(E.chars, Append(p, b), E.left)
        BY <2>1, <2>2, <2>3, <2>4, MirrorsGrow
    <2>6. E.left > 0 => E.limit >= 128
        BY <2>3 DEF Grows
    <2>7. i \in 0..n
        BY <1>1
    <2>8. Mirrors(d(i).chars, pre(i), d(i).left) /\ (d(i).left > 0 => d(i).limit >= 128)
        BY <2>1, <2>5, <2>6 DEF E
    <2> QED  BY <2>7, <2>8
<1>9. n \in T
    <2>1. \A i \in 0..n : i \in T
        <3> HIDE DEF T
        <3> QED  BY <1>1, <1>7, <1>8, InductionUpTo
    <2> QED  BY <1>1, <2>1
<1> QED  BY <1>3, <1>9 DEF FromUtf8

\* Characters that are written are read back, those that Unicode does not have
\* as a question mark.
WrittenAs(w, v) ==
    Len(v) = Len(w) /\ \A i \in 1..Len(w) : v[i] = IF IsUnicode(w[i]) THEN w[i] ELSE 63

LEMMA CharsAsWritten ==
    ASSUME NEW w \in Text
    PROVE  WrittenAs(w, FromUtf8(WideToUtf8(w)))
<1> DEFINE n == Len(w)  pre(i) == SubSeq(w, 1, i)  z(i) == WideToUtf8(pre(i))
           T == {i \in 0..n : WrittenAs(pre(i), Decoded(z(i)).chars)}
<1>1. n \in Nat
    BY DEF Text
<1>2. \A i \in 0..n : pre(i) \in Text /\ Len(pre(i)) = i
    BY DEF Text
<1>3. 0 \in T
    <2>1. pre(0) = <<>>
        BY WholePrefix DEF Text
    <2>2. Decoded(z(0)) = Fresh
        BY <2>1, WideEmpty, DecodedEmpty
    <2>3. Decoded(z(0)).chars = <<>>
        BY <2>2 DEF Fresh
    <2> HIDE DEF pre, z
    <2>4. WrittenAs(pre(0), Decoded(z(0)).chars)
        <3> DEFINE u == <<>>
        <3>1. Len(u) = 0 /\ pre(0) = u /\ Decoded(z(0)).chars = u
            BY <2>1, <2>3
        <3> HIDE DEF u
        <3> QED  BY <3>1 DEF WrittenAs
    <2> QED  BY <1>1, <2>4
<1>4. ASSUME NEW i \in 1..n, i - 1 \in T PROVE i \in T
    <2> DEFINE p == pre(i - 1)  y == z(i - 1)  ch == IF IsUnicode(w[i]) THEN w[i] ELSE 63
    <2>1. p \in Text /\ pre(i) = Append(p, w[i]) /\ w[i] \in Int /\ Len(p) = i - 1
        BY PrefixGrows DEF Text
    <2> HIDE DEF p
    <2>2. y = WideToUtf8(p)
        BY DEF p
    <2> HIDE DEF y
    <2>3. y \in Text /\ Decoded(y).good /\ Decoded(y).left = 0
        BY <2>1, <2>2, WrittenIsRead
    <2>4. WrittenAs(p, Decoded(y).chars)
        BY <1>4 DEF p, y
    <2>5. z(i) = y \o ToUtf8(w[i])
        BY <2>1, <2>2, WideAppend
    <2>6. Decoded(z(i)) = AddChar(Decoded(y), ch)
        <3>1. Decoded(y \o ToUtf8(w[i])) = AddChar(Decoded(y), ch)
            BY <2>1, <2>3, CharIsWritten
        <3> QED  BY <2>5, <3>1
    <2>7. Decoded(y) \in States /\ ch \in Int
        BY <2>1, <2>3, DecodedType
    <2>8. Decoded(z(i)).chars = Append(Decoded(y).chars, ch)
        <3> HIDE DEF ch, z
        <3> QED  BY <2>6, <2>7, WithChar
    <2> DEFINE c == Decoded(y).chars  x == w[i]
    <2>9. c \in Text
        BY <2>7, StateFields DEF Text
    <2> HIDE DEF c
    <2>10. WrittenAs(Append(p, x), Append(c, ch))
        <3>1. /\ Len(c) = Len(p) /\ Len(p) \in Nat
              /\ \A k \in 1..Len(p) : c[k] = IF IsUnicode(p[k]) THEN p[k] ELSE 63
            BY <2>1, <2>4 DEF WrittenAs, c, Text
        <3> DEFINE px == Append(p, x)  cx == Append(c, ch)
        <3> HIDE DEF x, ch
        <3>2. /\ Len(px) = Len(p) + 1 /\ px[Len(p) + 1] = x
              /\ \A k \in 1..Len(p) : px[k] = p[k]
            BY <2>1 DEF Text
        <3>3. /\ Len(cx) = Len(p) + 1 /\ cx[Len(p) + 1] = ch
              /\ \A k \in 1..Len(p) : cx[k] = c[k]
            BY <2>9, <3>1 DEF Text
        <3>4. ch = IF IsUnicode(x) THEN x ELSE 63
            BY DEF ch, x
        <3> HIDE DEF px, cx
        <3>5. ASSUME NEW k \in 1..Len(px)
              PROVE  cx[k] = IF IsUnicode(px[k]) THEN px[k] ELSE 63
            <4>1. CASE k = Len(p) + 1
                BY <3>2, <3>3, <3>4, <4>1
            <4>2. CASE k # Len(p) + 1
                <5>1. k \in 1..Len(p)
                    BY <3>1, <3>2, <4>2
                <5> QED  BY <3>1, <3>2, <3>3, <5>1
            <4> QED  BY <4>1, <4>2
        <3>6. WrittenAs(px, cx)
            BY <3>2, <3>3, <3>5 DEF WrittenAs
        <3> QED  BY <3>6 DEF px, cx
    <2>11. i \in 0..n
        BY <1>1
    <2> HIDE DEF ch, pre, z, n
    <2> QED  BY <2>1, <2>8, <2>10, <2>11 DEF c
<1>5. n \in T
    <2>1. \A i \in 0..n : i \in T
        <3> HIDE DEF T
        <3> QED  BY <1>1, <1>3, <1>4, InductionUpTo
    <2> QED  BY <1>1, <2>1
<1>6. pre(n) = w
    BY WholePrefix DEF Text
<1> QED  BY <1>5, <1>6 DEF FromUtf8

\* What is written of characters begins with a space, and has a slash in it,
\* only where they do.
LEMMA WrittenLooksTheSame ==
    ASSUME NEW w \in Text, NEW z, z = WideToUtf8(w)
    PROVE  /\ z \in Text
           /\ HasSlash(z) => HasSlash(w)
           /\ Spaced(z) => Spaced(w)
           /\ z = <<>> <=> w = <<>>
<1> DEFINE v == FromUtf8(z)
<1>1. z \in Text /\ Decoded(z).good /\ Decoded(z).left = 0
    BY WrittenIsRead
<1>2. WrittenAs(w, v)
    BY CharsAsWritten
<1>3. Mirrors(v, z, 0)
    BY <1>1, TextMirrored
<1>4. v \in Text
    BY <1>1, DecodedType
<1> HIDE DEF v
<1>5. Len(v) = Len(w) /\ Len(w) \in Nat /\ (v = <<>> <=> Len(v) = 0) /\ (w = <<>> <=> Len(w) = 0)
    BY <1>2, <1>4 DEF WrittenAs, Text
<1>6. \A i \in 1..Len(w) : v[i] = w[i] \/ v[i] = 63
    BY <1>2 DEF WrittenAs
<1>7. ASSUME HasSlash(v) PROVE HasSlash(w)
    <2>1. PICK p \in 1..(Len(w) - 2) : v[p] = 32 /\ v[p + 1] = 47 /\ v[p + 2] = 32
        BY <1>5, <1>7 DEF HasSlash
    <2>2. p \in 1..Len(w) /\ p + 1 \in 1..Len(w) /\ p + 2 \in 1..Len(w)
        BY <1>5
    <2>3. w[p] = 32 /\ w[p + 1] = 47 /\ w[p + 2] = 32
        BY <1>6, <2>1, <2>2
    <2> QED  BY <2>3 DEF HasSlash
<1>8. ASSUME Spaced(v) PROVE Spaced(w)
    <2>1. 63 \notin Spaces
        BY DEF Spaces
    <2>2. Len(w) >= 1 /\ v[1] \in Spaces /\ 1 \in 1..Len(w)
        BY <1>5, <1>8 DEF Spaced
    <2> QED  BY <1>6, <2>1, <2>2 DEF Spaced
<1> QED  BY <1>1, <1>3, <1>5, <1>7, <1>8 DEF Mirrors

\* Title case, too.
Firm(s) == ~HasSlash(s) /\ ~Spaced(s)

LEMMA TitleCaseStaysFirm ==
    ASSUME NEW t \in Text, Decoded(t).good, Firm(t)
    PROVE  Firm(ConvertToTitlecase(t))
<1> DEFINE w == FromUtf8(t)  v == Titled(w)  z == WideToUtf8(v)
<1>1. Mirrors(w, t, Decoded(t).left) /\ w \in Text
    BY TextMirrored, DecodedType
<1>2. ~HasSlash(w) /\ ~Spaced(w)
    <2> HIDE DEF w
    <2> QED  BY <1>1 DEF Mirrors, Firm
<1>3. ConvertToTitlecase(t) = IF v # w THEN z ELSE t
    BY DEF ConvertToTitlecase
<1> HIDE DEF w
<1>4. /\ v \in Text /\ DOMAIN v = DOMAIN w
      /\ \A i \in DOMAIN w : v[i] = w[i] \/ (w[i] \in Upper /\ v[i] = LowerOf[w[i]])
    BY <1>1, TitledChars
<1>5. \A i \in DOMAIN w : v[i] = w[i] \/ v[i] > 64
    BY <1>4, LowerCase
<1> HIDE DEF v
<1>6. Len(v) = Len(w) /\ Len(w) \in Nat /\ DOMAIN w = 1..Len(w)
    BY <1>1, <1>4 DEF Text
<1>7. ~HasSlash(v)
    <2> SUFFICES ASSUME HasSlash(v) PROVE HasSlash(w)
        BY <1>2
    <2>1. PICK p \in 1..(Len(w) - 2) : v[p] = 32 /\ v[p + 1] = 47 /\ v[p + 2] = 32
        BY <1>6 DEF HasSlash
    <2>2. p \in DOMAIN w /\ p + 1 \in DOMAIN w /\ p + 2 \in DOMAIN w
        BY <1>6
    <2>3. w[p] = 32 /\ w[p + 1] = 47 /\ w[p + 2] = 32
        BY <1>5, <2>1, <2>2
    <2> QED  BY <2>3 DEF HasSlash
<1>8. ~Spaced(v)
    <2> SUFFICES ASSUME Spaced(v) PROVE Spaced(w)
        BY <1>2
    <2>1. \A x \in Spaces : ~(x > 64)
        BY DEF Spaces
    <2>2. Len(w) >= 1 /\ v[1] \in Spaces /\ 1 \in DOMAIN w
        BY <1>6 DEF Spaced
    <2> QED  BY <1>5, <2>1, <2>2 DEF Spaced
<1>9. (HasSlash(z) => HasSlash(v)) /\ (Spaced(z) => Spaced(v))
    BY <1>4, WrittenLooksTheSame
<1> HIDE DEF z
<1> QED  BY <1>3, <1>7, <1>8, <1>9 DEF Firm

\* Blanks that are left out leave it so.
LEMMA TrimRightStaysFirm ==
    ASSUME NEW t \in Text, Firm(t)
    PROVE  Firm(TrimRight(t))
<1>1. PICK n \in 0..Len(t) : TrimRight(t) = SubSeq(t, 1, n)
    BY TrimRightIs
<1> DEFINE k == SubSeq(t, 1, n)
<1>2. Len(t) \in Nat /\ Len(k) = n /\ \A i \in 1..n : k[i] = t[i]
    BY DEF Text
<1> HIDE DEF k
<1>3. ~HasSlash(k)
    <2> SUFFICES ASSUME HasSlash(k) PROVE HasSlash(t)
        BY DEF Firm
    <2>1. PICK p \in 1..(n - 2) : k[p] = 32 /\ k[p + 1] = 47 /\ k[p + 2] = 32
        BY <1>2 DEF HasSlash
    <2>2. p \in 1..n /\ p + 1 \in 1..n /\ p + 2 \in 1..n /\ p \in 1..(Len(t) - 2)
        BY <1>2
    <2>3. t[p] = 32 /\ t[p + 1] = 47 /\ t[p + 2] = 32
        BY <1>2, <2>1, <2>2
    <2> QED  BY <2>2, <2>3 DEF HasSlash
<1>4. ~Spaced(k)
    <2> SUFFICES ASSUME Spaced(k) PROVE Spaced(t)
        BY DEF Firm
    <2>1. n >= 1 /\ k[1] \in Spaces /\ 1 \in 1..n /\ Len(t) >= 1
        BY <1>2 DEF Spaced
    <2> QED  BY <1>2, <2>1 DEF Spaced
<1> QED  BY <1>1, <1>3, <1>4 DEF Firm, k

LEMMA TrimLeftStaysFirm ==
    ASSUME NEW t \in Text, Firm(t)
    PROVE  Firm(TrimLeft(t))
<1>1. PICK n \in 1..(Len(t) + 1) : /\ TrimLeft(t) = SubSeq(t, n, Len(t))
                                   /\ \A i \in 1..Len(t) : i < n => t[i] = Blank
    BY TrimLeftIs
<1> DEFINE k == SubSeq(t, n, Len(t))
<1>2. /\ Len(t) \in Nat /\ Len(k) = Len(t) - n + 1
      /\ \A i \in 1..Len(k) : k[i] = t[i + n - 1]
    BY DEF Text
<1> HIDE DEF k
<1>3. ~HasSlash(k)
    <2> SUFFICES ASSUME HasSlash(k) PROVE HasSlash(t)
        BY DEF Firm
    <2>1. PICK p \in 1..(Len(k) - 2) : k[p] = 32 /\ k[p + 1] = 47 /\ k[p + 2] = 32
        BY DEF HasSlash
    <2> DEFINE q == p + n - 1
    <2>2. /\ p \in 1..Len(k) /\ p + 1 \in 1..Len(k) /\ p + 2 \in 1..Len(k)
          /\ q \in 1..(Len(t) - 2) /\ p + 1 + n - 1 = q + 1 /\ p + 2 + n - 1 = q + 2
        BY <1>2
    <2>3. k[p] = t[q] /\ k[p + 1] = t[q + 1] /\ k[p + 2] = t[q + 2]
        <3>1. k[p] = t[q]
            BY <1>2, <2>2
        <3>2. k[p + 1] = t[p + 1 + n - 1]
            BY <1>2, <2>2
        <3>3. k[p + 2] = t[p + 2 + n - 1]
            BY <1>2, <2>2
        <3> QED  BY <2>2, <3>1, <3>2, <3>3
    <2>4. t[q] = 32 /\ t[q + 1] = 47 /\ t[q + 2] = 32
        BY <2>1, <2>3
    <2>5. q \in 1..(Len(t) - 2)
        BY <2>2
    <2> HIDE DEF q
    <2> QED  BY <2>4, <2>5 DEF HasSlash
<1>4. ~Spaced(k)
    <2> SUFFICES ASSUME Spaced(k) PROVE Spaced(t)
        BY DEF Firm
    <2>1. Len(k) >= 1 /\ k[1] \in Spaces /\ 1 \in 1..Len(k) /\ Len(t) >= 1 /\ n <= Len(t)
        BY <1>2 DEF Spaced
    <2>2. CASE n = 1
        BY <1>2, <2>1, <2>2 DEF Spaced
    <2>3. CASE n > 1
        <3>1. t[1] = Blank
            BY <1>1, <2>1, <2>3
        <3>2. 32 \in Spaces
            BY DEF Spaces
        <3> QED  BY <2>1, <3>1, <3>2 DEF Spaced, Blank
    <2> QED  BY <2>2, <2>3
<1> QED  BY <1>1, <1>3, <1>4 DEF Firm, k

\* What is kept of the first bytes of a text.
Keeps(k, p) ==
    /\ Blanked(k) <=> Blanked(p)
    /\ Slashed(k) => Slashed(p)
    /\ HasSlash(k) => HasSlash(p)
    /\ Spaced(k) <=> Spaced(p)
    /\ k = <<>> <=> p = <<>>

LEMMA KeepsGrowing ==
    ASSUME NEW k \in Text, NEW p \in Text, Keeps(k, p), NEW b \in Int
    PROVE  /\ Keeps(Append(k, b), Append(p, b))
           /\ Blanked(p) /\ b = 32 => Keeps(k, Append(p, b))
<1> DEFINE u == Append(k, b)  v == Append(p, b)
<1>1. /\ u # <<>>
      /\ Blanked(u) <=> b = 32
      /\ Slashed(u) <=> (Blanked(k) /\ b = 47)
      /\ HasSlash(u) <=> (HasSlash(k) \/ (Slashed(k) /\ b = 32))
      /\ Spaced(u) <=> (IF k = <<>> THEN b \in Spaces ELSE Spaced(k))
    BY OneLonger
<1>2. /\ v # <<>>
      /\ Blanked(v) <=> b = 32
      /\ Slashed(v) <=> (Blanked(p) /\ b = 47)
      /\ HasSlash(v) <=> (HasSlash(p) \/ (Slashed(p) /\ b = 32))
      /\ Spaced(v) <=> (IF p = <<>> THEN b \in Spaces ELSE Spaced(p))
    BY OneLonger
<1> HIDE DEF u, v
<1>3. Keeps(u, v)
    BY <1>1, <1>2 DEF Keeps
<1>4. ASSUME Blanked(p), b = 32 PROVE Keeps(k, v)
    <2>1. Blanked(k)
        BY <1>4 DEF Keeps
    <2>2. k # <<>> /\ p # <<>>
        <3>1. Len(k) >= 1
            BY <2>1 DEF Blanked
        <3>2. k # <<>>
            BY <3>1
        <3> QED  BY <3>2 DEF Keeps
    <2>3. ~Slashed(k)
        <3>1. k[Len(k)] = 32
            BY <2>1 DEF Blanked
        <3> QED  BY <3>1 DEF Slashed
    <2> QED  BY <1>2, <1>4, <2>1, <2>2, <2>3 DEF Keeps
<1> QED  BY <1>3, <1>4 DEF u, v

LEMMA TrimMultipleKeeps ==
    ASSUME NEW t \in Text
    PROVE  Keeps(TrimMultiple(t), t)
<1> DEFINE n == Len(t)  pre(i) == SubSeq(t, 1, i)  f == Kept(t)
           T == {i \in 0..n : Keeps(f[i], pre(i))}
<1>1. n \in Nat
    BY DEF Text
<1>2. /\ f \in [0..n -> Text] /\ f[0] = <<>>
      /\ \A j \in 1..n : f[j] = IF t[j] = Blank /\ j > 1 /\ t[j - 1] = Blank
                                THEN f[j - 1] ELSE Append(f[j - 1], t[j])
    BY KeptRecursion
<1> HIDE DEF f
<1>3. 0 \in T
    <2>1. pre(0) = <<>>
        BY WholePrefix DEF Text
    <2> HIDE DEF pre
    <2>2. Keeps(f[0], pre(0))
        BY <1>2, <2>1 DEF Keeps
    <2> QED  BY <1>1, <2>2
<1>4. ASSUME NEW i \in 1..n, i - 1 \in T PROVE i \in T
    <2> DEFINE p == pre(i - 1)  k == f[i - 1]  b == t[i]
    <2>1. p \in Text /\ pre(i) = Append(p, b) /\ b \in Int
        BY PrefixGrows DEF Text
    <2>2. i - 1 \in 0..n /\ i \in 0..n /\ k \in Text
        BY <1>1, <1>2
    <2>3. Keeps(k, p)
        BY <1>4
    <2>4. CASE b = Blank /\ i > 1 /\ t[i - 1] = Blank
        <3>1. Len(p) = i - 1 /\ p[i - 1] = t[i - 1]
            BY <1>1, <2>4 DEF Text
        <3>2. Blanked(p)
            <4> HIDE DEF p
            <4> QED  BY <2>4, <3>1 DEF Blanked, Blank
        <3>3. f[i] = k
            BY <1>2, <2>4
        <3>4. b = 32
            BY <2>4 DEF Blank
        <3> HIDE DEF p, k, b, pre
        <3>5. Keeps(k, Append(p, b))
            BY <2>1, <2>2, <2>3, <3>2, <3>4, KeepsGrowing
        <3> QED  BY <2>1, <2>2, <3>3, <3>5
    <2>5. CASE ~(b = Blank /\ i > 1 /\ t[i - 1] = Blank)
        <3>1. f[i] = Append(k, b)
            BY <1>2, <2>5
        <3> HIDE DEF p, k, b, pre
        <3>2. Keeps(Append(k, b), Append(p, b))
            BY <2>1, <2>2, <2>3, KeepsGrowing
        <3> QED  BY <2>1, <2>2, <3>1, <3>2
    <2> QED  BY <2>4, <2>5
<1>5. n \in T
    <2>1. \A i \in 0..n : i \in T
        <3> HIDE DEF T
        <3> QED  BY <1>1, <1>3, <1>4, InductionUpTo
    <2> QED  BY <1>1, <2>1
<1>6. pre(n) = t
    BY WholePrefix DEF Text
<1>7. TrimMultiple(t) = f[n]
    BY TrimMultipleIs DEF f
<1> QED  BY <1>5, <1>6, <1>7

LEMMA CleanStaysFirm ==
    ASSUME NEW t \in Text, Decoded(t).good, Firm(t)
    PROVE  Firm(Clean(t))
<1> DEFINE a == TrimRight(t)  b == TrimLeft(a)  c == TrimMultiple(b)
<1>1. a \in Text /\ Firm(a)
    BY TrimRightLeavesOut, TrimRightStaysFirm
<1> HIDE DEF a
<1>2. b \in Text /\ Firm(b)
    BY <1>1, TrimLeftLeavesOut, TrimLeftStaysFirm
<1> HIDE DEF b
<1>3. Firm(c)
    <2>1. Keeps(c, b)
        BY <1>2, TrimMultipleKeeps
    <2> HIDE DEF c
    <2> QED  BY <1>2, <2>1 DEF Keeps, Firm
<1>4. c = TrimAll(t)
    BY DEF c, b, a, TrimAll
<1> HIDE DEF c
<1>5. c \in Text /\ Decoded(c).good
    BY <1>4, Trimmed
<1>6. Firm(ConvertToTitlecase(c))
    BY <1>3, <1>5, TitleCaseStaysFirm
<1> QED  BY <1>4, <1>6 DEF Clean

-----------------------------------------------------------------------------
(* Texts without newlines.                                                 *)

OneLine == Seq(Bytes \ Newlines)

LEMMA OneLineText ==
    ASSUME NEW s \in OneLine
    PROVE  s \in Text /\ \A i \in 1..Len(s) : s[i] \in Bytes /\ s[i] \notin Newlines
<1>1. s \in Seq(Bytes)
    BY DEF OneLine
<1>2. s \in Text
    BY <1>1, FileIsText
<1> QED  BY <1>2 DEF OneLine

LEMMA TextOneLine ==
    ASSUME NEW s \in Text, \A i \in 1..Len(s) : s[i] \in Bytes /\ s[i] \notin Newlines
    PROVE  s \in OneLine
<1>1. Len(s) \in Nat /\ s = [i \in 1..Len(s) |-> s[i]]
    BY DEF Text
<1> DEFINE n == Len(s)  B == Bytes \ Newlines
<1>2. \A i \in 1..n : s[i] \in B
    OBVIOUS
<1> HIDE DEF n, B
<1>3. n \in Nat /\ s = [i \in 1..n |-> s[i]]
    BY <1>1 DEF n
<1>4. s \in Seq(B)
    BY <1>2, <1>3
<1> QED  BY <1>4 DEF OneLine, B

LEMMA PartIsOneLine ==
    ASSUME NEW s \in OneLine, NEW m \in Nat \ {0}, NEW n \in Int, n <= Len(s)
    PROVE  SubSeq(s, m, n) \in OneLine
<1> DEFINE p == SubSeq(s, m, n)
<1>1. s \in Text /\ \A i \in 1..Len(s) : s[i] \in Bytes /\ s[i] \notin Newlines
    BY OneLineText
<1>2. p \in Text
    BY <1>1, PartType
<1>3. \A i \in 1..Len(p) : i + m - 1 \in 1..Len(s) /\ p[i] = s[i + m - 1]
    BY <1>1 DEF Text
<1> HIDE DEF p
<1>4. p \in OneLine
    BY <1>1, <1>2, <1>3, TextOneLine
<1> QED  BY <1>4 DEF p

LEMMA AppendIsOneLine ==
    ASSUME NEW s \in OneLine, NEW b \in Bytes, b \notin Newlines
    PROVE  Append(s, b) \in OneLine
BY DEF OneLine

LEMMA EmptyIsOneLine == <<>> \in OneLine
BY DEF OneLine

LEMMA ConcatIsOneLine ==
    ASSUME NEW s \in OneLine, NEW t \in OneLine
    PROVE  s \o t \in OneLine
BY DEF OneLine

\* Characters are written without newlines unless they are some.
LEMMA CharIsOneLine ==
    ASSUME NEW ch \in Nat, ch \notin Newlines
    PROVE  ToUtf8(ch) \in OneLine
<1> DEFINE B == Bytes \ Newlines
<1>1. \A x \in Nat : Six(x) \in B
    <2> TAKE x \in Nat
    <2>1. x % 64 \in 0..63
        OBVIOUS
    <2> QED  BY <2>1 DEF Six, Bytes, Newlines
<1>2. CASE ch < 128
    <2>1. ToUtf8(ch) = <<ch>>
        BY <1>2 DEF ToUtf8
    <2>2. ch \in B
        BY <1>2 DEF Bytes
    <2> HIDE DEF B
    <2>3. <<ch>> \in Seq(B)
        BY <2>2
    <2> QED  BY <2>1, <2>3 DEF OneLine, B
<1>3. CASE ~(ch < 128) /\ ch < 2048
    <2> DEFINE x == 192 + ch \div 64  y == Six(ch)
    <2>1. ToUtf8(ch) = <<x, y>>
        BY <1>3 DEF ToUtf8
    <2>2. x \in B
        <3>1. ch \div 64 \in 0..31
            BY <1>3
        <3> QED  BY <3>1 DEF Bytes, Newlines
    <2>3. y \in B
        BY <1>1
    <2> HIDE DEF B, x, y
    <2>4. <<x, y>> \in Seq(B)
        BY <2>2, <2>3
    <2> QED  BY <2>1, <2>4 DEF OneLine, B
<1>4. CASE ~(ch < 2048) /\ ch < 65536
    <2> DEFINE x == 224 + ch \div 4096  y == Six(ch \div 64)  z == Six(ch)
    <2>1. ToUtf8(ch) = <<x, y, z>>
        BY <1>4, SMT DEF ToUtf8
    <2>2. x \in B
        <3>1. ch \div 4096 \in 0..15
            BY <1>4, SMT
        <3> QED  BY <3>1 DEF Bytes, Newlines
    <2>3. y \in B /\ z \in B
        <3>1. ch \div 64 \in Nat
            OBVIOUS
        <3> QED  BY <1>1, <3>1
    <2> HIDE DEF B, x, y, z
    <2>4. <<x, y, z>> \in Seq(B)
        BY <2>2, <2>3
    <2> QED  BY <2>1, <2>4 DEF OneLine, B
<1>5. CASE ~(ch < 65536) /\ IsUnicode(ch)
    <2> DEFINE x == 240 + ch \div 262144  u == Six(ch \div 4096)
               y == Six(ch \div 64)  z == Six(ch)
    <2>1. ToUtf8(ch) = <<x, u, y, z>>
        BY <1>5, SMT DEF ToUtf8
    <2>2. x \in B
        <3>1. ch \div 262144 \in 0..4
            BY <1>5, SMT DEF IsUnicode
        <3> QED  BY <3>1 DEF Bytes, Newlines
    <2>3. u \in B /\ y \in B /\ z \in B
        <3>1. ch \div 64 \in Nat /\ ch \div 4096 \in Nat
            OBVIOUS
        <3> QED  BY <1>1, <3>1
    <2> HIDE DEF B, x, u, y, z
    <2>4. <<x, u, y, z>> \in Seq(B)
        BY <2>2, <2>3
    <2> QED  BY <2>1, <2>4 DEF OneLine, B
<1>6. CASE ~(ch < 65536) /\ ~IsUnicode(ch)
    <2>1. ToUtf8(ch) = <<63>>
        BY <1>6, SMT DEF ToUtf8
    <2>2. 63 \in B
        BY DEF Bytes, Newlines
    <2> HIDE DEF B
    <2>3. <<63>> \in Seq(B)
        BY <2>2
    <2> QED  BY <2>1, <2>3 DEF OneLine, B
<1> QED  BY <1>2, <1>3, <1>4, <1>5, <1>6, SMT

LEMMA WrittenIsOneLine ==
    ASSUME NEW w \in Text, \A i \in 1..Len(w) : w[i] \in Nat /\ w[i] \notin Newlines
    PROVE  WideToUtf8(w) \in OneLine
<1> DEFINE ss == [i \in DOMAIN w |-> ToUtf8(w[i])]  B == Bytes \ Newlines
<1>1. DOMAIN w = 1..Len(w) /\ Len(w) \in Nat
    BY DEF Text
<1>2. \A i \in 1..Len(w) : ToUtf8(w[i]) \in Seq(B)
    BY CharIsOneLine DEF OneLine
<1> HIDE DEF B
<1>3. ss \in Seq(Seq(B))
    BY <1>1, <1>2
<1> HIDE DEF ss
<1>4. FlattenSeq(ss) \in Seq(B)
    BY <1>3, FlattenIs
<1> QED  BY <1>4 DEF WideToUtf8, ss, OneLine, B

\* cleanup() adds no newline.
LEMMA TitleCaseIsOneLine ==
    ASSUME NEW t \in OneLine, Decoded(t).good
    PROVE  ConvertToTitlecase(t) \in OneLine
<1> DEFINE w == FromUtf8(t)  v == Titled(w)
<1>1. t \in Text /\ \A i \in 1..Len(t) : t[i] \in Bytes /\ t[i] \notin Newlines
    BY OneLineText
<1>2. w \in Text /\ Mirrors(w, t, Decoded(t).left)
    BY <1>1, TextMirrored, DecodedType
<1>3. ConvertToTitlecase(t) = IF v # w THEN WideToUtf8(v) ELSE t
    BY DEF ConvertToTitlecase
<1> HIDE DEF w
<1>4. \A i \in 1..Len(w) : w[i] >= 128 \/ \E j \in 1..Len(t) : w[i] = t[j]
    BY <1>2 DEF Mirrors, FoundIn
<1>5. \A x \in Int : x >= 64 => x \in Nat /\ x \notin Newlines
    BY DEF Newlines
<1>6. \A x \in Bytes : x \in Nat
    BY DEF Bytes
<1>7. \A i \in 1..Len(w) : w[i] \in Nat /\ w[i] \notin Newlines
    <2> TAKE i \in 1..Len(w)
    <2>1. CASE w[i] >= 128
        <3>1. w[i] \in Int
            BY <1>2 DEF Text
        <3> DEFINE x == w[i]
        <3> HIDE DEF x
        <3>2. x \in Int /\ x >= 128
            BY <2>1, <3>1 DEF x
        <3>3. x >= 64
            BY <3>2
        <3> QED  BY <1>5, <3>2, <3>3 DEF x
    <2>2. ASSUME NEW j \in 1..Len(t), w[i] = t[j] PROVE w[i] \in Nat /\ w[i] \notin Newlines
        BY <1>1, <1>6, <2>2
    <2> QED  BY <1>4, <2>1, <2>2
<1>8. /\ v \in Text /\ DOMAIN v = DOMAIN w
      /\ \A i \in DOMAIN w : v[i] = w[i] \/ (w[i] \in Upper /\ v[i] = LowerOf[w[i]])
    BY <1>2, TitledChars
<1> HIDE DEF v
<1>9. \A i \in 1..Len(v) : v[i] \in Nat /\ v[i] \notin Newlines
    <2>1. 1..Len(v) = DOMAIN w /\ 1..Len(w) = DOMAIN w
        BY <1>2, <1>8 DEF Text
    <2> TAKE i \in 1..Len(v)
    <2>2. CASE v[i] = w[i]
        BY <1>7, <2>1, <2>2
    <2>3. CASE w[i] \in Upper /\ v[i] = LowerOf[w[i]]
        <3>1. v[i] \in Nat /\ v[i] > 64
            BY <2>3, LowerCase
        <3>2. v[i] \in Int /\ v[i] >= 64
            BY <3>1
        <3> QED  BY <1>5, <3>2
    <2> QED  BY <1>8, <2>1, <2>2, <2>3
<1>10. WideToUtf8(v) \in OneLine
    BY <1>8, <1>9, WrittenIsOneLine
<1> QED  BY <1>3, <1>10

LEMMA TrimMultipleIsOneLine ==
    ASSUME NEW t \in OneLine
    PROVE  TrimMultiple(t) \in OneLine
<1> DEFINE n == Len(t)  f == Kept(t)
           T == {i \in 0..n : f[i] \in OneLine}
<1>1. t \in Text /\ n \in Nat /\ \A i \in 1..n : t[i] \in Bytes /\ t[i] \notin Newlines
    BY OneLineText DEF Text
<1>2. /\ f[0] = <<>>
      /\ \A j \in 1..n : f[j] = f[j - 1] \/ f[j] = Append(f[j - 1], t[j])
    BY <1>1, KeptRecursion
<1> HIDE DEF f
<1>3. 0 \in T
    BY <1>1, <1>2, EmptyIsOneLine
<1>4. ASSUME NEW i \in 1..n, i - 1 \in T PROVE i \in T
    <2>1. f[i - 1] \in OneLine /\ i \in 0..n
        BY <1>1, <1>4
    <2>2. Append(f[i - 1], t[i]) \in OneLine
        BY <1>1, <2>1, AppendIsOneLine
    <2> QED  BY <1>2, <2>1, <2>2
<1>5. n \in T
    <2>1. \A i \in 0..n : i \in T
        <3> HIDE DEF T
        <3> QED  BY <1>1, <1>3, <1>4, InductionUpTo
    <2> QED  BY <1>1, <2>1
<1>6. TrimMultiple(t) = f[n]
    BY TrimMultipleIs DEF f
<1> QED  BY <1>5, <1>6

LEMMA TrimRightIsOneLine ==
    ASSUME NEW t \in OneLine
    PROVE  TrimRight(t) \in OneLine
<1>1. t \in Text /\ Len(t) \in Nat
    BY OneLineText DEF Text
<1>2. PICK n \in 0..Len(t) : TrimRight(t) = SubSeq(t, 1, n)
    BY <1>1, TrimRightIs
<1>3. n \in Int /\ n <= Len(t) /\ 1 \in Nat \ {0}
    BY <1>1
<1> QED  BY <1>2, <1>3, PartIsOneLine

LEMMA CleanIsOneLine ==
    ASSUME NEW t \in OneLine, Decoded(t).good
    PROVE  Clean(t) \in OneLine
<1> DEFINE a == TrimRight(t)  b == TrimLeft(a)  c == TrimMultiple(b)
<1>1. a \in OneLine
    BY TrimRightIsOneLine
<1> HIDE DEF a
<1>2. b \in OneLine
    <2>1. a \in Text /\ Len(a) \in Nat
        BY <1>1, OneLineText DEF Text
    <2>2. PICK n \in 1..(Len(a) + 1) : TrimLeft(a) = SubSeq(a, n, Len(a))
        BY <2>1, TrimLeftIs
    <2>3. n \in Nat \ {0} /\ Len(a) \in Int /\ Len(a) <= Len(a)
        BY <2>1
    <2> QED  BY <1>1, <2>2, <2>3, PartIsOneLine
<1> HIDE DEF b
<1>3. c \in OneLine
    BY <1>2, TrimMultipleIsOneLine
<1>4. c = TrimAll(t)
    BY DEF c, b, a, TrimAll
<1> HIDE DEF c
<1>5. Decoded(c).good
    <2>1. t \in Text
        BY OneLineText
    <2> QED  BY <1>4, <2>1, Trimmed
<1>6. ConvertToTitlecase(c) \in OneLine
    BY <1>3, <1>5, TitleCaseIsOneLine
<1> QED  BY <1>4, <1>6 DEF Clean

\* The number of a song.
LEMMA GreatestOf ==
    ASSUME NEW n \in Nat, NEW S \in SUBSET (0..n), S # {}
    PROVE  Max(S) \in S /\ \A x \in S : x <= Max(S)
<1> DEFINE back == {n - x : x \in S}
<1>1. back \in SUBSET Nat /\ back # {}
    <2>1. \A x \in S : x \in 0..n
        OBVIOUS
    <2>2. \A x \in S : n - x \in Nat
        BY <2>1
    <2> QED  BY <2>2
<1>2. PICK m \in back : \A y \in back : m <= y
    <2> HIDE DEF back
    <2> QED  BY <1>1, LeastNatural
<1>3. PICK k \in S : m = n - k
    BY <1>2
<1>4. ASSUME NEW x \in S PROVE k >= x
    <2>1. n - x \in back
        OBVIOUS
    <2>2. n - k <= n - x
        BY <1>2, <1>3, <2>1
    <2> QED  BY <2>2
<1>5. Max(S) = CHOOSE x \in S : \A y \in S : x >= y
    BY DEF Max
<1>6. Max(S) \in S /\ \A y \in S : Max(S) >= y
    BY <1>4, <1>5
<1> QED  BY <1>6

LEMMA DigitsAreNumbers ==
    ASSUME NEW t \in Seq(Digit), Len(t) <= 9
    PROVE  ParseNonnegativeInt(t) \in 0..(Billion - 1)
<1> DEFINE n == Len(t)  f == ValueUpTo(t)
           T == {i \in 0..n : f[i] \in 0..(Ten(i) - 1)}
<1>1. n \in 0..9 /\ t \in Text
    <2>1. n \in Nat
        <3> HIDE DEF Digit
        <3> QED  OBVIOUS
    <2>2. n \in 0..9
        <3>1. n <= 9
            OBVIOUS
        <3> HIDE DEF n, Digit
        <3> QED  BY <2>1, <3>1
    <2>3. t \in Text
        BY DigitsAreText
    <2> QED  BY <2>2, <2>3
<1>2. ParseNonnegativeInt(t) = f[n]
    BY DEF ParseNonnegativeInt, ValueUpTo
<1>3. /\ f[0] = 0
      /\ \A j \in 1..n : f[j] = f[j - 1] * 10 + t[j] - 48
    BY <1>1, ValueRecursion
<1>4. \A i \in 1..n : t[i] \in Digit
    <2> HIDE DEF Digit
    <2> QED  OBVIOUS
<1> HIDE DEF f, n
<1>5. 0 \in T
    BY <1>1, <1>3 DEF Ten
<1>6. ASSUME NEW i \in 1..n, i - 1 \in T PROVE i \in T
    <2> DEFINE k == i - 1
    <2>1. k \in 0..8 /\ k + 1 = i /\ i \in 0..n
        BY <1>1
    <2>2. f[k] \in 0..(Ten(k) - 1)
        BY <1>6
    <2>3. f[i] = f[k] * 10 + t[i] - 48 /\ t[i] \in 48..57
        BY <1>3, <1>4 DEF Digit
    <2> HIDE DEF k
    <2>4. Ten(k) \in Nat /\ Ten(k + 1) = 10 * Ten(k)
        BY <2>1, TenIs
    <2> DEFINE x == Ten(k)  y == f[k]  z == t[i]
    <2>5. x \in Nat /\ y \in 0..(x - 1) /\ z \in 48..57
        BY <2>2, <2>3, <2>4
    <2> HIDE DEF x, y, z
    <2>6. y * 10 + z - 48 \in 0..(10 * x - 1)
        BY <2>5
    <2> QED  BY <2>1, <2>3, <2>4, <2>6 DEF x, y, z
<1>7. n \in T
    <2>1. \A i \in 0..n : i \in T
        <3>1. n \in Nat
            BY <1>1
        <3> HIDE DEF T
        <3> QED  BY <1>5, <1>6, <3>1, InductionUpTo
    <2> QED  BY <1>1, <2>1
<1>8. Ten(n) \in Nat /\ Ten(n) <= Billion
    BY <1>1 DEF Ten, Billion
<1>9. Billion \in Nat
    BY DEF Billion
<1> DEFINE x == Ten(n)  y == f[n]  z == Billion
<1>10. x \in Nat /\ x <= z /\ y \in 0..(x - 1) /\ z \in Nat
    BY <1>7, <1>8, <1>9
<1> HIDE DEF x, y, z
<1>11. y \in 0..(z - 1)
    BY <1>10
<1> QED  BY <1>2, <1>11 DEF y, z

DigitsUpTo(key, n) == \A k \in (Len(SongKey) + 1)..n : key[k] \in Zero..(Zero + 9)

\* Where the digits end, and what they say.
LEMMA SongNumberIs ==
    ASSUME NEW key \in Text, Len(key) >= 6
    PROVE  \E n \in 6..Len(key) :
                /\ DigitsUpTo(key, n)
                /\ \A m \in 6..Len(key) : DigitsUpTo(key, m) => m <= n
                /\ SongNumber(key) = ParseNonnegativeInt(SubSeq(key, 7, n))
                /\ SubSeq(key, 7, n) \in Seq(Digit) /\ Len(SubSeq(key, 7, n)) = n - 6
<1> DEFINE ends == {n \in 6..Len(key) : DigitsUpTo(key, n)}  n == Max(ends)
<1>1. Len(key) \in Nat /\ Len(SongKey) = 6
    BY KeysAre DEF Text
<1>2. SongNumber(key) = ParseNonnegativeInt(SubSeq(key, 7, n))
    <2>1. ends = {k \in Len(SongKey)..Len(key) :
                    \A j \in (Len(SongKey) + 1)..k : key[j] \in Zero..(Zero + 9)}
        BY <1>1 DEF DigitsUpTo
    <2>2. Len(SongKey) + 1 = 7
        BY <1>1
    <2> HIDE DEF ends
    <2> QED  BY <2>1, <2>2 DEF SongNumber
<1>3. 6 \in ends
    <2>1. 6 \in 6..Len(key) /\ (Len(SongKey) + 1)..6 = {}
        BY <1>1
    <2> QED  BY <2>1 DEF DigitsUpTo
<1>4. ends \in SUBSET (0..Len(key))
    BY <1>1
<1>5. n \in ends /\ \A x \in ends : x <= n
    <2> HIDE DEF ends
    <2> QED  BY <1>1, <1>3, <1>4, GreatestOf
<1> HIDE DEF n
<1> DEFINE p == SubSeq(key, 7, n)
<1>6. n \in 6..Len(key) /\ DigitsUpTo(key, n)
    BY <1>5
<1>7. /\ p \in Text /\ Len(p) = n - 6 /\ \A i \in 1..Len(p) : p[i] = key[i + 6]
    BY <1>1, <1>6 DEF Text
<1> HIDE DEF p
<1>8. ASSUME NEW i \in 1..Len(p) PROVE p[i] \in Digit
    <2>1. i + 6 \in (Len(SongKey) + 1)..n
        BY <1>1, <1>6, <1>7
    <2>2. key[i + 6] \in Zero..(Zero + 9)
        BY <1>6, <2>1 DEF DigitsUpTo
    <2> QED  BY <1>7, <2>2 DEF Zero, Digit
<1>9. p \in Seq(Digit)
    <2>1. Len(p) \in Nat /\ p = [i \in 1..Len(p) |-> p[i]]
        BY <1>7 DEF Text
    <2> DEFINE l == Len(p)
    <2> HIDE DEF l
    <2>2. l \in Nat /\ p = [i \in 1..l |-> p[i]] /\ \A i \in 1..l : p[i] \in Digit
        BY <1>8, <2>1 DEF l
    <2> HIDE DEF Digit
    <2> QED  BY <2>2
<1>10. \A m \in 6..Len(key) : DigitsUpTo(key, m) => m <= n
    BY <1>5
<1> QED  BY <1>2, <1>6, <1>7, <1>9, <1>10 DEF p

LEMMA SongNumberType ==
    ASSUME NEW key \in Text, Len(key) >= 6, Len(key) <= 15
    PROVE  SongNumber(key) \in 0..(Billion - 1)
<1>1. Len(key) \in Nat
    BY DEF Text
<1>2. PICK n \in 6..Len(key) :
                /\ SongNumber(key) = ParseNonnegativeInt(SubSeq(key, 7, n))
                /\ SubSeq(key, 7, n) \in Seq(Digit) /\ Len(SubSeq(key, 7, n)) = n - 6
    BY SongNumberIs
<1> DEFINE p == SubSeq(key, 7, n)
<1>3. p \in Seq(Digit) /\ Len(p) <= 9
    BY <1>1, <1>2
<1> HIDE DEF p
<1>4. ParseNonnegativeInt(p) \in 0..(Billion - 1)
    BY <1>3, DigitsAreNumbers
<1> QED  BY <1>2, <1>4 DEF p

\* The key that is written of a number is read as that number.
LEMMA SongNumberRead ==
    ASSUME NEW d, NEW m \in Nat, NEW v, Reads(d, m, v)
    PROVE  SongNumber(SongKey \o d) = v
<1> DEFINE key == SongKey \o d
<1>1. /\ d \in Seq(Digit) /\ Len(d) = m /\ ParseNonnegativeInt(d) = v /\ d \in Text
    BY DigitsAreText DEF Reads
<1>2. SongKey \in Text /\ Len(SongKey) = 6
    BY KeysAre
<1>3. key \in Text /\ Len(key) = 6 + m /\ \A i \in 7..(6 + m) : key[i] = d[i - 6]
    <2>1. IsConcat(key, SongKey, d)
        BY <1>1, <1>2, ConcatIs
    <2> HIDE DEF key
    <2> QED  BY <1>1, <1>2, <2>1 DEF IsConcat
<1> HIDE DEF key
<1>4. PICK n \in 6..Len(key) :
            /\ \A k \in 6..Len(key) : DigitsUpTo(key, k) => k <= n
            /\ SongNumber(key) = ParseNonnegativeInt(SubSeq(key, 7, n))
            /\ SubSeq(key, 7, n) \in Seq(Digit) /\ Len(SubSeq(key, 7, n)) = n - 6
    <2>1. Len(key) >= 6
        BY <1>3
    <2> QED  BY <1>3, <2>1, SongNumberIs
<1>5. DigitsUpTo(key, Len(key))
    <2> SUFFICES ASSUME NEW k \in 7..(6 + m) PROVE key[k] \in Zero..(Zero + 9)
        BY <1>2, <1>3 DEF DigitsUpTo
    <2>1. k - 6 \in 1..Len(d)
        BY <1>1
    <2>2. d[k - 6] \in Digit
        <3> HIDE DEF Digit
        <3> QED  BY <1>1, <2>1
    <2> QED  BY <1>3, <2>2 DEF Zero, Digit
<1>6. n = 6 + m
    BY <1>3, <1>4, <1>5
<1> DEFINE p == SubSeq(key, 7, n)
<1>7. p = d
    <2>1. /\ p \in Text /\ Len(p) = m
          /\ \A i \in 1..m : p[i] = key[i + 6]
        BY <1>3, <1>6 DEF Text
    <2> HIDE DEF p
    <2>2. ASSUME NEW i \in 1..m PROVE p[i] = d[i]
        <3>1. i + 6 \in 7..(6 + m) /\ (i + 6) - 6 = i
            OBVIOUS
        <3> QED  BY <1>3, <2>1, <3>1
    <2> QED  BY <1>1, <2>1, <2>2, SameElements
<1> QED  BY <1>1, <1>4, <1>7 DEF key

-----------------------------------------------------------------------------
(* What is stored of a file can be written as lines.                       *)

IsLines(r) ==
    /\ r.artist \in OneLine /\ r.title \in OneLine /\ r.genre \in OneLine
    /\ r.songs \in Seq(OneLine)
    /\ r.base \in Nat /\ r.base + Len(r.songs) <= Billion

LinesInv ==
    /\ file \in Seq(Bytes)
    /\ pos <= Len(file) + 2
    /\ phase = "reading" /\ line.state = "Value" => pos <= Len(file) + 1
    /\ line.key \in OneLine /\ line.value \in OneLine
    /\ phase = "checking" => Len(line.key) <= 15
    /\ IsLines(rec)
    /\ earlier # <<>> => IsLines(earlier[1].texts)

LEMMA OneLineBytes ==
    ASSUME NEW s \in OneLine
    PROVE  s \in Seq(Bytes)
BY DEF OneLine

LEMMA KeysAreBytes ==
    TitleKey \in Seq(Bytes) /\ GenreKey \in Seq(Bytes) /\ SongKey \in Seq(Bytes)
        /\ Slash \in Seq(Bytes)
<1> DEFINE B == Bytes
<1>1. /\ 68 \in B /\ 84 \in B /\ 73 \in B /\ 76 \in B /\ 69 \in B /\ 71 \in B /\ 78 \in B
      /\ 82 \in B /\ 32 \in B /\ 47 \in B
    BY DEF Bytes
<1> HIDE DEF B
<1>2. TitleKey \in Seq(B) /\ GenreKey \in Seq(B) /\ SongKey \in Seq(B) /\ Slash \in Seq(B)
    BY <1>1 DEF TitleKey, GenreKey, SongKey, Slash
<1> QED  BY <1>2 DEF B

LEMMA LineBytes ==
    ASSUME NEW key \in Seq(Bytes), NEW value \in Seq(Bytes)
    PROVE  TextLine(key, value) \in Seq(Bytes)
<1> DEFINE B == Bytes
<1>1. 61 \in B /\ 10 \in B
    BY DEF Bytes
<1> HIDE DEF B
<1>2. key \in Seq(B) /\ value \in Seq(B)
    BY DEF B
<1>3. ((key \o <<61>>) \o value) \o <<10>> \in Seq(B)
    BY <1>1, <1>2
<1> QED  BY <1>3 DEF TextLine, Equals, LineFeed, B

\* The line of a song.
SongText(r, i) == TextLine(SongKey \o Decimal(i - 1), r.songs[i])

LEMMA SongWritten ==
    ASSUME NEW r, IsLines(r), NEW i \in 1..Len(r.songs)
    PROVE  /\ Format(SongLine, <<NumberArg(i - 1), TextArg(r.songs[i])>>) = SongText(r, i)
           /\ Reads(Decimal(i - 1), CountDigits(i - 1), i - 1)
           /\ CountDigits(i - 1) \in 1..9
           /\ Decimal(i - 1) \in Seq(Bytes) /\ r.songs[i] \in OneLine
<1> DEFINE n == i - 1  d == Decimal(n)
<1>1. r.songs \in Seq(OneLine) /\ r.base \in Nat /\ r.base + Len(r.songs) <= Billion
    BY DEF IsLines
<1>2. Len(r.songs) \in Nat /\ Billion \in Nat
    BY <1>1 DEF Billion
<1>3. n \in Nat /\ n < Billion
    BY <1>1, <1>2
<1>4. r.songs[i] \in OneLine
    BY <1>1
<1> HIDE DEF n
<1>5. /\ CountDigits(n) \in 1..9
      /\ FormatDecimal(n, CountDigits(n)) = d
      /\ Reads(d, CountDigits(n), n)
    BY <1>3, NumbersAreRead
<1>6. d \in Seq(Digit) /\ d \in Text
    BY <1>5, DigitsAreText DEF Reads
<1> HIDE DEF d
<1>7. Format(SongLine, <<NumberArg(n), TextArg(r.songs[i])>>) = TextLine(SongKey \o d, r.songs[i])
    <2>1. r.songs[i] \in Text
        BY <1>4, OneLineText
    <2> QED  BY <1>3, <1>5, <1>6, <2>1, SongLineWritten
<1>8. d \in Seq(Bytes)
    <2>1. \A b \in Digit : b \in Bytes
        BY DEF Digit, Bytes
    <2> HIDE DEF Digit
    <2>2. Len(d) \in Nat /\ d = [k \in 1..Len(d) |-> d[k]] /\ \A k \in 1..Len(d) : d[k] \in Digit
        BY <1>6
    <2>3. \A k \in 1..Len(d) : d[k] \in Bytes
        BY <2>1, <2>2
    <2> DEFINE l == Len(d)
    <2> HIDE DEF l
    <2>4. l \in Nat /\ d = [k \in 1..l |-> d[k]] /\ \A k \in 1..l : d[k] \in Bytes
        BY <2>2, <2>3 DEF l
    <2> HIDE DEF Bytes
    <2> QED  BY <2>4
<1> QED  BY <1>4, <1>5, <1>7, <1>8 DEF SongText, n, d

TitleText(r) == TextLine(TitleKey, (r.artist \o Slash) \o r.title)
GenreText(r) == TextLine(GenreKey, r.genre)
SongTexts(r) == [i \in DOMAIN r.songs |-> SongText(r, i)]

\* The file, without what Format does.
LEMMA FileWritten ==
    ASSUME NEW r, IsLines(r)
    PROVE  /\ CddbFile(r) = ((<<Hash, LineFeed>> \o TitleText(r)) \o GenreText(r))
                                \o FlattenSeq(SongTexts(r))
           /\ TitleText(r) \in Seq(Bytes) /\ GenreText(r) \in Seq(Bytes)
           /\ SongTexts(r) \in Seq(Seq(Bytes)) /\ Len(SongTexts(r)) = Len(r.songs)
<1> DEFINE a == r.artist  t == r.title  g == r.genre
           title == TitleText(r)  genre == GenreText(r)  songs == SongTexts(r)
<1>1. a \in OneLine /\ t \in OneLine /\ g \in OneLine /\ r.songs \in Seq(OneLine)
    BY DEF IsLines
<1>2. a \in Text /\ t \in Text /\ g \in Text
    BY <1>1, OneLineText
<1>3. a \in Seq(Bytes) /\ t \in Seq(Bytes) /\ g \in Seq(Bytes)
    BY <1>1, OneLineBytes
<1> DEFINE F1 == Format(TitleLine, <<TextArg(r.artist), TextArg(r.title)>>)
           F2 == Format(GenreLine, <<TextArg(r.genre)>>)
           F3 == [i \in DOMAIN r.songs |->
                    Format(SongLine, <<NumberArg(i - 1), TextArg(r.songs[i])>>)]
<1>4. F1 = title
    BY <1>2, TitleLineWritten DEF TitleText
<1>5. F2 = genre
    BY <1>2, GenreLineWritten DEF GenreText
<1>6. DOMAIN r.songs = 1..Len(r.songs) /\ Len(r.songs) \in Nat
    BY <1>1
<1>7. F3 = songs
    <2>1. \A i \in 1..Len(r.songs) :
            Format(SongLine, <<NumberArg(i - 1), TextArg(r.songs[i])>>) = SongText(r, i)
        BY SongWritten
    <2> QED  BY <1>6, <2>1 DEF SongTexts
<1>8. CddbFile(r) = ((<<Hash, LineFeed>> \o F1) \o F2) \o FlattenSeq(F3)
    BY DEF CddbFile
<1>9. title \in Seq(Bytes)
    <2> DEFINE v == (a \o Slash) \o t
    <2>1. v \in Seq(Bytes)
        <3> HIDE DEF Bytes
        <3> QED  BY <1>3, KeysAreBytes
    <2> HIDE DEF v
    <2>2. TextLine(TitleKey, v) \in Seq(Bytes)
        BY <2>1, KeysAreBytes, LineBytes
    <2> QED  BY <2>2 DEF TitleText, v
<1>10. genre \in Seq(Bytes)
    BY <1>3, KeysAreBytes, LineBytes DEF GenreText
<1>11. songs \in Seq(Seq(Bytes)) /\ Len(songs) = Len(r.songs)
    <2>1. ASSUME NEW i \in 1..Len(r.songs) PROVE SongText(r, i) \in Seq(Bytes)
        <3> DEFINE d == Decimal(i - 1)  s == r.songs[i]  key == SongKey \o d
        <3>1. d \in Seq(Bytes) /\ s \in Seq(Bytes)
            BY SongWritten, OneLineBytes
        <3> HIDE DEF d, s
        <3>2. key \in Seq(Bytes)
            <4> HIDE DEF Bytes
            <4> QED  BY <3>1, KeysAreBytes
        <3> HIDE DEF key
        <3>3. TextLine(key, s) \in Seq(Bytes)
            BY <3>1, <3>2, LineBytes
        <3> QED  BY <3>3 DEF SongText, key, d, s
    <2> DEFINE n == Len(r.songs)  S == Seq(Bytes)
    <2>2. songs = [i \in 1..n |-> SongText(r, i)] /\ n \in Nat
        BY <1>6 DEF SongTexts
    <2>3. \A i \in 1..n : SongText(r, i) \in S
        BY <2>1
    <2> HIDE DEF songs, n, S
    <2>4. songs \in Seq(S) /\ Len(songs) = n
        BY <2>2, <2>3
    <2> QED  BY <2>4 DEF n, S
<1> QED  BY <1>4, <1>5, <1>7, <1>8, <1>9, <1>10, <1>11

LEMMA FileIsBytes ==
    ASSUME NEW r, IsLines(r)
    PROVE  CddbFile(r) \in Seq(Bytes)
<1> DEFINE B == Bytes  head == <<Hash, LineFeed>>  title == TitleText(r)  genre == GenreText(r)
           songs == SongTexts(r)  all == FlattenSeq(songs)
<1>1. /\ CddbFile(r) = ((head \o title) \o genre) \o all
      /\ title \in Seq(B) /\ genre \in Seq(B) /\ songs \in Seq(Seq(B))
    BY FileWritten
<1>2. Hash \in B /\ LineFeed \in B
    BY DEF Hash, LineFeed, Bytes
<1> HIDE DEF B
<1>3. head \in Seq(B)
    BY <1>2
<1> HIDE DEF songs
<1>4. all \in Seq(B)
    BY <1>1, FlattenIs
<1> HIDE DEF head, title, genre, all
<1>5. ((head \o title) \o genre) \o all \in Seq(B)
    BY <1>1, <1>3, <1>4
<1> QED  BY <1>1, <1>5 DEF B

\* The first line is cut at its first slash.
LEMMA FirstSlash ==
    ASSUME NEW value \in Text, FindSlash(value) # {}, NEW r
    PROVE  \E p \in FindSlash(value) :
                /\ \A q \in FindSlash(value) : p <= q
                /\ TakeTitle(r, value) = [r EXCEPT !.artist = SubSeq(value, 1, p - 1),
                                                   !.title = SubSeq(value, p + 3, Len(value))]
<1> DEFINE P(p) == p \in FindSlash(value) /\ \A q \in FindSlash(value) : p <= q
           p0 == CHOOSE p \in FindSlash(value) : \A q \in FindSlash(value) : p <= q
<1>1. FindSlash(value) \in SUBSET Nat
    BY DEF FindSlash
<1>2. \E p \in FindSlash(value) : \A q \in FindSlash(value) : p <= q
    BY <1>1, LeastNatural
<1>3. p0 \in FindSlash(value) /\ \A q \in FindSlash(value) : p0 <= q
    BY <1>2
<1>4. TakeTitle(r, value) = [r EXCEPT !.artist = SubSeq(value, 1, p0 - 1),
                                      !.title = SubSeq(value, p0 + 3, Len(value))]
    BY DEF TakeTitle
<1> HIDE DEF p0
<1> QED  BY <1>3, <1>4

LEMMA TitleTaken ==
    ASSUME NEW r, IsRecord(r), IsLines(r), NEW value \in OneLine
    PROVE  IsLines(TakeTitle(r, value))
<1>1. /\ r = [artist |-> r.artist, title |-> r.title, genre |-> r.genre,
              songs |-> r.songs, base |-> r.base]
      /\ value \in Text /\ Len(value) \in Nat
    BY OneLineText DEF IsRecord, Text
<1>2. CASE FindSlash(value) = {}
    <2>1. TakeTitle(r, value) = [r EXCEPT !.artist = value, !.title = value]
        BY <1>2 DEF TakeTitle
    <2> QED  BY <1>1, <2>1 DEF IsLines
<1>3. CASE FindSlash(value) # {}
    <2>1. PICK p \in FindSlash(value) :
            TakeTitle(r, value) = [r EXCEPT !.artist = SubSeq(value, 1, p - 1),
                                            !.title = SubSeq(value, p + 3, Len(value))]
        BY <1>1, <1>3, FirstSlash
    <2> DEFINE a == SubSeq(value, 1, p - 1)  b == SubSeq(value, p + 3, Len(value))
    <2>2. p \in 1..(Len(value) - 2)
        BY DEF FindSlash
    <2>3. a \in OneLine
        <3>1. 1 \in Nat \ {0} /\ p - 1 \in Int /\ p - 1 <= Len(value)
            BY <1>1, <2>2
        <3> QED  BY <3>1, PartIsOneLine
    <2>4. b \in OneLine
        <3>1. p + 3 \in Nat \ {0} /\ Len(value) \in Int /\ Len(value) <= Len(value)
            BY <1>1, <2>2
        <3> QED  BY <3>1, PartIsOneLine
    <2> HIDE DEF a, b
    <2>5. TakeTitle(r, value) = [r EXCEPT !.artist = a, !.title = b]
        BY <2>1 DEF a, b
    <2> QED  BY <1>1, <2>3, <2>4, <2>5 DEF IsLines
<1> QED  BY <1>2, <1>3

LEMMA BillionIs == Billion \in Nat
BY DEF Billion

\* The songs are counted from their base, whose number has nine digits.
LEMMA SongTaken ==
    ASSUME NEW r, IsRecord(r), IsLines(r), NEW value \in OneLine,
           NEW number \in 0..(Billion - 1)
    PROVE  IsLines(TakeSong(r, number, value))
<1> DEFINE base == IF r.songs = <<>> THEN number ELSE r.base
           songs == IF Len(r.songs) = number - base THEN Append(r.songs, value) ELSE r.songs
<1>1. TakeSong(r, number, value) = [r EXCEPT !.base = base, !.songs = songs]
    BY DEF TakeSong, IsRecord
<1>2. /\ r = [artist |-> r.artist, title |-> r.title, genre |-> r.genre,
              songs |-> r.songs, base |-> r.base]
      /\ r.artist \in OneLine /\ r.title \in OneLine /\ r.genre \in OneLine
      /\ r.songs \in Seq(OneLine) /\ r.base \in Nat /\ r.base + Len(r.songs) <= Billion
    BY DEF IsRecord, IsLines
<1>3. Billion \in Nat /\ number \in Nat /\ number < Billion
    BY BillionIs
<1>4. /\ songs \in Seq(OneLine) /\ base \in Nat
      /\ base + Len(songs) <= Billion
    <2> DEFINE S == OneLine  n == Len(r.songs)
    <2>1. r.songs \in Seq(S) /\ value \in S /\ n \in Nat /\ (r.songs = <<>> => n = 0)
        BY <1>2
    <2> HIDE DEF S
    <2>2. Append(r.songs, value) \in Seq(S) /\ Len(Append(r.songs, value)) = n + 1
        BY <2>1
    <2>3. base \in Nat /\ base + n <= Billion
        BY <1>2, <1>3, <2>1
    <2> DEFINE b == base  x == Append(r.songs, value)  B == Billion
    <2>4. b \in Nat /\ number \in Nat /\ n \in Nat /\ b + n <= B /\ number < B /\ B \in Nat
        BY <1>3, <2>1, <2>3
    <2>5. songs = IF n = number - b THEN x ELSE r.songs
        OBVIOUS
    <2> HIDE DEF b, x, B, songs, base, n
    <2>6. Len(x) = n + 1 /\ x \in Seq(S) /\ r.songs \in Seq(S) /\ Len(r.songs) = n
        BY <2>1, <2>2 DEF x, n
    <2>7. songs \in Seq(S) /\ b + Len(songs) <= B
        <3>1. CASE n = number - b
            BY <2>4, <2>5, <2>6, <3>1
        <3>2. CASE n # number - b
            BY <2>4, <2>5, <2>6, <3>2
        <3> QED  BY <3>1, <3>2
    <2> QED  BY <2>3, <2>7 DEF b, S, B
<1> HIDE DEF base, songs
<1>5. TakeSong(r, number, value) =
        [artist |-> r.artist, title |-> r.title, genre |-> r.genre,
         songs |-> songs, base |-> base]
    BY <1>1, <1>2
<1> QED  BY <1>2, <1>4, <1>5 DEF IsLines

LEMMA WithoutArtistOneLine ==
    ASSUME NEW song \in OneLine, NEW artist \in OneLine
    PROVE  WithoutArtist(song, artist) \in OneLine
<1>1. song \in Text /\ artist \in Text
    BY OneLineText
<1>2. Len(song) \in Nat /\ Len(artist) + 4 \in Nat \ {0}
    BY <1>1 DEF Text
<1>3. SubSeq(song, Len(artist) + 4, Len(song)) \in OneLine
    <2>1. Len(song) \in Int /\ Len(song) <= Len(song)
        BY <1>2
    <2> QED  BY <1>2, <2>1, PartIsOneLine
<1> QED  BY <1>3 DEF WithoutArtist

LEMMA CleanupTaken ==
    ASSUME NEW r, IsRecord(r), IsLines(r)
    PROVE  IsLines(Cleanup(r))
<1> DEFINE song(i) == Clean(WithoutArtist(r.songs[i], r.artist))
           songs == [i \in DOMAIN r.songs |-> song(i)]
           artist == Clean(r.artist)  title == Clean(r.title)  genre == Clean(r.genre)
           n == Len(r.songs)
<1>1. /\ r = [artist |-> r.artist, title |-> r.title, genre |-> r.genre,
              songs |-> r.songs, base |-> r.base]
      /\ r.artist \in OneLine /\ r.title \in OneLine /\ r.genre \in OneLine
      /\ r.songs \in Seq(OneLine) /\ r.base \in Nat /\ r.base + n <= Billion
    BY DEF IsRecord, IsLines
<1>2. DOMAIN r.songs = 1..n /\ n \in Nat /\ \A i \in 1..n : r.songs[i] \in OneLine
    <2> DEFINE S == OneLine
    <2>1. r.songs \in Seq(S)
        BY <1>1
    <2> HIDE DEF S
    <2>2. DOMAIN r.songs = 1..n /\ n \in Nat /\ \A i \in 1..n : r.songs[i] \in S
        BY <2>1
    <2> QED  BY <2>2 DEF S
<1>3. \A i \in 1..n : song(i) \in OneLine
    <2> TAKE i \in 1..n
    <2> DEFINE x == WithoutArtist(r.songs[i], r.artist)
    <2>1. x \in OneLine
        BY <1>1, <1>2, WithoutArtistOneLine
    <2>2. Decoded(x).good
        <3>1. r.songs[i] \in Accepted /\ r.artist \in Accepted
            BY DEF IsRecord
        <3>2. x \in Accepted
            BY <3>1, WithoutArtistType
        <3> QED  BY <3>2, AcceptedText
    <2> HIDE DEF x
    <2>3. Clean(x) \in OneLine
        BY <2>1, <2>2, CleanIsOneLine
    <2> QED  BY <2>3 DEF x
<1>4. artist \in OneLine /\ title \in OneLine /\ genre \in OneLine
    <2>1. Decoded(r.artist).good /\ Decoded(r.title).good /\ Decoded(r.genre).good
        BY AcceptedText DEF IsRecord
    <2> QED  BY <1>1, <2>1, CleanIsOneLine
<1>5. Cleanup(r) = [r EXCEPT !.artist = artist, !.title = title, !.genre = genre,
                             !.songs = songs]
    BY DEF Cleanup, IsRecord
<1>6. songs \in Seq(OneLine) /\ Len(songs) = n
    <2> DEFINE S == OneLine
    <2>1. songs = [i \in 1..n |-> song(i)] /\ n \in Nat /\ \A i \in 1..n : song(i) \in S
        BY <1>2, <1>3
    <2> HIDE DEF S, n, songs, song
    <2>2. songs \in Seq(S) /\ Len(songs) = n
        BY <2>1
    <2> QED  BY <2>2 DEF S
<1> HIDE DEF songs, artist, title, genre, n
<1>7. Cleanup(r) = [artist |-> artist, title |-> title, genre |-> genre,
                    songs |-> songs, base |-> r.base]
    BY <1>1, <1>5
<1>8. r.base + Len(songs) <= Billion
    BY <1>1, <1>6
<1> QED  BY <1>1, <1>4, <1>6, <1>7, <1>8 DEF IsLines

\* The bytes of a line are none of a newline.
LEMMA FeedLines ==
    ASSUME TextsInv, LinesInv, NEW state, Feed(state),
           line'.key \in OneLine, line'.value \in OneLine
    PROVE  LinesInv'
<1>1. /\ phase = "reading" /\ phase' = phase /\ file' = file /\ pos' = pos + 1
      /\ pos <= Len(file) /\ UNCHANGED <<rec, earlier>>
    BY DEF Feed
<1>2. pos \in Nat /\ Len(file) \in Nat
    BY DEF TextsInv, InputInv, Text
<1>3. pos' <= Len(file') + 2 /\ pos' <= Len(file') + 1
    BY <1>1, <1>2
<1> QED  BY <1>1, <1>3 DEF LinesInv

LEMMA ByteOfLine ==
    ASSUME TextsInv, LinesInv, NEW state, Feed(state)
    PROVE  /\ Ch \in Bytes /\ Ch \notin Newlines
           /\ line = [state |-> line.state, key |-> line.key, value |-> line.value]
           /\ line.key \in OneLine /\ line.value \in OneLine
           /\ <<Ch>> \in OneLine
<1>1. /\ file \in Seq(Bytes) /\ pos \in 1..Len(file) /\ file[pos] \notin Newlines
    BY DEF TextsInv, InputInv, LinesInv, Feed, AtNewline
<1>2. Ch \in Bytes /\ Ch \notin Newlines
    <2> HIDE DEF Bytes
    <2> QED  BY <1>1 DEF Ch
<1>3. line = [state |-> line.state, key |-> line.key, value |-> line.value]
    BY ByteOfFile
<1>4. <<Ch>> \in OneLine
    <2> DEFINE b == Ch  B == Bytes \ Newlines
    <2>1. b \in B
        BY <1>2
    <2> HIDE DEF b, B
    <2>2. <<b>> \in Seq(B)
        BY <2>1
    <2> QED  BY <2>2 DEF OneLine, b, B
<1> QED  BY <1>2, <1>3, <1>4 DEF LinesInv

LEMMA LineOfEmpty == EmptyLine.key \in OneLine /\ EmptyLine.value \in OneLine
                        /\ EmptyLine.state = "Start"
BY EmptyIsOneLine DEF EmptyLine

\* The actions that read a line.
LEMMA ReadingKeepsLines ==
    ASSUME TextsInv, LinesInv,
           BeginLine \/ ReadKey \/ ReadLimiter \/ BeginValue \/ ReadValue \/ ReadRest
    PROVE  LinesInv'
<1> DEFINE Lines == line'.key \in OneLine /\ line'.value \in OneLine
           key == Append(line.key, Ch)  value == Append(line.value, Ch)
<1>1. PICK state : Feed(state)
    BY DEF BeginLine, ReadKey, ReadLimiter, BeginValue, ReadValue, ReadRest
<1>2. /\ Ch \in Bytes /\ Ch \notin Newlines
      /\ line = [state |-> line.state, key |-> line.key, value |-> line.value]
      /\ line.key \in OneLine /\ line.value \in OneLine /\ <<Ch>> \in OneLine
    BY <1>1, ByteOfLine
<1>3. key \in OneLine /\ value \in OneLine
    BY <1>2, AppendIsOneLine
<1>4. CASE BeginLine
    <2>1. \/ line' = [line EXCEPT !.state = "Comment"] \/ line' = line
          \/ line' = [line EXCEPT !.state = "Key", !.key = <<Ch>>]
        BY <1>4 DEF BeginLine
    <2>2. Lines
        BY <1>2, <2>1
    <2> QED  BY <1>1, <2>2, FeedLines
<1>5. CASE ReadKey
    <2>1. \/ line' = [line EXCEPT !.state = "Limiter"]
          \/ line' = [line EXCEPT !.state = "Start2"]
          \/ line' = [line EXCEPT !.key = key]
        BY <1>5 DEF ReadKey
    <2> HIDE DEF key
    <2>2. Lines
        BY <1>2, <1>3, <2>1
    <2> QED  BY <1>1, <2>2, FeedLines
<1>6. CASE ReadLimiter
    <2>1. line' = line \/ \E x : line' = [line EXCEPT !.state = x]
        BY <1>6 DEF ReadLimiter
    <2>2. Lines
        BY <1>2, <2>1
    <2> QED  BY <1>1, <2>2, FeedLines
<1>7. CASE BeginValue
    <2>1. line' = line \/ line' = [line EXCEPT !.state = "Value", !.value = <<Ch>>]
        BY <1>7 DEF BeginValue
    <2>2. Lines
        BY <1>2, <2>1
    <2> QED  BY <1>1, <2>2, FeedLines
<1>8. CASE ReadValue
    <2>1. line' = line \/ line' = [line EXCEPT !.value = value]
        BY <1>8 DEF ReadValue
    <2> HIDE DEF value
    <2>2. Lines
        BY <1>2, <1>3, <2>1
    <2> QED  BY <1>1, <2>2, FeedLines
<1>9. CASE ReadRest
    <2>1. Lines
        BY <1>2, <1>9 DEF ReadRest
    <2> QED  BY <1>1, <2>1, FeedLines
<1> QED  BY <1>4, <1>5, <1>6, <1>7, <1>8, <1>9

LEMMA EndLineKeepsLines ==
    ASSUME TextsInv, LinesInv, EndLine
    PROVE  LinesInv'
<1> DEFINE value == TrimRight(line.value)
<1>1. /\ phase = "reading" /\ pos' = pos + 1 /\ file' = file
      /\ UNCHANGED <<rec, earlier>>
      /\ pos <= Len(file) \/ line.state = "Value"
      /\ \/ /\ phase' = "checking" /\ line' = [line EXCEPT !.value = value]
            /\ Fits(line.key, value)
         \/ phase' = phase /\ line' = EmptyLine
    BY DEF EndLine
<1>2. /\ line = [state |-> line.state, key |-> line.key, value |-> line.value]
      /\ line.key \in OneLine /\ line.value \in OneLine /\ line.key \in Text
      /\ pos \in Nat /\ Len(file) \in Nat
      /\ line.state = "Value" => pos <= Len(file) + 1
    BY <1>1 DEF TextsInv, InputInv, LinesInv, Text
<1>3. value \in OneLine
    BY <1>2, TrimRightIsOneLine
<1> HIDE DEF value
<1>4. pos' <= Len(file') + 2
    BY <1>1, <1>2
<1>5. CASE phase' = "checking" /\ line' = [line EXCEPT !.value = value] /\ Fits(line.key, value)
    <2>1. line'.key = line.key /\ line'.value = value
        BY <1>2, <1>5
    <2>2. Len(line.key) <= 15
        <3>1. Len(line.key) <= MaxKeyLen /\ MaxKeyLen \in 6..15 /\ Len(line.key) \in Nat
            BY <1>2, <1>5, LimitsAssumption DEF Fits, Text
        <3> QED  BY <3>1
    <2> QED  BY <1>1, <1>2, <1>3, <1>4, <1>5, <2>1, <2>2 DEF LinesInv
<1>6. CASE phase' = phase /\ line' = EmptyLine
    BY <1>1, <1>4, <1>6, LineOfEmpty DEF LinesInv
<1> QED  BY <1>1, <1>5, <1>6

\* A key that TTITLE begins.
LEMMA SongKeyLength ==
    ASSUME NEW key \in Text, IsPrefix(SongKey, key)
    PROVE  Len(key) >= 6
<1>1. Len(SongKey) = 6 /\ SongKey \in Text
    BY KeysAre
<1>2. Len(SongKey) <= Len(key)
    BY DEF IsPrefix
<1> QED  BY <1>1, <1>2 DEF Text

LEMMA TakeValueKeepsLines ==
    ASSUME TextsInv, LinesInv, TakeValue
    PROVE  LinesInv'
<1> DEFINE value == Encoded(line.value, ok)  number == SongNumber(line.key)
<1>1. /\ phase = "checking" /\ line' = EmptyLine /\ phase' = "reading"
      /\ UNCHANGED <<file, pos, earlier>>
    BY DEF TakeValue
<1>2. /\ line.value \in OneLine /\ line.key \in Text /\ Len(line.key) <= 15
      /\ IsRecord(rec) /\ IsLines(rec)
    BY <1>1 DEF TextsInv, InputInv, RecordInv, LinesInv
<1>3. value \in OneLine
    <2>1. line.value \in Text /\ \A i \in 1..Len(line.value) :
                line.value[i] \in Nat /\ line.value[i] \notin Newlines
        <3>1. \A x \in Bytes : x \in Nat
            BY DEF Bytes
        <3> QED  BY <1>2, <3>1, OneLineText
    <2>2. WideToUtf8(line.value) \in OneLine
        BY <2>1, WrittenIsOneLine
    <2> QED  BY <1>2, <2>2 DEF Encoded
<1>4. \/ rec' = TakeTitle(rec, value)
      \/ rec' = [rec EXCEPT !.genre = value]
      \/ IsPrefix(SongKey, line.key) /\ rec' = TakeSong(rec, number, value)
      \/ rec' = rec
    <2>1. rec' = CASE line.key = TitleKey -> TakeTitle(rec, value)
                   [] line.key = GenreKey -> [rec EXCEPT !.genre = value]
                   [] IsPrefix(SongKey, line.key) -> TakeSong(rec, number, value)
                   [] OTHER -> rec
        BY DEF TakeValue
    <2> HIDE DEF value, number
    <2> QED  BY <2>1
<1> HIDE DEF value
<1>5. IsLines(rec')
    <2>1. CASE rec' = TakeTitle(rec, value)
        BY <1>2, <1>3, <2>1, TitleTaken
    <2>2. CASE rec' = [rec EXCEPT !.genre = value]
        BY <1>2, <1>3, <2>2 DEF IsRecord, IsLines
    <2>3. CASE IsPrefix(SongKey, line.key) /\ rec' = TakeSong(rec, number, value)
        <3>1. number \in 0..(Billion - 1)
            BY <1>2, <2>3, SongKeyLength, SongNumberType
        <3> HIDE DEF number
        <3> QED  BY <1>2, <1>3, <2>3, <3>1, SongTaken
    <2>4. CASE rec' = rec
        BY <1>2, <2>4
    <2> QED  BY <1>4, <2>1, <2>2, <2>3, <2>4
<1> QED  BY <1>1, <1>5, LineOfEmpty DEF LinesInv

LEMMA FinishKeepsLines ==
    ASSUME TextsInv, LinesInv, Finish
    PROVE  LinesInv'
<1>1. /\ phase' = "done" /\ rec' = Cleanup(rec) /\ UNCHANGED <<file, pos, line, earlier>>
    BY DEF Finish
<1>2. IsLines(Cleanup(rec))
    BY CleanupTaken DEF TextsInv, RecordInv, LinesInv
<1> QED  BY <1>1, <1>2 DEF LinesInv

LEMMA EmptyIsLines == IsLines(EmptyRecord)
<1>1. <<>> \in Seq(OneLine) /\ Len(<<>>) = 0
    OBVIOUS
<1>2. 0 + 0 <= Billion
    BY DEF Billion
<1> QED  BY <1>1, <1>2, EmptyIsOneLine DEF IsLines, EmptyRecord

LEMMA NextFileKeepsLines ==
    ASSUME TextsInv, LinesInv, NextFile
    PROVE  LinesInv'
<1>1. /\ phase' = "reading" /\ pos' = 1 /\ line' = EmptyLine /\ rec' = EmptyRecord
      /\ earlier' = <<[texts |-> rec, measured |-> measured]>>
      /\ file' \in {CddbFile(rec)} \cup (IF file \in Versions THEN Versions ELSE {})
    BY DEF NextFile
<1>2. IsLines(rec)
    BY DEF LinesInv
<1>3. file' \in Seq(Bytes)
    <2>1. CddbFile(rec) \in Seq(Bytes)
        BY <1>2, FileIsBytes
    <2>2. \A f \in Versions : f \in Seq(Bytes)
        BY FilesAssumption
    <2> QED  BY <1>1, <2>1, <2>2
<1>4. pos' <= Len(file') + 2
    <2>1. Len(file') \in Nat
        BY <1>3
    <2> QED  BY <1>1, <2>1
<1>5. earlier'[1].texts = rec
    BY <1>1
<1>6. pos' <= Len(file') + 1 \/ line'.state # "Value"
    BY <1>1, LineOfEmpty
<1> QED  BY <1>1, <1>2, <1>3, <1>4, <1>5, <1>6, EmptyIsLines, LineOfEmpty DEF LinesInv

THEOREM LinesInvariant == Spec => []LinesInv
<1>1. Init => LinesInv
    <2> SUFFICES ASSUME Init PROVE LinesInv
        OBVIOUS
    <2>1. file \in Seq(Bytes) /\ Len(file) \in Nat
        BY FilesAssumption DEF Init
    <2>2. pos = 1 /\ line = EmptyLine /\ rec = EmptyRecord /\ phase = "reading" /\ earlier = <<>>
        BY DEF Init
    <2> QED  BY <2>1, <2>2, EmptyIsLines, LineOfEmpty DEF LinesInv
<1>2. TextsInv /\ LinesInv /\ [Next]_vars => LinesInv'
    <2> SUFFICES ASSUME TextsInv, LinesInv, [Next]_vars PROVE LinesInv'
        OBVIOUS
    <2>1. CASE BeginLine \/ ReadKey \/ ReadLimiter \/ BeginValue \/ ReadValue \/ ReadRest
        BY <2>1, ReadingKeepsLines
    <2>2. CASE EndLine
        BY <2>2, EndLineKeepsLines
    <2>3. CASE CheckByte
        BY <2>3 DEF CheckByte, LinesInv
    <2>4. CASE TakeValue
        BY <2>4, TakeValueKeepsLines
    <2>5. CASE Finish
        BY <2>5, FinishKeepsLines
    <2>6. CASE NextFile
        BY <2>6, NextFileKeepsLines
    <2>7. CASE UNCHANGED vars
        BY <2>7 DEF vars, LinesInv
    <2> QED  BY <2>1, <2>2, <2>3, <2>4, <2>5, <2>6, <2>7 DEF Next
<1> QED  BY <1>1, <1>2, TextsInvariant, PTL DEF Spec

\* No text of any file has a newline in it, neither those that are stored nor
\* those of the line that is read (diskrecord.cpp:67).
THEOREM TextsAreLines == Spec => []TextsTypeOK
<1>1. TextsInv /\ LinesInv => TextsTypeOK
    <2> SUFFICES ASSUME TextsInv, LinesInv PROVE TextsTypeOK
        OBVIOUS
    <2>1. pos \in 1..(Len(file) + 2)
        BY DEF TextsInv, InputInv, LinesInv, Text
    <2>2. /\ line.state \in {"Start", "Comment", "Key", "Limiter", "Start2", "Value", "Skip"}
          /\ phase \in {"reading", "checking", "done"}
        BY DEF TextsInv, InputInv, LineStates
    <2>3. \A s \in OneLine : IsText(s)
        BY DEF OneLine, IsText
    <2>4. /\ line.key \in OneLine /\ line.value \in OneLine
          /\ rec.artist \in OneLine /\ rec.title \in OneLine /\ rec.genre \in OneLine
          /\ rec.songs \in Seq(OneLine)
        BY DEF LinesInv, IsLines
    <2>5. \A i \in DOMAIN TextsOf(rec) : TextsOf(rec)[i] \in OneLine
        <3> TAKE i \in DOMAIN TextsOf(rec)
        <3>1. rec.songs \in Seq(Seq(Int))
            BY AcceptedSongs DEF TextsInv, RecordInv, IsRecord
        <3>2. /\ i \in 1..(Len(rec.songs) + 2)
              /\ TextsOf(rec)[1] = rec.artist /\ TextsOf(rec)[2] = rec.title
              /\ \A k \in 3..(Len(rec.songs) + 2) : TextsOf(rec)[k] = rec.songs[k - 2]
            BY <3>1, TextsOfRecord
        <3>3. CASE i \in 3..(Len(rec.songs) + 2)
            <4> DEFINE S == OneLine
            <4>1. rec.songs \in Seq(S) /\ i - 2 \in 1..Len(rec.songs)
                BY <2>4, <3>3
            <4> HIDE DEF S
            <4>2. rec.songs[i - 2] \in S
                BY <4>1
            <4> QED  BY <3>2, <3>3, <4>2 DEF S
        <3>4. Len(rec.songs) \in Nat
            BY <2>4
        <3> QED  BY <2>4, <3>2, <3>3, <3>4
    <2> QED  BY <2>1, <2>2, <2>3, <2>4, <2>5 DEF TextsTypeOK
<1> QED  BY <1>1, TextsInvariant, LinesInvariant, PTL

-----------------------------------------------------------------------------
(* What cleanup() has settled once and for all.                            *)

\* Title case of a text that has it.
Settled(t) == Titled(FromUtf8(t)) = FromUtf8(t)

LEMMA TitleCaseOnce ==
    ASSUME NEW w \in Text, NEW v \in Text, WrittenAs(ToTitleCase(w), v)
    PROVE  ToTitleCase(v) = v
<1> DEFINE u == ToTitleCase(w)  n == Len(w)
           low(i) == w[i] \in Alnum \cap Upper /\ ~StartsWord(w, i) /\ ~IsCD(w, i)
<1>1. n \in Nat /\ DOMAIN w = 1..n /\ \A i \in 1..n : w[i] \in Int
    BY DEF Text
<1>2. u = [i \in 1..n |-> IF low(i) THEN LowerOf[w[i]] ELSE w[i]]
    BY <1>1 DEF ToTitleCase
<1>3. Len(u) = n
    BY <1>1, <1>2
<1>4. Len(v) = n /\ DOMAIN v = 1..n
    BY <1>1, <1>3 DEF WrittenAs, Text
<1>5. \A i \in 1..n : v[i] = IF IsUnicode(u[i]) THEN u[i] ELSE 63
    BY <1>3 DEF WrittenAs
<1>6. \A i \in 1..n : u[i] = IF low(i) THEN LowerOf[w[i]] ELSE w[i]
    BY <1>2
<1> HIDE DEF u, n
<1>7. 63 \notin Alnum
    BY LibraryAssumption
<1>8. ASSUME NEW i \in 1..n, v[i] \in Alnum
      PROVE  v[i] = IF low(i) THEN LowerOf[w[i]] ELSE w[i]
    <2>1. v[i] = u[i]
        BY <1>5, <1>7, <1>8
    <2> QED  BY <1>6, <2>1
<1>9. ASSUME NEW i \in 1..n, w[i] \notin Alnum
      PROVE  v[i] \notin Alnum
    <2>1. ~low(i)
        BY <1>9
    <2>2. u[i] = w[i]
        BY <1>6, <2>1
    <2> QED  BY <1>5, <1>7, <1>9, <2>2
<1>10. ASSUME NEW i \in 1..n, v[i] \in Alnum, StartsWord(w, i)
       PROVE  StartsWord(v, i)
    <2>1. CASE i = 1
        BY <1>10, <2>1 DEF StartsWord
    <2>2. CASE i # 1
        <3>1. i - 1 \in 1..n /\ w[i - 1] \notin Alnum
            BY <1>1, <1>10, <2>2 DEF StartsWord
        <3>2. v[i - 1] \notin Alnum
            BY <1>9, <3>1
        <3> QED  BY <1>10, <3>2 DEF StartsWord
    <2> QED  BY <2>1, <2>2
<1>11. ASSUME NEW i \in 1..n, i # 1, v[i] = LetterD, IsCD(w, i)
       PROVE  IsCD(v, i)
    <2> DEFINE j == i - 1
    <2>1. j \in 1..n
        BY <1>1, <1>11
    <2>2. w[j] = LetterC /\ StartsWord(w, j)
        BY <1>11 DEF IsCD
    <2> HIDE DEF j
    <2>3. w[j] \in Alnum /\ ~low(j)
        BY <2>2 DEF StartsWord
    <2>4. u[j] = LetterC
        BY <1>6, <2>1, <2>2, <2>3
    <2>5. v[j] = LetterC
        <3>1. IsUnicode(u[j])
            BY <2>4 DEF LetterC, IsUnicode
        <3> QED  BY <1>5, <2>1, <2>4, <3>1
    <2>6. StartsWord(v, j)
        BY <1>10, <2>1, <2>2, <2>3, <2>5
    <2> QED  BY <1>11, <2>5, <2>6 DEF IsCD, j
<1>12. ASSUME NEW i \in 1..n, v[i] \in Alnum \cap Upper, ~StartsWord(v, i), ~IsCD(v, i)
       PROVE  LowerOf[v[i]] = v[i]
    <2>1. v[i] = IF low(i) THEN LowerOf[w[i]] ELSE w[i]
        BY <1>8, <1>12
    <2>2. CASE low(i)
        <3>1. w[i] \in Upper /\ v[i] = LowerOf[w[i]] /\ v[i] \in Upper
            BY <1>12, <2>1, <2>2
        <3>2. LowerOf[w[i]] \in Upper => LowerOf[LowerOf[w[i]]] = LowerOf[w[i]]
            <4> DEFINE ch == w[i]
            <4>1. ch \in Upper
                BY <3>1
            <4> HIDE DEF ch
            <4>2. LowerOf[ch] \in Upper => LowerOf[LowerOf[ch]] = LowerOf[ch]
                BY <4>1, LibraryAssumption
            <4> QED  BY <4>2 DEF ch
        <3> QED  BY <3>1, <3>2
    <2>3. CASE ~low(i)
        <3>1. v[i] = w[i]
            BY <2>1, <2>3
        <3>2. StartsWord(w, i) \/ IsCD(w, i)
            BY <1>12, <2>3, <3>1
        <3>3. ~StartsWord(w, i)
            BY <1>10, <1>12
        <3>4. i # 1
            BY <1>12, <3>1, <3>3 DEF StartsWord
        <3>5. v[i] = LetterD
            BY <3>1, <3>2, <3>3 DEF IsCD
        <3> QED  BY <1>11, <1>12, <3>2, <3>3, <3>4, <3>5
    <2> QED  BY <2>2, <2>3
<1>13. \A i \in DOMAIN v : ToTitleCase(v)[i] = v[i]
    <2> TAKE i \in DOMAIN v
    <2>1. ToTitleCase(v)[i] = IF v[i] \in Alnum \cap Upper /\ ~StartsWord(v, i) /\ ~IsCD(v, i)
                              THEN LowerOf[v[i]] ELSE v[i]
        BY DEF ToTitleCase
    <2>2. i \in 1..n
        BY <1>4
    <2> QED  BY <1>12, <2>1, <2>2
<1>14. ToTitleCase(v) = [i \in DOMAIN v |-> ToTitleCase(v)[i]]
    BY DEF ToTitleCase
<1>15. v = [i \in DOMAIN v |-> v[i]]
    BY DEF Text
<1> QED  BY <1>13, <1>14, <1>15

\* Title case is stable: what ConvertToTitlecase returns, it returns again.
LEMMA TitleCaseSettles ==
    ASSUME NEW t \in Text, Decoded(t).good
    PROVE  Settled(ConvertToTitlecase(t))
<1> DEFINE w == FromUtf8(t)  u == Titled(w)  z == WideToUtf8(u)  v == FromUtf8(z)
<1>1. ConvertToTitlecase(t) = IF u # w THEN z ELSE t
    BY DEF ConvertToTitlecase
<1>2. CASE u = w
    BY <1>1, <1>2 DEF Settled
<1>3. CASE u # w
    <2>1. w \in Text
        BY DecodedType
    <2> HIDE DEF w
    <2>2. u = ToTitleCase(w) /\ u \in Text
        BY <1>3, <2>1, TitledChars DEF Titled
    <2> HIDE DEF u
    <2>3. z \in Text
        BY <2>2, WrittenIsRead
    <2>4. WrittenAs(u, v)
        BY <2>2, CharsAsWritten
    <2> HIDE DEF z
    <2>5. v \in Text
        <3>1. Decoded(z).good
            BY <2>2, WrittenIsRead DEF z
        <3> QED  BY <2>3, DecodedType
    <2> HIDE DEF v
    <2>6. ToTitleCase(v) = v
        BY <2>1, <2>2, <2>4, <2>5, TitleCaseOnce
    <2>7. Titled(v) = v
        BY <2>6 DEF Titled
    <2>8. ConvertToTitlecase(t) = z
        BY <1>1, <1>3
    <2> QED  BY <2>7, <2>8 DEF Settled, v
<1> QED  BY <1>2, <1>3

LEMMA CleanSettles ==
    ASSUME NEW t \in Accepted
    PROVE  Settled(Clean(t))
<1> DEFINE c == TrimAll(t)
<1>1. t \in Text /\ Decoded(t).good
    BY AcceptedText
<1>2. c \in Text /\ Decoded(c).good
    BY <1>1, Trimmed
<1> HIDE DEF c
<1>3. Settled(ConvertToTitlecase(c))
    BY <1>2, TitleCaseSettles
<1> QED  BY <1>3 DEF Clean, c

\* A text that is clean stays as it is.
LEMMA CleanAgain ==
    ASSUME NEW t, TrimAll(t) = t, Settled(t)
    PROVE  /\ Clean(t) = t
           /\ Titled(FromUtf8(TrimAll(t))) = FromUtf8(t)
<1>1. Titled(FromUtf8(t)) = FromUtf8(t)
    BY DEF Settled
<1>2. ConvertToTitlecase(t) = t
    BY <1>1 DEF ConvertToTitlecase
<1> QED  BY <1>1, <1>2 DEF Clean

\* A part of a text, element by element.
PartOf(x, s, m, n) ==
    x \in Text /\ Len(x) = n - m + 1 /\ \A i \in 1..(n - m + 1) : x[i] = s[i + m - 1]

LEMMA PartIs ==
    ASSUME NEW s \in Text, NEW m \in Nat \ {0}, NEW n \in Int, n <= Len(s), m <= n + 1
    PROVE  PartOf(SubSeq(s, m, n), s, m, n)
BY DEF PartOf, Text

LEMMA OneMoreOf ==
    ASSUME NEW s \in Text, NEW i \in 1..Len(s)
    PROVE  /\ SubSeq(s, 1, i) = Append(SubSeq(s, 1, i - 1), s[i])
           /\ Len(SubSeq(s, 1, i - 1)) = i - 1
BY PrefixGrows DEF Text

\* Where " / " is.
LEMMA SlashFound ==
    ASSUME NEW value \in Text, NEW p
    PROVE  p \in FindSlash(value) <=>
                /\ p \in 1..(Len(value) - 2)
                /\ value[p] = 32 /\ value[p + 1] = 47 /\ value[p + 2] = 32
<1>1. ASSUME p \in 1..(Len(value) - 2)
      PROVE  SubSeq(value, p, p + 2) = Slash <=>
                value[p] = 32 /\ value[p + 1] = 47 /\ value[p + 2] = 32
    <2> DEFINE x == SubSeq(value, p, p + 2)
    <2>1. /\ x \in Text /\ Len(x) = 3
          /\ x[1] = value[p] /\ x[2] = value[p + 1] /\ x[3] = value[p + 2]
        <3>1. p \in Nat \ {0} /\ p + 2 \in Int /\ p + 2 <= Len(value) /\ p <= (p + 2) + 1
            BY <1>1 DEF Text
        <3>2. PartOf(x, value, p, p + 2)
            BY <3>1, PartIs
        <3> HIDE DEF x
        <3>3. (p + 2) - p + 1 = 3 /\ 1 + p - 1 = p /\ 2 + p - 1 = p + 1 /\ 3 + p - 1 = p + 2
            BY <3>1
        <3> QED  BY <3>2, <3>3 DEF PartOf
    <2>2. /\ Slash \in Text /\ Len(Slash) = 3
          /\ Slash[1] = 32 /\ Slash[2] = 47 /\ Slash[3] = 32
        BY FieldsAre DEF Slash
    <2> HIDE DEF x
    <2>3. ASSUME x[1] = 32, x[2] = 47, x[3] = 32 PROVE x = Slash
        <3>1. \A i \in 1..Len(x) : x[i] = Slash[i]
            <4> TAKE i \in 1..Len(x)
            <4>1. i = 1 \/ i = 2 \/ i = 3
                BY <2>1
            <4> QED  BY <2>2, <2>3, <4>1
        <3> QED  BY <2>1, <2>2, <3>1, SameElements
    <2>4. x = Slash => x[1] = 32 /\ x[2] = 47 /\ x[3] = 32
        BY <2>2
    <2>5. x = Slash <=> value[p] = 32 /\ value[p + 1] = 47 /\ value[p + 2] = 32
        BY <2>1, <2>3, <2>4
    <2> QED  BY <2>5 DEF x
<1> QED  BY <1>1 DEF FindSlash

\* The artist of a line ends before its first slash.
LEMMA ArtistIsFirm ==
    ASSUME NEW r, IsRecord(r), NEW value \in Text, ~Spaced(value)
    PROVE  Firm(TakeTitle(r, value).artist)
<1>1. r = [artist |-> r.artist, title |-> r.title, genre |-> r.genre,
           songs |-> r.songs, base |-> r.base]
    BY DEF IsRecord
<1>2. Len(value) \in Nat
    BY DEF Text
<1>3. CASE FindSlash(value) = {}
    <2>1. TakeTitle(r, value) = [r EXCEPT !.artist = value, !.title = value]
        BY <1>3 DEF TakeTitle
    <2>2. TakeTitle(r, value).artist = value
        BY <1>1, <2>1
    <2>3. ~HasSlash(value)
        BY <1>3, SlashFound DEF HasSlash
    <2> QED  BY <2>2, <2>3 DEF Firm
<1>4. CASE FindSlash(value) # {}
    <2>1. PICK p \in FindSlash(value) :
            /\ \A q \in FindSlash(value) : p <= q
            /\ TakeTitle(r, value) = [r EXCEPT !.artist = SubSeq(value, 1, p - 1),
                                               !.title = SubSeq(value, p + 3, Len(value))]
        BY <1>4, FirstSlash
    <2> DEFINE a == SubSeq(value, 1, p - 1)
    <2>2. TakeTitle(r, value).artist = a
        BY <1>1, <2>1
    <2>3. p \in 1..(Len(value) - 2)
        BY SlashFound
    <2>4. Len(a) = p - 1 /\ \A i \in 1..(p - 1) : a[i] = value[i]
        <3> DEFINE n == p - 1
        <3>1. n \in Nat /\ n <= Len(value) /\ 1 <= n + 1 /\ 1 \in Nat \ {0}
            BY <1>2, <2>3
        <3> HIDE DEF n
        <3>2. PartOf(SubSeq(value, 1, n), value, 1, n)
            BY <3>1, PartIs
        <3>3. PartOf(a, value, 1, n)
            BY <3>2 DEF n
        <3> HIDE DEF a
        <3>4. Len(a) = n /\ \A i \in 1..n : a[i] = value[i]
            BY <3>1, <3>3 DEF PartOf
        <3> QED  BY <3>4 DEF n
    <2> HIDE DEF a
    <2>5. ~HasSlash(a)
        <3> SUFFICES ASSUME HasSlash(a) PROVE FALSE
            OBVIOUS
        <3>1. PICK q \in 1..(Len(a) - 2) : a[q] = 32 /\ a[q + 1] = 47 /\ a[q + 2] = 32
            BY DEF HasSlash
        <3>2. /\ q \in 1..(p - 1) /\ q + 1 \in 1..(p - 1) /\ q + 2 \in 1..(p - 1)
              /\ q \in 1..(Len(value) - 2) /\ q < p
            BY <1>2, <2>3, <2>4
        <3>3. value[q] = 32 /\ value[q + 1] = 47 /\ value[q + 2] = 32
            BY <2>4, <3>1, <3>2
        <3>4. q \in FindSlash(value)
            BY <3>2, <3>3, SlashFound
        <3> QED  BY <2>1, <2>3, <3>2, <3>4
    <2>6. ~Spaced(a)
        <3> SUFFICES ASSUME Spaced(a) PROVE Spaced(value)
            OBVIOUS
        <3>1. 1 \in 1..(p - 1) /\ a[1] \in Spaces /\ Len(value) >= 1
            BY <1>2, <2>3, <2>4 DEF Spaced
        <3> QED  BY <2>4, <3>1 DEF Spaced
    <2> QED  BY <2>2, <2>5, <2>6 DEF Firm
<1> QED  BY <1>3, <1>4

\* What is known of a record that is stored, and of a value that is read.
Stable(r) ==
    /\ r.artist # <<>> /\ r.title # <<>> /\ Firm(r.artist)
    /\ \A i \in DOMAIN TextsOf(r) : Settled(TextsOf(r)[i])

StableInv ==
    /\ phase = "checking" => line.state = "Value"
    /\ line.state = "Value" => line.value # <<>> /\ ~Spaced(line.value)
    /\ Firm(rec.artist)
    /\ earlier # <<>> => Stable(earlier[1].texts)

LEMMA NothingIsFirm == Firm(<<>>)
BY DEF Firm, HasSlash, Spaced

LEMMA ReadingKeepsStable ==
    ASSUME TextsInv, StableInv,
           BeginLine \/ ReadKey \/ ReadLimiter \/ BeginValue \/ ReadValue \/ ReadRest
    PROVE  StableInv'
<1>1. PICK state : Feed(state)
    BY DEF BeginLine, ReadKey, ReadLimiter, BeginValue, ReadValue, ReadRest
<1>2. /\ Ch \in Int
      /\ line = [state |-> line.state, key |-> line.key, value |-> line.value]
      /\ line.key \in Text /\ line.value \in Text
    BY <1>1, ByteOfFile
<1>3. /\ phase = "reading" /\ phase' = phase /\ UNCHANGED <<rec, earlier>>
    BY <1>1 DEF Feed
<1>4. /\ line.state = "Value" => line.value # <<>> /\ ~Spaced(line.value)
      /\ Firm(rec.artist) /\ (earlier # <<>> => Stable(earlier[1].texts))
    BY DEF StableInv
<1> DEFINE Values == line'.state = "Value" => line'.value # <<>> /\ ~Spaced(line'.value)
<1>5. ASSUME BeginLine PROVE Values
    <2>1. line' = IF Ch = Hash THEN [line EXCEPT !.state = "Comment"]
                  ELSE IF Ch \in Spaces THEN line
                  ELSE [line EXCEPT !.state = "Key", !.key = <<Ch>>]
        BY <1>5 DEF BeginLine
    <2>2. line'.state # "Value" \/ line' = line
        BY <1>2, <2>1
    <2> QED  BY <1>4, <2>2
<1>6. ASSUME ReadKey PROVE Values
    <2>1. line.state = "Key"
        BY <1>6 DEF ReadKey, Feed
    <2>2. \/ line' = [line EXCEPT !.state = "Limiter"]
          \/ line' = [line EXCEPT !.state = "Start2"]
          \/ \E x : line' = [line EXCEPT !.key = x]
        BY <1>6 DEF ReadKey
    <2>3. line'.state # "Value"
        BY <1>2, <2>1, <2>2
    <2> QED  BY <2>3
<1>7. ASSUME ReadLimiter PROVE Values
    <2>1. line.state = "Limiter"
        BY <1>7 DEF ReadLimiter, Feed
    <2>2. \/ line' = line \/ line' = [line EXCEPT !.state = "Start2"]
          \/ line' = [line EXCEPT !.state = "Skip"]
        BY <1>7 DEF ReadLimiter
    <2>3. line'.state # "Value"
        BY <1>2, <2>1, <2>2
    <2> QED  BY <2>3
<1>8. ASSUME BeginValue PROVE Values
    <2>1. line.state = "Start2"
        BY <1>8 DEF BeginValue, Feed
    <2>2. \/ line' = line
          \/ Ch \notin Spaces /\ line' = [line EXCEPT !.state = "Value", !.value = <<Ch>>]
        BY <1>8 DEF BeginValue
    <2>3. <<Ch>> # <<>> /\ (Ch \notin Spaces => ~Spaced(<<Ch>>))
        BY DEF Spaced
    <2>4. Values
        <3>1. CASE line' = line
            BY <2>1, <3>1
        <3>2. CASE Ch \notin Spaces /\ line' = [line EXCEPT !.state = "Value", !.value = <<Ch>>]
            <4>1. line'.value = <<Ch>>
                BY <1>2, <3>2
            <4> QED  BY <2>3, <3>2, <4>1
        <3> QED  BY <2>2, <3>1, <3>2
    <2> QED  BY <2>4
<1>9. ASSUME ReadValue PROVE Values
    <2> DEFINE v == Append(line.value, Ch)
    <2>1. line.state = "Value" /\ line.value # <<>> /\ ~Spaced(line.value)
        BY <1>4, <1>9 DEF ReadValue, Feed
    <2>2. line' = line \/ line' = [line EXCEPT !.value = v]
        BY <1>9 DEF ReadValue
    <2>3. v # <<>> /\ ~Spaced(v)
        <3>1. /\ v # <<>>
              /\ Spaced(v) <=> (IF line.value = <<>> THEN Ch \in Spaces ELSE Spaced(line.value))
            BY <1>2, OneLonger
        <3> HIDE DEF v
        <3> QED  BY <2>1, <3>1
    <2> HIDE DEF v
    <2>4. Values
        <3>1. CASE line' = line
            BY <2>1, <3>1
        <3>2. CASE line' = [line EXCEPT !.value = v]
            <4>1. line'.value = v
                BY <1>2, <3>2
            <4> QED  BY <2>3, <4>1
        <3> QED  BY <2>2, <3>1, <3>2
    <2> QED  BY <2>4
<1>10. ASSUME ReadRest PROVE Values
    BY <1>4, <1>10 DEF ReadRest
<1>11. Values
    BY <1>5, <1>6, <1>7, <1>8, <1>9, <1>10
<1>12. phase' # "checking"
    BY <1>3
<1> QED  BY <1>3, <1>4, <1>11, <1>12 DEF StableInv

LEMMA EndLineKeepsStable ==
    ASSUME TextsInv, StableInv, EndLine
    PROVE  StableInv'
<1> DEFINE value == TrimRight(line.value)
<1>1. /\ phase = "reading" /\ UNCHANGED <<rec, earlier>>
      /\ \/ /\ phase' = "checking" /\ line' = [line EXCEPT !.value = value]
            /\ line.state = "Value" /\ Fits(line.key, value)
         \/ phase' = phase /\ line' = EmptyLine
    BY DEF EndLine
<1>2. /\ line = [state |-> line.state, key |-> line.key, value |-> line.value]
      /\ line.value \in Text
    BY DEF TextsInv, InputInv
<1>3. Firm(rec.artist) /\ (earlier # <<>> => Stable(earlier[1].texts))
    BY DEF StableInv
<1>4. ASSUME ~Spaced(line.value) PROVE ~Spaced(value)
    <2>1. PICK n \in 0..Len(line.value) : value = SubSeq(line.value, 1, n)
        BY <1>2, TrimRightIs
    <2> DEFINE k == SubSeq(line.value, 1, n)
    <2>2. Len(line.value) \in Nat /\ Len(k) = n /\ \A i \in 1..n : k[i] = line.value[i]
        BY <1>2 DEF Text
    <2> HIDE DEF k
    <2>3. ~Spaced(k)
        <3> SUFFICES ASSUME Spaced(k) PROVE Spaced(line.value)
            BY <1>4
        <3>1. n >= 1 /\ k[1] \in Spaces /\ 1 \in 1..n /\ Len(line.value) >= 1
            BY <2>2 DEF Spaced
        <3> QED  BY <2>2, <3>1 DEF Spaced
    <2> QED  BY <2>1, <2>3 DEF k
<1> HIDE DEF value
<1>5. CASE /\ phase' = "checking" /\ line' = [line EXCEPT !.value = value]
           /\ line.state = "Value" /\ Fits(line.key, value)
    <2>1. line'.state = "Value" /\ line'.value = value
        BY <1>2, <1>5
    <2>2. value # <<>> /\ ~Spaced(value)
        BY <1>4, <1>5 DEF StableInv, Fits
    <2> QED  BY <1>1, <1>3, <1>5, <2>1, <2>2 DEF StableInv
<1>6. CASE phase' = phase /\ line' = EmptyLine
    BY <1>1, <1>3, <1>6, LineOfEmpty DEF StableInv
<1> QED  BY <1>1, <1>5, <1>6

LEMMA TakeValueKeepsStable ==
    ASSUME TextsInv, StableInv, TakeValue
    PROVE  StableInv'
<1> DEFINE value == Encoded(line.value, ok)
<1>1. /\ phase = "checking" /\ line' = EmptyLine /\ phase' = "reading"
      /\ earlier' = earlier /\ (~ok \/ Len(narrow) = Len(line.value))
    BY DEF TakeValue
<1>2. /\ line.value \in Text /\ IsRecord(rec)
      /\ ~Spaced(line.value) /\ Firm(rec.artist)
      /\ earlier # <<>> => Stable(earlier[1].texts)
    BY <1>1 DEF TextsInv, InputInv, RecordInv, StableInv
<1>3. value \in Text /\ ~Spaced(value)
    <2>1. WideToUtf8(line.value) \in Text
             /\ (Spaced(WideToUtf8(line.value)) => Spaced(line.value))
        BY <1>2, WrittenLooksTheSame
    <2> QED  BY <1>2, <2>1 DEF Encoded
<1>4. \/ rec' = TakeTitle(rec, value)
      \/ rec' = [rec EXCEPT !.genre = value]
      \/ rec' = TakeSong(rec, SongNumber(line.key), value)
      \/ rec' = rec
    <2>1. rec' = CASE line.key = TitleKey -> TakeTitle(rec, value)
                   [] line.key = GenreKey -> [rec EXCEPT !.genre = value]
                   [] IsPrefix(SongKey, line.key) ->
                            TakeSong(rec, SongNumber(line.key), value)
                   [] OTHER -> rec
        BY DEF TakeValue
    <2> HIDE DEF value
    <2> QED  BY <2>1
<1> HIDE DEF value
<1>5. rec = [artist |-> rec.artist, title |-> rec.title, genre |-> rec.genre,
             songs |-> rec.songs, base |-> rec.base]
    BY <1>2 DEF IsRecord
<1>6. Firm(rec'.artist)
    <2>1. CASE rec' = TakeTitle(rec, value)
        BY <1>2, <1>3, <2>1, ArtistIsFirm
    <2>2. CASE rec' = [rec EXCEPT !.genre = value]
        <3>1. rec'.artist = rec.artist
            BY <1>5, <2>2
        <3> QED  BY <1>2, <3>1
    <2>3. CASE rec' = TakeSong(rec, SongNumber(line.key), value)
        <3>1. rec'.artist = rec.artist
            BY <1>5, <2>3 DEF TakeSong
        <3> QED  BY <1>2, <3>1
    <2>4. CASE rec' = rec
        BY <1>2, <2>4
    <2> QED  BY <1>4, <2>1, <2>2, <2>3, <2>4
<1> QED  BY <1>1, <1>2, <1>6, LineOfEmpty DEF StableInv

LEMMA FinishKeepsStable ==
    ASSUME TextsInv, StableInv, Finish
    PROVE  StableInv'
<1>1. /\ phase' = "done" /\ rec' = Cleanup(rec) /\ UNCHANGED <<line, earlier>>
    BY DEF Finish
<1>2. IsRecord(rec) /\ Firm(rec.artist)
    BY DEF TextsInv, RecordInv, StableInv
<1>3. Cleanup(rec).artist = Clean(rec.artist)
    BY <1>2, CleanupIs
<1>4. Firm(Clean(rec.artist))
    <2>1. rec.artist \in Text /\ Decoded(rec.artist).good
        BY <1>2, AcceptedText DEF IsRecord
    <2> QED  BY <1>2, <2>1, CleanStaysFirm
<1>5. Firm(rec'.artist)
    BY <1>1, <1>3, <1>4
<1> QED  BY <1>1, <1>5 DEF StableInv

LEMMA NextFileKeepsStable ==
    ASSUME TextsInv, StableInv, NextFile
    PROVE  StableInv'
<1>1. /\ phase = "done" /\ phase' = "reading" /\ line' = EmptyLine /\ rec' = EmptyRecord
      /\ earlier' = <<[texts |-> rec, measured |-> measured]>>
      /\ rec.artist # <<>> /\ rec.title # <<>>
    BY DEF NextFile, Valid
<1>2. IsRecord(taken) /\ rec = Cleanup(taken)
    BY <1>1 DEF TextsInv, RecordInv
<1>3. \A i \in DOMAIN TextsOf(rec) : Settled(TextsOf(rec)[i])
    <2> TAKE i \in DOMAIN TextsOf(rec)
    <2> DEFINE x == TextsOf(Stripped(taken))[i]
    <2>1. TextsOf(rec)[i] = Clean(x) /\ x \in Accepted
        BY <1>2, TextsOfCleanup
    <2> HIDE DEF x
    <2> QED  BY <2>1, CleanSettles
<1>4. Stable(rec)
    BY <1>1, <1>3 DEF Stable, StableInv
<1>5. earlier'[1].texts = rec
    BY <1>1
<1>6. Firm(rec'.artist)
    BY <1>1, NothingIsFirm DEF EmptyRecord
<1> QED  BY <1>1, <1>4, <1>5, <1>6, LineOfEmpty DEF StableInv

\* What is stored has been cleaned once and for all.
LEMMA StableInvariant == Spec => []StableInv
<1>1. Init => StableInv
    <2> SUFFICES ASSUME Init PROVE StableInv
        OBVIOUS
    <2>1. line = EmptyLine /\ rec = EmptyRecord /\ phase = "reading" /\ earlier = <<>>
        BY DEF Init
    <2>2. Firm(rec.artist)
        BY <2>1, NothingIsFirm DEF EmptyRecord
    <2> QED  BY <2>1, <2>2, LineOfEmpty DEF StableInv
<1>2. TextsInv /\ StableInv /\ [Next]_vars => StableInv'
    <2> SUFFICES ASSUME TextsInv, StableInv, [Next]_vars PROVE StableInv'
        OBVIOUS
    <2>1. CASE BeginLine \/ ReadKey \/ ReadLimiter \/ BeginValue \/ ReadValue \/ ReadRest
        BY <2>1, ReadingKeepsStable
    <2>2. CASE EndLine
        BY <2>2, EndLineKeepsStable
    <2>3. CASE CheckByte
        BY <2>3 DEF CheckByte, StableInv
    <2>4. CASE TakeValue
        BY <2>4, TakeValueKeepsStable
    <2>5. CASE Finish
        BY <2>5, FinishKeepsStable
    <2>6. CASE NextFile
        BY <2>6, NextFileKeepsStable
    <2>7. CASE UNCHANGED vars
        BY <2>7 DEF vars, StableInv
    <2> QED  BY <2>1, <2>2, <2>3, <2>4, <2>5, <2>6, <2>7 DEF Next
<1> QED  BY <1>1, <1>2, TextsInvariant, PTL DEF Spec

-----------------------------------------------------------------------------
(* What is written of a record is read back.                               *)

\* valid_utf8 takes what Decoded takes.
LEMMA CheckPasses ==
    ASSUME NEW d \in States, d.good = TRUE, d.left = remaining, NEW b \in Int,
           remaining > 0 => d.bits = codepoint /\ d.limit = lowerLimit,
           Decode(b), NEW e, e = NextByte(d, b), e.good = TRUE
    PROVE  ok'
<1>1. /\ d.good /\ remaining \in 0..3 /\ d.bits \in Nat /\ d.limit \in Nat
    BY StateFields
<1>2. ok
    BY DecodeTakes DEF Take
<1>3. e # Refused(d)
    BY RefusedType
<1>4. CASE Ascii(b)
    BY <1>2, <1>4 DEF Ascii
<1>5. CASE LeadByte(b)
    <2>1. \E n, bits, limit : Lead(b, n, bits, limit)
        BY <1>5, SMT DEF LeadByte
    <2> QED  BY <1>2, <2>1, SMT DEF Lead
<1>6. CASE Continue(b)
    <2> DEFINE bits == codepoint * 64 + (b - 128)
    <2>1. /\ remaining > 0 /\ Continuation(b)
          /\ IF remaining > 1 THEN UNCHANGED <<wide, again, ok>>
             ELSE IF bits < lowerLimit
                  THEN ok' = FALSE /\ UNCHANGED <<wide, again>>
                  ELSE Complete(bits) /\ UNCHANGED ok
        BY <1>6, Zenon DEF Continue
    <2>2. d.bits = codepoint /\ d.limit = lowerLimit /\ d.left # 0
        BY <1>1, <2>1
    <2>3. e = LaterByte(d, bits)
        <3>1. NextByte(d, b) = LaterByte(d, d.bits * 64 + (b - 128))
            BY <1>1, <2>1, <2>2, NextLaterByte
        <3> QED  BY <2>2, <3>1
    <2> HIDE DEF bits
    <2>4. CASE remaining > 1
        BY <1>2, <2>1, <2>4
    <2>5. CASE ~(remaining > 1) /\ bits < lowerLimit
        <3>1. e = Refused(d)
            BY <2>2, <2>3, <2>5 DEF LaterByte
        <3> QED  BY <1>3, <3>1
    <2>6. CASE ~(remaining > 1) /\ ~(bits < lowerLimit)
        BY <1>2, <2>1, <2>6
    <2> QED  BY <2>4, <2>5, <2>6
<1>7. CASE Refuse(b)
    <2>1. \/ remaining = 0 /\ (Continuation(b) \/ b > 247)
          \/ remaining > 0 /\ ~Continuation(b)
        BY <1>7 DEF Refuse
    <2>2. ASSUME remaining = 0, Continuation(b) \/ b > 247
          PROVE  e = Refused(d)
        <3>1. d.left = 0 /\ b >= 128 /\ b \notin 192..247
            BY <2>2 DEF Continuation
        <3> QED  BY <1>1, <3>1, NextFirstByte
    <2>3. ASSUME remaining > 0, ~Continuation(b)
          PROVE  e = Refused(d)
        <3>1. d.left # 0
            BY <1>1, <2>3
        <3>2. NextByte(d, b) = IF Continuation(b)
                               THEN LaterByte(d, d.bits * 64 + (b - 128)) ELSE Refused(d)
            BY <1>1, <3>1, NextLaterByte
        <3> QED  BY <2>3, <3>2
    <2> QED  BY <1>3, <2>1, <2>2, <2>3
<1> QED  BY <1>4, <1>5, <1>6, <1>7, Zenon DEF Decode

\* The check of a value that is accepted goes on.
LEMMA AcceptedPasses ==
    ASSUME TextsInv, CheckByte, ok, Decoded(line.value).good
    PROVE  ok'
<1> DEFINE n == Len(narrow) + 1  b == line.value[n]  value == line.value
           d == Decoded(narrow)  e == NextByte(d, b)
<1>1. Len(narrow) < Len(value) /\ Decode(b)
    BY DEF CheckByte
<1>2. /\ narrow \in Text /\ value \in Text
      /\ narrow = SubSeq(value, 1, Len(narrow))
    <2>1. narrow \in Text /\ narrow = SubSeq(value, 1, Len(narrow))
        BY DEF TextsInv, CheckInv
    <2>2. line.value \in Text
        BY DEF TextsInv, InputInv
    <2> QED  BY <2>1, <2>2
<1>3. n \in 1..Len(value) /\ n \in 0..Len(value) /\ Len(narrow) = n - 1
    BY <1>1, <1>2 DEF Text
<1> HIDE DEF n
<1>4. SubSeq(value, 1, n) = Append(narrow, b) /\ b \in Int
    <2>1. SubSeq(value, 1, n) = Append(SubSeq(value, 1, n - 1), b)
        BY <1>2, <1>3, OneMoreOf
    <2>2. b \in Int
        BY <1>2, <1>3 DEF Text
    <2> QED  BY <1>2, <1>3, <2>1, <2>2
<1>5. Decoded(SubSeq(value, 1, n)).good
    BY <1>2, <1>3, PrefixAccepted
<1>6. Decoded(Append(narrow, b)) = e
    <2> HIDE DEF b
    <2> QED  BY <1>2, <1>4, DecodedAppend
<1>7. d \in States
    BY <1>2, DecodedType
<1>8. d.good /\ d.left = remaining
         /\ (remaining > 0 => d.bits = codepoint /\ d.limit = lowerLimit)
    BY Zenon DEF TextsInv, CheckInv
<1> HIDE DEF d, b
<1>9. d.good = TRUE
    BY <1>7, <1>8 DEF States
<1>10. e \in States /\ e.good
    BY <1>4, <1>5, <1>6, <1>7, NextByteType
<1>11. e = NextByte(d, b)
    OBVIOUS
<1> HIDE DEF e
<1>12. e.good = TRUE
    BY <1>10 DEF States
<1> QED  BY <1>1, <1>4, <1>7, <1>8, <1>9, <1>11, <1>12, CheckPasses, Zenon

\* What stands behind a complete character is accepted if it is on its own.
Follows(d, e) ==
    d.good =>
        /\ e.good /\ e.left = d.left
        /\ d.left > 0 => e.bits = d.bits /\ e.limit = d.limit

LEMMA FollowsStep ==
    ASSUME NEW d \in States, NEW e \in States, Follows(d, e), NEW b \in Int
    PROVE  Follows(NextByte(d, b), NextByte(e, b))
<1> DEFINE D == NextByte(d, b)  E == NextByte(e, b)
<1> SUFFICES ASSUME D.good PROVE Follows(D, E)
    BY DEF Follows
<1>1. d.good
    BY NothingAfterRefusal
<1>2. /\ e.good /\ e.left = d.left
      /\ d.left > 0 => e.bits = d.bits /\ e.limit = d.limit
    BY <1>1 DEF Follows
<1>3. \A x : Follows(AddChar(d, x), AddChar(e, x))
    BY <1>1, <1>2 DEF Follows, AddChar
<1>4. ~Refused(d).good
    BY RefusedType
<1>5. \A n, y, limit : Follows(FirstByte(d, n, y, limit), FirstByte(e, n, y, limit))
    BY <1>1, <1>2 DEF FirstByte, Follows
<1>6. CASE d.left = 0
    <2>1. CASE b < 128
        <3>1. D = AddChar(d, b) /\ E = AddChar(e, b)
            BY <1>1, <1>2, <1>6, <2>1, NextFirstByte
        <3> QED  BY <1>3, <3>1
    <2>2. CASE b \in 192..223
        <3>1. D = FirstByte(d, 1, b - 192, 128) /\ E = FirstByte(e, 1, b - 192, 128)
            BY <1>1, <1>2, <1>6, <2>2, NextFirstByte
        <3> QED  BY <1>5, <3>1
    <2>3. CASE b \in 224..239
        <3>1. D = FirstByte(d, 2, b - 224, 2048) /\ E = FirstByte(e, 2, b - 224, 2048)
            BY <1>1, <1>2, <1>6, <2>3, NextFirstByte
        <3> QED  BY <1>5, <3>1
    <2>4. CASE b \in 240..247
        <3>1. D = FirstByte(d, 3, b - 240, 65536) /\ E = FirstByte(e, 3, b - 240, 65536)
            BY <1>1, <1>2, <1>6, <2>4, NextFirstByte, SMT
        <3> QED  BY <1>5, <3>1
    <2>5. CASE b >= 128 /\ b \notin 192..247
        <3>1. D = Refused(d)
            BY <1>1, <1>6, <2>5, NextFirstByte
        <3> QED  BY <1>4, <3>1
    <2> QED  BY <2>1, <2>2, <2>3, <2>4, <2>5, SMT
<1>7. CASE d.left # 0
    <2> DEFINE x == d.bits * 64 + (b - 128)
    <2>1. Continuation(b) /\ D = LaterByte(d, x)
        BY <1>1, <1>4, <1>7, NextLaterByte
    <2>2. d.left > 0
        BY <1>7, StateFields
    <2>3. E = LaterByte(e, x)
        <3>1. E = LaterByte(e, e.bits * 64 + (b - 128))
            BY <1>2, <1>7, <2>1, NextLaterByte
        <3> QED  BY <1>2, <2>2, <3>1
    <2>4. x \in Nat
        BY <2>1, StateFields DEF Continuation
    <2> HIDE DEF x, D, E
    <2>5. CASE d.left > 1
        <3>1. D.left = d.left - 1 /\ D.bits = x /\ D.limit = d.limit
            BY <2>1, <2>4, <2>5, NotTheLast
        <3>2. e.left > 1
            BY <1>2, <2>5
        <3>3. E.left = e.left - 1 /\ E.bits = x /\ E.limit = e.limit /\ E.good = e.good
            BY <2>3, <2>4, <3>2, NotTheLast
        <3> QED  BY <1>2, <2>2, <3>1, <3>3 DEF Follows
    <2>6. CASE d.left = 1
        <3>1. LaterByte(d, x).good
            BY <2>1
        <3>2. x >= d.limit /\ D = AddChar(d, x)
            BY <2>1, <2>4, <2>6, <3>1, TheLast
        <3>3. E = AddChar(e, x)
            <4>1. ~(e.left > 1) /\ ~(x < e.limit)
                <5>1. e.left = 1 /\ x >= e.limit
                    BY <1>2, <2>2, <2>6, <3>2
                <5>2. e.limit \in Nat
                    BY StateFields
                <5> QED  BY <2>4, <5>1, <5>2
            <4> QED  BY <2>3, <4>1 DEF LaterByte
        <3> QED  BY <1>3, <3>2, <3>3
    <2> QED  BY <2>2, <2>5, <2>6, StateFields
<1> QED  BY <1>6, <1>7

LEMMA JoinedAccepted ==
    ASSUME NEW p \in Text, Decoded(p).good, Decoded(p).left = 0,
           NEW q \in Text, Decoded(q).good
    PROVE  Decoded(p \o q).good
<1> DEFINE n == Len(q)
           pre(i) == SubSeq(q, 1, i)
           T == {i \in 0..n : Follows(Decoded(pre(i)), Decoded(p \o pre(i)))}
<1>1. n \in Nat
    BY DEF Text
<1>2. 0 \in T
    <2>1. pre(0) = <<>> /\ p \o <<>> = p
        BY WholePrefix, ConcatEmptySeq DEF Text
    <2>2. Follows(Fresh, Decoded(p))
        <3>1. Fresh.good /\ Fresh.left = 0
            BY DEF Fresh
        <3> QED  BY <3>1 DEF Follows
    <2>3. 0 \in 0..n
        BY <1>1
    <2> HIDE DEF pre, n
    <2> QED  BY <2>1, <2>2, <2>3, DecodedEmpty
<1>3. ASSUME NEW i \in 1..n, i - 1 \in T PROVE i \in T
    <2>1. pre(i - 1) \in Text /\ pre(i) = Append(pre(i - 1), q[i]) /\ q[i] \in Int
        BY PrefixGrows DEF Text
    <2> DEFINE u == pre(i - 1)  c == q[i]  d == Decoded(u)  e == Decoded(p \o u)
    <2>2. Follows(d, e)
        BY <1>3
    <2>3. u \in Text /\ c \in Int /\ pre(i) = Append(u, c)
        BY <2>1
    <2> HIDE DEF u, c, pre
    <2>4. p \o u \in Text /\ p \o Append(u, c) = Append(p \o u, c)
        BY <2>3, ConcatType, AppendConcat
    <2>5. Decoded(p \o pre(i)) = NextByte(e, c) /\ Decoded(pre(i)) = NextByte(d, c)
        BY <2>3, <2>4, DecodedAppend
    <2>6. d \in States /\ e \in States
        BY <2>3, <2>4, DecodedType
    <2> HIDE DEF d, e
    <2>7. Follows(NextByte(d, c), NextByte(e, c))
        BY <2>2, <2>3, <2>6, FollowsStep
    <2> QED  BY <1>1, <2>5, <2>7
<1>4. \A i \in 0..n : i \in T
    <2> HIDE DEF T
    <2> QED  BY <1>1, <1>2, <1>3, InductionUpTo
<1>5. n \in T
    BY <1>1, <1>4
<1>6. pre(n) = q
    BY WholePrefix DEF Text
<1> QED  BY <1>5, <1>6 DEF Follows

\* The line of artist and title.
LEMMA TitleAccepted ==
    ASSUME NEW a \in Accepted, IsUtf8(a), NEW t \in Accepted
    PROVE  (a \o Slash) \o t \in Accepted
<1>1. a \in Text /\ t \in Text /\ Decoded(t).good
    BY AcceptedText
<1>2. Decoded(a).good /\ Decoded(a).left = 0
    <2> DEFINE w == FromUtf8(a)
    <2>1. w \in Text /\ WideToUtf8(w) = a
        BY <1>1, DecodedType DEF IsUtf8
    <2> HIDE DEF w
    <2> QED  BY <2>1, WrittenIsRead
<1> DEFINE ab == Append(a, 32)  abs == Append(ab, 47)  absb == Append(abs, 32)
<1>3. ASSUME NEW s \in Text, Decoded(s).good, Decoded(s).left = 0,
             NEW b \in Int, b < 128
      PROVE  Append(s, b) \in Text /\ Decoded(Append(s, b)).good
                /\ Decoded(Append(s, b)).left = 0
    <2> DEFINE d == Decoded(s)
    <2>1. Append(s, b) \in Text /\ Decoded(Append(s, b)) = NextByte(d, b)
        BY DecodedAppend DEF Text
    <2>2. d \in States /\ d.good /\ d.left = 0
        BY <1>3, DecodedType
    <2> HIDE DEF d
    <2>3. NextByte(d, b) = AddChar(d, b)
        BY <1>3, <2>2, NextFirstByte
    <2>4. AddChar(d, b).good = d.good /\ AddChar(d, b).left = 0
        BY <2>2 DEF AddChar
    <2> QED  BY <2>1, <2>2, <2>3, <2>4
<1>4. ab \in Text /\ Decoded(ab).good /\ Decoded(ab).left = 0
    BY <1>1, <1>2, <1>3
<1>5. abs \in Text /\ Decoded(abs).good /\ Decoded(abs).left = 0
    <2> HIDE DEF ab
    <2> QED  BY <1>3, <1>4
<1>6. absb \in Text /\ Decoded(absb).good /\ Decoded(absb).left = 0
    <2> HIDE DEF abs
    <2> QED  BY <1>3, <1>5
<1>7. a \o Slash = absb
    <2>1. Slash = Append(Append(Append(<<>>, 32), 47), 32)
        BY DEF Slash
    <2>2. a \o <<>> = a
        BY <1>1, ConcatEmptySeq DEF Text
    <2>3. /\ a \o Append(<<>>, 32) = ab
          /\ a \o Append(Append(<<>>, 32), 47) = abs
          /\ a \o Append(Append(Append(<<>>, 32), 47), 32) = absb
        BY <1>1, <2>2 DEF Text
    <2> QED  BY <2>1, <2>3
<1> HIDE DEF absb
<1>8. Decoded(absb \o t).good
    BY <1>1, <1>6, JoinedAccepted
<1>9. absb \o t \in Text
    BY <1>1, <1>6, ConcatType
<1> QED  BY <1>7, <1>8, <1>9, TextAccepted

\* A text that is trimmed has blanks at neither end, and no two in a row.
Trim(t) ==
    /\ Len(t) >= 1 => t[1] # Blank /\ t[Len(t)] # Blank
    /\ \A i \in 2..Len(t) : ~(t[i - 1] = Blank /\ t[i] = Blank)

LEMMA TrimMultipleShortens ==
    ASSUME NEW t \in Text
    PROVE  /\ TrimMultiple(t) \in Text /\ Len(TrimMultiple(t)) <= Len(t)
           /\ Len(TrimMultiple(t)) = Len(t) =>
                \A i \in 2..Len(t) : ~(t[i - 1] = Blank /\ t[i] = Blank)
<1> DEFINE n == Len(t)  K == Kept(t)
           Double(i) == t[i - 1] = Blank /\ t[i] = Blank
           T == {i \in 0..n : Len(K[i]) <= i /\ \A j \in 2..i : Double(j) => Len(K[i]) < i}
<1>1. n \in Nat
    BY DEF Text
<1>2. /\ K \in [0..n -> Text] /\ K[0] = <<>> /\ TrimMultiple(t) = K[n]
      /\ \A j \in 1..n : K[j] = IF t[j] = Blank /\ j > 1 /\ t[j - 1] = Blank
                                THEN K[j - 1] ELSE Append(K[j - 1], t[j])
    BY KeptRecursion, TrimMultipleIs
<1> HIDE DEF K
<1>3. \A j \in 0..n : K[j] \in Text /\ Len(K[j]) \in Nat
    <2> TAKE j \in 0..n
    <2> DEFINE k == K[j]
    <2>1. k \in Text
        BY <1>2
    <2> HIDE DEF k
    <2>2. k \in Text /\ Len(k) \in Nat
        BY <2>1 DEF Text
    <2> QED  BY <2>2 DEF k
<1>4. 0 \in T
    BY <1>1, <1>2
<1>5. ASSUME NEW i \in 1..n, i - 1 \in T PROVE i \in T
    <2> DEFINE k == K[i - 1]
    <2>1. /\ k \in Text /\ Len(k) \in Nat /\ Len(k) <= i - 1
          /\ \A j \in 2..(i - 1) : Double(j) => Len(k) < i - 1
        BY <1>1, <1>3, <1>5
    <2>2. t[i] \in Int /\ i \in 0..n
        BY <1>1 DEF Text
    <2>3. CASE i > 1 /\ Double(i)
        <3>1. K[i] = k
            BY <1>2, <2>3
        <3>2. Len(K[i]) < i
            BY <2>1, <3>1
        <3> HIDE DEF k
        <3> QED  BY <2>2, <3>2
    <2>4. CASE ~(i > 1 /\ Double(i))
        <3>1. K[i] = Append(k, t[i])
            BY <1>2, <2>4
        <3> HIDE DEF k
        <3>2. Len(K[i]) = Len(k) + 1
            BY <2>1, <2>2, <3>1 DEF Text
        <3>3. ASSUME NEW j \in 2..i, Double(j) PROVE Len(K[i]) < i
            <4>1. j # i
                BY <2>4, <3>3
            <4>2. j \in 2..(i - 1)
                BY <4>1
            <4>3. Len(k) < i - 1
                BY <2>1, <3>3, <4>2
            <4> QED  BY <2>1, <3>2, <4>3
        <3>4. Len(K[i]) <= i
            BY <2>1, <3>2
        <3> HIDE DEF Double
        <3> QED  BY <2>2, <3>3, <3>4
    <2> QED  BY <2>3, <2>4
<1>6. \A i \in 0..n : i \in T
    <2> HIDE DEF T
    <2> QED  BY <1>1, <1>4, <1>5, InductionUpTo
<1>7. n \in T
    BY <1>1, <1>6
<1>8. /\ Len(K[n]) <= n
      /\ Len(K[n]) = n => \A j \in 2..n : ~Double(j)
    BY <1>7
<1>9. K[n] \in Text
    BY <1>1, <1>3
<1> QED  BY <1>2, <1>8, <1>9

LEMMA TrimAllTrims ==
    ASSUME NEW t \in Text, TrimAll(t) = t
    PROVE  Trim(t)
<1> DEFINE a == TrimRight(t)  b == TrimLeft(a)  c == TrimMultiple(b)
<1>1. t = c /\ Len(t) \in Nat
    BY DEF TrimAll, Text
<1>2. PICK n \in 0..Len(t) : a = SubSeq(t, 1, n) /\ (n = 0 \/ t[n] # Blank)
    BY TrimRightIs
<1>3. a \in Text /\ Len(a) = n /\ (n = Len(t) => a = t)
    <2> DEFINE s == SubSeq(t, 1, n)
    <2>1. s \in Text /\ Len(s) = n
        BY <1>1 DEF Text
    <2>2. n = Len(t) => s = t
        BY WholePrefix DEF Text
    <2> QED  BY <1>2, <2>1, <2>2
<1> HIDE DEF a
<1>4. PICK m \in 1..(Len(a) + 1) : b = SubSeq(a, m, Len(a)) /\ (m > Len(a) \/ a[m] # Blank)
    BY <1>3, TrimLeftIs
<1>5. b \in Text /\ Len(b) = Len(a) - m + 1 /\ (m = 1 => b = a)
    <2> DEFINE s == SubSeq(a, m, Len(a))
    <2>1. s \in Text /\ Len(s) = Len(a) - m + 1
        BY <1>3 DEF Text
    <2>2. m = 1 => s = a
        BY <1>3, WholePrefix DEF Text
    <2> QED  BY <1>4, <2>1, <2>2
<1> HIDE DEF b
<1>6. /\ Len(c) \in Nat /\ Len(c) <= Len(b)
      /\ Len(c) = Len(b) => \A i \in 2..Len(b) : ~(b[i - 1] = Blank /\ b[i] = Blank)
    <2>1. /\ c \in Text /\ Len(c) <= Len(b)
          /\ Len(c) = Len(b) => \A i \in 2..Len(b) : ~(b[i - 1] = Blank /\ b[i] = Blank)
        BY <1>5, TrimMultipleShortens
    <2> HIDE DEF c
    <2>2. Len(c) \in Nat
        BY <2>1 DEF Text
    <2> QED  BY <2>1, <2>2
<1> HIDE DEF c
<1>7. Len(c) = Len(t)
    BY <1>1
<1>8. n = Len(t) /\ m = 1
    BY <1>1, <1>3, <1>5, <1>6, <1>7
<1>9. a = t /\ b = t
    BY <1>3, <1>5, <1>8
<1>10. \A i \in 2..Len(t) : ~(t[i - 1] = Blank /\ t[i] = Blank)
    BY <1>6, <1>7, <1>9
<1>11. Len(t) >= 1 => t[1] # Blank /\ t[Len(t)] # Blank
    BY <1>1, <1>2, <1>4, <1>8, <1>9
<1> QED  BY <1>10, <1>11 DEF Trim

\* A key and a value that the parser takes as they are.
GoodKey(key) ==
    /\ key \in OneLine
    /\ Len(key) \in 6..MaxKeyLen /\ key[1] # Hash
    /\ \A i \in 1..Len(key) : key[i] \notin Spaces /\ key[i] # Equals
GoodValue(v) ==
    /\ v \in Accepted /\ Trim(v) /\ ~Spaced(v)
    /\ Len(v) \in 1..MaxValueLen

LEMMA TrimmedJoin ==
    ASSUME NEW a \in Text, NEW t \in Text, a # <<>>, t # <<>>, Trim(a), Trim(t),
           NEW v, IsConcat(v, a \o Slash, t)
    PROVE  Trim(v) /\ Len(v) = Len(a) + 3 + Len(t)
             /\ (\A i \in 1..Len(a) : v[i] = a[i])
             /\ v[Len(a) + 1] = 32 /\ v[Len(a) + 2] = 47 /\ v[Len(a) + 3] = 32
             /\ (\A i \in (Len(a) + 4)..(Len(a) + 3 + Len(t)) : v[i] = t[i - Len(a) - 3])
<1> DEFINE s == a \o Slash  m == Len(a)  n == Len(t)
<1>1. m \in Nat \ {0} /\ n \in Nat \ {0}
    BY DEF Text
<1>2. IsConcat(s, a, Slash)
    BY FieldsAre, ConcatIs
<1>3. Len(Slash) = 3 /\ Slash[1] = 32 /\ Slash[2] = 47 /\ Slash[3] = 32
    BY FieldsAre
<1>4. Len(s) = m + 3 /\ Len(v) = m + 3 + n
    BY <1>1, <1>2, <1>3 DEF IsConcat
<1>5. \A i \in 1..m : s[i] = a[i]
    BY <1>2 DEF IsConcat
<1>6. s[m + 1] = 32 /\ s[m + 2] = 47 /\ s[m + 3] = 32
    BY <1>1, <1>2, <1>3 DEF IsConcat
<1>7. /\ \A i \in 1..(m + 3) : v[i] = s[i]
      /\ \A i \in (m + 4)..(m + 3 + n) : v[i] = t[i - (m + 3)]
    BY <1>1, <1>4 DEF IsConcat
<1> HIDE DEF s, m, n
<1>8. \A i \in 1..m : v[i] = a[i]
    BY <1>1, <1>5, <1>7
<1>9. v[m + 1] = 32 /\ v[m + 2] = 47 /\ v[m + 3] = 32
    BY <1>1, <1>6, <1>7
<1>10. \A i \in (m + 4)..(m + 3 + n) : v[i] = t[i - m - 3]
    BY <1>1, <1>7
<1>11. /\ a[1] # Blank /\ a[m] # Blank /\ t[1] # Blank /\ t[n] # Blank
       /\ \A i \in 2..m : ~(a[i - 1] = Blank /\ a[i] = Blank)
       /\ \A i \in 2..n : ~(t[i - 1] = Blank /\ t[i] = Blank)
    BY <1>1 DEF Trim, m, n
<1>12. v[1] # Blank /\ v[Len(v)] # Blank
    <2>1. v[1] = a[1]
        BY <1>1, <1>8
    <2>2. v[m + 3 + n] = t[n]
        BY <1>1, <1>10
    <2> QED  BY <1>4, <1>11, <2>1, <2>2
<1>13. ASSUME NEW i \in 2..(m + 3 + n), v[i - 1] = Blank, v[i] = Blank
       PROVE  FALSE
    <2>1. CASE i <= m
        BY <1>1, <1>8, <1>11, <1>13, <2>1
    <2>2. CASE i = m + 1
        BY <1>1, <1>8, <1>11, <1>13, <2>2
    <2>3. CASE i = m + 2
        BY <1>1, <1>9, <1>13, <2>3 DEF Blank
    <2>4. CASE i = m + 3
        BY <1>1, <1>9, <1>13, <2>4 DEF Blank
    <2>5. CASE i = m + 4
        <3>1. v[i] = t[1]
            BY <1>1, <1>10, <2>5
        <3> QED  BY <1>11, <1>13, <3>1
    <2>6. CASE i > m + 4
        <3>1. v[i] = t[i - m - 3] /\ v[i - 1] = t[(i - m - 3) - 1] /\ i - m - 3 \in 2..n
            BY <1>1, <1>10, <2>6
        <3> QED  BY <1>11, <1>13, <3>1
    <2> QED  BY <1>1, <2>1, <2>2, <2>3, <2>4, <2>5, <2>6
<1>14. Trim(v)
    BY <1>4, <1>12, <1>13 DEF Trim
<1> QED  BY <1>4, <1>8, <1>9, <1>10, <1>14 DEF m, n

\* Artist and title are cut where they were put together.
LEMMA SlashedIsSuffix ==
    ASSUME NEW a \in Text, Slashed(a)
    PROVE  IsSuffix(<<Blank, 47>>, a)
<1> DEFINE s == <<Blank, 47>>  n == Len(a)  p == Reverse(s)  q == Reverse(a)
<1>1. n \in Nat /\ n >= 2 /\ a[n - 1] = 32 /\ a[n] = 47
    BY DEF Slashed, Text
<1>2. s \in Text /\ Len(s) = 2 /\ s[1] = 32 /\ s[2] = 47
    BY DEF Blank, Text
<1>3. p = [i \in 1..Len(s) |-> s[(Len(s) - i) + 1]]
    BY DEF Reverse
<1>4. q = [i \in 1..Len(a) |-> a[(Len(a) - i) + 1]]
    BY DEF Reverse
<1> HIDE DEF s
<1>5. p \in Text /\ Len(p) = 2 /\ p[1] = 47 /\ p[2] = 32
    <2>1. p = [i \in 1..2 |-> s[(2 - i) + 1]]
        BY <1>2, <1>3
    <2>2. \A i \in 1..2 : s[(2 - i) + 1] \in Int
        BY <1>2
    <2> HIDE DEF p
    <2>3. p \in Text /\ Len(p) = 2
        BY <2>1, <2>2 DEF Text
    <2> QED  BY <1>2, <2>1, <2>3
<1>6. q \in Text /\ Len(q) = n /\ q[1] = 47 /\ q[2] = 32
    <2>1. q = [i \in 1..n |-> a[(n - i) + 1]]
        BY <1>4
    <2>2. \A i \in 1..n : a[(n - i) + 1] \in Int
        BY <1>1 DEF Text
    <2> HIDE DEF q, n
    <2>3. q \in Text /\ Len(q) = n
        BY <1>1, <2>1, <2>2 DEF Text
    <2>4. (n - 1) + 1 = n /\ (n - 2) + 1 = n - 1
        BY <1>1
    <2> QED  BY <1>1, <2>1, <2>3, <2>4
<1> HIDE DEF p, q
<1> DEFINE x == SubSeq(p, 1, 2)  y == SubSeq(q, 1, 2)
<1>7. x \in Text /\ Len(x) = 2 /\ x[1] = 47 /\ x[2] = 32
    BY <1>5 DEF Text
<1>8. y \in Text /\ Len(y) = 2 /\ y[1] = 47 /\ y[2] = 32
    BY <1>1, <1>6 DEF Text
<1> HIDE DEF x, y
<1>9. x = y
    <2>1. \A i \in 1..Len(x) : x[i] = y[i]
        <3> TAKE i \in 1..Len(x)
        <3>1. i = 1 \/ i = 2
            BY <1>7
        <3> QED  BY <1>7, <1>8, <3>1
    <2> QED  BY <1>7, <1>8, <2>1, SameElements
<1>10. Len(p) <= Len(q) /\ SubSeq(p, 1, Len(p)) = SubSeq(q, 1, Len(p))
    BY <1>1, <1>5, <1>6, <1>9 DEF x, y
<1> QED  BY <1>10 DEF IsSuffix, IsPrefix, p, q, s

LEMMA TitleCut ==
    ASSUME NEW a \in Text, NEW t \in Text, a # <<>>, t # <<>>, Trim(a), Trim(t),
           ~Slashed(a), ~HasSlash(a), NEW s, IsRecord(s)
    PROVE  /\ TakeTitle(s, (a \o Slash) \o t).artist = a
           /\ TakeTitle(s, (a \o Slash) \o t).title = t
           /\ TakeTitle(s, (a \o Slash) \o t).songs = s.songs
           /\ TakeTitle(s, (a \o Slash) \o t).base = s.base
<1> DEFINE v == (a \o Slash) \o t  m == Len(a)  n == Len(t)
<1>1. m \in Nat \ {0} /\ n \in Nat \ {0}
    BY DEF Text
<1>2. v \in Text /\ IsConcat(v, a \o Slash, t)
    BY FieldsAre, ConcatType, ConcatIs
<1> HIDE DEF v
<1>3. /\ Len(v) = m + 3 + n
      /\ \A i \in 1..m : v[i] = a[i]
      /\ v[m + 1] = 32 /\ v[m + 2] = 47 /\ v[m + 3] = 32
      /\ \A i \in (m + 4)..(m + 3 + n) : v[i] = t[i - m - 3]
    BY <1>2, TrimmedJoin
<1>4. a[m] # 32
    BY <1>1 DEF Trim, Blank
<1>5. ~(m >= 2 /\ a[m - 1] = 32 /\ a[m] = 47)
    BY DEF Slashed
<1>6. \A i \in 1..(m - 2) : ~(a[i] = 32 /\ a[i + 1] = 47 /\ a[i + 2] = 32)
    BY DEF HasSlash
<1>7. a = SubSeq(v, 1, (m + 1) - 1)
    <2> DEFINE x == SubSeq(v, 1, m)
    <2> HIDE DEF m, n
    <2>1. PartOf(x, v, 1, m)
        BY <1>1, <1>2, <1>3, PartIs
    <2> HIDE DEF x
    <2>2. x \in Text /\ Len(x) = m /\ \A i \in 1..m : x[i] = a[i]
        BY <1>1, <1>3, <2>1 DEF PartOf
    <2>3. x = a
        BY <2>2, SameElements DEF m
    <2> QED  BY <1>1, <2>3 DEF x
<1>8. t = SubSeq(v, (m + 1) + 3, Len(v))
    <2> DEFINE x == SubSeq(v, m + 4, m + 3 + n)
    <2> HIDE DEF m, n
    <2>0. PartOf(x, v, m + 4, m + 3 + n)
        BY <1>1, <1>2, <1>3, PartIs
    <2> HIDE DEF x
    <2>1. x \in Text /\ Len(x) = n /\ \A i \in 1..n : x[i] = v[i + (m + 4) - 1]
        BY <1>1, <2>0 DEF PartOf
    <2>2. \A i \in 1..n : x[i] = t[i]
        <3> TAKE i \in 1..n
        <3>1. i + (m + 4) - 1 \in (m + 4)..(m + 3 + n) /\ (i + (m + 4) - 1) - m - 3 = i
            BY <1>1
        <3> QED  BY <1>3, <2>1, <3>1
    <2>3. x = t
        BY <2>1, <2>2, SameElements DEF n
    <2> QED  BY <1>1, <1>3, <2>3 DEF x
<1> HIDE DEF m, n
<1>9. m + 1 \in FindSlash(v)
    BY <1>1, <1>2, <1>3, SlashFound
<1>10. PICK p \in FindSlash(v) :
            /\ \A q \in FindSlash(v) : p <= q
            /\ TakeTitle(s, v) = [s EXCEPT !.artist = SubSeq(v, 1, p - 1),
                                           !.title = SubSeq(v, p + 3, Len(v))]
    BY <1>2, <1>9, FirstSlash
<1>11. p = m + 1
    <2>1. /\ p \in 1..(Len(v) - 2) /\ v[p] = 32 /\ v[p + 1] = 47 /\ v[p + 2] = 32
          /\ p <= m + 1
        BY <1>2, <1>9, <1>10, SlashFound
    <2>2. CASE p = m
        BY <1>1, <1>3, <1>4, <2>1, <2>2
    <2>3. CASE p = m - 1
        BY <1>1, <1>3, <1>5, <2>1, <2>3
    <2>4. CASE p < m - 1
        BY <1>1, <1>3, <1>6, <2>1, <2>4
    <2> QED  BY <1>1, <2>1, <2>2, <2>3, <2>4
<1>12. TakeTitle(s, v) = [s EXCEPT !.artist = a, !.title = t]
    <2> DEFINE x == SubSeq(v, 1, p - 1)  y == SubSeq(v, p + 3, Len(v))
    <2>1. x = a /\ y = t
        BY <1>7, <1>8, <1>11
    <2>2. TakeTitle(s, v) = [s EXCEPT !.artist = x, !.title = y]
        BY <1>10
    <2> HIDE DEF x, y
    <2> QED  BY <2>1, <2>2
<1>13. s = [artist |-> s.artist, title |-> s.title, genre |-> s.genre,
            songs |-> s.songs, base |-> s.base]
    BY DEF IsRecord
<1>14. /\ TakeTitle(s, v).artist = a /\ TakeTitle(s, v).title = t
       /\ TakeTitle(s, v).songs = s.songs /\ TakeTitle(s, v).base = s.base
    BY <1>12, <1>13
<1> QED  BY <1>14 DEF v

\* A key of letters and digits.
IsLetter(ch) == ch \in 48..90 /\ ch # 61

LEMMA LettersAreKey ==
    ASSUME NEW key \in Text, Len(key) \in 6..MaxKeyLen,
           \A i \in 1..Len(key) : IsLetter(key[i])
    PROVE  GoodKey(key)
<1>1. Len(key) \in Nat /\ 1 \in 1..Len(key) /\ MaxKeyLen \in Nat
    BY LimitsAssumption DEF Text
<1>2. \A ch : IsLetter(ch) => /\ ch \in Bytes /\ ch \notin Newlines /\ ch # Hash
                                /\ ch \notin Spaces /\ ch # Equals
    BY DEF IsLetter, Bytes, Newlines, Hash, Spaces, Equals
<1>3. key \in OneLine
    BY <1>2, TextOneLine
<1>4. key[1] # Hash
    BY <1>1, <1>2
<1>5. \A i \in 1..Len(key) : key[i] \notin Spaces /\ key[i] # Equals
    BY <1>2
<1> QED  BY <1>3, <1>4, <1>5 DEF GoodKey

LEMMA KeysAreGood ==
    /\ GoodKey(TitleKey) /\ GoodKey(GenreKey)
    /\ \A d, m, v : Reads(d, m, v) /\ m \in 1..9 /\ 6 + m <= MaxKeyLen
            => GoodKey(SongKey \o d) /\ IsPrefix(SongKey, SongKey \o d)
<1>1. MaxKeyLen \in 6..15
    BY LimitsAssumption
<1>2. GoodKey(TitleKey)
    <2>1. TitleKey \in Text /\ Len(TitleKey) = 6
        BY KeysAre
    <2>2. \A i \in 1..Len(TitleKey) : IsLetter(TitleKey[i])
        <3> TAKE i \in 1..Len(TitleKey)
        <3>1. i = 1 \/ i = 2 \/ i = 3 \/ i = 4 \/ i = 5 \/ i = 6
            BY <2>1
        <3> QED  BY <3>1, KeysAre DEF IsLetter
    <2>3. Len(TitleKey) \in 6..MaxKeyLen
        BY <1>1, <2>1
    <2> QED  BY <2>1, <2>2, <2>3, LettersAreKey
<1>3. GoodKey(GenreKey)
    <2>1. GenreKey \in Text /\ Len(GenreKey) = 6
        BY KeysAre
    <2>2. \A i \in 1..Len(GenreKey) : IsLetter(GenreKey[i])
        <3> TAKE i \in 1..Len(GenreKey)
        <3>1. i = 1 \/ i = 2 \/ i = 3 \/ i = 4 \/ i = 5 \/ i = 6
            BY <2>1
        <3> QED  BY <3>1, KeysAre DEF IsLetter
    <2>3. Len(GenreKey) \in 6..MaxKeyLen
        BY <1>1, <2>1
    <2> QED  BY <2>1, <2>2, <2>3, LettersAreKey
<1>4. \A i \in 1..6 : IsLetter(SongKey[i])
    <2> TAKE i \in 1..6
    <2>1. i = 1 \/ i = 2 \/ i = 3 \/ i = 4 \/ i = 5 \/ i = 6
        OBVIOUS
    <2> QED  BY <2>1, KeysAre DEF IsLetter
<1>5. ASSUME NEW d, NEW m \in 1..9, NEW v, Reads(d, m, v), 6 + m <= MaxKeyLen
      PROVE  GoodKey(SongKey \o d) /\ IsPrefix(SongKey, SongKey \o d)
    <2> DEFINE key == SongKey \o d
    <2>1. d \in Seq(Digit) /\ d \in Text /\ Len(d) = m
        BY <1>5, DigitsAreText DEF Reads
    <2>2. \A i \in 1..m : IsLetter(d[i])
        <3> DEFINE D == Digit
        <3>1. d \in Seq(D)
            BY <2>1
        <3> HIDE DEF D
        <3>2. \A i \in 1..m : d[i] \in D
            BY <2>1, <3>1
        <3>3. \A ch \in D : IsLetter(ch)
            BY DEF D, Digit, IsLetter
        <3> QED  BY <3>2, <3>3
    <2>3. SongKey \in Text /\ Len(SongKey) = 6
        BY KeysAre
    <2>4. IsConcat(key, SongKey, d)
        BY <2>1, <2>3, ConcatIs
    <2> HIDE DEF key
    <2>5. /\ key \in Text /\ Len(key) = 6 + m
          /\ \A i \in 1..6 : key[i] = SongKey[i]
          /\ \A i \in 7..(6 + m) : key[i] = d[i - 6]
        BY <2>1, <2>3, <2>4 DEF IsConcat
    <2>6. \A i \in 1..Len(key) : IsLetter(key[i])
        <3> TAKE i \in 1..Len(key)
        <3>1. CASE i <= 6
            <4>1. i \in 1..6
                BY <2>5, <3>1
            <4> QED  BY <1>4, <2>5, <4>1
        <3>2. CASE i > 6
            <4>1. i \in 7..(6 + m) /\ i - 6 \in 1..m
                BY <2>5, <3>2
            <4> QED  BY <2>2, <2>5, <4>1
        <3> QED  BY <3>1, <3>2
    <2>7. Len(key) \in 6..MaxKeyLen
        BY <1>1, <1>5, <2>5
    <2>8. GoodKey(key)
        BY <2>5, <2>6, <2>7, LettersAreKey
    <2>9. IsPrefix(SongKey, key)
        <3> DEFINE x == SubSeq(SongKey, 1, 6)  y == SubSeq(key, 1, 6)
        <3>1. PartOf(x, SongKey, 1, 6)
            <4>1. /\ 1 \in Nat \ {0} /\ 6 \in Int /\ 1 <= 6 + 1
                  /\ SongKey \in Text /\ 6 <= Len(SongKey)
                BY <2>3
            <4> QED  BY <4>1, PartIs
        <3>2. PartOf(y, key, 1, 6)
            BY <2>5, PartIs
        <3> HIDE DEF x, y
        <3>3. \A i \in 1..Len(x) : x[i] = y[i]
            BY <2>5, <3>1, <3>2 DEF PartOf
        <3>4. x = y
            BY <3>1, <3>2, <3>3, SameElements DEF PartOf
        <3> QED  BY <2>3, <2>5, <3>4 DEF IsPrefix, x, y
    <2> QED  BY <2>8, <2>9 DEF key
<1> QED  BY <1>2, <1>3, <1>5

\* The lines of a file, by their number.
LastLine(r) == Len(r.songs) + 2
LineKey(r, n) ==
    IF n = 1 THEN TitleKey ELSE IF n = 2 THEN GenreKey ELSE SongKey \o Decimal(n - 3)
LineValue(r, n) ==
    IF n = 1 THEN (r.artist \o Slash) \o r.title
    ELSE IF n = 2 THEN r.genre ELSE r.songs[n - 2]

\* A record whose lines the parser takes as they are, but for the genre.
IsStored(r) == IsRecord(r) /\ IsLines(r) /\ Stable(r) /\ Readable(r)

LEMMA StoredTexts ==
    ASSUME NEW r, IsStored(r)
    PROVE  /\ r.artist \in Accepted /\ r.title \in Accepted /\ r.songs \in Seq(Accepted)
           /\ r.artist # <<>> /\ r.title # <<>> /\ Firm(r.artist) /\ ~Slashed(r.artist)
           /\ TrimAll(r.artist) = r.artist /\ TrimAll(r.title) = r.title
           /\ Settled(r.artist) /\ Settled(r.title)
           /\ IsUtf8(r.artist) /\ Len((r.artist \o Slash) \o r.title) <= MaxValueLen
           /\ \A i \in 1..Len(r.songs) :
                /\ TrimAll(r.songs[i]) = r.songs[i] /\ Settled(r.songs[i])
                /\ ~IsPrefix(r.artist \o Slash, r.songs[i])
                /\ 6 + CountDigits(i - 1) <= MaxKeyLen
                /\ Len(r.songs[i]) \in 1..MaxValueLen /\ Head(r.songs[i]) \notin Spaces
<1>1. /\ r.artist \in Accepted /\ r.title \in Accepted /\ r.songs \in Seq(Accepted)
      /\ r.songs \in Seq(Seq(Int)) /\ r.artist \in Text
    BY AcceptedSongs, AcceptedText DEF IsStored, IsRecord
<1>2. Len(r.songs) \in Nat /\ DOMAIN r.songs = 1..Len(r.songs)
    BY <1>1
<1>3. /\ DOMAIN TextsOf(r) = 1..(Len(r.songs) + 2)
      /\ TextsOf(r)[1] = r.artist /\ TextsOf(r)[2] = r.title
      /\ \A i \in 1..Len(r.songs) : TextsOf(r)[i + 2] = r.songs[i]
    BY <1>1, TextsOfRecord
<1>4. \A i \in DOMAIN TextsOf(r) : TrimAll(TextsOf(r)[i]) = TextsOf(r)[i]
                                     /\ Settled(TextsOf(r)[i])
    BY DEF IsStored, Readable, Stable
<1>5. /\ TrimAll(r.artist) = r.artist /\ Settled(r.artist)
      /\ TrimAll(r.title) = r.title /\ Settled(r.title)
    <2>1. 1 \in DOMAIN TextsOf(r) /\ 2 \in DOMAIN TextsOf(r)
        BY <1>2, <1>3
    <2> QED  BY <1>3, <1>4, <2>1
<1>6. ASSUME NEW i \in 1..Len(r.songs)
      PROVE  TrimAll(r.songs[i]) = r.songs[i] /\ Settled(r.songs[i])
    <2>1. i + 2 \in DOMAIN TextsOf(r)
        BY <1>2, <1>3
    <2> QED  BY <1>3, <1>4, <2>1
<1>7. ASSUME NEW i \in 1..Len(r.songs)
      PROVE  /\ ~IsPrefix(r.artist \o Slash, r.songs[i])
             /\ 6 + CountDigits(i - 1) <= MaxKeyLen
             /\ Len(r.songs[i]) \in 1..MaxValueLen /\ Head(r.songs[i]) \notin Spaces
    <2>1. Readable(r) /\ i \in DOMAIN r.songs /\ Len(SongKey) = 6
        BY <1>2, KeysAre DEF IsStored
    <2> QED  BY <2>1 DEF Readable
<1>8. /\ r.artist # <<>> /\ r.title # <<>> /\ Firm(r.artist)
      /\ ~IsSuffix(<<Blank, 47>>, r.artist) /\ IsUtf8(r.artist)
      /\ Len((r.artist \o Slash) \o r.title) <= MaxValueLen
    BY DEF IsStored, Stable, Readable
<1>9. ~Slashed(r.artist)
    BY <1>1, <1>8, SlashedIsSuffix
<1> QED  BY <1>1, <1>5, <1>6, <1>7, <1>8, <1>9

\* What the lines of a stored record are to the parser.
LEMMA StoredLines ==
    ASSUME NEW r, IsStored(r), NEW n \in 1..LastLine(r)
    PROVE  /\ GoodKey(LineKey(r, n)) /\ LineValue(r, n) \in OneLine
           /\ n # 2 => GoodValue(LineValue(r, n))
           /\ n > 2 => /\ IsPrefix(SongKey, LineKey(r, n)) /\ LineKey(r, n) # TitleKey
                       /\ LineKey(r, n) # GenreKey
                       /\ SongNumber(LineKey(r, n)) = n - 3
<1>1. /\ r.artist \in Accepted /\ r.title \in Accepted /\ r.songs \in Seq(Accepted)
      /\ r.artist # <<>> /\ r.title # <<>> /\ Firm(r.artist)
      /\ TrimAll(r.artist) = r.artist /\ TrimAll(r.title) = r.title
      /\ IsUtf8(r.artist) /\ Len((r.artist \o Slash) \o r.title) <= MaxValueLen
    BY StoredTexts
<1>2. /\ IsLines(r) /\ r.artist \in OneLine /\ r.title \in OneLine /\ r.genre \in OneLine
      /\ r.songs \in Seq(OneLine)
    BY DEF IsStored, IsLines
<1>3. Len(r.songs) \in Nat /\ MaxValueLen \in Nat
    BY <1>1, LimitsAssumption
<1>4. CASE n = 1
    <2> DEFINE v == (r.artist \o Slash) \o r.title  a == r.artist  t == r.title
    <2>1. LineKey(r, n) = TitleKey /\ LineValue(r, n) = v
        BY <1>4 DEF LineKey, LineValue
    <2>2. v \in Accepted
        BY <1>1, TitleAccepted
    <2>3. v \in OneLine
        <3>1. Slash \in OneLine
            <4>1. \A i \in 1..Len(Slash) : Slash[i] \in Bytes /\ Slash[i] \notin Newlines
                <5> TAKE i \in 1..Len(Slash)
                <5>1. i = 1 \/ i = 2 \/ i = 3
                    BY FieldsAre
                <5>2. Slash[i] \in {32, 47}
                    BY <5>1, FieldsAre
                <5> QED  BY <5>2 DEF Bytes, Newlines
            <4> QED  BY <4>1, FieldsAre, TextOneLine
        <3> QED  BY <1>2, <3>1, ConcatIsOneLine
    <2>4. a \in Text /\ t \in Text
        BY <1>1, AcceptedText
    <2>5. Trim(a) /\ Trim(t)
        BY <1>1, <2>4, TrimAllTrims
    <2>6. IsConcat(v, a \o Slash, t)
        <3> DEFINE p == a \o Slash
        <3> HIDE DEF a, t
        <3>1. p \in Text
            BY <2>4, FieldsAre, ConcatType
        <3> HIDE DEF p
        <3>2. IsConcat(p \o t, p, t)
            BY <2>4, <3>1, ConcatIs
        <3> QED  BY <3>2 DEF p, a, t
    <2>7. v \in Text /\ Len(v) <= MaxValueLen /\ a # <<>> /\ t # <<>> /\ ~Spaced(a)
        BY <1>1, <2>2, AcceptedText DEF Firm
    <2> HIDE DEF v, a, t
    <2>8. Trim(v) /\ Len(v) = Len(a) + 3 + Len(t) /\ \A i \in 1..Len(a) : v[i] = a[i]
        BY <2>4, <2>5, <2>6, <2>7, TrimmedJoin
    <2>9. Len(a) \in Nat \ {0} /\ Len(t) \in Nat
        BY <2>4, <2>7 DEF Text
    <2>10. ~Spaced(v)
        <3>1. a[1] \notin Spaces /\ v[1] = a[1]
            BY <2>7, <2>8, <2>9 DEF Spaced
        <3> QED  BY <3>1 DEF Spaced
    <2>11. Len(v) \in 1..MaxValueLen
        BY <1>3, <2>7, <2>8, <2>9
    <2>12. GoodValue(v)
        BY <2>2, <2>8, <2>10, <2>11 DEF GoodValue
    <2> QED  BY <1>4, <2>1, <2>3, <2>12, KeysAreGood
<1>5. CASE n = 2
    <2>1. LineKey(r, n) = GenreKey /\ LineValue(r, n) = r.genre
        BY <1>5 DEF LineKey, LineValue
    <2> QED  BY <1>2, <1>5, <2>1, KeysAreGood
<1>6. CASE n > 2
    <2> DEFINE i == n - 2  d == Decimal(n - 3)  v == r.songs[n - 2]  m == CountDigits(n - 3)
    <2>1. LineKey(r, n) = SongKey \o d /\ LineValue(r, n) = v
        BY <1>6 DEF LineKey, LineValue
    <2>2. i \in 1..Len(r.songs) /\ i - 1 = n - 3 /\ n - 3 \in Nat
        BY <1>3, <1>6 DEF LastLine
    <2>3. Reads(d, m, n - 3) /\ m \in 1..9 /\ m \in Nat
        <3>1. Reads(Decimal(i - 1), CountDigits(i - 1), i - 1) /\ CountDigits(i - 1) \in 1..9
            <4> HIDE DEF i
            <4> QED  BY <1>2, <2>2, SongWritten
        <3> QED  BY <2>2, <3>1
    <2>4. /\ TrimAll(v) = v /\ 6 + m <= MaxKeyLen
          /\ Len(v) \in 1..MaxValueLen /\ Head(v) \notin Spaces
        <3>1. /\ TrimAll(r.songs[i]) = r.songs[i]
              /\ 6 + CountDigits(i - 1) <= MaxKeyLen
              /\ Len(r.songs[i]) \in 1..MaxValueLen /\ Head(r.songs[i]) \notin Spaces
            <4> HIDE DEF i
            <4> QED  BY <2>2, StoredTexts
        <3> QED  BY <2>2, <3>1
    <2>5. v \in OneLine /\ v \in Accepted
        BY <1>1, <1>2, <2>2
    <2>6. v \in Text
        BY <2>5, AcceptedText
    <2>7. GoodKey(SongKey \o d) /\ IsPrefix(SongKey, SongKey \o d)
        <3> HIDE DEF d, m
        <3> QED  BY <2>3, <2>4, KeysAreGood
    <2>8. SongNumber(SongKey \o d) = n - 3
        <3> HIDE DEF d, m
        <3> QED  BY <2>3, SongNumberRead
    <2> HIDE DEF v
    <2>9. GoodValue(v)
        <3>1. Trim(v)
            BY <2>4, <2>6, TrimAllTrims
        <3>2. ~Spaced(v)
            BY <2>4 DEF Spaced
        <3> QED  BY <2>4, <2>5, <3>1, <3>2 DEF GoodValue
    <2>10. SongKey \o d # TitleKey /\ SongKey \o d # GenreKey
        <3>1. d \in Text
            BY <2>3, DigitsAreText DEF Reads
        <3> HIDE DEF d
        <3>2. IsConcat(SongKey \o d, SongKey, d) /\ Len(SongKey) = 6 /\ SongKey[1] = 84
            BY <3>1, KeysAre, ConcatIs
        <3> DEFINE key == SongKey \o d
        <3>3. key[1] = 84
            BY <3>2 DEF IsConcat
        <3> HIDE DEF key
        <3>4. TitleKey[1] = 68 /\ GenreKey[1] = 68
            BY KeysAre
        <3>5. key # TitleKey /\ key # GenreKey
            BY <3>3, <3>4
        <3> QED  BY <3>5 DEF key
    <2> QED  BY <1>6, <2>1, <2>5, <2>7, <2>8, <2>9, <2>10
<1>7. n \in Nat /\ (n = 1 \/ n = 2 \/ n > 2)
    BY <1>3 DEF LastLine
<1> QED  BY <1>4, <1>5, <1>6, <1>7

\* Line n stands behind off[n].
LineLength(r, n) == Len(LineKey(r, n)) + Len(LineValue(r, n)) + 2
LineText(r, n) == TextLine(LineKey(r, n), LineValue(r, n))
LineAt(f, o, l) == \A k \in 1..Len(l) : f[o + k] = l[k]
Laid(f, r, off) ==
    /\ off \in [1..(LastLine(r) + 1) -> Nat]
    /\ off[1] = 2 /\ off[LastLine(r) + 1] = Len(f) /\ f[1] = Hash /\ f[2] = LineFeed
    /\ \A n \in 1..LastLine(r) :
        /\ off[n + 1] = off[n] + LineLength(r, n) /\ off[n + 1] <= Len(f)
        /\ LineAt(f, off[n], LineText(r, n))

LEMMA LineTexts ==
    ASSUME NEW r, IsLines(r), NEW n \in 1..LastLine(r)
    PROVE  /\ LineKey(r, n) \in Text /\ LineValue(r, n) \in Text
           /\ IsLine(LineText(r, n), LineKey(r, n), LineValue(r, n))
           /\ Len(LineText(r, n)) = LineLength(r, n)
           /\ LineText(r, n) = IF n = 1 THEN TitleText(r) ELSE IF n = 2 THEN GenreText(r)
                               ELSE SongTexts(r)[n - 2]
<1>1. /\ r.artist \in Text /\ r.title \in Text /\ r.genre \in Text
      /\ r.songs \in Seq(OneLine) /\ Len(r.songs) \in Nat
    BY OneLineText DEF IsLines
<1>2. /\ LineKey(r, n) \in Text /\ LineValue(r, n) \in Text
      /\ LineText(r, n) = IF n = 1 THEN TitleText(r) ELSE IF n = 2 THEN GenreText(r)
                          ELSE SongTexts(r)[n - 2]
    <2>1. CASE n = 1
        <3>1. LineKey(r, n) = TitleKey /\ LineValue(r, n) = (r.artist \o Slash) \o r.title
            BY <2>1 DEF LineKey, LineValue
        <3>2. (r.artist \o Slash) \o r.title \in Text
            BY <1>1, FieldsAre, ConcatType
        <3>3. LineText(r, n) = TitleText(r)
            BY <3>1 DEF LineText, TitleText
        <3> QED  BY <2>1, <3>1, <3>2, <3>3, KeysAre
    <2>2. CASE n = 2
        <3>1. LineKey(r, n) = GenreKey /\ LineValue(r, n) = r.genre
            BY <2>2 DEF LineKey, LineValue
        <3>2. LineText(r, n) = GenreText(r)
            BY <3>1 DEF LineText, GenreText
        <3> QED  BY <1>1, <2>2, <3>1, <3>2, KeysAre
    <2>3. CASE n > 2
        <3> DEFINE i == n - 2  d == Decimal(n - 3)  v == r.songs[n - 2]
        <3>1. LineKey(r, n) = SongKey \o d /\ LineValue(r, n) = v
            BY <2>3 DEF LineKey, LineValue
        <3>2. i \in 1..Len(r.songs) /\ i - 1 = n - 3
            BY <1>1, <2>3 DEF LastLine
        <3>3. v \in Text /\ d \in Text
            <4>1. Reads(Decimal(i - 1), CountDigits(i - 1), i - 1) /\ r.songs[i] \in OneLine
                <5> HIDE DEF i
                <5> QED  BY <3>2, SongWritten
            <4>2. Decimal(i - 1) \in Text /\ r.songs[i] \in Text
                BY <4>1, DigitsAreText, OneLineText DEF Reads
            <4> QED  BY <3>2, <4>2
        <3>4. SongKey \o d \in Text
            <4> HIDE DEF d
            <4> QED  BY <3>3, KeysAre, ConcatType
        <3>5. LineText(r, n) = SongTexts(r)[n - 2]
            <4>1. SongTexts(r)[i] = TextLine(SongKey \o Decimal(i - 1), r.songs[i])
                <5> HIDE DEF i
                <5> QED  BY <1>1, <3>2 DEF SongTexts, SongText
            <4> QED  BY <3>1, <3>2, <4>1 DEF LineText
        <3> QED  BY <2>3, <3>1, <3>3, <3>4, <3>5
    <2>4. n \in Nat /\ (n = 1 \/ n = 2 \/ n > 2)
        BY <1>1 DEF LastLine
    <2> QED  BY <2>1, <2>2, <2>3, <2>4
<1>3. IsLine(LineText(r, n), LineKey(r, n), LineValue(r, n))
    BY <1>2, TextLineIs DEF LineText
<1> QED  BY <1>2, <1>3 DEF IsLine, LineLength

\* cddb_file() of a record lays its lines one behind the other.
LEMMA FileLaid ==
    ASSUME NEW r, IsLines(r)
    PROVE  \E off : Laid(CddbFile(r), r, off)
<1> DEFINE f == CddbFile(r)  T == TitleText(r)  G == GenreText(r)  ss == SongTexts(r)
           h == <<Hash, LineFeed>>  p == h \o T  q == p \o G  l == FlattenSeq(ss)
           e == EndsOf(ss)  m == Len(r.songs)  t == Len(T)  g == Len(G)
           off == [n \in 1..(m + 3) |-> IF n = 1 THEN 2 ELSE IF n = 2 THEN 2 + t
                                        ELSE (2 + t + g) + e[n - 3]]
<1>1. /\ f = q \o l /\ T \in Seq(Bytes) /\ G \in Seq(Bytes)
      /\ ss \in Seq(Seq(Bytes)) /\ Len(ss) = m
    BY FileWritten
<1>2. \A s \in Seq(Bytes) : s \in Text
    BY FileIsText
<1>3. T \in Text /\ G \in Text /\ h \in Text /\ Len(h) = 2 /\ h[1] = Hash /\ h[2] = LineFeed
    BY <1>1, <1>2 DEF Hash, LineFeed, Text
<1>4. ss \in Seq(Text) /\ m \in Nat
    <2> DEFINE B == Seq(Bytes)
    <2>1. ss \in Seq(B) /\ \A s \in B : s \in Text
        BY <1>1, <1>2
    <2> HIDE DEF B, ss
    <2>2. m \in Nat /\ ss = [i \in 1..m |-> ss[i]] /\ \A i \in 1..m : ss[i] \in Text
        BY <1>1, <2>1
    <2> HIDE DEF m
    <2> QED  BY <2>2
<1>5. m + 2 = LastLine(r) /\ t \in Nat /\ g \in Nat
    BY <1>3 DEF LastLine, Text
<1>6. IsFlat(l, ss, e)
    BY <1>4, FlattenParts
<1>7. /\ l \in Text /\ e \in [0..m -> Nat] /\ e[0] = 0 /\ e[m] = Len(l)
      /\ \A j \in 1..m : e[j] = e[j - 1] + Len(ss[j]) /\ e[j] <= Len(l)
      /\ \A j \in 1..m : \A i \in 1..Len(ss[j]) : l[e[j - 1] + i] = ss[j][i]
    BY <1>1, <1>6 DEF IsFlat
<1>8. IsConcat(p, h, T) /\ p \in Text
    BY <1>3, ConcatIs, ConcatType
<1> HIDE DEF h, T, G, ss, l, e
<1>9. IsConcat(q, p, G) /\ q \in Text
    <2> HIDE DEF p
    <2> QED  BY <1>3, <1>8, ConcatIs, ConcatType
<1>10. IsConcat(f, q, l)
    <2> HIDE DEF q, f
    <2> QED  BY <1>1, <1>7, <1>9, ConcatIs
<1> HIDE DEF f, p, q
<1>11. /\ Len(p) = 2 + t /\ p[1] = Hash /\ p[2] = LineFeed
       /\ \A k \in 1..t : p[2 + k] = T[k]
    <2>1. Len(p) = 2 + t /\ p[1] = Hash /\ p[2] = LineFeed
        BY <1>3, <1>8 DEF IsConcat
    <2>2. \A k \in (2 + 1)..(2 + t) : p[k] = T[k - 2]
        BY <1>3, <1>8 DEF IsConcat
    <2>3. ASSUME NEW k \in 1..t PROVE p[2 + k] = T[k]
        <3>1. 2 + k \in 3..(2 + t) /\ (2 + k) - 2 = k
            BY <1>5
        <3> QED  BY <2>2, <3>1
    <2> QED  BY <2>1, <2>3
<1>12. /\ Len(q) = 2 + t + g /\ q[1] = Hash /\ q[2] = LineFeed
       /\ \A k \in 1..t : q[2 + k] = T[k]
       /\ \A k \in 1..g : q[(2 + t) + k] = G[k]
    <2> HIDE DEF t, g
    <2>1. Len(q) = 2 + t + g /\ \A k \in 1..(2 + t) : q[k] = p[k]
        BY <1>9, <1>11 DEF IsConcat, g
    <2>2. \A k \in ((2 + t) + 1)..((2 + t) + g) : q[k] = G[k - (2 + t)]
        BY <1>9, <1>11 DEF IsConcat, g
    <2>3. ASSUME NEW k \in 1..g PROVE q[(2 + t) + k] = G[k]
        <3>1. (2 + t) + k \in ((2 + t) + 1)..((2 + t) + g) /\ ((2 + t) + k) - (2 + t) = k
            BY <1>5
        <3> QED  BY <2>2, <3>1
    <2>4. q[1] = Hash /\ q[2] = LineFeed
        BY <1>5, <1>11, <2>1
    <2>5. ASSUME NEW k \in 1..t PROVE q[2 + k] = T[k]
        <3>1. 2 + k \in 1..(2 + t)
            BY <1>5
        <3> QED  BY <1>11, <2>1, <3>1
    <2> QED  BY <2>1, <2>3, <2>4, <2>5
<1> DEFINE b == 2 + t + g  L == Len(l)
<1>13. b \in Nat /\ L \in Nat /\ Len(q) = b
    BY <1>5, <1>7, <1>12 DEF Text
<1>14. /\ Len(f) = b + L
       /\ \A k \in 1..b : f[k] = q[k]
       /\ \A k \in 1..L : f[b + k] = l[k]
    <2> HIDE DEF b, L
    <2>1. Len(f) = b + L /\ \A k \in 1..b : f[k] = q[k]
        BY <1>10, <1>13 DEF IsConcat, L
    <2>2. \A k \in (b + 1)..(b + L) : f[k] = l[k - b]
        BY <1>10, <1>13 DEF IsConcat, L
    <2>3. ASSUME NEW k \in 1..L PROVE f[b + k] = l[k]
        <3>1. b + k \in (b + 1)..(b + L) /\ (b + k) - b = k
            BY <1>13
        <3> QED  BY <2>2, <3>1
    <2> QED  BY <2>1, <2>3
<1> HIDE DEF L, m
<1>15. /\ off[1] = 2 /\ off[2] = 2 + t
       /\ \A n \in 3..(m + 3) : off[n] = b + e[n - 3]
    BY <1>4
<1>16. off \in [1..(m + 3) -> Nat]
    <2>1. \A n \in 1..(m + 3) : off[n] \in Nat
        <3> TAKE n \in 1..(m + 3)
        <3> HIDE DEF off
        <3>1. CASE n = 1
            BY <1>15, <3>1
        <3>2. CASE n = 2
            BY <1>5, <1>15, <3>2
        <3>3. CASE n > 2
            <4>1. n \in 3..(m + 3) /\ n - 3 \in 0..m
                BY <1>4, <3>3
            <4>2. e[n - 3] \in Nat
                BY <1>7, <4>1
            <4> QED  BY <1>13, <1>15, <4>1, <4>2
        <3> QED  BY <3>1, <3>2, <3>3
    <2>2. off = [n \in 1..(m + 3) |-> off[n]]
        OBVIOUS
    <2> HIDE DEF off
    <2> QED  BY <2>1, <2>2
<1> HIDE DEF off
<1>17. off[m + 3] = Len(f) /\ f[1] = Hash /\ f[2] = LineFeed
    <2>1. off[m + 3] = b + e[m]
        <3>1. m + 3 \in 3..(m + 3) /\ (m + 3) - 3 = m
            BY <1>4
        <3> QED  BY <1>15, <3>1
    <2>2. 1 \in 1..b /\ 2 \in 1..b
        BY <1>5
    <2>3. Len(f) = b + e[m]
        BY <1>7, <1>14 DEF L
    <2>4. f[1] = q[1] /\ f[2] = q[2]
        BY <1>14, <2>2
    <2> QED  BY <1>12, <2>1, <2>3, <2>4
<1> DEFINE Line(n) == IF n = 1 THEN T ELSE IF n = 2 THEN G ELSE ss[n - 2]
<1>18. ASSUME NEW n \in 1..(m + 2)
       PROVE  /\ off[n + 1] = off[n] + Len(Line(n)) /\ off[n + 1] <= Len(f)
              /\ LineAt(f, off[n], Line(n))
    <2>1. CASE n = 1
        <3>1. Line(n) = T /\ off[n] = 2 /\ off[n + 1] = 2 + t
            BY <1>15, <2>1
        <3>2. 2 + t <= Len(f)
            BY <1>5, <1>13, <1>14
        <3>3. ASSUME NEW k \in 1..t PROVE f[2 + k] = T[k]
            <4>1. 2 + k \in 1..b
                BY <1>5
            <4>2. f[2 + k] = q[2 + k]
                BY <1>14, <4>1
            <4> QED  BY <1>12, <4>2
        <3> QED  BY <3>1, <3>2, <3>3 DEF LineAt
    <2>2. CASE n = 2
        <3>1. Line(n) = G /\ off[n] = 2 + t
            BY <1>15, <2>2
        <3>2. off[n + 1] = b
            <4>1. 3 \in 3..(m + 3) /\ 3 - 3 = 0
                BY <1>4
            <4>2. off[3] = b + e[0]
                BY <1>15, <4>1
            <4> QED  BY <1>7, <1>13, <2>2, <4>2
        <3>3. b <= Len(f) /\ b = (2 + t) + g
            BY <1>5, <1>13, <1>14
        <3>4. ASSUME NEW k \in 1..g PROVE f[(2 + t) + k] = G[k]
            <4>1. (2 + t) + k \in 1..b
                BY <1>5
            <4>2. f[(2 + t) + k] = q[(2 + t) + k]
                BY <1>14, <4>1
            <4> QED  BY <1>12, <4>2
        <3> QED  BY <3>1, <3>2, <3>3, <3>4 DEF LineAt
    <2>3. CASE n > 2
        <3> DEFINE j == n - 2
        <3>1. j \in 1..m /\ n \in 3..(m + 3) /\ n + 1 \in 3..(m + 3)
                /\ n - 3 = j - 1 /\ (n + 1) - 3 = j /\ j - 1 \in 0..m /\ j \in 0..m
            BY <1>4, <2>3
        <3>2. Line(n) = ss[j]
            BY <2>3
        <3> HIDE DEF j, b, Line
        <3>3. off[n] = b + e[j - 1] /\ off[n + 1] = b + e[j]
            BY <1>15, <3>1
        <3>4. /\ e[j] = e[j - 1] + Len(ss[j]) /\ e[j] <= L /\ e[j] \in Nat /\ e[j - 1] \in Nat
              /\ \A i \in 1..Len(ss[j]) : l[e[j - 1] + i] = ss[j][i]
            BY <1>7, <3>1 DEF L
        <3>5. ss[j] \in Text /\ Len(ss[j]) \in Nat
            <4>1. ss[j] \in Text
                BY <1>1, <1>4, <3>1
            <4> QED  BY <4>1 DEF Text
        <3>6. ASSUME NEW i \in 1..Len(ss[j]) PROVE f[off[n] + i] = ss[j][i]
            <4>1. e[j - 1] + i \in 1..L /\ off[n] + i = b + (e[j - 1] + i)
                <5> DEFINE x == e[j - 1]  y == e[j]  z == Len(ss[j])  o == off[n]
                <5>1. /\ x \in Nat /\ y \in Nat /\ z \in Nat /\ y = x + z /\ y <= L
                      /\ o = b + x /\ i \in 1..z
                    BY <3>3, <3>4, <3>5
                <5> HIDE DEF x, y, z, o
                <5>2. x + i \in 1..L /\ o + i = b + (x + i)
                    BY <1>13, <5>1
                <5> QED  BY <5>2 DEF x, o
            <4>2. f[b + (e[j - 1] + i)] = l[e[j - 1] + i]
                BY <1>14, <4>1
            <4> QED  BY <3>4, <4>1, <4>2
        <3>7. off[n + 1] = off[n] + Len(ss[j]) /\ off[n + 1] <= Len(f)
            <4> DEFINE x == e[j - 1]  y == e[j]  z == Len(ss[j])  o == off[n]  oo == off[n + 1]
            <4>1. /\ x \in Nat /\ y \in Nat /\ z \in Nat /\ y = x + z /\ y <= L
                  /\ o = b + x /\ oo = b + y
                BY <3>3, <3>4, <3>5
            <4>2. b \in Nat /\ L \in Nat /\ Len(f) = b + L
                BY <1>13, <1>14
            <4> HIDE DEF x, y, z, o, oo, b, L, f
            <4>3. oo = o + z /\ oo <= Len(f)
                BY <4>1, <4>2
            <4> QED  BY <4>3 DEF oo, o, z
        <3> QED  BY <3>2, <3>6, <3>7 DEF LineAt
    <2> QED  BY <1>4, <2>1, <2>2, <2>3
<1>19. ASSUME NEW n \in 1..(m + 2)
       PROVE  Line(n) = LineText(r, n) /\ Len(LineText(r, n)) = LineLength(r, n)
    <2>1. n \in 1..LastLine(r)
        BY <1>5
    <2> QED  BY <2>1, LineTexts DEF T, G, ss
<1>20. m + 3 = LastLine(r) + 1
    BY <1>4, <1>5
<1>21. \A n \in 1..LastLine(r) :
            /\ off[n + 1] = off[n] + LineLength(r, n) /\ off[n + 1] <= Len(f)
            /\ LineAt(f, off[n], LineText(r, n))
    <2> TAKE n \in 1..LastLine(r)
    <2>1. n \in 1..(m + 2)
        BY <1>5
    <2> HIDE DEF Line
    <2> QED  BY <1>18, <1>19, <2>1
<1>22. Laid(f, r, off)
    <2>1. off \in [1..(LastLine(r) + 1) -> Nat] /\ off[LastLine(r) + 1] = Len(f)
        BY <1>16, <1>17, <1>20
    <2> QED  BY <1>15, <1>17, <1>21, <2>1 DEF Laid
<1> QED  BY <1>22 DEF f

-----------------------------------------------------------------------------
(* Reading such a line.                                                    *)

\* The line when its character k is next.
InLine(l, key, v, k) ==
    \/ k = 1 /\ l = EmptyLine
    \/ /\ k \in 2..(Len(key) + 1)
       /\ l.state = "Key" /\ l.key = SubSeq(key, 1, k - 1) /\ l.value = <<>>
    \/ /\ k \in (Len(key) + 2)..(Len(key) + Len(v) + 2)
       /\ l.key = key /\ l.state \in {"Start2", "Value"}
       /\ GoodValue(v) =>
            /\ l.state = IF k = Len(key) + 2 THEN "Start2" ELSE "Value"
            /\ l.value = SubSeq(v, 1, k - Len(key) - 2)

\* What is read of a line takes its state.
ReadIn(state) ==
    CASE state = "Start" -> BeginLine [] state = "Key" -> ReadKey
      [] state = "Limiter" -> ReadLimiter [] state = "Start2" -> BeginValue
      [] state = "Value" -> ReadValue [] OTHER -> ReadRest
Reading == BeginLine \/ ReadKey \/ ReadLimiter \/ BeginValue \/ ReadValue \/ ReadRest

LEMMA ReadingIs ==
    ASSUME Reading
    PROVE  /\ ReadIn(line.state)
           /\ phase = "reading" /\ pos <= Len(file) /\ ~AtNewline /\ pos' = pos + 1
           /\ UNCHANGED <<file, rec, taken, measured, phase, earlier, decoder>>
<1>1. ASSUME NEW state, Feed(state)
      PROVE  /\ line.state = state
             /\ phase = "reading" /\ pos <= Len(file) /\ ~AtNewline /\ pos' = pos + 1
             /\ UNCHANGED <<file, rec, taken, measured, phase, earlier, decoder>>
    BY <1>1, Zenon DEF Feed
<1>2. CASE BeginLine
    <2>1. Feed("Start")
        BY <1>2 DEF BeginLine
    <2> QED  BY <1>1, <1>2, <2>1 DEF ReadIn
<1>3. CASE ReadKey
    <2>1. Feed("Key")
        BY <1>3 DEF ReadKey
    <2> QED  BY <1>1, <1>3, <2>1 DEF ReadIn
<1>4. CASE ReadLimiter
    <2>1. Feed("Limiter")
        BY <1>4 DEF ReadLimiter
    <2> QED  BY <1>1, <1>4, <2>1 DEF ReadIn
<1>5. CASE BeginValue
    <2>1. Feed("Start2")
        BY <1>5 DEF BeginValue
    <2> QED  BY <1>1, <1>5, <2>1 DEF ReadIn
<1>6. CASE ReadValue
    <2>1. Feed("Value")
        BY <1>6 DEF ReadValue
    <2> QED  BY <1>1, <1>6, <2>1 DEF ReadIn
<1>7. CASE ReadRest
    <2>1. Feed("Skip") \/ Feed("Comment")
        BY <1>7 DEF ReadRest
    <2> QED  BY <1>1, <1>7, <2>1 DEF ReadIn
<1> QED  BY <1>2, <1>3, <1>4, <1>5, <1>6, <1>7 DEF Reading

\* The characters of a line.
LEMMA LineChars ==
    ASSUME NEW key, GoodKey(key), NEW v \in OneLine, NEW l, l = TextLine(key, v)
    PROVE  /\ key \in Text /\ v \in Text /\ Len(key) \in Nat \ {0} /\ Len(v) \in Nat
           /\ Len(l) = Len(key) + Len(v) + 2
           /\ \A k \in 1..Len(key) : l[k] = key[k] /\ key[k] \notin Spaces /\ key[k] # Equals
           /\ l[1] # Hash
           /\ l[Len(key) + 1] = Equals
           /\ \A k \in (Len(key) + 2)..(Len(key) + Len(v) + 1) :
                l[k] = v[k - Len(key) - 1] /\ v[k - Len(key) - 1] \notin Newlines
           /\ l[Len(key) + Len(v) + 2] = LineFeed
<1>1. key \in Text /\ v \in Text /\ \A i \in 1..Len(v) : v[i] \notin Newlines
    BY OneLineText DEF GoodKey
<1>2. Len(key) \in Nat \ {0} /\ Len(v) \in Nat
    BY <1>1, LimitsAssumption DEF GoodKey, Text
<1>3. IsLine(l, key, v)
    BY <1>1, TextLineIs
<1>4. \A k \in 1..Len(key) : l[k] = key[k] /\ key[k] \notin Spaces /\ key[k] # Equals
    BY <1>3 DEF IsLine, GoodKey
<1>5. l[1] # Hash
    BY <1>2, <1>3 DEF IsLine, GoodKey
<1>6. ASSUME NEW k \in (Len(key) + 2)..(Len(key) + Len(v) + 1)
      PROVE  l[k] = v[k - Len(key) - 1] /\ v[k - Len(key) - 1] \notin Newlines
    <2>1. k - Len(key) - 1 \in 1..Len(v)
        BY <1>2
    <2> QED  BY <1>1, <1>3, <2>1 DEF IsLine
<1>7. /\ l[Len(key) + 1] = Equals /\ l[Len(key) + Len(v) + 2] = LineFeed
      /\ Len(l) = Len(key) + Len(v) + 2
    BY <1>3 DEF IsLine, Equals, LineFeed
<1> QED  BY <1>1, <1>2, <1>4, <1>5, <1>6, <1>7

\* From one character to the next one: the key, and the value.
LEMMA KeyIsRead ==
    ASSUME Reading, NEW CONSTANT key, GoodKey(key), NEW CONSTANT v \in OneLine,
           NEW CONSTANT k \in 1..(Len(key) + 1), InLine(line, key, v, k),
           line = [state |-> line.state, key |-> line.key, value |-> line.value],
           Ch = TextLine(key, v)[k]
    PROVE  InLine(line', key, v, k + 1)
<1> DEFINE l == TextLine(key, v)  K == Len(key)
<1>1. /\ key \in Text /\ v \in Text /\ K \in Nat \ {0} /\ Len(v) \in Nat
      /\ \A i \in 1..K : l[i] = key[i] /\ key[i] \notin Spaces /\ key[i] # Equals
      /\ l[1] # Hash /\ l[K + 1] = Equals
    BY LineChars
<1> HIDE DEF l
<1>2. Ch = l[k]
    BY DEF l
<1>3. ReadIn(line.state)
    BY ReadingIs
<1>4. CASE k = 1
    <2>1. line = EmptyLine
        BY <1>1, <1>4 DEF InLine
    <2>2. line.state = "Start" /\ line.value = <<>>
        BY <2>1 DEF EmptyLine
    <2>3. BeginLine
        BY <1>3, <2>2 DEF ReadIn
    <2>4. Ch = key[1] /\ Ch # Hash /\ Ch \notin Spaces
        BY <1>1, <1>2, <1>4
    <2>5. line' = [line EXCEPT !.state = "Key", !.key = <<Ch>>]
        BY <2>3, <2>4 DEF BeginLine
    <2>6. line'.state = "Key" /\ line'.key = <<Ch>> /\ line'.value = <<>>
        BY <2>2, <2>5
    <2>7. SubSeq(key, 1, 1) = <<key[1]>>
        BY <1>1, OneCharacter
    <2>8. k + 1 \in 2..(K + 1) /\ (k + 1) - 1 = 1
        BY <1>1, <1>4
    <2> QED  BY <2>4, <2>6, <2>7, <2>8 DEF InLine
<1>5. CASE k > 1
    <2>1. /\ k \in 2..(K + 1)
          /\ line.state = "Key" /\ line.key = SubSeq(key, 1, k - 1) /\ line.value = <<>>
        BY <1>1, <1>5 DEF InLine
    <2>2. ReadKey
        BY <1>3, <2>1 DEF ReadIn
    <2>3. CASE k <= K
        <3>1. Ch = key[k] /\ Ch \notin Spaces /\ Ch # Equals
            BY <1>1, <1>2, <2>3
        <3>2. line' = [line EXCEPT !.key = Append(@, Ch)]
            BY <2>2, <3>1 DEF ReadKey
        <3>3. line'.state = "Key" /\ line'.key = Append(line.key, Ch) /\ line'.value = <<>>
            BY <2>1, <3>2
        <3>4. SubSeq(key, 1, k) = Append(SubSeq(key, 1, k - 1), key[k])
            <4>1. k \in 1..Len(key)
                BY <2>3
            <4> QED  BY <1>1, <4>1, OneMoreOf
        <3>5. k + 1 \in 2..(K + 1) /\ (k + 1) - 1 = k
            BY <1>1, <2>3
        <3>6. line'.key = SubSeq(key, 1, (k + 1) - 1)
            BY <2>1, <3>1, <3>3, <3>4, <3>5
        <3> QED  BY <3>3, <3>5, <3>6 DEF InLine
    <2>4. CASE k = K + 1
        <3>1. Ch = Equals /\ Ch \notin Spaces
            BY <1>1, <1>2, <2>4 DEF Equals, Spaces
        <3>2. line' = [line EXCEPT !.state = "Start2"]
            BY <2>2, <3>1 DEF ReadKey
        <3>3. line'.state = "Start2" /\ line'.key = line.key /\ line'.value = <<>>
            BY <2>1, <3>2
        <3>4. line.key = key
            <4>1. k - 1 = Len(key)
                BY <1>1, <2>4
            <4> QED  BY <1>1, <2>1, <4>1, WholePrefix DEF Text
        <3>5. k + 1 = K + 2 /\ k + 1 \in (K + 2)..(K + Len(v) + 2) /\ (k + 1) - K - 2 = 0
            BY <1>1, <2>4
        <3>6. SubSeq(v, 1, 0) = <<>>
            BY <1>1, WholePrefix DEF Text
        <3>7. line'.value = SubSeq(v, 1, (k + 1) - K - 2)
            BY <3>3, <3>5, <3>6
        <3> QED  BY <3>3, <3>4, <3>5, <3>7 DEF InLine
    <2> QED  BY <1>1, <2>1, <2>3, <2>4
<1> QED  BY <1>4, <1>5

LEMMA ValueIsRead ==
    ASSUME Reading, NEW CONSTANT key, GoodKey(key), NEW CONSTANT v \in OneLine,
           NEW CONSTANT k \in (Len(key) + 2)..(Len(key) + Len(v) + 1),
           InLine(line, key, v, k),
           line = [state |-> line.state, key |-> line.key, value |-> line.value],
           Ch = TextLine(key, v)[k]
    PROVE  InLine(line', key, v, k + 1)
<1> DEFINE l == TextLine(key, v)  K == Len(key)  V == Len(v)  j == k - K - 1
<1>1. /\ key \in Text /\ v \in Text /\ K \in Nat \ {0} /\ V \in Nat
      /\ \A i \in (K + 2)..(K + V + 1) : l[i] = v[i - K - 1]
    BY LineChars
<1> HIDE DEF l
<1>2. Ch = v[j]
    BY <1>1 DEF l
<1>3. ReadIn(line.state)
    BY ReadingIs
<1>4. /\ line.key = key /\ line.state \in {"Start2", "Value"}
      /\ GoodValue(v) =>
            /\ line.state = IF k = K + 2 THEN "Start2" ELSE "Value"
            /\ line.value = SubSeq(v, 1, k - K - 2)
    BY <1>1 DEF InLine
<1>5. j \in 1..V /\ j - 1 = k - K - 2 /\ (k + 1) - K - 2 = j
    BY <1>1
<1>6. line'.key = key /\ line'.state \in {"Start2", "Value"}
    <2>1. CASE line.state = "Start2"
        <3>1. BeginValue
            BY <1>3, <2>1 DEF ReadIn
        <3>2. line' = line \/ line' = [line EXCEPT !.state = "Value", !.value = <<Ch>>]
            BY <3>1 DEF BeginValue
        <3> QED  BY <1>4, <3>2
    <2>2. CASE line.state = "Value"
        <3>1. ReadValue
            BY <1>3, <2>2 DEF ReadIn
        <3> DEFINE x == Append(line.value, Ch)
        <3>2. line' = line \/ line' = [line EXCEPT !.value = x]
            BY <3>1 DEF ReadValue
        <3> HIDE DEF x
        <3> QED  BY <1>4, <3>2
    <2> QED  BY <1>4, <2>1, <2>2
<1>7. ASSUME GoodValue(v)
      PROVE  line'.state = "Value" /\ line'.value = SubSeq(v, 1, j)
    <2>1. Trim(v) /\ ~Spaced(v) /\ V >= 1
        BY <1>7 DEF GoodValue
    <2>2. SubSeq(v, 1, j) = Append(SubSeq(v, 1, j - 1), v[j])
             /\ Len(SubSeq(v, 1, j - 1)) = j - 1
        <3> HIDE DEF j
        <3> QED  BY <1>1, <1>5, OneMoreOf
    <2>3. CASE j = 1
        <3>1. line.state = "Start2" /\ BeginValue
            <4>1. k = K + 2
                BY <1>1, <2>3
            <4> QED  BY <1>3, <1>4, <1>7, <4>1 DEF ReadIn
        <3>2. Ch \notin Spaces
            BY <1>2, <2>1, <2>3 DEF Spaced
        <3>3. line' = [line EXCEPT !.state = "Value", !.value = <<Ch>>]
            BY <3>1, <3>2 DEF BeginValue
        <3>4. line'.state = "Value" /\ line'.value = <<Ch>>
            BY <3>3
        <3>5. SubSeq(v, 1, 1) = <<v[1]>>
            BY <1>1, <2>1, OneCharacter
        <3> QED  BY <1>2, <2>3, <3>4, <3>5
    <2>4. CASE j > 1
        <3>1. line.state = "Value" /\ ReadValue /\ line.value = SubSeq(v, 1, j - 1)
            <4>1. k # K + 2
                BY <1>1, <2>4
            <4> QED  BY <1>3, <1>4, <1>5, <1>7, <4>1 DEF ReadIn
        <3>2. Last(line.value) = v[j - 1]
            <4> DEFINE x == SubSeq(v, 1, j - 1)
            <4> HIDE DEF j
            <4>1. PartOf(x, v, 1, j - 1)
                <5>1. 1 \in Nat \ {0} /\ j - 1 \in Int /\ j - 1 <= Len(v) /\ 1 <= (j - 1) + 1
                    BY <1>1, <1>5
                <5> QED  BY <1>1, <5>1, PartIs
            <4> HIDE DEF x
            <4>2. Len(x) = j - 1 /\ x[j - 1] = v[j - 1]
                <5> DEFINE i == j - 1
                <5>1. i \in Nat /\ i \in 1..i /\ i - 1 + 1 = i /\ i + 1 - 1 = i
                    BY <1>5, <2>4
                <5> HIDE DEF i
                <5>2. PartOf(x, v, 1, i) => Len(x) = i /\ x[i] = v[i]
                    BY <5>1 DEF PartOf
                <5> QED  BY <4>1, <5>2 DEF i
            <4> QED  BY <3>1, <4>2 DEF Last, x
        <3>3. ~(Ch = Blank /\ Last(line.value) = Blank)
            <4>1. j \in 2..V
                BY <1>1, <1>5, <2>4
            <4> HIDE DEF j
            <4> QED  BY <1>2, <2>1, <3>2, <4>1 DEF Trim
        <3> DEFINE x == Append(line.value, Ch)
        <3>4. line' = [line EXCEPT !.value = x]
            BY <3>1, <3>3 DEF ReadValue
        <3>5. x = SubSeq(v, 1, j)
            BY <1>2, <2>2, <3>1
        <3> HIDE DEF x
        <3>6. line'.state = "Value" /\ line'.value = x
            BY <3>1, <3>4
        <3> QED  BY <3>5, <3>6
    <2> QED  BY <1>5, <2>3, <2>4
<1>8. k + 1 \in (K + 2)..(K + V + 2) /\ k + 1 # K + 2
    BY <1>1
<1>9. GoodValue(v) => /\ line'.state = IF k + 1 = K + 2 THEN "Start2" ELSE "Value"
                      /\ line'.value = SubSeq(v, 1, (k + 1) - K - 2)
    BY <1>5, <1>7, <1>8
<1> QED  BY <1>6, <1>8, <1>9 DEF InLine

\* At the end of the line its value is taken.
Ends(key, v) ==
    \/ phase' = "checking" /\ line'.key = key /\ (GoodValue(v) => line'.value = v)
    \/ ~GoodValue(v) /\ phase' = "reading" /\ line' = EmptyLine

LEMMA TrimmedStays ==
    ASSUME NEW v \in Text, v # <<>>, Trim(v)
    PROVE  TrimRight(v) = v
<1>1. Len(v) \in Nat \ {0} /\ v[Len(v)] # Blank
    BY DEF Text, Trim
<1>2. PICK n \in 0..Len(v) : TrimRight(v) = SubSeq(v, 1, n)
                               /\ \A i \in 1..Len(v) : i > n => v[i] = Blank
    BY TrimRightIs
<1>3. n = Len(v)
    BY <1>1, <1>2
<1> QED  BY <1>2, <1>3, WholePrefix DEF Text

LEMMA LineEnds ==
    ASSUME EndLine, pos <= Len(file), NEW CONSTANT key, GoodKey(key), NEW CONSTANT v \in OneLine,
           NEW CONSTANT k \in 1..(Len(key) + Len(v) + 2), InLine(line, key, v, k),
           line = [state |-> line.state, key |-> line.key, value |-> line.value],
           Ch = TextLine(key, v)[k]
    PROVE  k = Len(key) + Len(v) + 2 /\ Ends(key, v)
<1> DEFINE l == TextLine(key, v)  K == Len(key)  V == Len(v)
<1>1. /\ key \in Text /\ v \in Text /\ K \in Nat \ {0} /\ V \in Nat
      /\ \A i \in 1..K : l[i] = key[i] /\ key[i] \notin Spaces
      /\ l[K + 1] = Equals
      /\ \A i \in (K + 2)..(K + V + 1) : l[i] = v[i - K - 1] /\ v[i - K - 1] \notin Newlines
    BY LineChars
<1> HIDE DEF l
<1>2. Ch = l[k]
    BY DEF l
<1>3. Ch \in Newlines /\ phase = "reading"
    BY DEF EndLine, AtNewline, Ch
<1>4. Newlines \subseteq Spaces /\ Equals \notin Newlines
    BY DEF Newlines, Spaces, Equals
<1>5. k = K + V + 2
    <2>1. ~(k \in 1..K)
        BY <1>1, <1>2, <1>3, <1>4
    <2>2. k # K + 1
        BY <1>1, <1>2, <1>3, <1>4
    <2>3. ~(k \in (K + 2)..(K + V + 1))
        BY <1>1, <1>2, <1>3
    <2> QED  BY <1>1, <2>1, <2>2, <2>3
<1>6. /\ line.key = key
      /\ GoodValue(v) =>
            /\ line.state = IF k = K + 2 THEN "Start2" ELSE "Value"
            /\ line.value = SubSeq(v, 1, k - K - 2)
    BY <1>1, <1>5 DEF InLine
<1> DEFINE t == TrimRight(line.value)
<1>7. IF line.state = "Value" /\ Fits(line.key, t)
      THEN phase' = "checking" /\ line' = [line EXCEPT !.value = t]
      ELSE line' = EmptyLine /\ phase' = phase
    BY DEF EndLine
<1>8. ASSUME GoodValue(v)
      PROVE  line.state = "Value" /\ Fits(line.key, t) /\ t = v
    <2>1. V \in 1..MaxValueLen /\ Trim(v) /\ v # <<>>
        BY <1>7, <1>8 DEF GoodValue
    <2>2. k # K + 2 /\ k - K - 2 = V
        BY <1>1, <1>5, <2>1
    <2>3. line.value = v
        BY <1>1, <1>6, <1>8, <2>2, WholePrefix DEF Text
    <2>4. t = v
        BY <1>1, <2>1, <2>3, TrimmedStays
    <2>5. key # <<>> /\ K <= MaxKeyLen
        BY LimitsAssumption DEF GoodKey
    <2>6. Fits(line.key, v)
        BY <1>6, <2>1, <2>5, LimitsAssumption DEF Fits
    <2> QED  BY <1>6, <1>8, <2>2, <2>4, <2>6
<1> HIDE DEF t
<1>9. CASE line.state = "Value" /\ Fits(line.key, t)
    <2>1. phase' = "checking" /\ line' = [line EXCEPT !.value = t]
        BY <1>7, <1>9
    <2>2. line'.key = key /\ line'.value = t
        BY <1>6, <2>1
    <2> QED  BY <1>5, <1>8, <2>1, <2>2 DEF Ends
<1>10. CASE ~(line.state = "Value" /\ Fits(line.key, t))
    <2>1. line' = EmptyLine /\ phase' = phase
        BY <1>7, <1>10
    <2> QED  BY <1>3, <1>5, <1>8, <1>10, <2>1 DEF Ends
<1> QED  BY <1>9, <1>10

-----------------------------------------------------------------------------
(* Where the parser is in the file of a stored record.                     *)

Offsets(r) == CHOOSE off : Laid(CddbFile(r), r, off)

LEMMA OffsetsAre ==
    ASSUME NEW r, IsLines(r)
    PROVE  Laid(CddbFile(r), r, Offsets(r))
<1>1. \E off : Laid(CddbFile(r), r, off)
    BY FileLaid
<1> QED  BY <1>1 DEF Offsets

\* What has been read of the record with so many lines.
ReadAs(r, s, n) ==
    /\ n >= 1 => s.artist = r.artist /\ s.title = r.title
    /\ Len(s.songs) = IF n <= 2 THEN 0 ELSE n - 2
    /\ n > 2 => s.base = 0
    /\ \A i \in 1..Len(s.songs) : s.songs[i] = r.songs[i]

AtHead(r) ==
    /\ phase = "reading" /\ ReadAs(r, rec, 0)
    /\ \/ pos = 1 /\ line = EmptyLine
       \/ pos = 2 /\ line.state = "Comment"
Inside(r, n, k) ==
    /\ n \in 1..LastLine(r) /\ k \in 1..LineLength(r, n)
    /\ phase = "reading" /\ ReadAs(r, rec, n - 1)
    /\ pos = Offsets(r)[n] + k
    /\ InLine(line, LineKey(r, n), LineValue(r, n), k)
Checking(r, n) ==
    /\ n \in 1..LastLine(r)
    /\ phase = "checking" /\ ReadAs(r, rec, n - 1)
    /\ pos = Offsets(r)[n + 1] + 1
    /\ line.key = LineKey(r, n)
    /\ GoodValue(LineValue(r, n)) => line.value = LineValue(r, n) /\ ok
AtEnd(r) ==
    /\ phase = "reading" /\ ReadAs(r, rec, LastLine(r))
    /\ pos = Len(file) + 1 /\ line = EmptyLine
AllRead(r) == phase = "done" /\ ReadAs(r, taken, LastLine(r))

Resumes(r) ==
    \/ AtHead(r) \/ AtEnd(r) \/ AllRead(r)
    \/ \E n \in 1..LastLine(r) : \E k \in 1..LineLength(r, n) : Inside(r, n, k)
    \/ \E n \in 1..LastLine(r) : Checking(r, n)

ResumeInv ==
    earlier # <<>> =>
        \A r \in {earlier[1].texts} : file = CddbFile(r) /\ Readable(r) => Resumes(r)

\* The file is that of the stored record.
Stored(r) == IsStored(r) /\ Laid(file, r, Offsets(r))

\* A line lies in the file.
LEMMA LineLies ==
    ASSUME TextsInv, NEW CONSTANT r, Stored(r), NEW CONSTANT n \in 1..LastLine(r)
    PROVE  /\ LastLine(r) \in Nat /\ LastLine(r) >= 2 /\ Len(file) \in Nat /\ Len(file) > 2
           /\ Offsets(r)[n] \in Nat /\ LineLength(r, n) \in Nat /\ LineLength(r, n) > 1
           /\ Offsets(r)[n + 1] = Offsets(r)[n] + LineLength(r, n)
           /\ Offsets(r)[n + 1] <= Len(file)
           /\ \A k \in 1..LineLength(r, n) : file[Offsets(r)[n] + k] = LineText(r, n)[k]
           /\ Offsets(r)[1] = 2 /\ Offsets(r)[LastLine(r) + 1] = Len(file)
           /\ file[1] = Hash /\ file[2] = LineFeed
<1> DEFINE off == Offsets(r)  m == LastLine(r)
<1>1. IsRecord(r) /\ IsLines(r) /\ Laid(file, r, off)
    BY DEF Stored, IsStored
<1>2. m \in Nat /\ m >= 2
    BY <1>1 DEF IsRecord, LastLine
<1>3. Len(file) \in Nat
    BY DEF TextsInv, InputInv, Text
<1>4. /\ off \in [1..(m + 1) -> Nat]
      /\ off[1] = 2 /\ off[m + 1] = Len(file) /\ file[1] = Hash /\ file[2] = LineFeed
      /\ \A i \in 1..m : /\ off[i + 1] = off[i] + LineLength(r, i) /\ off[i + 1] <= Len(file)
                         /\ LineAt(file, off[i], LineText(r, i))
    BY <1>1 DEF Laid
<1> HIDE DEF off, m
<1>5. ASSUME NEW i \in 1..m
      PROVE  LineLength(r, i) \in Nat /\ LineLength(r, i) > 1
                /\ Len(LineText(r, i)) = LineLength(r, i)
    <2>1. LineKey(r, i) \in Text /\ LineValue(r, i) \in Text
            /\ Len(LineText(r, i)) = LineLength(r, i)
        BY <1>1, LineTexts DEF m
    <2>2. Len(LineKey(r, i)) \in Nat /\ Len(LineValue(r, i)) \in Nat
        BY <2>1 DEF Text
    <2> QED  BY <2>1, <2>2 DEF LineLength
<1>6. off[n] \in Nat
    BY <1>2, <1>4 DEF m
<1>7. Len(file) > 2
    <2>1. 1 \in 1..m /\ off[1 + 1] = off[1] + LineLength(r, 1) /\ off[1 + 1] <= Len(file)
        BY <1>2, <1>4
    <2>2. LineLength(r, 1) \in Nat /\ LineLength(r, 1) > 1
        BY <1>5, <2>1
    <2> QED  BY <1>3, <1>4, <2>1, <2>2
<1>8. n \in 1..m
    BY DEF m
<1>9. \A k \in 1..LineLength(r, n) : file[off[n] + k] = LineText(r, n)[k]
    BY <1>4, <1>5, <1>8 DEF LineAt
<1> QED  BY <1>2, <1>3, <1>4, <1>5, <1>6, <1>7, <1>8, <1>9 DEF m, off

\* The next line begins.
LineStart(r, n) ==
    /\ n \in 0..LastLine(r)
    /\ phase = "reading" /\ ReadAs(r, rec, n)
    /\ pos = Offsets(r)[n + 1] + 1 /\ line = EmptyLine

LEMMA LineStarts ==
    ASSUME TextsInv', NEW CONSTANT r, Stored(r)', NEW CONSTANT n, LineStart(r, n)'
    PROVE  Resumes(r)'
<1>1. LastLine(r) \in Nat /\ LastLine(r) >= 2 /\ n \in 0..LastLine(r)
    <2>1. IsRecord(r)
        BY DEF Stored, IsStored
    <2> QED  BY <2>1 DEF LineStart, IsRecord, LastLine
<1>2. CASE n = LastLine(r)
    <2>1. Offsets(r)[LastLine(r) + 1] = Len(file')
        BY DEF Stored, Laid
    <2> QED  BY <1>2, <2>1 DEF LineStart, AtEnd, Resumes
<1>3. CASE n < LastLine(r)
    <2> DEFINE m == n + 1
    <2>1. m \in 1..LastLine(r) /\ m - 1 = n
        BY <1>1, <1>3
    <2>2. LineLength(r, m) \in Nat /\ LineLength(r, m) > 1
        <3>1. IsLines(r)
            BY DEF Stored, IsStored
        <3>2. LineKey(r, m) \in Text /\ LineValue(r, m) \in Text
            BY <2>1, <3>1, LineTexts
        <3>3. Len(LineKey(r, m)) \in Nat /\ Len(LineValue(r, m)) \in Nat /\ Len(LineKey(r, m)) > 0
            <4>1. IsStored(r)
                BY DEF Stored
            <4>2. GoodKey(LineKey(r, m))
                BY <2>1, <4>1, StoredLines
            <4> QED  BY <3>2, <4>2, LimitsAssumption DEF Text, GoodKey
        <3> QED  BY <3>3 DEF LineLength
    <2>3. InLine(line', LineKey(r, m), LineValue(r, m), 1)
        BY DEF LineStart, InLine
    <2>4. 1 \in 1..LineLength(r, m)
        BY <2>2
    <2>5. Inside(r, m, 1)'
        BY <2>1, <2>3, <2>4 DEF LineStart, Inside
    <2> HIDE DEF m
    <2>6. \E i \in 1..LastLine(r) : \E k \in 1..LineLength(r, i) : Inside(r, i, k)'
        BY <2>1, <2>4, <2>5
    <2> QED  BY <2>6 DEF Resumes
<1> QED  BY <1>1, <1>2, <1>3

\* A byte of the file is read.
LEMMA ReadingResumes ==
    ASSUME TextsInv, Reading, NEW CONSTANT r, Stored(r), Resumes(r)
    PROVE  Resumes(r)'
<1>1. /\ ReadIn(line.state)
      /\ phase = "reading" /\ pos <= Len(file) /\ Ch \notin Newlines /\ pos' = pos + 1
      /\ file' = file /\ rec' = rec /\ taken' = taken /\ phase' = phase
    BY ReadingIs DEF AtNewline, Ch
<1>2. line = [state |-> line.state, key |-> line.key, value |-> line.value]
    BY DEF TextsInv, InputInv
<1>3. /\ IsStored(r) /\ Len(file) \in Nat /\ pos \in Nat \ {0}
      /\ LastLine(r) \in Nat /\ LastLine(r) >= 2 /\ 1 \in 1..LastLine(r)
    <2>1. IsStored(r) /\ IsRecord(r)
        BY DEF Stored, IsStored
    <2> QED  BY <2>1 DEF IsRecord, LastLine, TextsInv, InputInv, Text
<1>4. CASE AtHead(r)
    <2>1. file[1] = Hash /\ file[2] = LineFeed
        BY <1>3, LineLies
    <2>2. pos = 1 /\ line = EmptyLine /\ Ch = Hash
        BY <1>1, <1>4, <2>1 DEF AtHead, Ch, LineFeed, Newlines
    <2>3. BeginLine
        BY <1>1, <2>2 DEF EmptyLine, ReadIn
    <2>4. line' = [line EXCEPT !.state = "Comment"]
        BY <2>2, <2>3 DEF BeginLine
    <2>5. line'.state = "Comment"
        BY <1>2, <2>4
    <2>6. AtHead(r)'
        BY <1>1, <1>4, <2>2, <2>5 DEF AtHead
    <2> QED  BY <2>6 DEF Resumes
<1>5. CASE AtEnd(r)
    BY <1>1, <1>3, <1>5 DEF AtEnd
<1>6. CASE AllRead(r)
    BY <1>1, <1>6 DEF AllRead
<1>7. ASSUME NEW n \in 1..LastLine(r), NEW k \in 1..LineLength(r, n), Inside(r, n, k)
      PROVE  Resumes(r)'
    <2> DEFINE key == LineKey(r, n)  v == LineValue(r, n)  K == Len(key)  V == Len(v)
    <2>1. /\ pos = Offsets(r)[n] + k /\ InLine(line, key, v, k) /\ ReadAs(r, rec, n - 1)
        BY <1>7 DEF Inside
    <2>2. GoodKey(key) /\ v \in OneLine
        BY <1>3, StoredLines
    <2>3. /\ Offsets(r)[n] \in Nat /\ LineLength(r, n) \in Nat
          /\ file[Offsets(r)[n] + k] = TextLine(key, v)[k]
        <3>1. /\ Offsets(r)[n] \in Nat /\ LineLength(r, n) \in Nat
              /\ \A i \in 1..LineLength(r, n) : file[Offsets(r)[n] + i] = LineText(r, n)[i]
            BY LineLies
        <3>2. LineText(r, n) = TextLine(key, v)
            BY DEF LineText
        <3> HIDE DEF key, v
        <3> QED  BY <3>1, <3>2
    <2>4. Ch = TextLine(key, v)[k]
        BY <2>1, <2>3 DEF Ch
    <2>5. LineLength(r, n) = K + V + 2 /\ K \in Nat \ {0} /\ V \in Nat
        BY <2>2, LineChars DEF LineLength
    <2>6. TextLine(key, v)[K + V + 2] = LineFeed
        BY <2>2, LineChars
    <2>7. k # K + V + 2
        BY <1>1, <2>4, <2>6 DEF LineFeed, Newlines
    <2> HIDE DEF key, v
    <2>8. InLine(line', key, v, k + 1)
        <3>1. CASE k \in 1..(K + 1)
            BY <1>2, <2>1, <2>2, <2>4, <3>1, KeyIsRead
        <3>2. CASE k \in (K + 2)..(K + V + 1)
            BY <1>2, <2>1, <2>2, <2>4, <3>2, ValueIsRead
        <3> QED  BY <2>5, <2>7, <3>1, <3>2
    <2>9. k + 1 \in 1..LineLength(r, n) /\ pos' = Offsets(r)[n] + (k + 1)
        <3> DEFINE o == Offsets(r)[n]  l == LineLength(r, n)
        <3>1. /\ k \in 1..l /\ l \in Nat /\ k # l /\ o \in Nat /\ pos = o + k
              /\ pos' = pos + 1
            BY <1>1, <2>1, <2>3, <2>5, <2>7
        <3> HIDE DEF o, l
        <3>2. k + 1 \in 1..l /\ pos' = o + (k + 1)
            BY <3>1
        <3> QED  BY <3>2 DEF o, l
    <2>10. Inside(r, n, k + 1)'
        BY <1>1, <2>1, <2>8, <2>9 DEF Inside, key, v
    <2> QED  BY <2>9, <2>10 DEF Resumes
<1>8. ASSUME NEW n \in 1..LastLine(r), Checking(r, n) PROVE FALSE
    BY <1>1, <1>8 DEF Checking
<1> QED  BY <1>4, <1>5, <1>6, <1>7, <1>8 DEF Resumes

\* A line ends.
LEMMA EndLineResumes ==
    ASSUME TextsInv, TextsInv', EndLine, NEW CONSTANT r, Stored(r), Stored(r)', Resumes(r)
    PROVE  Resumes(r)'
<1>1. /\ phase = "reading" /\ pos' = pos + 1
      /\ file' = file /\ rec' = rec /\ taken' = taken /\ ok' = ok
      /\ IF pos <= Len(file) THEN Ch \in Newlines ELSE line.state = "Value"
    BY DEF EndLine, AtNewline, Ch, decoder
<1>2. line = [state |-> line.state, key |-> line.key, value |-> line.value] /\ ok
    BY <1>1 DEF TextsInv, InputInv, CheckInv
<1>3. /\ IsStored(r) /\ Len(file) \in Nat /\ pos \in Nat \ {0}
      /\ LastLine(r) \in Nat /\ LastLine(r) >= 2 /\ 1 \in 1..LastLine(r)
    <2>1. IsStored(r) /\ IsRecord(r)
        BY DEF Stored, IsStored
    <2> QED  BY <2>1 DEF IsRecord, LastLine, TextsInv, InputInv, Text
<1>4. CASE AtHead(r)
    <2>1. /\ file[1] = Hash /\ Len(file) > 2 /\ Offsets(r)[1] = 2
        BY <1>3, LineLies
    <2>2. pos = 2 /\ line.state = "Comment"
        <3>1. pos # 1
            BY <1>1, <2>1 DEF Ch, Hash, Newlines
        <3> QED  BY <1>4, <3>1 DEF AtHead
    <2>3. line' = EmptyLine /\ phase' = phase
        BY <2>2 DEF EndLine
    <2>4. LineStart(r, 0)'
        BY <1>1, <1>3, <1>4, <2>1, <2>2, <2>3 DEF LineStart, AtHead
    <2> QED  BY <2>4, LineStarts
<1>5. CASE AtEnd(r)
    BY <1>1, <1>3, <1>5 DEF AtEnd, EmptyLine
<1>6. CASE AllRead(r)
    BY <1>1, <1>6 DEF AllRead
<1>7. ASSUME NEW n \in 1..LastLine(r), NEW k \in 1..LineLength(r, n), Inside(r, n, k)
      PROVE  Resumes(r)'
    <2> DEFINE key == LineKey(r, n)  v == LineValue(r, n)  K == Len(key)  V == Len(v)
    <2>1. /\ pos = Offsets(r)[n] + k /\ InLine(line, key, v, k) /\ ReadAs(r, rec, n - 1)
        BY <1>7 DEF Inside
    <2>2. GoodKey(key) /\ v \in OneLine /\ (n # 2 => GoodValue(v))
        BY <1>3, StoredLines
    <2>3. /\ Offsets(r)[n] \in Nat /\ LineLength(r, n) \in Nat
          /\ file[Offsets(r)[n] + k] = TextLine(key, v)[k]
          /\ Offsets(r)[n + 1] = Offsets(r)[n] + LineLength(r, n)
          /\ Offsets(r)[n + 1] <= Len(file)
        <3>1. /\ Offsets(r)[n] \in Nat /\ LineLength(r, n) \in Nat
              /\ \A i \in 1..LineLength(r, n) : file[Offsets(r)[n] + i] = LineText(r, n)[i]
              /\ Offsets(r)[n + 1] = Offsets(r)[n] + LineLength(r, n)
              /\ Offsets(r)[n + 1] <= Len(file)
            BY LineLies
        <3>2. LineText(r, n) = TextLine(key, v)
            BY DEF LineText
        <3> HIDE DEF key, v
        <3> QED  BY <3>1, <3>2
    <2>4. Ch = TextLine(key, v)[k]
        BY <2>1, <2>3 DEF Ch
    <2>5. LineLength(r, n) = K + V + 2
        BY DEF LineLength
    <2>6. pos <= Len(file)
        BY <1>3, <2>1, <2>3
    <2> HIDE DEF key, v
    <2>7. k = K + V + 2 /\ Ends(key, v)
        BY <1>2, <2>1, <2>2, <2>4, <2>5, <2>6, LineEnds
    <2>8. pos' = Offsets(r)[n + 1] + 1
        BY <1>1, <2>1, <2>3, <2>5, <2>7
    <2>9. CASE phase' = "checking" /\ line'.key = key /\ (GoodValue(v) => line'.value = v)
        <3>1. Checking(r, n)'
            BY <1>1, <1>2, <2>1, <2>8, <2>9 DEF Checking, key, v
        <3> QED  BY <3>1 DEF Resumes
    <2>10. CASE ~GoodValue(v) /\ phase' = "reading" /\ line' = EmptyLine
        <3>1. n = 2
            BY <2>2, <2>10
        <3>2. ReadAs(r, rec, 2)
            BY <2>1, <3>1 DEF ReadAs
        <3>3. LineStart(r, 2)'
            BY <1>1, <1>3, <2>8, <2>10, <3>1, <3>2 DEF LineStart
        <3> QED  BY <3>3, LineStarts
    <2> QED  BY <2>7, <2>9, <2>10 DEF Ends
<1>8. ASSUME NEW n \in 1..LastLine(r), Checking(r, n) PROVE FALSE
    BY <1>1, <1>8 DEF Checking
<1> QED  BY <1>4, <1>5, <1>6, <1>7, <1>8 DEF Resumes

\* A byte of a value is checked.
LEMMA CheckByteResumes ==
    ASSUME TextsInv, CheckByte, NEW CONSTANT r, Stored(r), Resumes(r)
    PROVE  Resumes(r)'
<1>1. phase = "checking"
      /\ UNCHANGED <<file, pos, line, rec, taken, measured, phase, earlier>>
    BY DEF CheckByte
<1>2. ASSUME NEW n \in 1..LastLine(r), Checking(r, n) PROVE Resumes(r)'
    <2>1. ASSUME GoodValue(LineValue(r, n))
          PROVE  line'.value = LineValue(r, n) /\ ok'
        <3>1. line.value = LineValue(r, n) /\ ok
            BY <1>2, <2>1 DEF Checking
        <3>2. Decoded(line.value).good
            BY <2>1, <3>1, AcceptedText DEF GoodValue
        <3> QED  BY <1>1, <3>1, <3>2, AcceptedPasses
    <2>2. Checking(r, n)'
        BY <1>1, <1>2, <2>1 DEF Checking
    <2> QED  BY <2>2 DEF Resumes
<1> QED  BY <1>1, <1>2 DEF Resumes, AtHead, AtEnd, AllRead, Inside

\* What a line adds to the record.
LEMMA TitleIsTaken ==
    ASSUME NEW r, IsStored(r), NEW s, IsRecord(s), ReadAs(r, s, 0)
    PROVE  ReadAs(r, TakeTitle(s, LineValue(r, 1)), 1)
<1> DEFINE a == r.artist  t == r.title  x == TakeTitle(s, (a \o Slash) \o t)
<1>1. /\ a \in Text /\ t \in Text /\ a # <<>> /\ t # <<>> /\ Firm(a) /\ ~Slashed(a)
      /\ TrimAll(a) = a /\ TrimAll(t) = t
    BY StoredTexts, AcceptedText
<1>2. Trim(a) /\ Trim(t)
    BY <1>1, TrimAllTrims
<1>3. ~HasSlash(a)
    BY <1>1 DEF Firm
<1> HIDE DEF a, t
<1>4. x.artist = a /\ x.title = t /\ x.songs = s.songs
    BY <1>1, <1>2, <1>3, TitleCut
<1> HIDE DEF x
<1>5. ReadAs(r, x, 1)
    BY <1>4 DEF ReadAs, a, t
<1> QED  BY <1>5 DEF LineValue, x, a, t

LEMMA SongIsTaken ==
    ASSUME NEW r, IsStored(r), NEW n \in 3..LastLine(r),
           NEW s, IsRecord(s), ReadAs(r, s, n - 1)
    PROVE  ReadAs(r, TakeSong(s, n - 3, LineValue(r, n)), n)
<1> DEFINE v == LineValue(r, n)  base == IF s.songs = <<>> THEN n - 3 ELSE s.base
           x == TakeSong(s, n - 3, v)  q == s.songs
<1>1. /\ s = [artist |-> s.artist, title |-> s.title, genre |-> s.genre,
              songs |-> s.songs, base |-> s.base]
      /\ q \in Seq(Accepted)
    BY DEF IsRecord
<1>2. v = r.songs[n - 2]
    BY DEF LineValue
<1>3. /\ s.artist = r.artist /\ s.title = r.title /\ Len(q) = n - 3
      /\ (n > 3 => s.base = 0) /\ \A i \in 1..Len(q) : q[i] = r.songs[i]
    BY DEF ReadAs
<1>4. base = 0
    BY <1>1, <1>3
<1> HIDE DEF v, base
<1>5. x = [s EXCEPT !.base = base, !.songs = IF Len(q) = n - 3 - base THEN Append(q, v) ELSE q]
    BY DEF TakeSong, base
<1> DEFINE y == Append(q, v)
<1>6. x.artist = s.artist /\ x.title = s.title /\ x.base = 0 /\ x.songs = y
    <2>1. Len(q) = n - 3 - base
        BY <1>3, <1>4
    <2>2. x = [s EXCEPT !.base = base, !.songs = y]
        BY <1>5, <2>1
    <2> HIDE DEF x, y, q
    <2> QED  BY <1>1, <1>4, <2>2
<1> HIDE DEF x, q
<1>7. Len(y) = n - 2 /\ \A i \in 1..(n - 2) : y[i] = r.songs[i]
    BY <1>1, <1>2, <1>3
<1> HIDE DEF y
<1>8. ReadAs(r, x, n)
    BY <1>3, <1>6, <1>7 DEF ReadAs, y
<1> QED  BY <1>8 DEF x, v

\* The keys are told apart.
LEMMA KeysDiffer ==
    /\ TitleKey # GenreKey
    /\ ~IsPrefix(SongKey, TitleKey) /\ ~IsPrefix(SongKey, GenreKey)
<1>1. ASSUME NEW key \in Text, Len(key) = 6, key[1] = 68
      PROVE  ~IsPrefix(SongKey, key)
    <2>1. SongKey \in Text /\ Len(SongKey) = 6 /\ SongKey[1] = 84
        BY DEF SongKey, Text
    <2>2. SubSeq(SongKey, 1, 6) = SongKey /\ SubSeq(key, 1, 6) = key
        BY <1>1, <2>1, WholePrefix DEF Text
    <2> QED  BY <1>1, <2>1, <2>2 DEF IsPrefix
<1>2. /\ TitleKey \in Text /\ Len(TitleKey) = 6 /\ TitleKey[1] = 68 /\ TitleKey[2] = 84
      /\ GenreKey \in Text /\ Len(GenreKey) = 6 /\ GenreKey[1] = 68 /\ GenreKey[2] = 71
    BY DEF TitleKey, GenreKey, Text
<1> QED  BY <1>1, <1>2

\* The value of a line is taken.
LEMMA TakeValueResumes ==
    ASSUME TextsInv, TextsInv', TakeValue, NEW CONSTANT r, Stored(r), Stored(r)', Resumes(r)
    PROVE  Resumes(r)'
<1>1. /\ phase = "checking" /\ phase' = "reading" /\ line' = EmptyLine /\ pos' = pos
      /\ rec' = CASE line.key = TitleKey -> TakeTitle(rec, Encoded(line.value, ok))
                  [] line.key = GenreKey -> [rec EXCEPT !.genre = Encoded(line.value, ok)]
                  [] IsPrefix(SongKey, line.key) ->
                        TakeSong(rec, SongNumber(line.key), Encoded(line.value, ok))
                  [] OTHER -> rec
    BY DEF TakeValue
<1>2. IsRecord(rec) /\ IsStored(r)
    BY DEF TextsInv, RecordInv, Stored
<1>3. ASSUME NEW n \in 1..LastLine(r), Checking(r, n) PROVE Resumes(r)'
    <2> DEFINE key == LineKey(r, n)  v == LineValue(r, n)  x == Encoded(line.value, ok)
    <2>1. /\ ReadAs(r, rec, n - 1) /\ pos = Offsets(r)[n + 1] + 1 /\ line.key = key
          /\ GoodValue(v) => line.value = v /\ ok
        BY <1>3 DEF Checking
    <2>2. /\ n # 2 => GoodValue(v)
          /\ n > 2 => /\ IsPrefix(SongKey, key) /\ key # TitleKey /\ key # GenreKey
                      /\ SongNumber(key) = n - 3
        BY <1>2, StoredLines
    <2>3. n # 2 => x = v
        BY <2>1, <2>2 DEF Encoded
    <2>4. n \in 1..LastLine(r) /\ LastLine(r) \in Nat
        BY <1>2 DEF IsRecord, LastLine
    <2> HIDE DEF v, x
    <2>5. ReadAs(r, rec', n)
        <3>1. CASE n = 1
            <4>1. /\ key = TitleKey /\ n - 1 = 0
                  /\ key # GenreKey /\ ~IsPrefix(SongKey, key)
                BY <3>1, KeysDiffer DEF LineKey
            <4>2. rec' = TakeTitle(rec, v)
                BY <1>1, <2>1, <2>3, <3>1, <4>1 DEF x
            <4>3. ReadAs(r, TakeTitle(rec, v), 1)
                BY <1>2, <2>1, <3>1, <4>1, TitleIsTaken DEF v
            <4> QED  BY <3>1, <4>2, <4>3
        <3>2. CASE n = 2
            <4>1. /\ key = GenreKey /\ n - 1 = 1
                  /\ key # TitleKey /\ ~IsPrefix(SongKey, key)
                BY <3>2, KeysDiffer DEF LineKey
            <4>2. rec' = [rec EXCEPT !.genre = x]
                BY <1>1, <2>1, <4>1 DEF x
            <4>3. rec'.artist = rec.artist /\ rec'.title = rec.title /\ rec'.songs = rec.songs
                BY <1>2, <4>2 DEF IsRecord
            <4>4. ReadAs(r, rec, 1)
                BY <2>1, <4>1
            <4> QED  BY <3>2, <4>3, <4>4 DEF ReadAs
        <3>3. CASE n > 2
            <4>1. rec' = TakeSong(rec, n - 3, v)
                BY <1>1, <2>1, <2>2, <2>3, <3>3 DEF x
            <4>2. n \in 3..LastLine(r)
                BY <2>4, <3>3
            <4>3. ReadAs(r, TakeSong(rec, n - 3, v), n)
                BY <1>2, <2>1, <4>2, SongIsTaken DEF v
            <4> QED  BY <4>1, <4>3
        <3> QED  BY <2>4, <3>1, <3>2, <3>3
    <2>6. LineStart(r, n)'
        BY <1>1, <2>1, <2>4, <2>5 DEF LineStart
    <2> QED  BY <2>6, LineStarts
<1> QED  BY <1>1, <1>3 DEF Resumes, AtHead, AtEnd, AllRead, Inside

\* All lines have been read.
LEMMA FinishResumes ==
    ASSUME TextsInv, Finish, NEW CONSTANT r, Stored(r), Resumes(r)
    PROVE  Resumes(r)'
<1>1. phase = "reading" /\ pos > Len(file) /\ taken' = rec /\ phase' = "done"
    BY DEF Finish
<1>2. LastLine(r) \in Nat /\ 1 \in 1..LastLine(r) /\ Len(file) \in Nat
    <2>1. IsRecord(r)
        BY DEF Stored, IsStored
    <2> QED  BY <2>1 DEF IsRecord, LastLine, TextsInv, InputInv, Text
<1>3. ~AtHead(r)
    <2>1. Len(file) > 2
        BY <1>2, LineLies
    <2> QED  BY <1>1, <1>2, <2>1 DEF AtHead
<1>4. ASSUME NEW n \in 1..LastLine(r), NEW k \in 1..LineLength(r, n), Inside(r, n, k)
      PROVE  FALSE
    <2>1. /\ Offsets(r)[n] \in Nat /\ LineLength(r, n) \in Nat
          /\ Offsets(r)[n + 1] = Offsets(r)[n] + LineLength(r, n)
          /\ Offsets(r)[n + 1] <= Len(file)
        BY LineLies
    <2>2. pos = Offsets(r)[n] + k
        BY <1>4 DEF Inside
    <2> QED  BY <1>1, <1>2, <2>1, <2>2
<1>5. AtEnd(r)
    BY <1>1, <1>3, <1>4 DEF Resumes, AllRead, Checking
<1> QED  BY <1>1, <1>5 DEF AtEnd, AllRead, Resumes

\* cleanup() finds nothing to do.
LEMMA NothingIsStripped ==
    ASSUME NEW r, IsStored(r), NEW s, IsRecord(s), ReadAs(r, s, LastLine(r))
    PROVE  TextsOf(Stripped(s)) = TextsOf(r)
<1> DEFINE q == r.songs  p == s.songs  m == Len(q)
           songs == [i \in DOMAIN p |-> WithoutArtist(p[i], s.artist)]
<1>1. q \in Seq(Accepted) /\ p \in Seq(Accepted)
    BY DEF IsStored, IsRecord
<1>2. m \in Nat /\ LastLine(r) = m + 2 /\ DOMAIN q = 1..m
    BY <1>1 DEF LastLine
<1>3. /\ s.artist = r.artist /\ s.title = r.title /\ Len(p) = m
      /\ \A i \in 1..m : p[i] = q[i]
    BY <1>2 DEF ReadAs
<1>4. \A i \in 1..m : ~IsPrefix(r.artist \o Slash, q[i])
    BY StoredTexts
<1> HIDE DEF q, p, m
<1>5. DOMAIN p = 1..m
    BY <1>1, <1>3
<1>6. \A i \in 1..m : WithoutArtist(p[i], s.artist) = q[i]
    BY <1>3, <1>4 DEF WithoutArtist
<1>7. songs = [i \in 1..m |-> q[i]]
    BY <1>5, <1>6
<1>8. q = [i \in 1..m |-> q[i]]
    BY <1>1, <1>2
<1>9. TextsOf(Stripped(s)) = <<s.artist, s.title>> \o songs
    BY StrippedTexts DEF p
<1> HIDE DEF songs
<1>10. songs = q
    BY <1>7, <1>8
<1> QED  BY <1>3, <1>9, <1>10 DEF TextsOf, q

LEMMA ReadIsStored ==
    ASSUME NEW r, IsStored(r), NEW s, IsRecord(s), ReadAs(r, s, LastLine(r))
    PROVE  TextsOf(Cleanup(s)) = TextsOf(r) /\ CleanupEntropy(s) = CalcEntropy(r)
<1> DEFINE c == Cleanup(s)  x == TextsOf(r)  n == Len(x)
           titled == [i \in DOMAIN x |-> Titled(FromUtf8(TrimAll(x[i])))]
<1>1. TextsOf(Stripped(s)) = x
    BY NothingIsStripped
<1>2. x \in Seq(Accepted)
    <2>1. r.artist \in Accepted /\ r.title \in Accepted /\ r.songs \in Seq(Accepted)
        BY StoredTexts
    <2> QED  BY <2>1 DEF TextsOf
<1>3. c.songs \in Seq(Accepted) /\ c.artist \in Accepted /\ c.title \in Accepted
    BY CleanupIs DEF IsRecord
<1>4. TextsOf(c) \in Seq(Accepted)
    BY <1>3 DEF TextsOf
<1>5. \A i \in DOMAIN x : TrimAll(x[i]) = x[i] /\ Settled(x[i])
    BY DEF IsStored, Stable, Readable
<1>6. \A i \in DOMAIN x : Clean(x[i]) = x[i] /\ Titled(FromUtf8(TrimAll(x[i]))) = FromUtf8(x[i])
    BY <1>5, CleanAgain
<1>7. /\ DOMAIN TextsOf(c) = DOMAIN x
      /\ \A i \in DOMAIN x : TextsOf(c)[i] = Clean(x[i])
    BY <1>1, TextsOfCleanup
<1>8. TextsOf(c) = x
    <2> HIDE DEF c, x
    <2>1. TextsOf(c) = [i \in DOMAIN x |-> TextsOf(c)[i]]
        BY <1>4, <1>7
    <2>2. x = [i \in DOMAIN x |-> x[i]]
        BY <1>2
    <2> QED  BY <1>6, <1>7, <2>1, <2>2
<1>9. CleanupEntropy(s) = Measure(titled)
    <2> DEFINE texts == <<s.artist, s.title>> \o
                [i \in DOMAIN s.songs |-> WithoutArtist(s.songs[i], s.artist)]
    <2>1. CleanupEntropy(s)
            = Measure([i \in DOMAIN texts |-> Titled(FromUtf8(TrimAll(texts[i])))])
        BY DEF CleanupEntropy
    <2>2. texts = x
        BY <1>1, StrippedTexts
    <2> HIDE DEF texts, x
    <2>3. [i \in DOMAIN texts |-> Titled(FromUtf8(TrimAll(texts[i])))] = titled
        BY <2>2
    <2> QED  BY <2>1, <2>3
<1>10. titled = Wides(x)
    <2> HIDE DEF x
    <2> QED  BY <1>6 DEF Wides
<1> QED  BY <1>8, <1>9, <1>10 DEF CalcEntropy

\* What is known of the record in the database and of its file.
LEMMA StoredIs ==
    ASSUME TextsInv, LinesInv, StableInv, earlier # <<>>,
           NEW CONSTANT r, r = earlier[1].texts, file = CddbFile(r), Readable(r)
    PROVE  Stored(r)
<1>1. IsRecord(r) /\ IsLines(r) /\ Stable(r)
    BY DEF TextsInv, RecordInv, LinesInv, StableInv
<1> QED  BY <1>1, OffsetsAre DEF Stored, IsStored

LEMMA NextFileResumes ==
    ASSUME NextFile, NEW CONSTANT r
    PROVE  Resumes(r)'
<1>1. phase' = "reading" /\ rec' = EmptyRecord /\ pos' = 1 /\ line' = EmptyLine
    BY DEF NextFile
<1>2. ReadAs(r, EmptyRecord, 0)
    BY DEF ReadAs, EmptyRecord
<1> QED  BY <1>1, <1>2 DEF AtHead, Resumes

\* Each step leads from one position in the file to the next one.
LEMMA StepResumes ==
    ASSUME TextsInv, TextsInv', LinesInv, StableInv, ResumeInv, [Next]_vars
    PROVE  ResumeInv'
<1> SUFFICES ASSUME earlier' # <<>>, NEW CONSTANT r, r = earlier'[1].texts,
                    file' = CddbFile(r), Readable(r)
             PROVE  Resumes(r)'
    BY DEF ResumeInv
<1>1. CASE NextFile
    BY <1>1, NextFileResumes
<1>2. CASE ~NextFile
    <2>1. file' = file /\ earlier' = earlier
        <3>1. CASE Reading
            BY <3>1, ReadingIs
        <3>2. CASE EndLine
            BY <3>2 DEF EndLine
        <3>3. CASE CheckByte
            BY <3>3 DEF CheckByte
        <3>4. CASE TakeValue
            BY <3>4 DEF TakeValue
        <3>5. CASE Finish
            BY <3>5 DEF Finish
        <3>6. CASE UNCHANGED vars
            BY <3>6 DEF vars
        <3> QED  BY <1>2, <3>1, <3>2, <3>3, <3>4, <3>5, <3>6 DEF Next, Reading
    <2>2. Stored(r) /\ Resumes(r)
        BY <2>1, StoredIs DEF ResumeInv
    <2>3. Stored(r)'
        BY <2>1, <2>2 DEF Stored
    <2>4. CASE Reading
        BY <2>2, <2>4, ReadingResumes
    <2>5. CASE EndLine
        BY <2>2, <2>3, <2>5, EndLineResumes
    <2>6. CASE CheckByte
        BY <2>2, <2>6, CheckByteResumes
    <2>7. CASE TakeValue
        BY <2>2, <2>3, <2>7, TakeValueResumes
    <2>8. CASE Finish
        BY <2>2, <2>8, FinishResumes
    <2>9. CASE UNCHANGED vars
        <3>1. UNCHANGED <<file, pos, line, rec, taken, phase, ok>>
            BY <2>9 DEF vars, decoder
        <3> QED  BY <2>2, <3>1
                 DEF Resumes, AtHead, AtEnd, AllRead, Inside, Checking
    <2> QED  BY <1>2, <2>4, <2>5, <2>6, <2>7, <2>8, <2>9 DEF Next, Reading
<1> QED  BY <1>1, <1>2

\* A record that cddb_file() writes is read again as it was, and with the
\* entropy of its row (diskrecord.cpp:542): for all records whose lines the
\* parser takes whole, all files and all locales.
THEOREM RecordsAreReadBack == Spec => []TextsReadBack
<1>1. Init => ResumeInv
    BY DEF Init, ResumeInv
<1>2. TextsInv /\ TextsInv' /\ LinesInv /\ StableInv /\ ResumeInv /\ [Next]_vars => ResumeInv'
    BY StepResumes
<1>3. TextsInv /\ LinesInv /\ StableInv /\ ResumeInv => ReadBack
    <2> SUFFICES ASSUME TextsInv, LinesInv, StableInv, ResumeInv,
                        phase = "done", earlier # <<>>,
                        NEW CONSTANT r, r = earlier[1].texts, file = CddbFile(r), Readable(r)
                 PROVE  TextsOf(rec) = TextsOf(r) /\ measured = CalcEntropy(r)
        BY DEF ReadBack
    <2>1. Resumes(r) /\ IsStored(r)
        BY StoredIs DEF ResumeInv, Stored
    <2>2. ReadAs(r, taken, LastLine(r))
        BY <2>1 DEF Resumes, AtHead, AtEnd, AllRead, Inside, Checking
    <2>3. IsRecord(taken) /\ rec = Cleanup(taken) /\ measured = CleanupEntropy(taken)
        BY DEF TextsInv, RecordInv
    <2> QED  BY <2>1, <2>2, <2>3, ReadIsStored
<1>4. TextsTypeOK /\ ReadBack => TextsReadBack
    BY DEF TextsReadBack
<1> QED  BY <1>1, <1>2, <1>3, <1>4, TextsInvariant, LinesInvariant, StableInvariant,
            TextsAreLines, PTL DEF Spec
=============================================================================
