----------------------------- MODULE CDDBDefines -----------------------------
(***************************************************************************)
(* The arithmetic of src/cddbdefines.hpp on the start frames and track     *)
(* lengths of a disc, and the digests a disc is found by.  A digest stands *)
(* for the bytes that the hash is fed with, four for each word: what is    *)
(* fed can be told apart, whether two hashes collide by chance is a        *)
(* parameter of CDDBSQLUpdater.                                            *)
(***************************************************************************)
EXTENDS Integers, Sequences

CONSTANT W      \* 2^32: start frames and lengths are uint32_t

ASSUME WordAssumption == W \in Nat \ {0}

FramesPerSecond == 75

-----------------------------------------------------------------------------
(* Start frames and track lengths.  The disc length counts from the begin  *)
(* of the disc; the start frame of the first track is taken off once more  *)
(* than that.                                                              *)

StartFrame(starts) == IF starts = <<>> THEN 0 ELSE starts[1]

LengthsOf(discLength, starts) ==
    LET n == Len(starts)
    IN  [i \in 1..n |->
            IF i < n THEN (starts[i + 1] - starts[i]) % W
            ELSE (discLength * FramesPerSecond - starts[n] - starts[1]) % W]

\* (The fault begins with 0.)
StartsFromZero(first, lengths) ==
    LET f[i \in DOMAIN lengths] ==
            IF i = 1 THEN 0 ELSE (f[i - 1] + lengths[i - 1]) % W
    IN  f
StartsOf(first, lengths) ==
    LET f[i \in DOMAIN lengths] ==
            IF i = 1 THEN first ELSE (f[i - 1] + lengths[i - 1]) % W
    IN  f

DiscLengthOf(first, lengths) ==
    IF lengths = <<>> THEN 0
    ELSE LET n == Len(lengths)
         IN  ((StartsOf(first, lengths)[n] + lengths[n] - first) % W)
                \div FramesPerSecond

-----------------------------------------------------------------------------
(* The digests.  FNVHash32 feeds a word as it is in the memory, or in the  *)
(* byte order that is asked for.                                           *)

SwapBytes(bytes) == [i \in DOMAIN bytes |-> bytes[Len(bytes) + 1 - i]]

BigEndianBytes(n) == [i \in 1..4 |-> (n \div 256^(4 - i)) % 256]

InMemory(n, bigEndian) ==
    IF bigEndian THEN BigEndianBytes(n) ELSE SwapBytes(BigEndianBytes(n))

Add(n, bigEndian) == InMemory(n, bigEndian)

AddBigEndian(n, bigEndian) ==
    IF bigEndian THEN InMemory(n, bigEndian) ELSE SwapBytes(InMemory(n, bigEndian))

\* static_cast<uint32_t>(frames.size(), true) is 1 for any number of tracks,
\* and goes to the add() that does not ask for a byte order.
AddCount(bigEndian) == Add(1, bigEndian)

PrivateDiscid(seconds, frames, bigEndian) ==
    << AddBigEndian(seconds, bigEndian), AddCount(bigEndian) >>
      \o [i \in DOMAIN frames |-> AddBigEndian(frames[i], bigEndian)]

\* To 8 seconds, rounded.
Normalized(frames) == ((((frames + 38) % W) \div FramesPerSecond) + 4) \div 8

PrivateFuzzyDiscid(frames, bigEndian) ==
    << AddCount(bigEndian) >>
      \o [i \in DOMAIN frames |-> AddBigEndian(Normalized(frames[i]), bigEndian)]
=============================================================================
