---------------------------- MODULE FrameParser ----------------------------
(***************************************************************************)
(* EspFrameParser of protocol.py: the bytes the serial port returns, in    *)
(* reads of any length, are cut into frames of a fixed size that start     *)
(* with one of two header bytes and end with a checksum.  A byte is a      *)
(* small number, the checksum a sum.                                       *)
(***************************************************************************)
EXTENDS Naturals, FiniteSets, Sequences

CONSTANTS
    FrameSize,  \* ESP_FRAME_SIZE
    Bytes,      \* 0..n
    Headers,    \* VALID_RX_HEADERS
    MaxStream,  \* bytes in all (a bound)
    MaxRead     \* bytes the port returns at a time (a bound)

VARIABLES
    buffer,  \* _buffer
    frames,  \* the frames returned so far
    stream   \* history: the bytes fed so far

parser == <<buffer, frames, stream>>

ASSUME ParserAssumption == FrameSize \in Nat \ {0}

ParserInit == buffer = <<>> /\ frames = <<>> /\ stream = <<>>

Checksum(f) ==
    LET sum[i \in 0..Len(f)] == IF i = 0 THEN 1 ELSE sum[i - 1] * 2 + f[i]
    IN  sum[FrameSize - 1] % (Cardinality(Bytes))
Sound(f) == f[FrameSize] = Checksum(f)
FrameAt(b, i) == SubSeq(b, i, i + FrameSize - 1)

\* The first header from place i on, the end of the buffer without one.
Header(b, i) ==
    CHOOSE j \in i..Len(b) + 1 :
        /\ j <= Len(b) => b[j] \in Headers
        /\ \A k \in i..j - 1 : b[k] \notin Headers

\* After a checksum error: the next byte.  Variant: the whole candidate goes.
AfterBadDropsFrame(i) == i + FrameSize
AfterBad(i) == i + 1

(* The loop of feed(), when the buffer starts at place i: the place where  *)
(* it starts in the end, and the frames found.                             *)
Scan(b) ==
    LET scan[i \in 1..Len(b) + 1] ==
            LET first == Header(b, i)
            IN  IF Len(b) - i + 1 < FrameSize THEN [next |-> i, out |-> <<>>]
                ELSE IF Len(b) - first + 1 < FrameSize THEN [next |-> first, out |-> <<>>]
                ELSE IF ~Sound(FrameAt(b, first)) THEN scan[AfterBad(first)]
                ELSE LET then == scan[first + FrameSize]
                     IN  [next |-> then.next, out |-> <<FrameAt(b, first)>> \o then.out]
    IN  scan

Feed(data) ==
    LET b    == buffer \o data
        done == Scan(b)[1]
    IN  /\ buffer' = SubSeq(b, done.next, Len(b))
        /\ frames' = frames \o done.out
        /\ stream' = stream \o data

ParserNext == \E n \in 1..MaxRead : \E data \in [1..n -> Bytes] :
                  Len(stream) + n <= MaxStream /\ Feed(data)
ParserSpec == ParserInit /\ [][ParserNext]_parser

----------------------------------------------------------------------------
\* The frames of a stream from place i on: the next place with a header, a
\* frame's length and a right checksum, and so on from the end of that one.
IsFrame(s, i) ==
    i + FrameSize - 1 <= Len(s) /\ s[i] \in Headers /\ Sound(FrameAt(s, i))
FramesFrom(s) ==
    LET from[i \in 1..Len(s) + FrameSize] ==
            IF i > Len(s) THEN <<>>
            ELSE IF IsFrame(s, i) THEN <<FrameAt(s, i)>> \o from[i + FrameSize]
            ELSE from[i + 1]
    IN  from

(* However the bytes were cut into reads, the frames are those of the      *)
(* stream: from the end of one on, the next place with a header, a frame's *)
(* length and a right checksum.  A sound frame is lost only to another one *)
(* that overlaps it, never to noise before it.                             *)
FramesOfStream == frames = FramesFrom(stream)[1]
=============================================================================
