-------------------------- MODULE MjpegInputStream -------------------------
(***************************************************************************)
(* The tablet's reader, class MjpegInputStream: readMjpegFrame finds the   *)
(* next picture of the stream, by the Content-Length of its header or by   *)
(* searching for its last mark, and hands its bytes to the decoder.        *)
(*                                                                         *)
(* Only the view's thread reads, so one call is one action.  A call ends   *)
(* with a frame, with -1 (the stream ended), with an IOException, which    *)
(* the view's thread swallows to call again, or with another exception.    *)
(* The stream is read through BufferedInputStream: reset() goes back to    *)
(* mark() unless more than FRAME_MAX_LENGTH bytes were read since.         *)
(***************************************************************************)
EXTENDS MjpegStream

CONSTANT FRAME_MAX_LENGTH

ASSUME FrameMaxAssumption == FRAME_MAX_LENGTH \in Nat \ {0}

VARIABLES
    pos,             \* bytes consumed
    headerLenPrev,   \* length of the last header, -1 at first
    mContentLength,  \* length of the last frame, -1 at first
    result,          \* how the last call ended
    frames           \* history: the frames handed on, as offset and length

inputVars == <<pos, headerLenPrev, mContentLength, result, frames>>

InputTypeOK ==
    /\ pos \in 0..Len(data)
    /\ headerLenPrev \in Int
    /\ mContentLength \in Int
    /\ result \in {"none", "frame", "end", "io", "throws"}
    /\ frames \in Seq([at : Nat, len : Nat])

InputInit ==
    /\ pos = 0
    /\ headerLenPrev = -1
    /\ mContentLength = -1
    /\ result = "none"
    /\ frames = <<>>

-----------------------------------------------------------------------------
(* The searches. *)

\* seqIndex after the byte c; on a mismatch the byte is not looked at again.
NextIndex(j, c, sequence) == IF c = sequence[j + 1] THEN j + 1 ELSE 0

\* Reads at most n bytes from an offset for a sequence: the number read when it
\* is complete, -1 if it is not among them, Eof if the stream ends before, or is
\* silent for five seconds: an IOException either way, and the stream has ended
\* for every read after it.
Eof == -2

Search(from, n, sequence) ==
    LET scan[p \in (0..n) \X (0..Len(sequence))] ==
          LET i == p[1]
              j == p[2]
          IN  IF j = Len(sequence) THEN i
              ELSE IF i = n THEN -1
              ELSE IF from + i >= Len(data) THEN Eof
              ELSE scan[<<i + 1, NextIndex(j, data[from + i + 1], sequence)>>]
    IN  scan[<<0, 0>>]

\* getEndOfSeqeunce and getStartOfSequence
EndOfSequence(from, sequence) == Search(from, FRAME_MAX_LENGTH, sequence)

StartOfSequence(from, sequence) ==
    LET end == EndOfSequence(from, sequence)
    IN  IF end < 0 THEN end ELSE end - Len(sequence)

\* Java's division rounds towards zero.
Half(n) == IF n >= 0 THEN n \div 2 ELSE -((-n) \div 2)

\* getEndOfSeqeunceSimplified, called when the header was read, looks around the
\* end of a picture as long as the last frame.  Its headerLen is the field, which
\* the variable of that name in readMjpegFrame hides and nothing sets.
HeaderLenField == -1

SkipTo(headerLen) ==
    Min({Len(data),
         pos + headerLen + Max({0, HeaderLenField + Half(mContentLength)})})

SimplifiedSpan == Max({0, Half(3 * mContentLength) - Half(mContentLength)})

SimplifiedEnd(headerLen) ==
    IF SimplifiedSpan = 0 THEN -1
    ELSE Search(SkipTo(headerLen), SimplifiedSpan, EOF_MARKER)

\* Mutant of LengthFound: the index of the last byte in place of the number read.
LengthToIndex(headerLen) ==
    HeaderLenField + Half(mContentLength) + SimplifiedEnd(headerLen) - 1

\* What it returns: the length of the picture from its first mark on.
LengthFound(headerLen) ==
    HeaderLenField + Half(mContentLength) + SimplifiedEnd(headerLen)

\* reset() fails once this much was read.
MarkLost(end) == end - pos > FRAME_MAX_LENGTH

-----------------------------------------------------------------------------
(* readMjpegFrame *)

Fails(how, at) ==
    /\ result' = how
    /\ pos' = at
    /\ UNCHANGED frames

\* Mutant of NoHeader: the end of the stream is not told from other failures,
\* and the view's thread tries again.
NoHeaderAgain ==
    /\ StartOfSequence(pos, SOI_MARKER) = Eof
    /\ Fails("io", pos)
    /\ UNCHANGED <<headerLenPrev, mContentLength>>

\* The stream ends, or is silent for five seconds, before a picture begins.
NoHeader ==
    /\ StartOfSequence(pos, SOI_MARKER) = Eof
    /\ Fails("end", pos)
    /\ UNCHANGED <<headerLenPrev, mContentLength>>

\* No picture begins for too long: an array of length -1.
LostHeader ==
    /\ StartOfSequence(pos, SOI_MARKER) = -1
    /\ Fails("throws", pos)
    /\ UNCHANGED <<headerLenPrev, mContentLength>>

\* Mutant of HandOn: the header is not skipped after reset().
HandOnHeader(headerLen, length) ==
    /\ result' = "frame"
    /\ frames' = Append(frames, [at |-> pos, len |-> length])
    /\ pos' = pos + length

HandOn(headerLen, length) ==
    /\ result' = "frame"
    /\ frames' = Append(frames, [at |-> pos + headerLen, len |-> length])
    /\ pos' = pos + headerLen + length

\* The length is known and "end" read: back to the mark, skip the header, read
\* the frame.
TakeFrame(headerLen, length, end) ==
    /\ mContentLength' = length
    /\ \/ MarkLost(end) /\ Fails("io", end)
       \/ ~MarkLost(end) /\ length < 0 /\ Fails("throws", pos + headerLen)
       \/ /\ ~MarkLost(end)
          /\ pos + headerLen + length > Len(data)
          /\ Fails("io", Len(data))
       \/ /\ ~MarkLost(end)
          /\ length >= 0
          /\ pos + headerLen + length <= Len(data)
          /\ HandOn(headerLen, length)

\* parseContentLength: the value of the header's line, if it has one.
LengthsIn(headerLen) ==
    {LengthLine[b] : b \in DOMAIN LengthLine
                           \cap {data[pos + i] : i \in 1..headerLen}}

\* Without one, the end is searched for: near where it was the last time, then
\* from the header on, which that search counts in.
Locate(headerLen) ==
    LET near == SimplifiedEnd(headerLen)
        from == SkipTo(headerLen)
        far == EndOfSequence(pos, EOF_MARKER)
    IN  \/ \E length \in LengthsIn(headerLen) :
             TakeFrame(headerLen, length, pos + headerLen)
        \/ /\ LengthsIn(headerLen) = {}
           /\ \/ near >= 0 /\ TakeFrame(headerLen, LengthFound(headerLen), from + near)
              \/ /\ near = -1
                 /\ ~MarkLost(from + SimplifiedSpan)
                 /\ far # Eof
                 /\ TakeFrame(headerLen, far, pos)
              \/ /\ near = -1
                 /\ MarkLost(from + SimplifiedSpan)
                 /\ Fails("io", from + SimplifiedSpan)
                 /\ UNCHANGED mContentLength
              \/ /\ near = Eof \/ (near = -1 /\ far = Eof
                                   /\ ~MarkLost(from + SimplifiedSpan))
                 /\ Fails("io", Len(data))
                 /\ UNCHANGED mContentLength

ReadFrame ==
    /\ result \notin {"end", "throws"}
    /\ \/ NoHeader
       \/ LostHeader
       \/ LET headerLen == StartOfSequence(pos, SOI_MARKER) IN
            /\ headerLen >= 0
            /\ headerLenPrev' = headerLen
            /\ Locate(headerLen)
    /\ UNCHANGED streamVars
=============================================================================
