--------------------------- MODULE StreamReaders ---------------------------
(* The stream of the streaming server and its two readers, the tablet's    *)
(* and the console's, each with a connection of its own.                   *)
EXTENDS MjpegInputStream, MjpegParser

vars == <<streamVars, inputVars, parserVars>>

Init ==
    /\ StreamInit
    /\ InputInit
    /\ ParserInit

Tablet == ReadFrame /\ UNCHANGED parserVars
Console == (ParserThread \/ GetImage) /\ UNCHANGED inputVars

Next == Tablet \/ Console

\* Both threads run on; a thread that waits in read is not enabled.
Spec == Init /\ [][Next]_vars /\ WF_vars(Tablet) /\ WF_vars(Console)

TypeOK == InputTypeOK /\ ParserTypeOK

-----------------------------------------------------------------------------
(* Properties *)

\* The marks do not occur inside a picture, other than at its ends.
Clean(k) ==
    \A i \in 1..Len(parts[k].picture) - 1 :
        SubSeq(parts[k].picture, i, i + 1) \in {SOI_MARKER, EOF_MARKER}
          => i \in {1, Len(parts[k].picture) - 1}

\* The length a header gives is that of its picture.
Honest(k) ==
    \A b \in DOMAIN LengthLine \cap ToSet(parts[k].header) :
        LengthLine[b] = Len(parts[k].picture)

\* The search from the mark on sees the end of every picture before the one it
\* is for, so the reader must never stand within a picture when it begins.  It
\* does not if no header is shorter than the one before, because a first frame
\* is taken with as much of the next header as its own was long, nor so long
\* that to read it loses the mark (100 and 200000 bytes at the most,
\* MjpegInputStream.java:32-34).
Tidy ==
    /\ \A k \in DOMAIN parts :
         Clean(k) /\ Honest(k) /\ Len(parts[k].header) <= FRAME_MAX_LENGTH
    /\ \A k \in 2..Len(parts) : Len(parts[k].header) >= Len(parts[k - 1].header)

\* Whatever header it comes with, however it was found, whatever frames were lost
\* before it and wherever the stream is cut or falls silent, a frame handed on
\* begins with a picture and has all of it (MjpegInputStream.readMjpegFrame).
FrameWhole ==
    Tidy => \A f \in ToSet(frames) : \E k \in DOMAIN parts :
              f.at = PictureAt(k) /\ f.at + f.len >= PictureEnd(k)

\* The last mark is searched for in a way that can see it: it has no FF before.
Plain(k) == parts[k].picture[Len(parts[k].picture) - 2] # "FF"

\* The end of picture k is where getEndOfSeqeunceSimplified looks, around the
\* end of a picture as long as the one before.  The first frame is taken with as
\* much of the next header as its own was long.
Near(k) ==
    LET last == Len(parts[k - 1].picture) + (IF k = 2 THEN Len(parts[1].header) ELSE 0)
        len == Len(parts[k].picture)
    IN  last \div 2 < len /\ len < (3 * last) \div 2

\* A stream as the server sends it, without lengths: the same header again, or
\* a longer one.
Steady ==
    /\ \A k \in DOMAIN parts :
         /\ Clean(k) /\ Plain(k)
         /\ ToSet(parts[k].header) \cap DOMAIN LengthLine = {}
         /\ Len(parts[k].header) + Len(parts[k].picture) <= FRAME_MAX_LENGTH
    /\ \A k \in 2..Len(parts) :
         Near(k) /\ Len(parts[k].header) >= Len(parts[k - 1].header)

\* No picture of a steady stream is lost, although the first frame is taken
\* with as much of the next header as its own header was long; only where there
\* is no next picture, that first one may be (MjpegInputStream.java:98-119,
\* 213-222).
NothingLost ==
    Steady /\ result = "end" /\ data = Bytes(parts) =>
        /\ Len(frames) = Len(parts) \/ (frames = <<>> /\ Len(parts) = 1)
        /\ \A k \in DOMAIN frames : frames[k].at = PictureAt(k)

\* The tablet's reader says when the stream has ended: no call fails in a way
\* that is tried again for ever (MjpegView.java:168 swallows IOException).
ReaderEnds == <>(result \in {"end", "throws"})

\* get_image returns, unless the stream is silent, or was cut off within a line
\* the parser skips (MJPEGParser.java:134).
ParserWaits ==
    /\ connected
    /\ \/ lines > 0 /\ at = Len(data) /\ ~(closed /\ newline)
       \/ lines = 0 /\ next = "picture" /\ ~closed
PollingEnds == <>(image # Waiting \/ ParserWaits)

\* With the three lines of the server's header before it, a first picture that
\* is sent whole is the one get_image returns.
FirstPictureRead ==
    /\ image # Waiting
    /\ connected
    /\ parts[1].header = <<"nl", "nl", "nl">>
    /\ PictureEnd(1) <= Len(data)
    => image = PictureAt(1)
=============================================================================
