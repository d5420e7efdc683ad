---------------------------- MODULE MjpegParser ----------------------------
(***************************************************************************)
(* The console's reader, class MJPEGParser: a thread that skips lines and  *)
(* tries to read a picture until it has one, and BoxRetrieve.get_image,    *)
(* which polls its flag.  The picture itself is read by ImageIO (external):*)
(* it finds one that begins at the reader's place, finds none, or throws,  *)
(* and reads on as far as it likes.                                        *)
(***************************************************************************)
EXTENDS MjpegStream

CONSTANTS
    MaxTries,   \* 700 in the code
    ReadAhead   \* bound: how many bytes more ImageIO may take

ASSUME MaxTriesAssumption == MaxTries \in Nat
ASSUME ReadAheadAssumption == ReadAhead \subseteq Nat

VARIABLES
    connected,  \* connect() opened the stream; otherwise dis is null
    at,         \* bytes consumed
    newline,    \* the last byte readLine read ended a line
    lines,      \* lines readLine has to read before what follows
    next,       \* what follows: a picture or the end of the round
    tries,      \* i
    found,
    bimage,     \* where the picture read began, or NoImage
    ready,
    image       \* what get_image returned, Waiting before

parserVars == <<connected, at, newline, lines, next, tries, found, bimage, ready, image>>

NoImage == -1
Waiting == -2

\* Mutants of HeaderLines: the empty line after the header is not skipped, or
\* one line too many is.
TwoLines == 2
FourLines == 4

HeaderLines == 3

ParserTypeOK ==
    /\ connected \in BOOLEAN
    /\ at \in 0..Len(data)
    /\ newline \in BOOLEAN
    /\ lines \in 0..3
    /\ next \in {"picture", "round", "ended"}
    /\ tries \in 0..(MaxTries + 1)
    /\ found \in {-1, 0, 1}
    /\ bimage \in Int
    /\ ready \in BOOLEAN
    /\ image \in Int

ParserInit ==
    /\ connected \in BOOLEAN
    /\ at = 0
    /\ newline = FALSE
    /\ lines = HeaderLines
    /\ next = "picture"
    /\ tries = 0
    /\ found = 0
    /\ bimage = NoImage
    /\ ready = FALSE
    /\ image = Waiting

-----------------------------------------------------------------------------
(* RunThread.run *)

\* Where the line that begins at the reader's place ends.
LineEnds == {i \in (at + 1)..Len(data) : data[i] = "nl"}

\* readLine.  At the end of a closed stream read changes nothing, so the last
\* byte is compared again: a line if it ended one, else for ever.  A silent
\* stream keeps the thread in read.  With no stream the exception is caught.
LineRead ==
    /\ lines > 0
    /\ \/ ~connected /\ lines' = lines - 1 /\ UNCHANGED <<at, newline>>
       \/ /\ connected
          /\ LineEnds # {}
          /\ at' = Min(LineEnds)
          /\ newline' = TRUE
          /\ lines' = lines - 1
       \/ /\ connected
          /\ LineEnds = {} /\ at < Len(data)
          /\ at' = Len(data)
          /\ newline' = FALSE
          /\ UNCHANGED lines
       \/ /\ connected
          /\ at = Len(data) /\ closed /\ newline
          /\ lines' = lines - 1
          /\ UNCHANGED <<at, newline>>
    /\ UNCHANGED <<connected, next, tries, found, bimage, ready, image, streamVars>>

\* The pictures that begin where the reader is, whole or cut off.
PicturesHere == {k \in DOMAIN parts : PictureAt(k) = at /\ at < Len(data)}

\* Buffers of ImageIO take more than the picture.
TakenFrom(end) == \E n \in ReadAhead : at' = Min({end + n, Len(data)})

Outcome(f, picture) ==
    /\ found' = f
    /\ bimage' = picture

\* readJPG: ImageIO finds a picture, throws, or finds none and returns null;
\* it reads on as far as it likes.
ReadJPG ==
    /\ lines = 0 /\ next = "picture"
    /\ \/ ~connected /\ Outcome(-1, NoImage) /\ UNCHANGED at
       \/ /\ connected
          /\ \E k \in PicturesHere :
               \/ /\ PictureEnd(k) <= Len(data)
                  /\ Outcome(1, at)
                  /\ TakenFrom(PictureEnd(k))
               \/ /\ PictureEnd(k) > Len(data) /\ closed
                  /\ Outcome(1, at) \/ Outcome(-1, NoImage)
                  /\ at' = Len(data)
       \/ /\ connected /\ PicturesHere = {}
          /\ at < Len(data) \/ closed
          /\ Outcome(0, NoImage)
          /\ TakenFrom(at)
    /\ next' = "round"
    /\ lines' = 2
    /\ UNCHANGED <<connected, newline, tries, ready, image, streamVars>>

\* Mutant of GivesUp: nothing bounds the rounds.
NeverGivesUp == FALSE

GivesUp == tries + 1 > MaxTries

\* The end of a round: a picture, an exception, or too many rounds.
RoundEnds ==
    /\ lines = 0 /\ next = "round"
    /\ tries' = IF tries > MaxTries THEN tries ELSE tries + 1
    /\ IF found # 0 \/ GivesUp
         THEN next' = "ended" /\ ready' = TRUE /\ UNCHANGED lines
         ELSE next' = "picture" /\ lines' = HeaderLines /\ UNCHANGED ready
    /\ UNCHANGED <<connected, at, newline, found, bimage, image, streamVars>>

ParserThread == LineRead \/ ReadJPG \/ RoundEnds

\* BoxRetrieve.get_image sees the flag up.
GetImage ==
    /\ image = Waiting
    /\ ready
    /\ image' = bimage
    /\ UNCHANGED <<connected, at, newline, lines, next, tries, found, bimage, ready, streamVars>>
=============================================================================
