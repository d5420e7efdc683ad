---------------------------- MODULE MjpegStream ----------------------------
(***************************************************************************)
(* The stream both programs read their pictures from: parts, each a header *)
(* and a JPEG picture, as the streaming server (external) writes them, and *)
(* the end of the stream wherever the server closes the connection.        *)
(*                                                                         *)
(* A silence is the end of the tablet's stream as well.  Its connection is *)
(* HttpClient's, with a time-out of five seconds (MjpegActivity.java:368-  *)
(* 380), and the content of an entity is that library's (external)         *)
(* EofSensorInputStream: when a read fails, by the time-out too, it aborts *)
(* the connection and lets go of it, and every later read is the end of    *)
(* the stream.  Nothing that is sent after such a silence is ever read.    *)
(* The console's reader has no time-out: it only waits.                    *)
(*                                                                         *)
(* Bytes are the two marks' bytes, the end of a line and others.  A line   *)
(* with a Content-Length is one byte, whose value LengthLine gives.        *)
(***************************************************************************)
EXTENDS Integers, Sequences, SequencesExt, FiniteSetsExt

CONSTANTS
    Parts,       \* the parts a stream may have: records of header and picture
    MaxParts,    \* bound: parts of a stream
    Missing,     \* bound: how many bytes of the last parts may not be sent
    LengthLine   \* bytes that stand for a line Content-Length, and its value

ASSUME MaxPartsAssumption == MaxParts \in Nat \ {0}
ASSUME MissingAssumption == Missing \subseteq Nat

VARIABLES
    parts,   \* the parts the server writes
    data,    \* what it sends of them before it stops, or is silent for too long
    closed   \* it closes the connection then; otherwise the connection is silent

streamVars == <<parts, data, closed>>

SOI_MARKER == <<"FF", "D8">>
EOF_MARKER == <<"FF", "D9">>

\* A header is text; a picture begins and ends with its marks, and holds no
\* line of a header.
IsPart(p) ==
    /\ p.header \in Seq(STRING) /\ "FF" \notin ToSet(p.header)
    /\ p.picture \in Seq(STRING) /\ Len(p.picture) >= 4
    /\ SubSeq(p.picture, 1, 2) = SOI_MARKER
    /\ SubSeq(p.picture, Len(p.picture) - 1, Len(p.picture)) = EOF_MARKER
    /\ ToSet(p.picture) \cap DOMAIN LengthLine = {}

ASSUME PartsAssumption == \A p \in Parts : IsPart(p)
ASSUME LengthAssumption == \A b \in DOMAIN LengthLine : LengthLine[b] \in Int

\* The bytes of the first k parts, as a function of k.
Written(ps) ==
    LET bytes[k \in 0..Len(ps)] ==
          IF k = 0 THEN <<>> ELSE bytes[k - 1] \o ps[k].header \o ps[k].picture
    IN  bytes

Bytes(ps) == Written(ps)[Len(ps)]

StreamInit ==
    /\ parts \in BoundedSeq(Parts, MaxParts) \ {<<>>}
    /\ \E n \in Missing : data = SubSeq(Bytes(parts), 1, Len(Bytes(parts)) - n)
    /\ closed \in BOOLEAN

\* Offset of the picture of part k, and of its end.
PictureAt(k) == Len(Written(parts)[k - 1]) + Len(parts[k].header)
PictureEnd(k) == PictureAt(k) + Len(parts[k].picture)
=============================================================================
