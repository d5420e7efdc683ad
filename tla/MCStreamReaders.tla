-------------------------- MODULE MCStreamReaders --------------------------
(* A bounded instance of StreamReaders. *)
EXTENDS StreamReaders

Short == SOI_MARKER \o <<"x", "x", "x">> \o EOF_MARKER
Longer == SOI_MARKER \o <<"x", "nl", "x", "x">> \o EOF_MARKER
Filled == SOI_MARKER \o <<"x", "x", "FF">> \o EOF_MARKER

Wide == SOI_MARKER \o [i \in 1..18 |-> "x"] \o EOF_MARKER

\* The server's header, another with a length, a picture too far from the last
\* one's length to be found near it, and a header too long to be searched, of a
\* picture with a fill byte before its last mark.
MCParts == {[header |-> <<"nl", "nl", "nl">>, picture |-> Short],
            [header |-> <<"nl", "nl", "nl">>, picture |-> Longer],
            [header |-> <<"L", "nl">>, picture |-> Longer],
            [header |-> <<"nl", "nl", "nl", "nl">>, picture |-> Wide],
            [header |-> [i \in 1..24 |-> "x"], picture |-> Filled]}

MCLengthLine == [b \in {"L"} |-> 8]
=============================================================================
